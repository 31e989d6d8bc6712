--------------------------- MODULE CookbookPages ---------------------------
(***************************************************************************)
(* Importing a cookbook into a tenant, from the three pages that offer it: *)
(* the list and the detail of agent-studio, and the detail of              *)
(* admin-console.  admin-api creates the graphs and then the agents of an  *)
(* import, new ones every time; what fails is a warning in an answer that  *)
(* says "completed".                                                       *)
(*                                                                         *)
(* The handler of an answer is the page's also when its sheet was closed   *)
(* meanwhile, and when the page was left it changes no state of a page.    *)
(***************************************************************************)
EXTENDS Naturals, FiniteSets

CONSTANTS
  Cookbooks,
  MaxImports     (* bound: imports submitted                               *)

ASSUME CookbookAssumption == MaxImports \in Nat

NoBook == "no cookbook"
Imports == 1..MaxImports

VARIABLES
  sheet,         (* the page shown and its import sheet                    *)
  import         (* Imports -> a mutation and its handler in admin-api     *)

cookbookVars == <<sheet, import>>

(* job: the import the page waits for; result: the one it shows; runs and  *)
(* fresh (history): imports made since the sheet was opened, and whether   *)
(* the result arrived since.                                               *)
NoSheet == [page |-> "none", book |-> NoBook, open |-> FALSE, job |-> 0, result |-> 0,
            runs |-> {}, fresh |-> FALSE]

CookbookTypeOK ==
  /\ sheet \in [page : {"none", "list", "detail", "admin"}, book : Cookbooks \union {NoBook},
                open : BOOLEAN, job : 0..MaxImports, result : 0..MaxImports,
                runs : SUBSET Imports, fresh : BOOLEAN]
  /\ import \in [Imports -> [at : {"unmade", "sent", "graphs", "made", "over"},
                             book : Cookbooks \union {NoBook},
                             page : {"none", "list", "detail", "admin"},
                             stray : BOOLEAN, told : BOOLEAN]]

CookbookInit ==
  /\ sheet = NoSheet
  /\ import = [i \in Imports |-> [at |-> "unmade", book |-> NoBook, page |-> "none",
                                  stray |-> FALSE, told |-> FALSE]]

----------------------------------------------------------------------------
(* A page opens; the detail pages are of one cookbook. *)
OpenCookbooks(p, b) ==
  /\ sheet.page = "none"
  /\ sheet' = [NoSheet EXCEPT !.page = p, !.book = IF p = "list" THEN NoBook ELSE b]
  /\ UNCHANGED import

Strayed == [i \in Imports |->
  [import[i] EXCEPT !.stray = @ \/ import[i].at \notin {"unmade", "over"}]]

LeaveCookbooks ==
  /\ sheet.page # "none"
  /\ sheet' = NoSheet
  /\ import' = Strayed

Clickable(b) ==
  /\ sheet.page # "none" /\ b \in Cookbooks
  /\ IF sheet.page = "list" THEN ~sheet.open ELSE b = sheet.book
  /\ sheet.page = "detail" => ~sheet.open

(* A mutant of ClickImport that keeps the result. *)
ClickKeepingResult(b) ==
  /\ Clickable(b)
  /\ sheet' = [sheet EXCEPT !.open = TRUE, !.book = b, !.runs = {}, !.fresh = FALSE]
  /\ UNCHANGED import

(* handleImportClick: the sheet is modal, the form of admin-console not.   *)
ClickImport(b) ==
  /\ Clickable(b)
  /\ sheet' = [sheet EXCEPT !.open = TRUE, !.book = b, !.result = 0, !.runs = {}, !.fresh = FALSE]
  /\ UNCHANGED import

(* handleSheetOpenChange(false); the list forgets the import it waits for. *)
CloseSheet ==
  /\ sheet.open
  /\ sheet' = IF sheet.page = "list"
              THEN [sheet EXCEPT !.open = FALSE, !.book = NoBook, !.job = 0, !.result = 0]
              ELSE [sheet EXCEPT !.open = FALSE]
  /\ UNCHANGED import

Submit(i) ==
  /\ sheet.open /\ sheet.job = 0
  /\ import[i].at = "unmade" /\ \A j \in 1..(i - 1) : import[j].at # "unmade"
  /\ sheet' = [sheet EXCEPT !.job = i, !.runs = @ \union {i}]
  /\ import' = [import EXCEPT ![i].at = "sent", ![i].book = sheet.book, ![i].page = sheet.page]

(* A mutant of SubmitImport: the button stays beside a result. *)
SubmitAnyTime(i) == Submit(i)

(* The button: disabled while an import is pending, and on the list not    *)
(* there once a result is shown.                                           *)
SubmitImport(i) ==
  /\ sheet.page = "list" => sheet.result = 0
  /\ Submit(i)

----------------------------------------------------------------------------
(* HandleImportCookbook: the graphs, then the agents.  What cannot be      *)
(* created is a warning, and the import goes on.                           *)
CreateGraphs(i) ==
  /\ import[i].at = "sent"
  /\ import' = [import EXCEPT ![i].at = "graphs"]
  /\ UNCHANGED sheet

CreateAgents(i) ==
  /\ import[i].at = "graphs"
  /\ import' = [import EXCEPT ![i].at = "made"]
  /\ UNCHANGED sheet

(* Of an import that is over only what the history needs is kept.          *)
Over(i, told) ==
  [import[i] EXCEPT !.at = "over", !.told = told, !.page = "none", !.stray = FALSE]

(* onSuccess.  On admin-console the app moves to the list of cookbooks,    *)
(* even when the page that asked has been left for another one.            *)
ImportSucceeds(i) ==
  LET moves == import[i].page = "admin" /\ sheet.page = "admin" IN
  /\ import[i].at = "made"
  /\ import' = [(IF moves THEN Strayed ELSE import) EXCEPT ![i] = Over(i, TRUE)]
  /\ sheet' = IF moves THEN NoSheet
              ELSE IF import[i].stray THEN sheet
              ELSE [sheet EXCEPT !.result = i, !.fresh = sheet.open, !.job = IF @ = i THEN 0 ELSE @]

(* Refused, or the answer is lost with what was created so far. *)
ImportFails(i) ==
  /\ import[i].at \in {"sent", "graphs", "made"}
  /\ import' = [import EXCEPT ![i] = Over(i, FALSE)]
  /\ sheet' = IF sheet.job = i THEN [sheet EXCEPT !.job = 0] ELSE sheet

CookbookNext ==
  \/ \E p \in {"list", "detail", "admin"}, b \in Cookbooks : OpenCookbooks(p, b)
  \/ LeaveCookbooks \/ CloseSheet
  \/ \E b \in Cookbooks : ClickImport(b)
  \/ \E i \in Imports : \/ SubmitImport(i) \/ CreateGraphs(i) \/ CreateAgents(i)
                        \/ ImportSucceeds(i) \/ ImportFails(i)

CookbookSpec == CookbookInit /\ [][CookbookNext]_cookbookVars

----------------------------------------------------------------------------
(* A sheet never opens with a result, not even one that arrived while no   *)
(* sheet was open; the result it shows may be of an import that another,   *)
(* closed sheet made, and then has arrived since it was opened.            *)
ResultIsNews ==
  sheet.open /\ sheet.result # 0 =>
    /\ sheet.fresh
    /\ import[sheet.result].book = sheet.book \/ sheet.result \notin sheet.runs

(* An opening of a sheet of the list never makes a second import after one *)
(* that was answered, whatever the earlier sheets still wait for: every    *)
(* import of an opening but the last has failed or its answer was lost.    *)
OneImportPerSheet ==
  sheet.page = "list" =>
    Cardinality({i \in sheet.runs : import[i].told}) <= 1
============================================================================
