------------------------- MODULE ConsolePagesProofs -------------------------
(***************************************************************************)
(* Proofs about the pages that administer the platform: the import and the *)
(* files of cookbooks, the model routes and the system records, for any    *)
(* number of them, of requests and of saves.                               *)
(***************************************************************************)
EXTENDS CookbookFiles, CookbookPages, ModelRoutes, SystemRecords, FiniteSetTheorems, TLAPS

(* The files of a cookbook.                                                *)

(* The text an editor holds, and the text a save has on its way, are of    *)
(* the file they are for.                                                  *)
EditorIsOfItsFile == editor.path # NoFile => editor.text[1] = editor.path

SaveIsOfItsFile ==
  \A s \in Saves :
    save[s].at \in {"sent", "written"} =>
      save[s].path \in BookFiles /\ save[s].text[1] = save[s].path

ReadKeepsItsText == \A f \in BookFiles : disk.read[f][1] = f

FilesInv ==
  /\ CookbookFilesTypeOK
  /\ FilesKeepTheirText
  /\ ReadKeepsItsText
  /\ EditorIsOfItsFile
  /\ SaveIsOfItsFile

LEMMA FilesInvInit == CookbookFilesInit => FilesInv
<1> SUFFICES ASSUME CookbookFilesInit PROVE FilesInv
  OBVIOUS
<1>1. PICK g \in BookFiles : g = CHOOSE f \in BookFiles : TRUE
  BY CookbookFilesAssumption
<1>2. /\ editor = [page |-> TRUE, path |-> NoFile, text |-> <<g, 0>>, error |-> FALSE]
      /\ save = [s \in Saves |-> [at |-> "unmade", path |-> NoFile, text |-> <<g, 0>>,
                                  stray |-> FALSE]]
      /\ disk = [file |-> [f \in BookFiles |-> <<f, 0>>], read |-> [f \in BookFiles |-> <<f, 0>>]]
  BY <1>1 DEF CookbookFilesInit
<1>3. <<g, 0>> \in Texts /\ \A f \in BookFiles : <<f, 0>> \in Texts
  BY CookbookFilesAssumption DEF Texts
<1> QED
  BY <1>2, <1>3 DEF FilesInv, CookbookFilesTypeOK, FilesKeepTheirText, ReadKeepsItsText,
                    EditorIsOfItsFile, SaveIsOfItsFile

(* An editor that opens on a file holds the text read of that file.        *)
LEMMA OpenedOnItsFile ==
  ASSUME FilesInv, NEW f \in BookFiles, StartEdit(f)
  PROVE  FilesInv'
<1>1. editor' = [page |-> TRUE, path |-> f, text |-> disk.read[f], error |-> FALSE]
      /\ UNCHANGED <<save, disk>>
  BY DEF StartEdit
<1>2. disk.read[f] \in Texts /\ disk.read[f][1] = f
  BY DEF FilesInv, CookbookFilesTypeOK, ReadKeepsItsText
<1> QED
  BY <1>1, <1>2 DEF FilesInv, CookbookFilesTypeOK, FilesKeepTheirText, ReadKeepsItsText,
                    EditorIsOfItsFile, SaveIsOfItsFile

(* A save takes its file and its text from one editor.                     *)
LEMMA SavedOfItsFile ==
  ASSUME FilesInv, NEW s \in Saves, SaveEdit(s)
  PROVE  FilesInv'
<1> DEFINE t == <<editor.text[1], s>>
<1>1. /\ editor.path # NoFile
      /\ editor' = [editor EXCEPT !.text = t]
      /\ save' = [save EXCEPT ![s] = [at |-> "sent", path |-> editor.path, text |-> t,
                                      stray |-> FALSE]]
      /\ disk' = disk
  BY DEF SaveEdit, FilesInv, CookbookFilesTypeOK
<1>2. editor.path \in BookFiles /\ editor.text[1] = editor.path
  BY <1>1 DEF FilesInv, CookbookFilesTypeOK, EditorIsOfItsFile
<1>3. s \in 0..MaxSaves
  BY CookbookFilesAssumption DEF Saves
<1>4. t \in Texts /\ t[1] = editor.path
  BY <1>2, <1>3 DEF Texts
<1> HIDE DEF t
<1>5. CookbookFilesTypeOK'
  BY <1>1, <1>2, <1>4 DEF FilesInv, CookbookFilesTypeOK
<1>6. SaveIsOfItsFile'
  BY <1>1, <1>2, <1>4 DEF FilesInv, CookbookFilesTypeOK, SaveIsOfItsFile
<1>7. EditorIsOfItsFile'
  BY <1>1, <1>4 DEF FilesInv, CookbookFilesTypeOK, EditorIsOfItsFile
<1> QED
  BY <1>1, <1>5, <1>6, <1>7 DEF FilesInv, FilesKeepTheirText, ReadKeepsItsText

(* A write puts a save into the file it is of.                             *)
LEMMA WrittenToItsFile ==
  ASSUME FilesInv, NEW s \in Saves, WriteFile(s)
  PROVE  FilesInv'
<1>1. /\ save[s].at = "sent"
      /\ disk' = [disk EXCEPT !.file[save[s].path] = save[s].text]
      /\ save' = [save EXCEPT ![s].at = "written"]
      /\ editor' = editor
  BY DEF WriteFile
<1>2. save[s].path \in BookFiles /\ save[s].text[1] = save[s].path /\ save[s].text \in Texts
  BY <1>1 DEF FilesInv, CookbookFilesTypeOK, SaveIsOfItsFile
<1>3. CookbookFilesTypeOK'
  BY <1>1, <1>2 DEF FilesInv, CookbookFilesTypeOK
<1>4. FilesKeepTheirText' /\ ReadKeepsItsText'
  BY <1>1, <1>2 DEF FilesInv, CookbookFilesTypeOK, FilesKeepTheirText, ReadKeepsItsText
<1>5. SaveIsOfItsFile'
  BY <1>1, <1>2 DEF FilesInv, CookbookFilesTypeOK, SaveIsOfItsFile
<1> QED
  BY <1>1, <1>3, <1>4, <1>5 DEF FilesInv, EditorIsOfItsFile

(* A save that keeps its file and its text, and gets no further than it    *)
(* was, stays of its file.                                                 *)
SavesKeep ==
  /\ save' \in [Saves -> [at : {"unmade", "sent", "written", "over"},
                          path : BookFiles \union {NoFile}, text : Texts, stray : BOOLEAN]]
  /\ \A s \in Saves :
       /\ save'[s].path = save[s].path /\ save'[s].text = save[s].text
       /\ save'[s].at \in {"sent", "written"} => save[s].at \in {"sent", "written"}

LEMMA EditorMoves ==
  ASSUME FilesInv, SavesKeep, disk' = disk,
         editor' \in [page : BOOLEAN, path : BookFiles \union {NoFile}, text : Texts,
                      error : BOOLEAN],
         editor'.text = editor.text,
         editor'.path \in {NoFile, editor.path}
  PROVE  FilesInv'
<1>1. CookbookFilesTypeOK'
  BY DEF FilesInv, CookbookFilesTypeOK, SavesKeep
<1>2. SaveIsOfItsFile'
  BY DEF FilesInv, SaveIsOfItsFile, SavesKeep
<1>3. EditorIsOfItsFile'
  BY DEF FilesInv, EditorIsOfItsFile
<1> QED
  BY <1>1, <1>2, <1>3 DEF FilesInv, FilesKeepTheirText, ReadKeepsItsText

LEMMA LeftInv == FilesInv /\ LeaveCookbook => FilesInv'
<1> SUFFICES ASSUME FilesInv, LeaveCookbook PROVE FilesInv'
  OBVIOUS
<1>1. /\ editor' = [editor EXCEPT !.page = FALSE, !.path = NoFile, !.error = FALSE]
      /\ disk' = disk
  BY DEF LeaveCookbook
<1> DEFINE Stray(s) == save[s].stray \/ s \in Saving
<1>2. save' = [s \in Saves |-> [save[s] EXCEPT !.stray = Stray(s)]]
  BY DEF LeaveCookbook
<1>3. \A s \in Saves : Stray(s) \in BOOLEAN
  BY DEF FilesInv, CookbookFilesTypeOK
<1> HIDE DEF Stray
<1>4. SavesKeep
  BY <1>2, <1>3 DEF FilesInv, CookbookFilesTypeOK, SavesKeep
<1> QED
  BY <1>1, <1>4, EditorMoves DEF FilesInv, CookbookFilesTypeOK

(* The answer of a save, told to the page that asked or to none.           *)
LEMMA AnsweredInv ==
  ASSUME FilesInv, NEW s \in Saves, SaveSucceeds(s) \/ SaveFails(s)
  PROVE  FilesInv'
<1>1. /\ disk' = disk
      /\ save' = [save EXCEPT ![s].at = "over"]
      /\ \/ editor' = editor
         \/ editor' = [editor EXCEPT !.path = NoFile, !.error = FALSE]
         \/ editor' = [editor EXCEPT !.error = TRUE]
  BY DEF SaveSucceeds, SaveFails
<1>2. SavesKeep
  BY <1>1 DEF FilesInv, CookbookFilesTypeOK, SavesKeep
<1> QED
  BY <1>1, <1>2, EditorMoves DEF FilesInv, CookbookFilesTypeOK

LEMMA FilesInvNext == FilesInv /\ [CookbookFilesNext]_filesVars => FilesInv'
<1> SUFFICES ASSUME FilesInv, [CookbookFilesNext]_filesVars PROVE FilesInv'
  OBVIOUS
<1>1. CASE LeaveCookbook
  BY <1>1, LeftInv
<1>2. CASE OpenCookbook \/ CancelEdit \/ UNCHANGED filesVars
  <2>1. /\ save' = save /\ disk' = disk
        /\ \/ editor' = editor
           \/ editor' = [editor EXCEPT !.page = TRUE]
           \/ editor' = [editor EXCEPT !.path = NoFile]
    BY <1>2 DEF OpenCookbook, CancelEdit, filesVars
  <2>2. SavesKeep
    BY <2>1 DEF FilesInv, CookbookFilesTypeOK, SavesKeep
  <2> QED
    BY <2>1, <2>2, EditorMoves DEF FilesInv, CookbookFilesTypeOK
<1>3. CASE ReadCookbook
  BY <1>3 DEF ReadCookbook, FilesInv, CookbookFilesTypeOK, FilesKeepTheirText,
              ReadKeepsItsText, EditorIsOfItsFile, SaveIsOfItsFile
<1>4. ASSUME NEW f \in BookFiles, StartEdit(f) PROVE FilesInv'
  BY <1>4, OpenedOnItsFile
<1>5. ASSUME NEW s \in Saves, SaveEdit(s) PROVE FilesInv'
  BY <1>5, SavedOfItsFile
<1>6. ASSUME NEW s \in Saves, WriteFile(s) PROVE FilesInv'
  BY <1>6, WrittenToItsFile
<1>7. ASSUME NEW s \in Saves, SaveSucceeds(s) \/ SaveFails(s) PROVE FilesInv'
  BY <1>7, AnsweredInv
<1> QED
  BY <1>1, <1>2, <1>3, <1>4, <1>5, <1>6, <1>7 DEF CookbookFilesNext

(* The state keeps its types: the page of one cookbook, its saves and its  *)
(* files.                                                                  *)
THEOREM FilesTypeCorrect == CookbookFilesSpec => []CookbookFilesTypeOK
<1>1. FilesInv => CookbookFilesTypeOK
  BY DEF FilesInv
<1> QED
  BY <1>1, FilesInvInit, FilesInvNext, PTL DEF CookbookFilesSpec

(* Edits, saves, failures and switches between files in any order leave    *)
(* every file with a text that was edited from its own.                    *)
THEOREM FilesAreNotMixedUp == CookbookFilesSpec => []FilesKeepTheirText
<1>1. FilesInv => FilesKeepTheirText
  BY DEF FilesInv
<1> QED
  BY <1>1, FilesInvInit, FilesInvNext, PTL DEF CookbookFilesSpec

----------------------------------------------------------------------------
(* The import of a cookbook.                                               *)

SheetType ==
  [page : {"none", "list", "detail", "admin"}, book : Cookbooks \union {NoBook},
   open : BOOLEAN, job : 0..MaxImports, result : 0..MaxImports, runs : SUBSET Imports,
   fresh : BOOLEAN]
ImportType ==
  [at : {"unmade", "sent", "graphs", "made", "over"}, book : Cookbooks \union {NoBook},
   page : {"none", "list", "detail", "admin"}, stray : BOOLEAN, told : BOOLEAN]

InFlight(i) == import[i].at \in {"sent", "graphs", "made"}

RunsAreOfTheSheet == sheet.open => \A i \in sheet.runs : import[i].book = sheet.book

(* An import whose page was not left is of the page that is shown, and no  *)
(* import of the last opening is of a page that was left.                  *)
OfTheirPage ==
  /\ sheet.open => sheet.page # "none"
  /\ \A i \in Imports :
       /\ import[i].at = "unmade" => ~import[i].stray
       /\ InFlight(i) =>
            /\ ~import[i].stray => import[i].page = sheet.page /\ sheet.page # "none"
            /\ i \in sheet.runs => ~import[i].stray

ToldIsOver == \A i \in Imports : import[i].told => import[i].at = "over"

(* Of the imports of one opening of the list's sheet only one is on its    *)
(* way or was answered; the button waits for it, or for its result.        *)
OneAtATime ==
  sheet.page = "list" =>
    /\ \A i, j \in sheet.runs :
         (InFlight(i) \/ import[i].told) /\ (InFlight(j) \/ import[j].told) => i = j
    /\ sheet.open => \A i \in sheet.runs : /\ InFlight(i) => sheet.job = i
                                           /\ import[i].told => sheet.result # 0

BookInv ==
  /\ CookbookTypeOK
  /\ ResultIsNews
  /\ RunsAreOfTheSheet
  /\ OfTheirPage
  /\ ToldIsOver
  /\ OneAtATime

LEMMA BookTypes ==
  CookbookTypeOK <=> sheet \in SheetType /\ import \in [Imports -> ImportType]
  BY DEF CookbookTypeOK, SheetType, ImportType

LEMMA NoSheetType ==
  NoSheet \in SheetType /\ NoSheet.page = "none" /\ ~NoSheet.open /\ NoSheet.runs = {}
  BY CookbookAssumption DEF NoSheet, SheetType

LEMMA BookInvInit == CookbookInit => BookInv
<1> SUFFICES ASSUME CookbookInit PROVE BookInv
  OBVIOUS
<1>1. sheet = NoSheet
      /\ \A i \in Imports : import[i].at = "unmade" /\ ~import[i].told /\ ~import[i].stray
  BY DEF CookbookInit
<1>2. CookbookTypeOK
  BY <1>1, BookTypes, NoSheetType DEF CookbookInit, ImportType
<1>3. QED
  BY <1>1, <1>2, NoSheetType
  DEF BookInv, ResultIsNews, RunsAreOfTheSheet, OfTheirPage, ToldIsOver, OneAtATime, InFlight

(* A sheet with no imports of its own.                                     *)
LEMMA SheetAnew ==
  ASSUME BookInv, sheet' \in SheetType, import' \in [Imports -> ImportType],
         sheet'.runs = {}, sheet'.open => sheet'.result = 0 /\ sheet'.page # "none",
         \A i \in Imports :
           /\ import[i].at = "unmade" => ~import'[i].stray
           /\ import'[i].at = import[i].at /\ import'[i].told = import[i].told
           /\ InFlight(i) /\ ~import'[i].stray =>
                import'[i].page = sheet'.page /\ sheet'.page # "none"
  PROVE  BookInv'
<1>1. CookbookTypeOK'
  BY DEF CookbookTypeOK, SheetType, ImportType
<1>2. QED
  BY <1>1 DEF BookInv, ResultIsNews, RunsAreOfTheSheet, OfTheirPage, ToldIsOver, OneAtATime,
              InFlight

LEMMA StrayedType ==
  ASSUME BookInv
  PROVE  /\ Strayed \in [Imports -> ImportType]
         /\ \A i \in Imports : /\ Strayed[i].at = import[i].at
                               /\ Strayed[i].told = import[i].told
                               /\ InFlight(i) => Strayed[i].stray
                               /\ import[i].at = "unmade" => ~Strayed[i].stray
  BY BookTypes DEF BookInv, OfTheirPage, Strayed, ImportType, InFlight

LEMMA SheetsOpen ==
  ASSUME BookInv,
         \/ \E p \in {"list", "detail", "admin"}, b \in Cookbooks : OpenCookbooks(p, b)
         \/ LeaveCookbooks
         \/ \E b \in Cookbooks : ClickImport(b)
  PROVE  BookInv'
<1>1. sheet \in SheetType /\ import \in [Imports -> ImportType]
  BY BookTypes DEF BookInv
<1>2. ASSUME NEW p \in {"list", "detail", "admin"}, NEW b \in Cookbooks, OpenCookbooks(p, b)
      PROVE  BookInv'
  <2>1. sheet.page = "none" /\ import' = import
        /\ sheet' = [NoSheet EXCEPT !.page = p, !.book = IF p = "list" THEN NoBook ELSE b]
    BY <1>2 DEF OpenCookbooks
  <2>2. sheet' \in SheetType /\ sheet'.runs = {} /\ ~sheet'.open
    BY <2>1, NoSheetType DEF SheetType
  <2>3. \A i \in Imports : /\ InFlight(i) => import[i].stray
                           /\ import[i].at = "unmade" => ~import[i].stray
    BY <1>1, <2>1 DEF BookInv, OfTheirPage, ImportType
  <2>4. QED
    BY <1>1, <2>1, <2>2, <2>3, SheetAnew
<1>3. CASE LeaveCookbooks
  <2>1. sheet' = NoSheet /\ import' = Strayed
    BY <1>3 DEF LeaveCookbooks
  <2>2. QED
    BY <2>1, NoSheetType, StrayedType, SheetAnew
<1>4. ASSUME NEW b \in Cookbooks, ClickImport(b)
      PROVE  BookInv'
  <2>1. import' = import
        /\ sheet' = [sheet EXCEPT !.open = TRUE, !.book = b, !.result = 0, !.runs = {},
                                  !.fresh = FALSE]
    BY <1>4 DEF ClickImport
  <2>2. sheet' \in SheetType /\ sheet'.runs = {} /\ sheet'.result = 0
        /\ sheet'.page = sheet.page /\ sheet.page # "none"
    <3>1. sheet.page # "none"
      BY <1>4 DEF ClickImport, Clickable
    <3>2. 0 \in 0..MaxImports
      BY CookbookAssumption
    <3>3. QED
      BY <1>1, <2>1, <3>1, <3>2 DEF SheetType
  <2>3. \A i \in Imports :
          /\ import[i].at = "unmade" => ~import[i].stray
          /\ InFlight(i) /\ ~import[i].stray => import[i].page = sheet.page
    BY DEF BookInv, OfTheirPage
  <2>4. QED
    BY <1>1, <2>1, <2>2, <2>3, SheetAnew
<1>5. QED
  BY <1>2, <1>3, <1>4

LEMMA SheetCloses ==
  ASSUME BookInv, CloseSheet
  PROVE  BookInv'
<1>1. sheet \in SheetType /\ import' = import
  BY BookTypes DEF BookInv, CloseSheet
<1>2. sheet' \in SheetType /\ ~sheet'.open /\ sheet'.page = sheet.page
      /\ sheet'.runs = sheet.runs
  <2>1. 0 \in 0..MaxImports
    BY CookbookAssumption
  <2>2. CASE sheet.page = "list"
    <3>1. sheet' = [sheet EXCEPT !.open = FALSE, !.book = NoBook, !.job = 0, !.result = 0]
      BY <2>2 DEF CloseSheet
    <3>2. QED
      BY <1>1, <2>1, <3>1 DEF SheetType
  <2>3. CASE sheet.page # "list"
    <3>1. sheet' = [sheet EXCEPT !.open = FALSE]
      BY <2>3 DEF CloseSheet
    <3>2. QED
      BY <1>1, <3>1 DEF SheetType
  <2>4. QED
    BY <2>2, <2>3
<1>3. CookbookTypeOK'
  BY <1>1, <1>2, BookTypes DEF BookInv, CookbookTypeOK, SheetType
<1>4. QED
  BY <1>1, <1>2, <1>3
  DEF BookInv, ResultIsNews, RunsAreOfTheSheet, OfTheirPage, ToldIsOver, OneAtATime, InFlight

LEMMA ImportSubmitted ==
  ASSUME BookInv, NEW i \in Imports, SubmitImport(i)
  PROVE  BookInv'
<1>1. /\ sheet \in SheetType /\ import \in [Imports -> ImportType]
      /\ i \in 0..MaxImports
  BY BookTypes DEF BookInv, Imports
<1>2. /\ sheet.open /\ sheet.job = 0 /\ import[i].at = "unmade"
      /\ sheet.page = "list" => sheet.result = 0
  BY DEF SubmitImport, Submit
<1>3. sheet' = [sheet EXCEPT !.job = i, !.runs = sheet.runs \union {i}]
  BY DEF SubmitImport, Submit
<1>4. import' = [import EXCEPT ![i] = [import[i] EXCEPT !.at = "sent", !.book = sheet.book,
                                                        !.page = sheet.page]]
  BY <1>1 DEF SubmitImport, Submit
<1>5. /\ sheet' \in SheetType /\ sheet'.page = sheet.page /\ sheet'.open
      /\ sheet'.book = sheet.book /\ sheet'.job = i /\ sheet'.result = sheet.result
      /\ sheet'.fresh = sheet.fresh /\ sheet'.runs = sheet.runs \union {i}
  BY <1>1, <1>2, <1>3 DEF SheetType
<1>6. /\ import' \in [Imports -> ImportType]
      /\ import'[i].at = "sent" /\ import'[i].book = sheet.book
      /\ import'[i].page = sheet.page /\ import'[i].stray = import[i].stray
      /\ import'[i].told = import[i].told
      /\ \A j \in Imports : j # i => import'[j] = import[j]
  BY <1>1, <1>4 DEF SheetType, ImportType
<1>7. sheet.page # "none" /\ ~import[i].stray /\ ~import[i].told
  BY <1>2 DEF BookInv, ToldIsOver, OfTheirPage
<1>8. CookbookTypeOK'
  BY <1>5, <1>6 DEF CookbookTypeOK, SheetType, ImportType
<1>9. ResultIsNews' /\ RunsAreOfTheSheet'
  <2>1. sheet.result # 0 => sheet.result \in Imports
    BY <1>1, CookbookAssumption DEF SheetType, Imports
  <2>2. RunsAreOfTheSheet'
    BY <1>1, <1>2, <1>5, <1>6 DEF BookInv, RunsAreOfTheSheet, SheetType
  <2>3. ResultIsNews'
    BY <1>2, <1>5, <1>6, <2>1 DEF BookInv, ResultIsNews
  <2>4. QED
    BY <2>2, <2>3
<1>10. OfTheirPage' /\ ToldIsOver'
  BY <1>2, <1>5, <1>6, <1>7 DEF BookInv, OfTheirPage, ToldIsOver, InFlight
<1>11. OneAtATime'
  <2> SUFFICES ASSUME sheet.page = "list"
               PROVE  /\ \A j \in sheet.runs : j # i => ~InFlight(j)' /\ ~import'[j].told
                      /\ ~import'[i].told
    BY <1>5 DEF OneAtATime
  <2>1. \A j \in sheet.runs : ~InFlight(j) /\ ~import[j].told
    <3> TAKE j \in sheet.runs
    <3>1. j \in Imports /\ j # 0
      BY <1>1, CookbookAssumption DEF SheetType, Imports
    <3>2. QED
      BY <1>2, <3>1 DEF BookInv, OneAtATime
  <2>2. QED
    BY <1>1, <1>6, <1>7, <2>1 DEF SheetType, InFlight
<1>12. QED
  BY <1>8, <1>9, <1>10, <1>11 DEF BookInv

(* The steps of admin-api change nothing a page reads.                     *)
LEMMA ImportGoesOn ==
  ASSUME BookInv, NEW i \in Imports, CreateGraphs(i) \/ CreateAgents(i)
  PROVE  BookInv'
<1>1. sheet \in SheetType /\ import \in [Imports -> ImportType] /\ sheet' = sheet
  BY BookTypes DEF BookInv, CreateGraphs, CreateAgents
<1>2. PICK at \in {"graphs", "made"} : import' = [import EXCEPT ![i].at = at]
  BY DEF CreateGraphs, CreateAgents
<1>3. InFlight(i)
  BY DEF CreateGraphs, CreateAgents, InFlight
<1>4. /\ import' \in [Imports -> ImportType]
      /\ \A j \in Imports :
           /\ import'[j].book = import[j].book /\ import'[j].page = import[j].page
           /\ import'[j].stray = import[j].stray /\ import'[j].told = import[j].told
           /\ import'[j].at = (IF j = i THEN at ELSE import[j].at)
  BY <1>1, <1>2 DEF ImportType
<1>5. \A j \in Imports : /\ InFlight(j)' <=> InFlight(j)
                         /\ import'[j].at = "over" <=> import[j].at = "over"
                         /\ import'[j].at = "unmade" => import[j].at = "unmade"
  BY <1>3, <1>4 DEF InFlight
<1>6. CookbookTypeOK'
  BY <1>1, <1>4 DEF CookbookTypeOK, SheetType, ImportType
<1>7. ResultIsNews'
  <2>1. sheet.result # 0 => sheet.result \in Imports
    BY <1>1, CookbookAssumption DEF SheetType, Imports
  <2>2. QED
    BY <1>1, <1>4, <2>1 DEF BookInv, ResultIsNews
<1>8. RunsAreOfTheSheet' /\ OfTheirPage' /\ ToldIsOver' /\ OneAtATime'
  <2>1. \A j \in sheet.runs : j \in Imports
    BY <1>1 DEF SheetType
  <2>2. RunsAreOfTheSheet' /\ OfTheirPage' /\ ToldIsOver'
    BY <1>1, <1>4, <1>5, <2>1 DEF BookInv, RunsAreOfTheSheet, OfTheirPage, ToldIsOver
  <2>3. OneAtATime'
    BY <1>1, <1>4, <1>5, <2>1 DEF BookInv, OneAtATime
  <2>4. QED
    BY <2>2, <2>3
<1>9. QED
  BY <1>6, <1>7, <1>8 DEF BookInv

(* An import that is over.                                                 *)
LEMMA OverFacts ==
  ASSUME BookInv, NEW i \in Imports, NEW t \in BOOLEAN
  PROVE  /\ Over(i, t) \in ImportType /\ Over(i, t).at = "over" /\ Over(i, t).told = t
         /\ Over(i, t).book = import[i].book
  BY BookTypes DEF BookInv, Over, ImportType

LEMMA ImportEnds ==
  ASSUME BookInv, NEW i \in Imports, ImportSucceeds(i) \/ ImportFails(i)
  PROVE  BookInv'
<1>1. /\ sheet \in SheetType /\ import \in [Imports -> ImportType]
      /\ i \in 0..MaxImports /\ i # 0
      /\ sheet.runs \subseteq Imports
  BY BookTypes, CookbookAssumption DEF BookInv, Imports, SheetType
<1>2. InFlight(i)
  BY DEF ImportSucceeds, ImportFails, InFlight
<1>3. CASE ImportSucceeds(i) /\ import[i].page = "admin" /\ sheet.page = "admin"
  <2>1. sheet' = NoSheet /\ import' = [Strayed EXCEPT ![i] = Over(i, TRUE)]
    BY <1>3 DEF ImportSucceeds
  <2>2. /\ import' \in [Imports -> ImportType]
        /\ import'[i] = Over(i, TRUE)
        /\ \A j \in Imports : j # i => import'[j] = Strayed[j]
    BY <2>1, StrayedType, OverFacts
  <2>3. CookbookTypeOK'
    BY <2>1, <2>2, NoSheetType DEF CookbookTypeOK, SheetType, ImportType
  <2>4. OfTheirPage' /\ ToldIsOver'
    BY <2>1, <2>2, NoSheetType, StrayedType, OverFacts
    DEF BookInv, OfTheirPage, ToldIsOver, InFlight
  <2>5. ResultIsNews' /\ RunsAreOfTheSheet' /\ OneAtATime'
    BY <2>1, NoSheetType DEF ResultIsNews, RunsAreOfTheSheet, OneAtATime
  <2>6. QED
    BY <2>3, <2>4, <2>5 DEF BookInv
<1>4. CASE ~(ImportSucceeds(i) /\ import[i].page = "admin" /\ sheet.page = "admin")
  <2>1. PICK t \in BOOLEAN :
          /\ import' = [import EXCEPT ![i] = Over(i, t)]
          /\ t => sheet' = IF import[i].stray THEN sheet
                          ELSE [sheet EXCEPT !.result = i, !.fresh = sheet.open,
                                             !.job = IF sheet.job = i THEN 0 ELSE sheet.job]
          /\ ~t => sheet' = IF sheet.job = i THEN [sheet EXCEPT !.job = 0] ELSE sheet
    BY <1>4 DEF ImportSucceeds, ImportFails
  <2>2. /\ import' \in [Imports -> ImportType]
        /\ import'[i].at = "over" /\ import'[i].told = t
        /\ import'[i].book = import[i].book
        /\ \A j \in Imports : j # i => import'[j] = import[j]
    BY <1>1, <2>1, OverFacts
  <2>3. /\ sheet' \in SheetType /\ sheet'.page = sheet.page /\ sheet'.open = sheet.open
        /\ sheet'.book = sheet.book /\ sheet'.runs = sheet.runs
        /\ sheet.job # i => sheet'.job = sheet.job
        /\ \/ sheet'.result = sheet.result /\ sheet'.fresh = sheet.fresh
           \/ sheet'.result = i /\ sheet'.fresh = sheet.open
        /\ t /\ i \in sheet.runs => sheet'.result = i
    <3>1. 0 \in 0..MaxImports /\ (i \in sheet.runs => ~import[i].stray)
      BY <1>2, CookbookAssumption DEF BookInv, OfTheirPage
    <3>2. CASE t /\ ~import[i].stray
      <4> DEFINE job == IF sheet.job = i THEN 0 ELSE sheet.job
      <4>1. sheet' = [sheet EXCEPT !.result = i, !.fresh = sheet.open, !.job = job]
        BY <2>1, <3>2
      <4>2. job \in 0..MaxImports /\ (sheet.job # i => job = sheet.job)
        BY <1>1, <3>1 DEF SheetType
      <4> HIDE DEF job
      <4>3. QED
        BY <1>1, <3>2, <4>1, <4>2 DEF SheetType
    <3>3. CASE t /\ import[i].stray
      BY <1>1, <2>1, <3>1, <3>3
    <3>4. CASE ~t
      BY <1>1, <2>1, <3>1, <3>4 DEF SheetType
    <3>5. QED
      BY <3>2, <3>3, <3>4
  <2>4. CookbookTypeOK'
    BY <2>2, <2>3 DEF CookbookTypeOK, SheetType, ImportType
  <2>5. ResultIsNews' /\ RunsAreOfTheSheet'
    <3>1. sheet.result # 0 => sheet.result \in Imports
      BY <1>1, CookbookAssumption DEF SheetType, Imports
    <3>2. \A j \in Imports : import'[j].book = import[j].book
      BY <2>2
    <3>3. RunsAreOfTheSheet'
      BY <1>1, <2>3, <3>2 DEF BookInv, RunsAreOfTheSheet
    <3>4. ResultIsNews'
      BY <2>3, <3>1, <3>2 DEF BookInv, ResultIsNews, RunsAreOfTheSheet
    <3>5. QED
      BY <3>3, <3>4
  <2>6. OfTheirPage' /\ ToldIsOver'
    BY <2>2, <2>3 DEF BookInv, OfTheirPage, ToldIsOver, InFlight
  <2>7. OneAtATime'
    <3> SUFFICES ASSUME sheet.page = "list"
                 PROVE  OneAtATime'
      BY <2>3 DEF OneAtATime
    <3>1. \A j \in Imports : InFlight(j)' \/ import'[j].told => InFlight(j) \/ import[j].told
      BY <1>2, <2>2 DEF InFlight
    <3>2. \A k, j \in sheet.runs :
            (InFlight(k)' \/ import'[k].told) /\ (InFlight(j)' \/ import'[j].told) => k = j
      BY <1>1, <3>1 DEF BookInv, OneAtATime
    <3>3. ASSUME sheet.open, NEW j \in sheet.runs
          PROVE  /\ InFlight(j)' => sheet'.job = j
                 /\ import'[j].told => sheet'.result # 0
      <4>1. InFlight(j) => sheet.job = j
        BY <3>3 DEF BookInv, OneAtATime
      <4>2. j # i => import'[j] = import[j]
        BY <1>1, <2>2
      <4>3. InFlight(j)' => j # i /\ InFlight(j)
        BY <2>2, <4>2 DEF InFlight
      <4>4. import[j].told => sheet.result # 0
        BY <3>3 DEF BookInv, OneAtATime
      <4>5. import'[j].told => sheet'.result # 0
        BY <1>1, <2>2, <2>3, <4>2, <4>4
      <4>6. QED
        BY <2>3, <4>1, <4>3, <4>5
    <3>4. QED
      BY <2>3, <3>2, <3>3 DEF OneAtATime
  <2>8. QED
    BY <2>4, <2>5, <2>6, <2>7 DEF BookInv
<1>5. QED
  BY <1>3, <1>4

LEMMA BookInvNext == BookInv /\ [CookbookNext]_cookbookVars => BookInv'
<1> SUFFICES ASSUME BookInv, [CookbookNext]_cookbookVars PROVE BookInv'
  OBVIOUS
<1>1. CASE UNCHANGED cookbookVars
  BY <1>1 DEF cookbookVars, BookInv, CookbookTypeOK, ResultIsNews, RunsAreOfTheSheet,
              OfTheirPage, ToldIsOver, OneAtATime, InFlight
<1>2. CASE CookbookNext
  BY <1>2, SheetsOpen, SheetCloses, ImportSubmitted, ImportGoesOn, ImportEnds DEF CookbookNext
<1>3. QED
  BY <1>1, <1>2

THEOREM BookInvHolds == CookbookSpec => []BookInv
  BY BookInvInit, BookInvNext, PTL DEF CookbookSpec

(* A sheet shows no result that arrived before it was opened, and of the   *)
(* imports it made itself only one of its own cookbook.                    *)
THEOREM NoStaleResult == CookbookSpec => []ResultIsNews
<1>1. BookInv => ResultIsNews
  BY DEF BookInv
<1>2. QED
  BY <1>1, BookInvHolds, PTL

(* However submissions, closings and late answers interleave, one opening  *)
(* of the list's sheet makes at most one import that is answered.          *)
THEOREM OneAnsweredImport == CookbookSpec => []OneImportPerSheet
<1>1. ASSUME BookInv, sheet.page = "list"
      PROVE  Cardinality({i \in sheet.runs : import[i].told}) <= 1
  <2> DEFINE Told == {i \in sheet.runs : import[i].told}
  <2>1. \A i, j \in Told : i = j
    BY <1>1 DEF BookInv, OneAtATime
  <2>2. CASE Told = {}
    BY <2>2, FS_EmptySet
  <2>3. CASE Told # {}
    <3>1. PICK i : Told = {i}
      BY <2>1, <2>3
    <3>2. Cardinality({i}) = 1
      BY FS_Singleton
    <3>3. Cardinality(Told) = Cardinality({i})
      BY <3>1
    <3>4. QED
      BY <3>2, <3>3
  <2>4. QED
    BY <2>2, <2>3
<1>2. BookInv => OneImportPerSheet
  BY <1>1 DEF OneImportPerSheet
<1>3. QED
  BY <1>2, BookInvHolds, PTL

----------------------------------------------------------------------------
(* The model routes.                                                       *)

MutationType ==
  [op : {"none", "create", "update", "delete"}, id : RouteIds \union {NoRoute},
   at : {"unmade", "sent", "committed", "read", "done", "over"}, read : Tables,
   ver : 0..MaxVersion, keeps : BOOLEAN, kept : Listings, stray : BOOLEAN]
AdminType ==
  [open : BOOLEAN, routes : Listings, form : BOOLEAN, editing : RouteIds \union {NoRoute},
   off : BOOLEAN]
CachedType ==
  [data : Tables, loaded : BOOLEAN, at : {"idle", "asked", "read"}, answer : Tables,
   old : BOOLEAN]
ConfigType == [file : Tables, spoilt : BOOLEAN]

IsCommitted(q) == request[q].at \in {"committed", "read", "done"}

(* Generations that have not overlapped write the table, or another one is *)
(* due that will.                                                          *)
Owed == \E q \in Requests : request[q].at = "committed"

GenerationInv ==
  ~config.spoilt =>
    /\ \A p, q \in Generating : p = q
    /\ \A q \in Generating : request[q].read = table \/ Owed
    /\ Generating = {} => config.file = table \/ Owed

(* A route that is yet to be created is known to nobody else.              *)
Heard(r) ==
  \/ table[r] # 0 \/ admin.editing = r
  \/ Lists(admin.routes, r) \/ cached.data[r] # 0 \/ cached.answer[r] # 0
  \/ \E p \in Requests : Lists(request[p].kept, r) \/ (IsCommitted(p) /\ request[p].id = r)

IsCreating(q) == request[q].op = "create" /\ request[q].at = "sent"

NewIdInv ==
  \A q \in Requests :
    IsCreating(q) => /\ ~Heard(request[q].id)
                     /\ \A p \in Requests : p # q => request[p].id # request[q].id

(* What a request did to its row stays done until it is answered.          *)
MutationInv ==
  \A q \in Requests :
    /\ request[q].at = "sent" \/ IsCommitted(q) =>
         request[q].id \in RouteIds /\ request[q].op \in {"create", "update", "delete"}
    /\ IsCommitted(q) => /\ request[q].op = "create" => request[q].ver = 1
                         /\ request[q].op = "update" => request[q].ver # 0
                         /\ request[q].op = "delete" => table[request[q].id] = 0

CachedInv ==
  /\ cached.at = "read" /\ ~cached.old => cached.answer = table
  /\ cached.at # "read" /\ cached.loaded /\ ~cached.old => cached.data = table

(* A list that is not off shows each row of the table once, or the answer  *)
(* that puts it right is on its way; what is gone it shows until then at   *)
(* most, also while the first rows are still awaited.                      *)
At(r)     == {p \in Places : admin.routes[p][1] = r}
On(op, r) == \E q \in Requests : IsCommitted(q) /\ request[q].op = op /\ request[q].id = r
Once(r)   == \E p \in Places : At(r) = {p}
Right(r)  == \E p \in Places : At(r) = {p} /\ admin.routes[p] = <<r, table[r]>>

GoneOrDue(r)  == table[r] = 0 => At(r) = {} \/ On("delete", r)
ShownOrDue(r) == table[r] # 0 => \/ Right(r)
                                 \/ On("update", r) /\ Once(r)
                                 \/ On("create", r) /\ At(r) = {}

(* The page has had rows to show, or it is about to learn of none.         *)
Steady == cached.loaded \/ (cached.at = "read" /\ cached.answer = NoRows)

PlacesInv == \A q \in Requests : request[q].at # "over" => admin.routes[q] = NoRow

ListInv ==
  admin.open /\ ~admin.off =>
    /\ PlacesInv
    /\ \A r \in RouteIds : GoneOrDue(r)
    /\ Steady => \A r \in RouteIds : ShownOrDue(r)

RoutesInv ==
  /\ RoutesTypeOK
  /\ GenerationInv
  /\ NewIdInv
  /\ MutationInv
  /\ CachedInv
  /\ ListInv

LEMMA RoutesTypes ==
  RoutesTypeOK <=> /\ table \in Tables /\ config \in ConfigType
                   /\ request \in [Requests -> MutationType]
                   /\ admin \in AdminType /\ cached \in CachedType
  BY DEF RoutesTypeOK, MutationType, AdminType, CachedType, ConfigType

LEMMA UnmadeType ==
  /\ NoRows \in Tables /\ NoListing \in Listings
  /\ Unmade \in MutationType /\ NoPage \in AdminType
  /\ [Unmade EXCEPT !.at = "over"] \in MutationType
  /\ \A t \in Tables : ListOf(t) \in Listings
<1>1. NoRows \in Tables /\ NoListing \in Listings
  BY ModelRoutesAssumption DEF Tables, NoRows, NoListing, Listings
<1>2. 0 \in 0..MaxVersion
  BY ModelRoutesAssumption
<1>3. ASSUME NEW t \in Tables PROVE ListOf(t) \in Listings
  <2>1. ASSUME NEW p \in Places
        PROVE  (IF p \in RouteIds /\ t[p] # 0 THEN <<p, t[p]>> ELSE NoRow)
                 \in Routes \union {NoRow}
    <3>1. CASE p \in RouteIds /\ t[p] # 0
      <4>1. t[p] \in 0..MaxVersion
        BY <3>1 DEF Tables
      <4>2. t[p] \in 1..MaxVersion
        BY <3>1, <4>1, ModelRoutesAssumption
      <4>3. QED
        BY <3>1, <4>2 DEF Routes
    <3>2. CASE ~(p \in RouteIds /\ t[p] # 0)
      BY <3>2
    <3>3. QED
      BY <3>1, <3>2
  <2>2. QED
    BY <2>1 DEF ListOf, Listings
<1>4. QED
  BY <1>1, <1>2, <1>3 DEF Unmade, NoPage, MutationType, AdminType

LEMMA RoutesInvInit == RoutesInit => RoutesInv
<1> SUFFICES ASSUME RoutesInit PROVE RoutesInv
  OBVIOUS
<1>1. table \in Tables
  BY ModelRoutesAssumption DEF RoutesInit, Tables
<1>2. \A q \in Requests : request[q] = Unmade
  BY DEF RoutesInit
<1>3. Unmade.at = "unmade" /\ ~NoPage.open
  BY DEF Unmade, NoPage
<1>4. RoutesTypeOK
  BY <1>1, RoutesTypes, UnmadeType DEF RoutesInit, ConfigType, CachedType
<1>5. GenerationInv
  BY <1>2, <1>3 DEF RoutesInit, GenerationInv, Generating
<1>6. NewIdInv /\ MutationInv
  BY <1>2, <1>3 DEF NewIdInv, MutationInv, IsCreating, IsCommitted
<1>7. CachedInv /\ ListInv
  BY <1>3 DEF RoutesInit, CachedInv, ListInv
<1>8. QED
  BY <1>4, <1>5, <1>6, <1>7 DEF RoutesInv

(* What keeps each part.                                                   *)
LEMMA GenerationKept ==
  ASSUME GenerationInv, table' = table, config' = config,
         \A q \in Requests :
           \/ request'[q].at = request[q].at /\ request'[q].read = request[q].read
           \/ /\ request[q].at \notin {"committed", "read"}
              /\ request'[q].at \notin {"committed", "read"}
  PROVE  GenerationInv'
<1>1. Generating' = Generating
  BY DEF Generating
<1>2. Owed' <=> Owed
  BY DEF Owed
<1>3. \A q \in Generating : request'[q].read = request[q].read
  BY DEF Generating
<1>4. QED
  BY <1>1, <1>2, <1>3 DEF GenerationInv

LEMMA NewIdKept ==
  ASSUME RoutesInv,
         \A q \in Requests : IsCreating(q)' => IsCreating(q) /\ request'[q].id = request[q].id,
         \A q \in Requests : IsCreating(q)' => table'[request[q].id] = 0,
         admin'.editing \in {admin.editing, NoRoute} \/ Heard(admin'.editing),
         \A r \in RouteIds :
           \/ Lists(admin'.routes, r) \/ cached'.data[r] # 0 \/ cached'.answer[r] # 0
           \/ \E p \in Requests : Lists(request'[p].kept, r)
           => Heard(r),
         \A p \in Requests : \/ request'[p].id \in {request[p].id, NoRoute}
                             \/ Heard(request'[p].id),
         \A p \in Requests :
           IsCommitted(p)' =>
             request'[p].id = request[p].id /\ (IsCommitted(p) \/ request[p].at = "sent")
  PROVE  NewIdInv'
<1> SUFFICES ASSUME NEW q \in Requests, IsCreating(q)'
             PROVE  /\ ~Heard(request[q].id)'
                    /\ \A p \in Requests : p # q => request'[p].id # request'[q].id
  BY DEF NewIdInv
<1> DEFINE r == request[q].id
<1>1. request'[q].id = r /\ r \in RouteIds /\ ~Heard(r) /\ r # NoRoute
      /\ \A p \in Requests : p # q => request[p].id # r
  BY ModelRoutesAssumption DEF RoutesInv, NewIdInv, MutationInv, IsCreating
<1>2. ~IsCommitted(q)'
  BY DEF IsCreating, IsCommitted
<1> HIDE DEF r
<1>3. table'[r] = 0
  BY DEF r
<1>4. admin'.editing # r
  BY <1>1 DEF Heard
<1>5. \A p \in Requests : p # q => request'[p].id # r
  BY <1>1
<1>6. ~\E p \in Requests : IsCommitted(p)' /\ request'[p].id = r
  BY <1>2, <1>5
<1>7. ~Heard(request[q].id)'
  <2>1. ~(Lists(admin'.routes, r) \/ cached'.data[r] # 0 \/ cached'.answer[r] # 0)
    BY <1>1
  <2>2. ~\E p \in Requests : Lists(request'[p].kept, r)
    BY <1>1
  <2>3. QED
    BY <1>1, <1>3, <1>4, <1>6, <2>1, <2>2 DEF Heard
<1>8. QED
  BY <1>1, <1>5, <1>7

LEMMA MutationKept ==
  ASSUME MutationInv,
         \A r \in RouteIds : table[r] = 0 => table'[r] = 0,
         \A q \in Requests :
           \/ /\ request'[q].op = request[q].op /\ request'[q].id = request[q].id
              /\ request'[q].ver = request[q].ver
              /\ IsCommitted(q)' => IsCommitted(q)
              /\ request'[q].at = "sent" => request[q].at = "sent"
           \/ /\ request'[q].at # "sent" /\ ~IsCommitted(q)'
           \/ /\ ~IsCommitted(q)' /\ request'[q].id \in RouteIds
              /\ request'[q].op \in {"create", "update", "delete"}
  PROVE  MutationInv'
  BY DEF MutationInv

LEMMA ListKept ==
  ASSUME ListInv, table' = table, admin'.routes = admin.routes,
         admin'.open /\ ~admin'.off => /\ admin.open /\ ~admin.off
                                      /\ (Steady' => Steady \/ table = NoRows),
         \A q \in Requests :
           /\ IsCommitted(q) => /\ IsCommitted(q)'
                                /\ request'[q].op = request[q].op
                                /\ request'[q].id = request[q].id
           /\ request'[q].at # "over" => request[q].at # "over"
  PROVE  ListInv'
<1> SUFFICES ASSUME admin.open /\ ~admin.off, Steady' => Steady \/ table = NoRows
             PROVE  /\ PlacesInv'
                    /\ \A r \in RouteIds : GoneOrDue(r)'
                    /\ Steady' => \A r \in RouteIds : ShownOrDue(r)'
  BY DEF ListInv
<1>1. PlacesInv /\ PlacesInv'
  BY DEF ListInv, PlacesInv
<1>2. ASSUME NEW r \in RouteIds
      PROVE  /\ At(r)' = At(r) /\ (Once(r) => Once(r)') /\ (Right(r) => Right(r)')
             /\ \A op : On(op, r) => On(op, r)'
  BY DEF At, Once, Right, On
<1>3. ASSUME NEW r \in RouteIds PROVE GoneOrDue(r)'
  BY <1>2 DEF ListInv, GoneOrDue
<1>4. ASSUME Steady', NEW r \in RouteIds PROVE ShownOrDue(r)'
  <2>1. CASE table = NoRows
    BY <2>1 DEF ShownOrDue, NoRows
  <2>2. CASE Steady
    BY <1>2, <2>2 DEF ListInv, ShownOrDue
  <2>3. QED
    BY <1>4, <2>1, <2>2
<1>5. QED
  BY <1>1, <1>3, <1>4

LEMMA ListedRows ==
  /\ \A t \in Tables : \A r \in RouteIds : Lists(ListOf(t), r) => t[r] # 0
  /\ \A r \in RouteIds : ~Lists(NoListing, r) /\ NoRows[r] = 0
  /\ NoRow[1] \notin RouteIds
<1>1. NoRow[1] \notin RouteIds
  BY ModelRoutesAssumption DEF NoRow
<1>2. ASSUME NEW t \in Tables, NEW r \in RouteIds, Lists(ListOf(t), r)
      PROVE  t[r] # 0
  BY <1>1, <1>2 DEF Lists, ListOf
<1>3. ASSUME NEW r \in RouteIds PROVE ~Lists(NoListing, r) /\ NoRows[r] = 0
  BY <1>1 DEF Lists, NoListing, NoRows
<1>4. QED
  BY <1>1, <1>2, <1>3

(* The rows of an answer are right. *)
LEMMA RightFromTable ==
  ASSUME table' \in Tables, admin'.routes = ListOf(table')
  PROVE  /\ PlacesInv'
         /\ \A r \in RouteIds : GoneOrDue(r)' /\ ShownOrDue(r)'
<1>1. PlacesInv'
  BY ModelRoutesAssumption DEF PlacesInv, ListOf, Places, Requests
<1>2. ASSUME NEW r \in RouteIds PROVE GoneOrDue(r)' /\ ShownOrDue(r)'
  <2>1. r \in Places /\ NoRow[1] # r
    BY ListedRows DEF Places
  <2>2. \A p \in Places : admin'.routes[p][1] = r <=> p = r /\ table'[r] # 0
    BY <2>1 DEF ListOf
  <2>3. CASE table'[r] = 0
    <3>1. At(r)' = {}
      BY <2>2, <2>3 DEF At
    <3>2. QED
      BY <2>3, <3>1 DEF GoneOrDue, ShownOrDue
  <2>4. CASE table'[r] # 0
    <3>1. At(r)' = {r}
      BY <2>1, <2>2, <2>4 DEF At
    <3>2. admin'.routes[r] = <<r, table'[r]>>
      BY <2>1, <2>4 DEF ListOf
    <3>3. QED
      BY <2>1, <2>4, <3>1, <3>2 DEF GoneOrDue, ShownOrDue, Right
  <2>5. QED
    BY <2>3, <2>4
<1>3. QED
  BY <1>1, <1>2

(* The page and its query.                                                 *)
LEMMA RoutesPageSteps ==
  ASSUME RoutesInv,
         \/ OpenRoutes \/ LeaveRoutes \/ RefetchRoutes \/ ServeRoutes
         \/ RoutesFetchFails \/ CancelForm
         \/ \E r \in RouteIds \union {NoRoute} : ShowForm(r)
         \/ UNCHANGED routeVars
  PROVE  RoutesInv'
<1>1. /\ table \in Tables /\ config \in ConfigType
      /\ request \in [Requests -> MutationType]
      /\ admin \in AdminType /\ cached \in CachedType
  BY RoutesTypes DEF RoutesInv
<1>2. table' = table /\ config' = config
  BY DEF OpenRoutes, LeaveRoutes, RefetchRoutes, ServeRoutes, RoutesFetchFails, CancelForm,
         ShowForm, routeVars
<1>3. /\ request' \in [Requests -> MutationType]
      /\ \A q \in Requests :
           /\ request'[q].op = request[q].op /\ request'[q].id = request[q].id
           /\ request'[q].at = request[q].at /\ request'[q].read = request[q].read
           /\ request'[q].ver = request[q].ver /\ request'[q].kept = request[q].kept
  <2>1. CASE LeaveRoutes
    <3> DEFINE Left(q) == request[q].stray \/ request[q].at \notin {"unmade", "over"}
    <3>1. request' = [q \in Requests |-> [request[q] EXCEPT !.stray = Left(q)]]
      BY <2>1 DEF LeaveRoutes
    <3>2. \A q \in Requests : Left(q) \in BOOLEAN
      OBVIOUS
    <3> HIDE DEF Left
    <3>3. \A q \in Requests : request'[q] \in MutationType
      BY <1>1, <3>1, <3>2 DEF MutationType
    <3>4. request' \in [Requests -> MutationType]
      BY <3>1, <3>3
    <3>5. QED
      BY <1>1, <3>1, <3>4 DEF MutationType
  <2>2. CASE request' = request
    BY <1>1, <2>2
  <2>3. QED
    BY <2>1, <2>2
    DEF OpenRoutes, RefetchRoutes, ServeRoutes, RoutesFetchFails, CancelForm, ShowForm, routeVars
<1>4. /\ admin' \in AdminType /\ cached' \in CachedType
      /\ cached'.data = cached.data /\ cached'.loaded = cached.loaded
      /\ \/ /\ cached'.answer = cached.answer
            /\ \/ cached'.at = cached.at /\ cached'.old = cached.old
               \/ cached.at = "idle" /\ cached'.at = "asked" /\ cached'.old = cached.old
         \/ /\ cached.at = "asked" /\ cached'.at = "read"
            /\ cached'.answer = table /\ ~cached'.old
         \/ /\ cached'.at = "idle" /\ cached'.answer = NoRows
            /\ cached'.old = (cached.old \/ cached.at = "read")
      /\ \/ /\ admin'.routes = admin.routes /\ admin'.open = admin.open
            /\ admin'.off = admin.off
            /\ \/ admin'.editing \in {admin.editing, NoRoute}
               \/ admin'.editing \in RouteIds /\ Lists(admin.routes, admin'.editing)
         \/ admin' = NoPage
         \/ /\ admin'.routes = ListOf(cached.data)
            /\ admin'.off = (cached.old \/ cached.data # table)
            /\ admin'.editing = NoRoute
            /\ cached'.answer = cached.answer /\ cached'.old = cached.old
            /\ cached'.at = "read" <=> cached.at = "read"
  <2>1. CASE OpenRoutes
    <3> DEFINE at == IF ~cached.loaded /\ cached.at = "idle" THEN "asked" ELSE cached.at
    <3>1. /\ admin' = [NoPage EXCEPT !.open = TRUE, !.routes = ListOf(cached.data),
                                      !.off = cached.old \/ cached.data # table]
          /\ cached' = [cached EXCEPT !.at = at]
      BY <2>1 DEF OpenRoutes
    <3>2. /\ at \in {"idle", "asked", "read"} /\ at \in {cached.at, "asked"}
          /\ at = "read" <=> cached.at = "read"
          /\ at # cached.at => cached.at = "idle"
      BY <1>1 DEF CachedType
    <3> HIDE DEF at
    <3>3. cached' \in CachedType /\ cached'.data = cached.data /\ cached'.at = at
          /\ cached'.loaded = cached.loaded /\ cached'.answer = cached.answer
          /\ cached'.old = cached.old
      BY <1>1, <3>1, <3>2 DEF CachedType
    <3>4. /\ admin' \in AdminType /\ admin'.routes = ListOf(cached.data)
          /\ admin'.off = (cached.old \/ cached.data # table) /\ admin'.editing = NoRoute
      <4>1. ListOf(cached.data) \in Listings
        BY <1>1, UnmadeType DEF CachedType
      <4>2. QED
        BY <1>1, <3>1, <4>1 DEF CachedType, AdminType, NoPage
    <3>5. QED
      BY <3>2, <3>3, <3>4
  <2>2. CASE LeaveRoutes
    BY <1>1, <2>2, UnmadeType DEF LeaveRoutes
  <2>3. CASE RefetchRoutes
    BY <1>1, <2>3 DEF RefetchRoutes, CachedType
  <2>4. CASE ServeRoutes
    BY <1>1, <2>4, UnmadeType DEF ServeRoutes, CachedType
  <2>5. CASE CancelForm
    BY <1>1, <2>5 DEF CancelForm, ResetForm, AdminType
  <2>6. ASSUME NEW r \in RouteIds \union {NoRoute}, ShowForm(r)
        PROVE  /\ admin' \in AdminType /\ cached' = cached
               /\ admin'.routes = admin.routes /\ admin'.open = admin.open
               /\ admin'.off = admin.off
               /\ \/ admin'.editing \in {admin.editing, NoRoute}
                  \/ admin'.editing \in RouteIds /\ Lists(admin.routes, admin'.editing)
    <3>1. CASE r = NoRoute
      BY <1>1, <2>6, <3>1 DEF ShowForm, AdminType
    <3>2. CASE r # NoRoute
      BY <1>1, <2>6, <3>2 DEF ShowForm, AdminType
    <3>3. QED
      BY <3>1, <3>2
  <2>7. CASE UNCHANGED routeVars
    BY <1>1, <2>7 DEF routeVars
  <2>8. CASE RoutesFetchFails
    BY <1>1, <2>8, UnmadeType DEF RoutesFetchFails, CachedType
  <2>9. QED
    BY <1>1, <2>1, <2>2, <2>3, <2>4, <2>5, <2>6, <2>7, <2>8
<1>5. RoutesTypeOK'
  BY <1>1, <1>2, <1>3, <1>4 DEF RoutesTypeOK, MutationType, AdminType, CachedType, ConfigType
<1>6. GenerationInv' /\ MutationInv'
  <2>1. \A q \in Requests : IsCommitted(q)' <=> IsCommitted(q)
    BY <1>3 DEF IsCommitted
  <2>2. GenerationInv'
    BY <1>2, <1>3, GenerationKept DEF RoutesInv
  <2>3. MutationInv'
    BY <1>2, <1>3, <2>1, MutationKept DEF RoutesInv
  <2>4. QED
    BY <2>2, <2>3
<1>7. NewIdInv'
  <2>1. admin'.editing \in {admin.editing, NoRoute} \/ Heard(admin'.editing)
    BY <1>4 DEF Heard, NoPage
  <2>2. ASSUME NEW r \in RouteIds,
               \/ Lists(admin'.routes, r) \/ cached'.data[r] # 0 \/ cached'.answer[r] # 0
               \/ \E p \in Requests : Lists(request'[p].kept, r)
        PROVE  Heard(r)
    <3>1. Lists(admin'.routes, r) => Lists(admin.routes, r) \/ cached.data[r] # 0
      BY <1>1, <1>4, ListedRows DEF NoPage, CachedType
    <3>2. cached'.answer[r] # 0 => cached.answer[r] # 0 \/ table[r] # 0
      BY <1>1, <1>4, ListedRows
    <3>3. QED
      BY <1>3, <1>4, <2>2, <3>1, <3>2 DEF Heard
  <2>3. \A q \in Requests : /\ IsCreating(q)' <=> IsCreating(q)
                            /\ IsCommitted(q)' <=> IsCommitted(q)
    BY <1>3 DEF IsCreating, IsCommitted
  <2>4. \A q \in Requests : IsCreating(q) => table[request[q].id] = 0
    BY DEF RoutesInv, NewIdInv, Heard
  <2>5. QED
    BY <1>2, <1>3, <2>1, <2>2, <2>3, <2>4, NewIdKept
<1>8. CachedInv'
  BY <1>2, <1>4 DEF RoutesInv, CachedInv
<1>9. ListInv'
  <2>1. \A q \in Requests : IsCommitted(q)' <=> IsCommitted(q)
    BY <1>3 DEF IsCommitted
  <2>2. Steady' => Steady \/ table = NoRows
    BY <1>4 DEF Steady
  <2>3. CASE admin'.routes = admin.routes /\ admin'.open = admin.open /\ admin'.off = admin.off
    BY <1>2, <1>3, <2>1, <2>2, <2>3, ListKept DEF RoutesInv
  <2>4. CASE admin' = NoPage
    BY <2>4 DEF ListInv, NoPage
  <2>5. CASE admin'.routes = ListOf(cached.data) /\ admin'.off = (cached.old \/ cached.data # table)
    <3> SUFFICES ASSUME cached.data = table
                 PROVE  /\ PlacesInv'
                        /\ \A r \in RouteIds : GoneOrDue(r)' /\ ShownOrDue(r)'
      BY <2>5 DEF ListInv
    <3>1. QED
      BY <1>1, <1>2, <2>5, RightFromTable
  <2>6. QED
    BY <1>4, <2>3, <2>4, <2>5
<1>10. QED
  BY <1>5, <1>6, <1>7, <1>8, <1>9 DEF RoutesInv

(* The answer of the query replaces the list, unless it says nothing new.  *)
LEMMA RoutesArriveStep ==
  ASSUME RoutesInv, RoutesArrive
  PROVE  RoutesInv'
<1>1. /\ table \in Tables /\ config \in ConfigType
      /\ request \in [Requests -> MutationType]
      /\ admin \in AdminType /\ cached \in CachedType
  BY RoutesTypes DEF RoutesInv
<1>2. table' = table /\ config' = config /\ request' = request /\ cached.at = "read"
  BY DEF RoutesArrive
<1>3. /\ cached' \in CachedType /\ cached'.data = cached.answer /\ cached'.loaded
      /\ cached'.at = "idle" /\ cached'.answer = NoRows /\ cached'.old = cached.old
  BY <1>1, UnmadeType DEF RoutesArrive, CachedType
<1>4. /\ admin' \in AdminType /\ admin'.editing = admin.editing
      /\ \/ admin' = admin /\ (~admin.open \/ Steady)
         \/ admin'.routes = ListOf(cached.answer) /\ admin'.off = cached.old
  <2>1. ListOf(cached.answer) \in Listings
    BY <1>1, UnmadeType DEF CachedType
  <2>2. CASE Replaces
    BY <1>1, <2>1, <2>2 DEF RoutesArrive, CachedType, AdminType
  <2>3. CASE ~Replaces
    BY <1>1, <1>2, <2>3 DEF RoutesArrive, Replaces, Steady
  <2>4. QED
    BY <2>2, <2>3
<1>5. RoutesTypeOK'
  BY <1>1, <1>2, <1>3, <1>4 DEF RoutesTypeOK, MutationType, AdminType, CachedType, ConfigType
<1>6. \A q \in Requests : /\ IsCommitted(q)' <=> IsCommitted(q)
                          /\ IsCreating(q)' <=> IsCreating(q)
  BY <1>2 DEF IsCommitted, IsCreating
<1>7. GenerationInv' /\ MutationInv'
  BY <1>2, <1>6, GenerationKept, MutationKept DEF RoutesInv
<1>8. NewIdInv'
  <2>1. \A r \in RouteIds :
          \/ Lists(admin'.routes, r) \/ cached'.data[r] # 0 \/ cached'.answer[r] # 0
          \/ \E p \in Requests : Lists(request'[p].kept, r)
          => Heard(r)
    BY <1>1, <1>2, <1>3, <1>4, ListedRows DEF Heard, CachedType
  <2>2. \A q \in Requests : IsCreating(q) => table[request[q].id] = 0
    BY DEF RoutesInv, NewIdInv, Heard
  <2>3. QED
    BY <1>2, <1>4, <1>6, <2>1, <2>2, NewIdKept
<1>9. CachedInv'
  BY <1>2, <1>3 DEF RoutesInv, CachedInv
<1>10. ListInv'
  <2>1. CASE admin' = admin /\ (~admin.open \/ Steady)
    BY <1>2, <1>6, <2>1, ListKept DEF RoutesInv
  <2>2. CASE admin'.routes = ListOf(cached.answer) /\ admin'.off = cached.old
    <3> SUFFICES ASSUME ~cached.old
                 PROVE  /\ PlacesInv'
                        /\ \A r \in RouteIds : GoneOrDue(r)' /\ ShownOrDue(r)'
      BY <2>2 DEF ListInv
    <3>1. admin'.routes = ListOf(table')
      BY <1>2, <2>2 DEF RoutesInv, CachedInv
    <3>2. QED
      BY <1>1, <1>2, <3>1, RightFromTable
  <2>3. QED
    BY <1>4, <2>1, <2>2
<1>11. QED
  BY <1>5, <1>7, <1>8, <1>9, <1>10 DEF RoutesInv

LEMMA OneRequest ==
  ASSUME request \in [Requests -> MutationType], NEW q \in Requests, NEW rec \in MutationType,
         request' = [request EXCEPT ![q] = rec]
  PROVE  /\ request' \in [Requests -> MutationType]
         /\ request'[q] = rec
         /\ \A p \in Requests : p # q => request'[p] = request[p]
  OBVIOUS

(* A request is made. *)
LEMMA SaveRouteStep ==
  ASSUME RoutesInv, NEW q \in Requests, NEW r \in RouteIds, SaveRoute(q, r)
  PROVE  RoutesInv'
<1>1. /\ table \in Tables /\ config \in ConfigType
      /\ request \in [Requests -> MutationType]
      /\ admin \in AdminType /\ cached \in CachedType
  BY RoutesTypes DEF RoutesInv
<1>2. /\ table' = table /\ config' = config /\ admin' = admin /\ cached' = cached
      /\ request[q].at = "unmade"
  BY DEF SaveRoute, NextRequest
<1>3. PICK op \in {"create", "update"} :
        /\ request' = [request EXCEPT ![q] = [Unmade EXCEPT !.op = op, !.id = r, !.at = "sent"]]
        /\ op = "create" => Unheard(r) /\ admin.editing = NoRoute
        /\ op = "update" => admin.editing = r
  BY DEF SaveRoute, Send
<1> DEFINE rec == [Unmade EXCEPT !.op = op, !.id = r, !.at = "sent"]
<1>4. rec \in MutationType /\ rec.op = op /\ rec.id = r /\ rec.at = "sent"
      /\ rec.kept = NoListing
  BY UnmadeType DEF Unmade, MutationType
<1> HIDE DEF rec
<1>5. /\ request' \in [Requests -> MutationType] /\ request'[q] = rec
      /\ \A p \in Requests : p # q => request'[p] = request[p]
  BY <1>1, <1>3, <1>4, OneRequest DEF rec
<1>6. RoutesTypeOK'
  BY <1>1, <1>2, <1>5 DEF RoutesTypeOK, MutationType, AdminType, CachedType, ConfigType
<1>7. \A p \in Requests : IsCommitted(p)' <=> IsCommitted(p) /\ p # q
  BY <1>2, <1>4, <1>5 DEF IsCommitted
<1>8. GenerationInv' /\ MutationInv'
  <2>1. GenerationInv'
    BY <1>2, <1>4, <1>5, GenerationKept DEF RoutesInv
  <2>2. MutationInv'
    BY <1>2, <1>4, <1>5, <1>7, MutationKept DEF RoutesInv
  <2>3. QED
    BY <2>1, <2>2
<1>9. NewIdInv'
  <2>1. CASE op = "update"
    <3>1. Heard(r)
      BY <1>3, <2>1 DEF Heard
    <3>2. \A p \in Requests :
            IsCreating(p)' => IsCreating(p) /\ request'[p].id = request[p].id
      BY <1>4, <1>5, <2>1 DEF IsCreating
    <3>3. \A p \in Requests : IsCreating(p) => table[request[p].id] = 0
      BY DEF RoutesInv, NewIdInv, Heard
    <3>4. \A s \in RouteIds :
            \/ Lists(admin.routes, s) \/ cached.data[s] # 0 \/ cached.answer[s] # 0
            \/ \E p \in Requests : Lists(request'[p].kept, s)
            => Heard(s)
      BY <1>4, <1>5, ListedRows DEF Heard
    <3>5. \A p \in Requests : request'[p].id \in {request[p].id, NoRoute} \/ Heard(request'[p].id)
      BY <1>4, <1>5, <3>1
    <3>6. \A p \in Requests :
            IsCommitted(p)' =>
              request'[p].id = request[p].id /\ (IsCommitted(p) \/ request[p].at = "sent")
      BY <1>5, <1>7
    <3>7. QED
      BY <1>2, <3>2, <3>3, <3>4, <3>5, <3>6, NewIdKept
  <2>2. CASE op = "create"
    <3>1. /\ table[r] = 0 /\ admin.editing # r
          /\ ~Lists(admin.routes, r) /\ cached.data[r] = 0 /\ cached.answer[r] = 0
          /\ \A p \in Requests : request[p].id # r /\ ~Lists(request[p].kept, r)
      BY <1>3, <2>2, ListedRows, ModelRoutesAssumption DEF Unheard
    <3> SUFFICES ASSUME NEW c \in Requests, IsCreating(c)'
                 PROVE  /\ ~Heard(request[c].id)'
                        /\ \A p \in Requests : p # c => request'[p].id # request'[c].id
      BY DEF NewIdInv
    <3>2. CASE c = q
      BY <1>2, <1>4, <1>5, <1>7, <3>1, <3>2, ListedRows DEF Heard
    <3>3. CASE c # q
      <4>1. IsCreating(c) /\ request'[c].id = request[c].id
        BY <1>5, <3>3 DEF IsCreating
      <4>2. ~Heard(request[c].id) /\ \A p \in Requests : p # c => request[p].id # request[c].id
        BY <4>1 DEF RoutesInv, NewIdInv
      <4>3. request[c].id # r
        BY <3>1
      <4>4. request[c].id \in RouteIds
        BY <4>1 DEF RoutesInv, MutationInv, IsCreating
      <4>5. ~\E p \in Requests : Lists(request'[p].kept, request[c].id)
        BY <1>4, <1>5, <4>2, <4>4, ListedRows DEF Heard
      <4>6. ~\E p \in Requests : IsCommitted(p)' /\ request'[p].id = request[c].id
        BY <1>4, <1>5, <1>7, <4>2, <4>3 DEF Heard
      <4>7. ~Heard(request[c].id)'
        BY <1>2, <4>1, <4>2, <4>5, <4>6 DEF Heard
      <4>8. QED
        BY <1>4, <1>5, <4>1, <4>2, <4>3, <4>7
    <3>4. QED
      BY <3>2, <3>3
  <2>3. QED
    BY <2>1, <2>2
<1>10. CachedInv' /\ ListInv'
  <2>1. CachedInv'
    BY <1>2 DEF RoutesInv, CachedInv
  <2>2. \A p \in Requests : IsCommitted(p) => p # q
    BY <1>2 DEF IsCommitted
  <2>3. Steady' <=> Steady
    BY <1>2 DEF Steady
  <2>4. \A p \in Requests : request'[p].at # "over" => request[p].at # "over"
    BY <1>2, <1>5
  <2>5. ListInv'
    BY <1>2, <1>5, <1>7, <2>2, <2>3, <2>4, ListKept DEF RoutesInv
  <2>6. QED
    BY <2>1, <2>5
<1>11. QED
  BY <1>6, <1>8, <1>9, <1>10 DEF RoutesInv

LEMMA DeleteRouteStep ==
  ASSUME RoutesInv, NEW q \in Requests, NEW r \in RouteIds, DeleteRoute(q, r)
  PROVE  RoutesInv'
<1>1. /\ table \in Tables /\ config \in ConfigType
      /\ request \in [Requests -> MutationType]
      /\ admin \in AdminType /\ cached \in CachedType
  BY RoutesTypes DEF RoutesInv
<1>2. /\ table' = table /\ config' = config /\ admin' = admin /\ cached' = cached
      /\ request[q].at = "unmade" /\ Lists(admin.routes, r)
  BY DEF DeleteRoute, NextRequest
<1> DEFINE rec == [Unmade EXCEPT !.op = "delete", !.id = r, !.at = "sent"]
           Kept(p) == [request[p] EXCEPT !.keeps = TRUE, !.kept = admin.routes]
<1>3. rec \in MutationType /\ rec.op = "delete" /\ rec.id = r /\ rec.at = "sent"
      /\ rec.kept = NoListing
  BY UnmadeType DEF Unmade, MutationType
<1>4. \A p \in Requests :
        /\ Kept(p) \in MutationType
        /\ Kept(p).op = request[p].op /\ Kept(p).id = request[p].id
        /\ Kept(p).at = request[p].at /\ Kept(p).read = request[p].read
        /\ Kept(p).ver = request[p].ver /\ Kept(p).kept = admin.routes
  BY <1>1 DEF MutationType, AdminType
<1>5. request' = [p \in Requests |->
        IF p = q THEN rec
        ELSE IF p \in Waiting("delete") /\ ~request[p].keeps THEN Kept(p) ELSE request[p]]
  BY DEF DeleteRoute
<1> HIDE DEF rec, Kept
<1>6. /\ request'[q] = rec
      /\ \A p \in Requests : p # q => request'[p] = Kept(p) \/ request'[p] = request[p]
  BY <1>5
<1>7. \A p \in Requests : p # q =>
        /\ request'[p].op = request[p].op /\ request'[p].id = request[p].id
        /\ request'[p].at = request[p].at /\ request'[p].read = request[p].read
        /\ request'[p].ver = request[p].ver
        /\ request'[p].kept = request[p].kept \/ request'[p].kept = admin.routes
  BY <1>4, <1>6
<1>8. request' \in [Requests -> MutationType]
  BY <1>1, <1>3, <1>4, <1>5
<1>9. RoutesTypeOK'
  BY <1>1, <1>2, <1>8 DEF RoutesTypeOK, MutationType, AdminType, CachedType, ConfigType
<1>10. \A p \in Requests : IsCommitted(p)' <=> IsCommitted(p) /\ p # q
  BY <1>2, <1>3, <1>6, <1>7 DEF IsCommitted
<1>11. GenerationInv' /\ MutationInv'
  <2>1. GenerationInv'
    BY <1>2, <1>3, <1>6, <1>7, GenerationKept DEF RoutesInv
  <2>2. MutationInv'
    BY <1>2, <1>3, <1>6, <1>7, <1>10, MutationKept DEF RoutesInv
  <2>3. QED
    BY <2>1, <2>2
<1>12. NewIdInv'
  <2>1. Heard(r)
    BY <1>2 DEF Heard
  <2>2. \A p \in Requests :
          IsCreating(p)' => IsCreating(p) /\ request'[p].id = request[p].id
    BY <1>3, <1>6, <1>7 DEF IsCreating
  <2>3. \A p \in Requests : IsCreating(p) => table[request[p].id] = 0
    BY DEF RoutesInv, NewIdInv, Heard
  <2>4. \A s \in RouteIds :
          \/ Lists(admin.routes, s) \/ cached.data[s] # 0 \/ cached.answer[s] # 0
          \/ \E p \in Requests : Lists(request'[p].kept, s)
          => Heard(s)
    BY <1>3, <1>6, <1>7, ListedRows DEF Heard
  <2>5. \A p \in Requests : request'[p].id \in {request[p].id, NoRoute} \/ Heard(request'[p].id)
    BY <1>3, <1>6, <1>7, <2>1
  <2>6. \A p \in Requests :
          IsCommitted(p)' =>
            request'[p].id = request[p].id /\ (IsCommitted(p) \/ request[p].at = "sent")
    BY <1>7, <1>10
  <2>7. QED
    BY <1>2, <2>2, <2>3, <2>4, <2>5, <2>6, NewIdKept
<1>13. CachedInv' /\ ListInv'
  <2>1. CachedInv'
    BY <1>2 DEF RoutesInv, CachedInv
  <2>2. \A p \in Requests : IsCommitted(p) => p # q
    BY <1>2 DEF IsCommitted
  <2>3. Steady' <=> Steady
    BY <1>2 DEF Steady
  <2>4. \A p \in Requests : request'[p].at # "over" => request[p].at # "over"
    BY <1>2, <1>7
  <2>5. ListInv'
    BY <1>2, <1>7, <1>10, <2>2, <2>3, <2>4, ListKept DEF RoutesInv
  <2>6. QED
    BY <2>1, <2>5
<1>14. QED
  BY <1>9, <1>11, <1>12, <1>13 DEF RoutesInv

(* The transaction. *)
LEMMA CommitRouteStep ==
  ASSUME RoutesInv, NEW q \in Requests, CommitRoute(q)
  PROVE  RoutesInv'
<1> DEFINE r == request[q].id
           v == IF request[q].op = "delete" THEN 0 ELSE NextVersion(r)
           rec == [request[q] EXCEPT !.at = "committed", !.ver = v]
<1>1. /\ table \in Tables /\ config \in ConfigType
      /\ request \in [Requests -> MutationType]
      /\ admin \in AdminType /\ cached \in CachedType
  BY RoutesTypes DEF RoutesInv
<1>2. /\ config' = config /\ admin' = admin /\ request[q].at = "sent"
      /\ request[q].op = "update" => table[r] # 0
      /\ table' = [table EXCEPT ![r] = v]
      /\ cached' = [cached EXCEPT !.old = TRUE]
  BY DEF CommitRoute, Committed
<1>3. request' = [request EXCEPT ![q] = rec]
  BY <1>1 DEF CommitRoute, Committed
<1>4. r \in RouteIds /\ request[q].op \in {"create", "update", "delete"}
      /\ table[r] \in 0..MaxVersion
  BY <1>1, <1>2 DEF RoutesInv, MutationInv, Tables
<1>5. /\ v \in 0..MaxVersion
      /\ request[q].op # "delete" => v # 0 /\ table[r] <= v
      /\ request[q].op = "delete" => v = 0
      /\ request[q].op # "delete" /\ table[r] = 0 => v = 1
  BY <1>4, ModelRoutesAssumption DEF NextVersion
<1>6. request[q].op = "create" =>
        /\ ~Heard(r) /\ table[r] = 0
        /\ \A p \in Requests : p # q => request[p].id # r
  BY <1>2 DEF RoutesInv, NewIdInv, IsCreating, Heard
<1> HIDE DEF v
<1>7. rec \in MutationType /\ rec.op = request[q].op /\ rec.id = r /\ rec.at = "committed"
      /\ rec.ver = v /\ rec.kept = request[q].kept
  BY <1>1, <1>5 DEF MutationType
<1> HIDE DEF rec
<1>8. /\ request' \in [Requests -> MutationType] /\ request'[q] = rec
      /\ \A p \in Requests : p # q => request'[p] = request[p]
  BY <1>1, <1>3, <1>7, OneRequest
<1>9. /\ table' \in Tables /\ table'[r] = v
      /\ \A s \in RouteIds : s # r => table'[s] = table[s]
  BY <1>1, <1>2, <1>4, <1>5 DEF Tables
<1>10. /\ cached' \in CachedType /\ cached'.old /\ cached'.data = cached.data
       /\ cached'.answer = cached.answer /\ cached'.at = cached.at
       /\ cached'.loaded = cached.loaded
  BY <1>1, <1>2 DEF CachedType
<1> HIDE DEF r
<1>11. RoutesTypeOK'
  BY <1>1, <1>2, <1>8, <1>9, <1>10
  DEF RoutesTypeOK, MutationType, AdminType, CachedType, ConfigType
<1>12. \A p \in Requests : IsCommitted(p)' <=> IsCommitted(p) \/ p = q
  BY <1>7, <1>8 DEF IsCommitted
<1>13. GenerationInv'
  <2>1. Owed'
    BY <1>7, <1>8 DEF Owed
  <2>2. Generating' = Generating
    BY <1>2, <1>7, <1>8 DEF Generating
  <2>3. QED
    BY <1>2, <2>1, <2>2 DEF RoutesInv, GenerationInv
<1>14. MutationInv'
  <2> SUFFICES ASSUME NEW p \in Requests
               PROVE  /\ request'[p].at = "sent" \/ IsCommitted(p)' =>
                           /\ request'[p].id \in RouteIds
                           /\ request'[p].op \in {"create", "update", "delete"}
                      /\ IsCommitted(p)' =>
                           /\ request'[p].op = "create" => request'[p].ver = 1
                           /\ request'[p].op = "update" => request'[p].ver # 0
                           /\ request'[p].op = "delete" => table'[request'[p].id] = 0
    BY DEF MutationInv
  <2>1. CASE p = q
    BY <1>4, <1>5, <1>6, <1>7, <1>8, <1>9, <2>1
  <2>2. CASE p # q
    <3>1. /\ request'[p] = request[p] /\ (IsCommitted(p)' <=> IsCommitted(p))
      BY <1>8, <1>12, <2>2
    <3>2. /\ request[p].at = "sent" \/ IsCommitted(p) =>
                /\ request[p].id \in RouteIds
                /\ request[p].op \in {"create", "update", "delete"}
          /\ IsCommitted(p) => /\ request[p].op = "create" => request[p].ver = 1
                               /\ request[p].op = "update" => request[p].ver # 0
                               /\ request[p].op = "delete" => table[request[p].id] = 0
      BY DEF RoutesInv, MutationInv
    <3>3. IsCommitted(p) /\ request[p].op = "delete" => table'[request[p].id] = 0
      <4> SUFFICES ASSUME IsCommitted(p), request[p].op = "delete"
                   PROVE  table'[request[p].id] = 0
        OBVIOUS
      <4>1. CASE request[p].id = r
        BY <1>2, <1>4, <1>5, <1>6, <1>9, <2>2, <3>2, <4>1 DEF r
      <4>2. CASE request[p].id # r
        BY <1>9, <3>2, <4>2
      <4>3. QED
        BY <4>1, <4>2
    <3>4. QED
      BY <3>1, <3>2, <3>3
  <2>3. QED
    BY <2>1, <2>2
<1>15. NewIdInv'
  <2>1. \A p \in Requests :
          IsCreating(p)' => IsCreating(p) /\ request'[p].id = request[p].id /\ p # q
    BY <1>7, <1>8 DEF IsCreating
  <2>2. \A p \in Requests : IsCreating(p)' => table'[request[p].id] = 0
    <3> SUFFICES ASSUME NEW p \in Requests, IsCreating(p)'
                 PROVE  table'[request[p].id] = 0
      OBVIOUS
    <3>1. ~Heard(request[p].id) /\ request[p].id # r /\ request[p].id \in RouteIds
      BY <2>1 DEF RoutesInv, NewIdInv, MutationInv, IsCreating, r
    <3>2. QED
      BY <1>9, <3>1 DEF Heard
  <2>3. \A s \in RouteIds :
          \/ Lists(admin.routes, s) \/ cached.data[s] # 0 \/ cached.answer[s] # 0
          \/ \E p \in Requests : Lists(request'[p].kept, s)
          => Heard(s)
    BY <1>7, <1>8 DEF Heard
  <2>4. \A p \in Requests : request'[p].id = request[p].id
    BY <1>7, <1>8 DEF r
  <2>5. \A p \in Requests : IsCommitted(p)' => IsCommitted(p) \/ request[p].at = "sent"
    BY <1>2, <1>12
  <2>6. QED
    BY <1>2, <1>10, <2>1, <2>2, <2>3, <2>4, <2>5, NewIdKept
<1>16. CachedInv'
  BY <1>10 DEF CachedInv
<1>17. ListInv'
  <2> SUFFICES ASSUME admin.open /\ ~admin.off
               PROVE  /\ PlacesInv'
                      /\ \A s \in RouteIds : GoneOrDue(s)' /\ (Steady => ShownOrDue(s)')
    BY <1>2, <1>10 DEF ListInv, Steady
  <2>1. PlacesInv'
    BY <1>2, <1>7, <1>8 DEF RoutesInv, ListInv, PlacesInv
  <2>2. ASSUME NEW s \in RouteIds
        PROVE  /\ GoneOrDue(s) /\ (Steady => ShownOrDue(s))
               /\ At(s)' = At(s) /\ (Once(s) => Once(s)')
               /\ \A op : On(op, s) => On(op, s)'
    <3>1. \A op : On(op, s) => On(op, s)'
      BY <1>7, <1>8, <1>12 DEF On, r
    <3>2. QED
      BY <1>2, <3>1 DEF RoutesInv, ListInv, At, Once
  <2>3. ASSUME NEW s \in RouteIds, s # r
        PROVE  GoneOrDue(s)' /\ (Steady => ShownOrDue(s)')
    <3>1. table'[s] = table[s] /\ (Right(s) => Right(s)')
      BY <1>2, <1>9, <2>3 DEF Right, At
    <3>2. QED
      BY <2>2, <3>1 DEF GoneOrDue, ShownOrDue
  <2>4. ASSUME NEW s \in RouteIds, s = r
        PROVE  GoneOrDue(s)' /\ (Steady => ShownOrDue(s)')
    <3>1. \A op : request[q].op = op => On(op, s)'
      BY <1>7, <1>8, <1>12, <2>4 DEF On
    <3>2. table'[s] = v
      BY <1>9, <2>4
    <3>3. CASE request[q].op = "delete"
      BY <1>5, <3>1, <3>2, <3>3 DEF GoneOrDue, ShownOrDue
    <3>4. CASE request[q].op = "create"
      <4>1. At(s)' = {} /\ v # 0
        BY <1>2, <1>5, <1>6, <2>4, <3>4 DEF Heard, Lists, At
      <4>2. QED
        BY <3>1, <3>2, <3>4, <4>1 DEF GoneOrDue, ShownOrDue
    <3>5. CASE request[q].op = "update"
      <4>1. table[s] # 0 /\ v # 0
        BY <1>2, <1>5, <2>4, <3>5 DEF r
      <4>2. Steady => \/ Once(s) \/ (On("create", s) /\ At(s) = {})
        BY <2>2, <4>1 DEF ShownOrDue, Right, Once
      <4>3. Steady => \/ Once(s)' \/ (On("create", s)' /\ At(s)' = {})
        BY <2>2, <4>2
      <4>4. QED
        BY <3>1, <3>2, <3>5, <4>1, <4>3 DEF GoneOrDue, ShownOrDue
    <3>6. QED
      BY <1>4, <3>3, <3>4, <3>5
  <2>5. QED
    BY <2>1, <2>3, <2>4
<1>18. QED
  BY <1>11, <1>13, <1>14, <1>15, <1>16, <1>17 DEF RoutesInv

(* The file is generated: nothing else changes.                            *)
LEMMA GeneratesOnly ==
  ASSUME RoutesInv, NEW q \in Requests, NEW rec \in MutationType, IsCommitted(q),
         request' = [request EXCEPT ![q] = rec],
         rec.op = request[q].op, rec.id = request[q].id, rec.ver = request[q].ver,
         rec.kept = request[q].kept, rec.at \in {"committed", "read", "done"},
         config' \in ConfigType, table' = table, admin' = admin, cached' = cached
  PROVE  /\ RoutesTypeOK' /\ NewIdInv' /\ MutationInv' /\ CachedInv' /\ ListInv'
         /\ request'[q] = rec
         /\ \A p \in Requests : p # q => request'[p] = request[p]
<1>1. /\ table \in Tables /\ request \in [Requests -> MutationType]
      /\ admin \in AdminType /\ cached \in CachedType
  BY RoutesTypes DEF RoutesInv
<1>2. /\ request' \in [Requests -> MutationType] /\ request'[q] = rec
      /\ \A p \in Requests : p # q => request'[p] = request[p]
  BY <1>1, OneRequest
<1>3. RoutesTypeOK'
  BY <1>1, <1>2 DEF RoutesTypeOK, MutationType, AdminType, CachedType, ConfigType
<1>4. \A p \in Requests :
        /\ request'[p].op = request[p].op /\ request'[p].id = request[p].id
        /\ request'[p].ver = request[p].ver /\ request'[p].kept = request[p].kept
        /\ IsCommitted(p)' <=> IsCommitted(p)
        /\ IsCreating(p)' <=> IsCreating(p)
        /\ request'[p].at = "sent" <=> request[p].at = "sent"
  <2> TAKE p \in Requests
  <2>1. CASE p = q
    BY <1>2, <2>1 DEF IsCommitted, IsCreating
  <2>2. CASE p # q
    BY <1>2, <2>2 DEF IsCommitted, IsCreating
  <2>3. QED
    BY <2>1, <2>2
<1>5. MutationInv'
  BY <1>4, MutationKept DEF RoutesInv
<1>6. NewIdInv'
  <2>1. \A p \in Requests : IsCreating(p) => table[request[p].id] = 0
    BY DEF RoutesInv, NewIdInv, Heard
  <2>2. \A s \in RouteIds :
          \/ Lists(admin.routes, s) \/ cached.data[s] # 0 \/ cached.answer[s] # 0
          \/ \E p \in Requests : Lists(request'[p].kept, s)
          => Heard(s)
    BY <1>4 DEF Heard
  <2>3. QED
    BY <1>4, <2>1, <2>2, NewIdKept
<1>7. CachedInv' /\ ListInv'
  <2>1. CachedInv'
    BY DEF RoutesInv, CachedInv
  <2>2. Steady' <=> Steady
    BY DEF Steady
  <2>3. \A p \in Requests : request'[p].at # "over" => request[p].at # "over"
    BY <1>2 DEF IsCommitted
  <2>4. ListInv'
    BY <1>4, <2>2, <2>3, ListKept DEF RoutesInv
  <2>5. QED
    BY <2>1, <2>4
<1>8. QED
  BY <1>2, <1>3, <1>5, <1>6, <1>7

LEMMA ReadTableStep ==
  ASSUME RoutesInv, NEW q \in Requests, ReadTable(q)
  PROVE  RoutesInv'
<1> DEFINE rec == [request[q] EXCEPT !.at = "read", !.read = table]
<1>1. /\ table \in Tables /\ config \in ConfigType /\ request \in [Requests -> MutationType]
  BY RoutesTypes DEF RoutesInv
<1>2. /\ table' = table /\ admin' = admin /\ cached' = cached
      /\ config' = [config EXCEPT !.spoilt = Generating # {}]
      /\ IsCommitted(q) /\ request[q].at = "committed"
  BY DEF ReadTable, IsCommitted
<1>3. request' = [request EXCEPT ![q] = rec]
  BY <1>1 DEF ReadTable
<1>4. /\ rec \in MutationType /\ rec.at = "read" /\ rec.read = table
      /\ rec.op = request[q].op /\ rec.id = request[q].id
      /\ rec.ver = request[q].ver /\ rec.kept = request[q].kept
  BY <1>1 DEF MutationType
<1> HIDE DEF rec
<1>5. config' \in ConfigType /\ (~config'.spoilt => Generating = {})
  BY <1>1, <1>2 DEF ConfigType
<1>6. /\ RoutesTypeOK' /\ NewIdInv' /\ MutationInv' /\ CachedInv' /\ ListInv'
      /\ request'[q] = rec
      /\ \A p \in Requests : p # q => request'[p] = request[p]
  BY <1>2, <1>3, <1>4, <1>5, GeneratesOnly
<1>7. GenerationInv'
  <2> SUFFICES ASSUME Generating = {}
               PROVE  /\ \A p, p2 \in Generating' : p = p2
                      /\ \A p \in Generating' : request'[p].read = table'
                      /\ Generating' # {}
    BY <1>5 DEF GenerationInv
  <2>1. Generating' = {q}
    BY <1>4, <1>6 DEF Generating
  <2>2. QED
    BY <1>2, <1>4, <1>6, <2>1
<1>8. QED
  BY <1>6, <1>7 DEF RoutesInv

LEMMA WriteConfigStep ==
  ASSUME RoutesInv, NEW q \in Requests, WriteConfig(q)
  PROVE  RoutesInv'
<1> DEFINE rec == [request[q] EXCEPT !.at = "done", !.read = Unmade.read]
<1>1. /\ table \in Tables /\ config \in ConfigType /\ request \in [Requests -> MutationType]
  BY RoutesTypes DEF RoutesInv
<1>2. /\ table' = table /\ admin' = admin /\ cached' = cached
      /\ config' = [config EXCEPT !.file = request[q].read]
      /\ IsCommitted(q) /\ request[q].at = "read"
  BY DEF WriteConfig, IsCommitted
<1>3. request' = [request EXCEPT ![q] = rec]
  BY <1>1 DEF WriteConfig
<1>4. /\ rec \in MutationType /\ rec.at = "done"
      /\ rec.op = request[q].op /\ rec.id = request[q].id
      /\ rec.ver = request[q].ver /\ rec.kept = request[q].kept
  BY <1>1, UnmadeType DEF MutationType
<1> HIDE DEF rec
<1>5. /\ config' \in ConfigType /\ config'.spoilt = config.spoilt
      /\ config'.file = request[q].read
  BY <1>1, <1>2 DEF ConfigType, MutationType
<1>6. /\ RoutesTypeOK' /\ NewIdInv' /\ MutationInv' /\ CachedInv' /\ ListInv'
      /\ request'[q] = rec
      /\ \A p \in Requests : p # q => request'[p] = request[p]
  BY <1>2, <1>3, <1>4, <1>5, GeneratesOnly
<1>7. GenerationInv'
  <2> SUFFICES ASSUME ~config.spoilt
               PROVE  /\ Generating' = {}
                      /\ config'.file = table' \/ Owed'
    BY <1>5 DEF GenerationInv
  <2>1. /\ \A p \in Generating : p = q
        /\ request[q].read = table \/ Owed
    BY <1>2 DEF RoutesInv, GenerationInv, Generating
  <2>2. Generating' = {}
    BY <1>4, <1>6, <2>1 DEF Generating
  <2>3. Owed => Owed'
    BY <1>2, <1>6 DEF Owed
  <2>4. QED
    BY <1>2, <1>5, <2>1, <2>2, <2>3
<1>8. QED
  BY <1>6, <1>7 DEF RoutesInv

LEMMA FailGenerationStep ==
  ASSUME RoutesInv, NEW q \in Requests, FailGeneration(q)
  PROVE  RoutesInv'
<1> DEFINE rec == [request[q] EXCEPT !.at = "done", !.read = Unmade.read]
<1>1. /\ table \in Tables /\ config \in ConfigType /\ request \in [Requests -> MutationType]
  BY RoutesTypes DEF RoutesInv
<1>2. /\ table' = table /\ admin' = admin /\ cached' = cached
      /\ config' = [config EXCEPT !.spoilt = TRUE]
      /\ IsCommitted(q)
  BY DEF FailGeneration, IsCommitted
<1>3. request' = [request EXCEPT ![q] = rec]
  BY <1>1 DEF FailGeneration
<1>4. /\ rec \in MutationType /\ rec.at = "done"
      /\ rec.op = request[q].op /\ rec.id = request[q].id
      /\ rec.ver = request[q].ver /\ rec.kept = request[q].kept
  BY <1>1, UnmadeType DEF MutationType
<1> HIDE DEF rec
<1>5. config' \in ConfigType /\ config'.spoilt
  BY <1>1, <1>2 DEF ConfigType
<1>6. /\ RoutesTypeOK' /\ NewIdInv' /\ MutationInv' /\ CachedInv' /\ ListInv'
  BY <1>2, <1>3, <1>4, <1>5, GeneratesOnly
<1>7. GenerationInv'
  BY <1>5 DEF GenerationInv
<1>8. QED
  BY <1>6, <1>7 DEF RoutesInv

(* The answers. *)
RequestOver == [Unmade EXCEPT !.at = "over"]

LEMMA AnswerKeeps ==
  ASSUME RoutesInv, NEW q \in Requests, request[q].at \in {"sent", "done"},
         request' = [request EXCEPT ![q] = RequestOver],
         table' = table, config' = config, cached' = cached,
         admin' \in AdminType, admin'.editing \in {admin.editing, NoRoute},
         \A s \in RouteIds : Lists(admin'.routes, s) => Heard(s)
  PROVE  /\ RoutesTypeOK' /\ GenerationInv' /\ NewIdInv' /\ MutationInv' /\ CachedInv'
         /\ \A p \in Requests : p # q => request'[p] = request[p]
         /\ \A p \in Requests : IsCommitted(p)' <=> IsCommitted(p) /\ p # q
         /\ Steady' <=> Steady
         /\ request'[q].at = "over"
<1>1. /\ table \in Tables /\ config \in ConfigType
      /\ request \in [Requests -> MutationType] /\ cached \in CachedType
  BY RoutesTypes DEF RoutesInv
<1>2. /\ RequestOver \in MutationType /\ RequestOver.at = "over"
      /\ RequestOver.id = NoRoute /\ RequestOver.kept = NoListing
  BY UnmadeType DEF RequestOver, Unmade
<1>3. /\ request' \in [Requests -> MutationType] /\ request'[q] = RequestOver
      /\ \A p \in Requests : p # q => request'[p] = request[p]
  BY <1>1, <1>2, OneRequest
<1>4. RoutesTypeOK'
  BY <1>1, <1>3 DEF RoutesTypeOK, MutationType, AdminType, CachedType, ConfigType
<1>5. \A p \in Requests : IsCommitted(p)' <=> IsCommitted(p) /\ p # q
  BY <1>2, <1>3 DEF IsCommitted
<1>6. GenerationInv'
  BY <1>2, <1>3, GenerationKept DEF RoutesInv
<1>7. MutationInv'
  BY <1>2, <1>3, <1>5, MutationKept DEF RoutesInv
<1>8. NewIdInv'
  <2>1. \A p \in Requests :
          IsCreating(p)' => IsCreating(p) /\ request'[p].id = request[p].id
    BY <1>2, <1>3 DEF IsCreating
  <2>2. \A p \in Requests : IsCreating(p) => table[request[p].id] = 0
    BY DEF RoutesInv, NewIdInv, Heard
  <2>3. \A s \in RouteIds :
          \/ Lists(admin'.routes, s) \/ cached.data[s] # 0 \/ cached.answer[s] # 0
          \/ \E p \in Requests : Lists(request'[p].kept, s)
          => Heard(s)
    BY <1>2, <1>3, ListedRows DEF Heard
  <2>4. \A p \in Requests : request'[p].id \in {request[p].id, NoRoute}
    BY <1>2, <1>3
  <2>5. \A p \in Requests : IsCommitted(p)' => request'[p].id = request[p].id /\ IsCommitted(p)
    BY <1>3, <1>5
  <2>6. QED
    BY <2>1, <2>2, <2>3, <2>4, <2>5, NewIdKept
<1>9. CachedInv' /\ (Steady' <=> Steady)
  BY DEF RoutesInv, CachedInv, Steady
<1>10. QED
  BY <1>2, <1>3, <1>4, <1>5, <1>6, <1>7, <1>8, <1>9

(* An answer nobody hears leaves a list that is off. *)
LEMMA NobodyHears ==
  ASSUME RoutesInv, NEW q \in Requests, request[q].at \in {"sent", "done"},
         request' = [request EXCEPT ![q] = RequestOver],
         table' = table, config' = config, cached' = cached,
         \/ admin' = Untold
         \/ admin' = admin /\ request[q].at = "sent"
  PROVE  RoutesInv'
<1>1. admin \in AdminType
  BY RoutesTypes DEF RoutesInv
<1>2. /\ admin' \in AdminType /\ admin'.editing = admin.editing
      /\ admin'.routes = admin.routes /\ admin'.open = admin.open
      /\ \/ admin.open => admin'.off
         \/ admin'.off = admin.off /\ request[q].at = "sent"
  BY <1>1 DEF Untold, AdminType
<1>3. \A s \in RouteIds : Lists(admin'.routes, s) => Heard(s)
  BY <1>2 DEF Heard
<1>4. /\ RoutesTypeOK' /\ GenerationInv' /\ NewIdInv' /\ MutationInv' /\ CachedInv'
      /\ \A p \in Requests : p # q => request'[p] = request[p]
      /\ \A p \in Requests : IsCommitted(p)' <=> IsCommitted(p) /\ p # q
      /\ Steady' <=> Steady
  BY <1>2, <1>3, AnswerKeeps
<1>5. ListInv'
  <2>1. CASE admin.open => admin'.off
    BY <1>2, <2>1 DEF ListInv
  <2>2. CASE admin'.off = admin.off /\ request[q].at = "sent"
    <3>1. \A p \in Requests :
            IsCommitted(p) => /\ IsCommitted(p)'
                              /\ request'[p].op = request[p].op /\ request'[p].id = request[p].id
      BY <1>4, <2>2 DEF IsCommitted
    <3>2. \A p \in Requests : request'[p].at # "over" => request[p].at # "over"
      BY <1>4
    <3>3. QED
      BY <1>2, <1>4, <2>2, <3>1, <3>2, ListKept DEF RoutesInv
  <2>3. QED
    BY <1>2, <2>1, <2>2
<1>6. QED
  BY <1>4, <1>5 DEF RoutesInv

(* The other rows are as right as they were, whichever request is over.    *)
LEMMA OtherRowsRight ==
  ASSUME NEW q \in Requests, NEW s \in RouteIds, s # request[q].id, table' = table,
         \A p \in Places : /\ admin'.routes[p][1] = s <=> admin.routes[p][1] = s
                           /\ admin.routes[p][1] = s => admin'.routes[p] = admin.routes[p],
         \A p \in Requests : p # q => request'[p] = request[p],
         \A p \in Requests : IsCommitted(p)' <=> IsCommitted(p) /\ p # q
  PROVE  (GoneOrDue(s) => GoneOrDue(s)') /\ (ShownOrDue(s) => ShownOrDue(s)')
<1>1. \A op : On(op, s) => On(op, s)'
  BY DEF On
<1>2. At(s)' = At(s)
  BY DEF At
<1>3. (Once(s) => Once(s)') /\ (Right(s) => Right(s)')
  BY <1>2 DEF Once, Right, At
<1>4. QED
  BY <1>1, <1>2, <1>3 DEF GoneOrDue, ShownOrDue

LEMMA RouteCreatedStep ==
  ASSUME RoutesInv, NEW q \in Requests, RouteCreated(q)
  PROVE  RoutesInv'
<1>1. /\ admin \in AdminType /\ request[q] \in MutationType /\ table \in Tables
  BY RoutesTypes DEF RoutesInv
<1>2. /\ table' = table /\ config' = config /\ cached' = cached
      /\ request' = [request EXCEPT ![q] = RequestOver]
      /\ request[q].at = "done" /\ request[q].op = "create" /\ IsCommitted(q)
  BY DEF RouteCreated, Answer, RequestOver, IsCommitted
<1>3. CASE request[q].stray
  BY <1>2, <1>3, NobodyHears DEF RouteCreated
<1>4. CASE ~request[q].stray
  <2>0. PICK i \in RouteIds : i = request[q].id
    BY <1>2 DEF RoutesInv, MutationInv
  <2> DEFINE off == admin.off \/ Lists(admin.routes, i) \/ Overtaken(q)
             rows == [admin.routes EXCEPT ![q] = <<i, request[q].ver>>]
  <2>1. request[q].ver = 1 /\ 1 \in 1..MaxVersion /\ q \in Places
    BY <1>2, <2>0, ModelRoutesAssumption DEF RoutesInv, MutationInv, Places
  <2>2. rows \in Listings /\ off \in BOOLEAN
    BY <1>1, <2>1 DEF AdminType, Listings, Routes
  <2>3. admin' = [ResetForm EXCEPT !.routes = rows, !.off = off]
    BY <1>1, <1>4, <2>0 DEF RouteCreated, ResetForm, AdminType
  <2>r. \A p \in Places : rows[p] = IF p = q THEN <<i, 1>> ELSE admin.routes[p]
    BY <1>1, <2>1 DEF AdminType, Listings
  <2> HIDE DEF rows, off
  <2>4. /\ admin' \in AdminType /\ admin'.editing = NoRoute /\ admin'.open = admin.open
        /\ admin'.routes = rows /\ admin'.off = off
    BY <1>1, <2>2, <2>3 DEF ResetForm, AdminType
  <2>5. \A s \in RouteIds : Lists(admin'.routes, s) => Heard(s)
    <3> TAKE s \in RouteIds
    <3> HAVE Lists(admin'.routes, s)
    <3>1. CASE s = i
      BY <1>2, <2>0, <3>1 DEF Heard
    <3>2. CASE s # i
      BY <2>4, <2>r, <3>2 DEF Heard, Lists
    <3>3. QED
      BY <3>1, <3>2
  <2>6. /\ RoutesTypeOK' /\ GenerationInv' /\ NewIdInv' /\ MutationInv' /\ CachedInv'
        /\ \A p \in Requests : p # q => request'[p] = request[p]
        /\ \A p \in Requests : IsCommitted(p)' <=> IsCommitted(p) /\ p # q
        /\ Steady' <=> Steady
        /\ request'[q].at = "over"
    BY <1>2, <2>4, <2>5, AnswerKeeps
  <2>7. ListInv'
    <3> SUFFICES ASSUME admin.open, ~off
                 PROVE  /\ PlacesInv'
                        /\ \A s \in RouteIds : GoneOrDue(s)' /\ (Steady => ShownOrDue(s)')
      BY <2>4, <2>6 DEF ListInv
    <3>1. table[i] = 1 /\ ~Lists(admin.routes, i) /\ admin.routes[q] = NoRow
      BY <1>2, <2>0, <2>1 DEF RoutesInv, ListInv, PlacesInv, off, Overtaken
    <3>2. PlacesInv'
      <4> SUFFICES ASSUME NEW p \in Requests, request'[p].at # "over"
                   PROVE  rows[p] = NoRow
        BY <2>4 DEF PlacesInv
      <4>1. p # q /\ request'[p] = request[p] /\ p \in Places
        BY <2>6 DEF Places
      <4>2. admin.routes[p] = NoRow
        BY <4>1 DEF RoutesInv, ListInv, PlacesInv, off
      <4>3. QED
        BY <2>r, <4>1, <4>2
    <3>3. ASSUME NEW s \in RouteIds, s # i
          PROVE  GoneOrDue(s)' /\ (Steady => ShownOrDue(s)')
      <4>1. \A p \in Places : /\ rows[p][1] = s <=> admin.routes[p][1] = s
                              /\ admin.routes[p][1] = s => rows[p] = admin.routes[p]
        BY <2>r, <3>1, <3>3, ListedRows
      <4>2. GoneOrDue(s) /\ (Steady => ShownOrDue(s))
        BY DEF RoutesInv, ListInv, off
      <4>3. QED
        BY <1>2, <2>0, <2>4, <2>6, <3>3, <4>1, <4>2, OtherRowsRight
    <3>4. GoneOrDue(i)' /\ ShownOrDue(i)'
      <4>1. \A p \in Places : rows[p][1] = i <=> p = q
        BY <2>r, <3>1 DEF Lists
      <4>2. At(i)' = {q} /\ rows[q] = <<i, 1>>
        BY <2>1, <2>4, <2>r, <4>1 DEF At
      <4>3. Right(i)'
        BY <1>2, <2>1, <2>4, <3>1, <4>2 DEF Right
      <4>4. QED
        BY <1>2, <3>1, <4>3 DEF GoneOrDue, ShownOrDue
    <3>5. QED
      BY <3>2, <3>3, <3>4
  <2>8. QED
    BY <2>6, <2>7 DEF RoutesInv
<1>5. QED
  BY <1>3, <1>4

LEMMA RouteUpdatedStep ==
  ASSUME RoutesInv, NEW q \in Requests, RouteUpdated(q)
  PROVE  RoutesInv'
<1>1. /\ admin \in AdminType /\ request[q] \in MutationType /\ table \in Tables
  BY RoutesTypes DEF RoutesInv
<1>2. /\ table' = table /\ config' = config /\ cached' = cached
      /\ request' = [request EXCEPT ![q] = RequestOver]
      /\ request[q].at = "done" /\ request[q].op = "update" /\ IsCommitted(q)
  BY DEF RouteUpdated, Answer, RequestOver, IsCommitted
<1>3. CASE request[q].stray
  BY <1>2, <1>3, NobodyHears DEF RouteUpdated
<1>4. CASE ~request[q].stray
  <2>0. PICK i \in RouteIds : i = request[q].id
    BY <1>2 DEF RoutesInv, MutationInv
  <2> DEFINE e == admin.editing
             off == admin.off \/ e # i \/ Overtaken(q)
             new == <<i, request[q].ver>>
             rows == [p \in Places |-> IF e # NoRoute /\ admin.routes[p][1] = e
                                      THEN new ELSE admin.routes[p]]
  <2>1. request[q].ver \in 1..MaxVersion /\ new \in Routes /\ new[1] = i
    <3>1. request[q].ver # 0
      BY <1>2, <2>0 DEF RoutesInv, MutationInv
    <3>2. request[q].ver \in 0..MaxVersion
      BY <1>1 DEF MutationType
    <3>3. request[q].ver \in 1..MaxVersion
      BY <3>1, <3>2, ModelRoutesAssumption
    <3>4. QED
      BY <3>1, <3>3 DEF Routes
  <2>2. rows \in Listings /\ off \in BOOLEAN
    BY <1>1, <2>1 DEF AdminType, Listings
  <2>3. admin' = [ResetForm EXCEPT !.routes = rows, !.off = off]
    BY <1>1, <1>4, <2>0 DEF RouteUpdated, ResetForm, AdminType
  <2>r. \A p \in Places : rows[p] = IF e # NoRoute /\ admin.routes[p][1] = e
                                   THEN new ELSE admin.routes[p]
    OBVIOUS
  <2> HIDE DEF rows, off, new
  <2>4. /\ admin' \in AdminType /\ admin'.editing = NoRoute /\ admin'.open = admin.open
        /\ admin'.routes = rows /\ admin'.off = off
    BY <1>1, <2>2, <2>3 DEF ResetForm, AdminType
  <2>5. \A s \in RouteIds : Lists(admin'.routes, s) => Heard(s)
    <3> TAKE s \in RouteIds
    <3> HAVE Lists(admin'.routes, s)
    <3>1. CASE s = i
      BY <1>2, <2>0, <3>1 DEF Heard
    <3>2. CASE s # i
      BY <2>1, <2>4, <2>r, <3>2 DEF Heard, Lists
    <3>3. QED
      BY <3>1, <3>2
  <2>6. /\ RoutesTypeOK' /\ GenerationInv' /\ NewIdInv' /\ MutationInv' /\ CachedInv'
        /\ \A p \in Requests : p # q => request'[p] = request[p]
        /\ \A p \in Requests : IsCommitted(p)' <=> IsCommitted(p) /\ p # q
        /\ Steady' <=> Steady
        /\ request'[q].at = "over"
    BY <1>2, <2>4, <2>5, AnswerKeeps
  <2>7. ListInv'
    <3> SUFFICES ASSUME admin.open, ~off
                 PROVE  /\ PlacesInv'
                        /\ \A s \in RouteIds : GoneOrDue(s)' /\ (Steady => ShownOrDue(s)')
      BY <2>4, <2>6 DEF ListInv
    <3>1. e = i /\ table[i] = request[q].ver /\ i # NoRoute
      BY <2>0, <2>1, ModelRoutesAssumption DEF off, Overtaken
    <3>2. PlacesInv'
      <4> SUFFICES ASSUME NEW p \in Requests, request'[p].at # "over"
                   PROVE  rows[p] = NoRow
        BY <2>4 DEF PlacesInv
      <4>1. p # q /\ request'[p] = request[p] /\ p \in Places
        BY <2>6 DEF Places
      <4>2. admin.routes[p] = NoRow
        BY <4>1 DEF RoutesInv, ListInv, PlacesInv, off
      <4>3. QED
        BY <2>1, <2>r, <3>1, <4>1, <4>2, ListedRows
    <3>3. ASSUME NEW s \in RouteIds, s # i
          PROVE  GoneOrDue(s)' /\ (Steady => ShownOrDue(s)')
      <4>1. \A p \in Places : /\ rows[p][1] = s <=> admin.routes[p][1] = s
                              /\ admin.routes[p][1] = s => rows[p] = admin.routes[p]
        BY <2>1, <2>r, <3>1, <3>3
      <4>2. GoneOrDue(s) /\ (Steady => ShownOrDue(s))
        BY DEF RoutesInv, ListInv, off
      <4>3. QED
        BY <1>2, <2>0, <2>4, <2>6, <3>3, <4>1, <4>2, OtherRowsRight
    <3>4. GoneOrDue(i)' /\ (Steady => ShownOrDue(i)')
      <4>1. \A p \in Places : /\ rows[p][1] = i <=> admin.routes[p][1] = i
                              /\ admin.routes[p][1] = i => rows[p] = new
        BY <2>1, <2>r, <3>1
      <4>2. At(i)' = At(i) /\ \A p \in At(i) : rows[p] = new
        BY <2>4, <4>1 DEF At
      <4>3. Once(i) => Right(i)'
        BY <1>2, <2>4, <3>1, <4>2 DEF Once, Right, new
      <4>4. Right(i) => Once(i)
        BY DEF Right, Once
      <4>5. On("create", i) => On("create", i)'
        BY <1>2, <2>6 DEF On
      <4>6. table[i] # 0
        BY <2>1, <3>1, ModelRoutesAssumption
      <4>7. Steady => ShownOrDue(i)
        BY <2>1 DEF RoutesInv, ListInv, off
      <4>8. QED
        BY <1>2, <4>2, <4>3, <4>4, <4>5, <4>6, <4>7 DEF GoneOrDue, ShownOrDue
    <3>5. QED
      BY <3>2, <3>3, <3>4
  <2>8. QED
    BY <2>6, <2>7 DEF RoutesInv
<1>5. QED
  BY <1>3, <1>4

LEMMA RouteDeletedStep ==
  ASSUME RoutesInv, NEW q \in Requests, RouteDeleted(q)
  PROVE  RoutesInv'
<1>1. /\ admin \in AdminType /\ request[q] \in MutationType /\ table \in Tables
  BY RoutesTypes DEF RoutesInv
<1>2. /\ table' = table /\ config' = config /\ cached' = cached
      /\ request' = [request EXCEPT ![q] = RequestOver]
      /\ request[q].at = "done" /\ request[q].op = "delete" /\ IsCommitted(q)
  BY DEF RouteDeleted, Answer, RequestOver, IsCommitted
<1>3. CASE request[q].stray
  BY <1>2, <1>3, NobodyHears DEF RouteDeleted
<1>4. CASE ~request[q].stray
  <2>0. PICK i \in RouteIds : i = request[q].id
    BY <1>2 DEF RoutesInv, MutationInv
  <2> DEFINE list == IF request[q].keeps THEN request[q].kept ELSE admin.routes
             off == admin.off \/ list # admin.routes
             rows == [p \in Places |-> IF list[p][1] = i THEN NoRow ELSE list[p]]
  <2>1. table[i] = 0
    BY <1>2, <2>0 DEF RoutesInv, MutationInv
  <2>2. rows \in Listings /\ off \in BOOLEAN /\ list \in Listings
    BY <1>1 DEF AdminType, MutationType, Listings
  <2>3. admin' = [admin EXCEPT !.routes = rows, !.off = off]
    BY <1>1, <1>4, <2>0 DEF RouteDeleted, AdminType
  <2>r. \A p \in Places : rows[p] = IF list[p][1] = i THEN NoRow ELSE list[p]
    OBVIOUS
  <2> HIDE DEF rows, off
  <2>4. /\ admin' \in AdminType /\ admin'.editing = admin.editing /\ admin'.open = admin.open
        /\ admin'.routes = rows /\ admin'.off = off
    BY <1>1, <2>2, <2>3 DEF AdminType
  <2>5. \A s \in RouteIds : Lists(admin'.routes, s) => Heard(s)
    BY <2>4, <2>r, ListedRows DEF Heard, Lists
  <2>6. /\ RoutesTypeOK' /\ GenerationInv' /\ NewIdInv' /\ MutationInv' /\ CachedInv'
        /\ \A p \in Requests : p # q => request'[p] = request[p]
        /\ \A p \in Requests : IsCommitted(p)' <=> IsCommitted(p) /\ p # q
        /\ Steady' <=> Steady
        /\ request'[q].at = "over"
    BY <1>2, <2>4, <2>5, AnswerKeeps
  <2>7. ListInv'
    <3> SUFFICES ASSUME admin.open, ~off
                 PROVE  /\ PlacesInv'
                        /\ \A s \in RouteIds : GoneOrDue(s)' /\ (Steady => ShownOrDue(s)')
      BY <2>4, <2>6 DEF ListInv
    <3>1. \A p \in Places : rows[p] = IF admin.routes[p][1] = i THEN NoRow ELSE admin.routes[p]
      BY <2>r DEF off
    <3>2. PlacesInv'
      <4> SUFFICES ASSUME NEW p \in Requests, request'[p].at # "over"
                   PROVE  rows[p] = NoRow
        BY <2>4 DEF PlacesInv
      <4>1. p # q /\ request'[p] = request[p] /\ p \in Places
        BY <2>6 DEF Places
      <4>2. admin.routes[p] = NoRow
        BY <4>1 DEF RoutesInv, ListInv, PlacesInv, off
      <4>3. QED
        BY <3>1, <4>1, <4>2
    <3>3. ASSUME NEW s \in RouteIds, s # i
          PROVE  GoneOrDue(s)' /\ (Steady => ShownOrDue(s)')
      <4>1. \A p \in Places : /\ rows[p][1] = s <=> admin.routes[p][1] = s
                              /\ admin.routes[p][1] = s => rows[p] = admin.routes[p]
        BY <3>1, <3>3, ListedRows
      <4>2. GoneOrDue(s) /\ (Steady => ShownOrDue(s))
        BY DEF RoutesInv, ListInv, off
      <4>3. QED
        BY <1>2, <2>0, <2>4, <2>6, <3>3, <4>1, <4>2, OtherRowsRight
    <3>4. GoneOrDue(i)' /\ ShownOrDue(i)'
      <4>1. At(i)' = {}
        BY <2>1, <2>4, <3>1, ListedRows DEF At
      <4>2. QED
        BY <1>2, <2>1, <4>1 DEF GoneOrDue, ShownOrDue
    <3>5. QED
      BY <3>2, <3>3, <3>4
  <2>8. QED
    BY <2>6, <2>7 DEF RoutesInv
<1>5. QED
  BY <1>3, <1>4

LEMMA RoutesInvNext == RoutesInv /\ [RoutesNext]_routeVars => RoutesInv'
<1> SUFFICES ASSUME RoutesInv, [RoutesNext]_routeVars PROVE RoutesInv'
  OBVIOUS
<1>1. CASE \/ OpenRoutes \/ LeaveRoutes \/ RefetchRoutes \/ ServeRoutes
           \/ RoutesFetchFails \/ CancelForm
           \/ \E r \in RouteIds \union {NoRoute} : ShowForm(r)
           \/ UNCHANGED routeVars
  BY <1>1, RoutesPageSteps
<1>2. CASE RoutesArrive
  BY <1>2, RoutesArriveStep
<1>3. ASSUME NEW q \in Requests, RequestStep(q)
      PROVE  RoutesInv'
  <2>1. CASE CommitRoute(q)
    BY <2>1, CommitRouteStep
  <2>2. CASE ReadTable(q) \/ WriteConfig(q) \/ FailGeneration(q)
    BY <2>2, ReadTableStep, WriteConfigStep, FailGenerationStep
  <2>3. CASE RouteCreated(q) \/ RouteUpdated(q) \/ RouteDeleted(q)
    BY <2>3, RouteCreatedStep, RouteUpdatedStep, RouteDeletedStep
  <2>4. CASE RouteFails(q)
    <3>1. /\ request[q].at \in {"sent", "done"}
          /\ request' = [request EXCEPT ![q] = RequestOver]
          /\ table' = table /\ config' = config /\ cached' = cached
          /\ \/ admin' = Untold
             \/ admin' = admin /\ request[q].at = "sent"
      BY <2>4 DEF RouteFails, RequestOver
    <3>2. QED
      BY <3>1, NobodyHears
  <2>5. ASSUME NEW r \in RouteIds, SaveRoute(q, r) \/ DeleteRoute(q, r)
        PROVE  RoutesInv'
    BY <2>5, SaveRouteStep, DeleteRouteStep
  <2>6. QED
    BY <1>3, <2>1, <2>2, <2>3, <2>4, <2>5 DEF RequestStep
<1>4. QED
  BY <1>1, <1>2, <1>3 DEF RoutesNext

THEOREM RoutesTypeCorrect == RoutesSpec => []RoutesTypeOK
<1>1. RoutesInv => RoutesTypeOK
  BY DEF RoutesInv
<1>2. QED
  BY <1>1, RoutesInvInit, RoutesInvNext, PTL DEF RoutesSpec

(* With every request served, the file LiteLLM reads is the table, unless  *)
(* the last generations of it overlapped or one failed: whatever has been  *)
(* committed since a generation read the table has a generation of its own *)
(* to come.                                                                *)
THEOREM ServedConfigIsTheTable == RoutesSpec => []ConfigIsTheTable
<1>1. RoutesInv => ConfigIsTheTable
  <2> SUFFICES ASSUME RoutesInv, AtRest, ~config.spoilt
               PROVE  config.file = table
    BY DEF ConfigIsTheTable
  <2>1. Generating = {} /\ ~Owed
    BY DEF AtRest, Generating, Owed
  <2>2. QED
    BY <2>1 DEF RoutesInv, GenerationInv
<1>2. QED
  BY <1>1, RoutesInvInit, RoutesInvNext, PTL DEF RoutesSpec

(* With every request answered, the list of an open page is the table,     *)
(* unless it is off for one of the reasons the page cannot help: no        *)
(* invalidation is needed to put any other list right, however many        *)
(* creates, updates and deletes went on beside each other.                 *)
THEOREM RestingListIsTheTable == RoutesSpec => []ListIsTheTable
<1>1. RoutesInv => ListIsTheTable
  <2> SUFFICES ASSUME RoutesInv, AtRest,
                      admin.open, cached.loaded, cached.at = "idle", ~admin.off
               PROVE  \A r \in RouteIds : Shows(admin.routes, r, table[r])
    BY DEF ListIsTheTable
  <2>1. \A op : \A r \in RouteIds : ~On(op, r)
    BY DEF AtRest, On, IsCommitted
  <2>2. ASSUME NEW r \in RouteIds PROVE Shows(admin.routes, r, table[r])
    <3>1. GoneOrDue(r) /\ ShownOrDue(r)
      BY DEF RoutesInv, ListInv, Steady
    <3>2. CASE table[r] = 0
      BY <2>1, <3>1, <3>2 DEF GoneOrDue, At, Shows, Lists
    <3>3. CASE table[r] # 0
      <4>1. Right(r)
        BY <2>1, <3>1, <3>3 DEF ShownOrDue
      <4>2. QED
        BY <3>3, <4>1 DEF Right, At, Shows
    <3>4. QED
      BY <3>2, <3>3
  <2>3. QED
    BY <2>2
<1>2. QED
  BY <1>1, RoutesInvInit, RoutesInvNext, PTL DEF RoutesSpec

----------------------------------------------------------------------------
(* The system records.                                                     *)

CatalogueType == [order : Seq(Entries), named : [Entries -> Names],
                  form : [Entries -> Entries], byHand : [Entries -> BOOLEAN]]
ListingType   == [order : Seq(Entries), named : [Entries -> Names], fresh : BOOLEAN]
ModalType     == [page : BOOLEAN, chosen : Entries \union {Nothing}, open : BOOLEAN,
                  from : Entries \union {Nothing}, named : Names \union {0}]
EditType      == [at : {"unmade", "sent", "written", "over"},
                  id : Entries \union {Nothing}, from : Entries \union {Nothing},
                  named : Names \union {0}, byHand : BOOLEAN, stray : BOOLEAN]

(* Records are listed once; the list a page has is the older end of the    *)
(* list there is.                                                          *)
Distinct(order)    == \A i, j \in DOMAIN order : order[i] = order[j] => i = j
OlderEnd(old, new) == /\ Len(old) <= Len(new)
                      /\ \A i \in 1..Len(old) : new[i + (Len(new) - Len(old))] = old[i]
Newer(order, a, b) == \E i, j \in DOMAIN order : order[i] = a /\ order[j] = b /\ i < j

(* Text of another record: of an older one, where nothing was chosen.      *)
SlidIn(order, id, from, byHand) ==
  id \in Entries /\ from \in Entries /\ (from # id => ~byHand /\ Newer(order, id, from))

ModalInv ==
  /\ modal.chosen # Nothing => modal.chosen \in There(listing.order)
  /\ modal.open => /\ modal.from \in There(listing.order)
                   /\ modal.named # 0
                   /\ modal.chosen # Nothing => modal.from = modal.chosen

EditInv ==
  \A i \in Edits :
    edit[i].at \in {"sent", "written"} =>
      /\ SlidIn(catalogue.order, edit[i].id, edit[i].from, edit[i].byHand)
      /\ edit[i].named # 0

FormInv ==
  \A e \in Entries : SlidIn(catalogue.order, e, catalogue.form[e], catalogue.byHand[e])

RecordsInv ==
  /\ RecordsTypeOK
  /\ Distinct(catalogue.order)
  /\ OlderEnd(listing.order, catalogue.order)
  /\ ModalInv
  /\ EditInv
  /\ FormInv

LEMMA RecordsTypes ==
  RecordsTypeOK <=> /\ catalogue \in CatalogueType /\ listing \in ListingType
                    /\ modal \in ModalType /\ edit \in [Edits -> EditType]
  BY DEF RecordsTypeOK, CatalogueType, ListingType, ModalType, EditType

(* Lists.                                                                  *)
LEMMA OlderEndIsThere ==
  ASSUME NEW old \in Seq(Entries), NEW new \in Seq(Entries), OlderEnd(old, new)
  PROVE  There(old) \subseteq There(new)
<1> SUFFICES ASSUME NEW i \in DOMAIN old PROVE old[i] \in There(new)
  BY DEF There
<1> DEFINE k == i + (Len(new) - Len(old))
<1>1. Len(old) \in Nat /\ Len(new) \in Nat /\ i \in 1..Len(old) /\ Len(old) <= Len(new)
  BY DEF OlderEnd
<1>2. k \in 1..Len(new)
  BY <1>1
<1>3. new[k] = old[i]
  BY <1>1 DEF OlderEnd
<1>4. QED
  BY <1>2, <1>3 DEF There

LEMMA NewerInOlderEnd ==
  ASSUME NEW old \in Seq(Entries), NEW new \in Seq(Entries), OlderEnd(old, new),
         NEW a, NEW b, Newer(old, a, b)
  PROVE  Newer(new, a, b)
<1>1. PICK i, j \in DOMAIN old : old[i] = a /\ old[j] = b /\ i < j
  BY DEF Newer
<1> DEFINE d == Len(new) - Len(old)
<1>2. Len(old) \in Nat /\ Len(new) \in Nat /\ Len(old) <= Len(new)
      /\ i \in 1..Len(old) /\ j \in 1..Len(old)
  BY <1>1 DEF OlderEnd
<1>3. i + d \in 1..Len(new) /\ j + d \in 1..Len(new) /\ i + d < j + d
  BY <1>1, <1>2
<1>4. new[i + d] = a /\ new[j + d] = b
  BY <1>1, <1>2 DEF OlderEnd
<1>5. QED
  BY <1>3, <1>4 DEF Newer

(* The list of a catalogue to which a record has been added. *)
LEMMA RecordOnTop ==
  ASSUME NEW order \in Seq(Entries), NEW e \in Entries
  PROVE  /\ <<e>> \o order \in Seq(Entries)
         /\ Len(<<e>> \o order) = Len(order) + 1
         /\ (<<e>> \o order)[1] = e
         /\ \A i \in 1..Len(order) : (<<e>> \o order)[i + 1] = order[i]
<1>1. Len(<<e>>) = 1 /\ <<e>>[1] = e /\ <<e>> \in Seq(Entries)
  OBVIOUS
<1>2. QED
  BY <1>1

LEMMA AddedOnTop ==
  ASSUME NEW order \in Seq(Entries), NEW e \in Entries, e \notin There(order), Distinct(order)
  PROVE  /\ <<e>> \o order \in Seq(Entries)
         /\ Distinct(<<e>> \o order)
         /\ OlderEnd(order, <<e>> \o order)
         /\ \A old \in Seq(Entries) : OlderEnd(old, order) => OlderEnd(old, <<e>> \o order)
<1> DEFINE more == <<e>> \o order
<1>1. /\ more \in Seq(Entries) /\ Len(more) = Len(order) + 1 /\ more[1] = e
      /\ \A i \in 1..Len(order) : more[i + 1] = order[i]
      /\ Len(order) \in Nat
  BY RecordOnTop
<1> HIDE DEF more
<1>2. \A i \in DOMAIN more : i = 1 \/ (i - 1 \in 1..Len(order) /\ more[i] = order[i - 1])
  <2> TAKE i \in DOMAIN more
  <2>1. i \in 1..(Len(order) + 1)
    BY <1>1
  <2>2. CASE i # 1
    <3>1. i - 1 \in 1..Len(order) /\ (i - 1) + 1 = i
      BY <1>1, <2>1, <2>2
    <3>2. QED
      BY <1>1, <3>1
  <2>3. QED
    BY <2>2
<1>3. \A i \in 1..Len(order) : order[i] # e
  BY DEF There
<1>4. Distinct(more)
  <2> SUFFICES ASSUME NEW i \in DOMAIN more, NEW j \in DOMAIN more, more[i] = more[j]
               PROVE  i = j
    BY DEF Distinct
  <2>1. i \in Int /\ j \in Int
    BY <1>1
  <2>2. CASE i = 1 \/ j = 1
    BY <1>1, <1>2, <1>3, <2>2
  <2>3. CASE i # 1 /\ j # 1
    <3>1. i - 1 = j - 1
      BY <1>2, <2>3 DEF Distinct
    <3>2. QED
      BY <2>1, <3>1
  <2>4. QED
    BY <2>2, <2>3
<1>5. OlderEnd(order, more)
  BY <1>1 DEF OlderEnd
<1>6. ASSUME NEW old \in Seq(Entries), OlderEnd(old, order)
      PROVE  OlderEnd(old, more)
  <2>1. Len(old) \in Nat /\ Len(old) <= Len(order)
    BY <1>6 DEF OlderEnd
  <2>2. ASSUME NEW i \in 1..Len(old)
        PROVE  more[i + (Len(more) - Len(old))] = old[i]
    <3> DEFINE k == i + (Len(order) - Len(old))
    <3>1. k \in 1..Len(order) /\ k + 1 = i + (Len(more) - Len(old))
      BY <1>1, <2>1
    <3>2. order[k] = old[i]
      BY <1>6 DEF OlderEnd
    <3>3. QED
      BY <1>1, <3>1, <3>2
  <2>3. QED
    BY <1>1, <2>1, <2>2 DEF OlderEnd
<1>7. QED
  BY <1>1, <1>4, <1>5, <1>6 DEF more

LEMMA SlidInKept ==
  ASSUME NEW old \in Seq(Entries), NEW new \in Seq(Entries), OlderEnd(old, new),
         NEW a, NEW b, NEW h, SlidIn(old, a, b, h)
  PROVE  SlidIn(new, a, b, h)
BY NewerInOlderEnd DEF SlidIn

LEMMA SameEnd ==
  ASSUME NEW order \in Seq(Entries)
  PROVE  OlderEnd(order, order)
<1>1. Len(order) \in Nat /\ \A i \in 1..Len(order) : i + (Len(order) - Len(order)) = i
  OBVIOUS
<1>2. QED
  BY <1>1 DEF OlderEnd

(* The record shown, and the text a modal took from it.                    *)
LEMMA ShownIsListed ==
  ASSUME RecordsInv, listing.order # <<>>
  PROVE  /\ ShownRecord \in There(listing.order) /\ ShownRecord \in Entries
         /\ There(listing.order) \subseteq Entries
         /\ modal.chosen # Nothing => ShownRecord = modal.chosen
         /\ modal.chosen = Nothing =>
              ShownRecord = listing.order[1] /\ 1 \in DOMAIN listing.order
<1>1. listing.order \in Seq(Entries)
  BY RecordsTypes DEF RecordsInv, ListingType
<1>2. 1 \in DOMAIN listing.order /\ Head(listing.order) = listing.order[1]
  BY <1>1
<1>3. There(listing.order) \subseteq Entries
  BY <1>1 DEF There
<1>4. Nothing \notin There(listing.order)
  BY <1>3, SystemRecordsAssumption
<1>5. QED
  BY <1>2, <1>3, <1>4 DEF ShownRecord, There, RecordsInv, ModalInv

LEMMA NoNameIsZero == 0 \notin Names
  BY SystemRecordsAssumption DEF Names, Edits

LEMMA RecordsInvInit == RecordsInit => RecordsInv
<1> SUFFICES ASSUME RecordsInit PROVE RecordsInv
  OBVIOUS
<1>1. PICK e \in Entries : catalogue.order = <<e>>
  BY DEF RecordsInit
<1>2. /\ catalogue = [order |-> <<e>>, named |-> [x \in Entries |-> x],
                      form |-> [x \in Entries |-> x], byHand |-> [x \in Entries |-> FALSE]]
  BY <1>1 DEF RecordsInit
<1>3. <<e>> \in Seq(Entries) /\ <<>> \in Seq(Entries) /\ Len(<<e>>) = 1 /\ Len(<<>>) = 0
  OBVIOUS
<1>4. [x \in Entries |-> x] \in [Entries -> Names]
  BY DEF Names
<1>5. catalogue \in CatalogueType /\ listing \in ListingType
  BY <1>2, <1>3, <1>4 DEF RecordsInit, CatalogueType, ListingType
<1>6. modal \in ModalType /\ edit \in [Edits -> EditType]
  BY DEF RecordsInit, NoModal, ModalType, EditType
<1>7. RecordsTypeOK
  BY <1>5, <1>6, RecordsTypes
<1>8. Distinct(catalogue.order)
  BY <1>1, <1>3 DEF Distinct
<1>9. OlderEnd(listing.order, catalogue.order)
  <2>1. listing.order = <<>>
    BY DEF RecordsInit
  <2>2. QED
    BY <1>1, <1>3, <2>1 DEF OlderEnd
<1>10. ModalInv /\ EditInv
  BY DEF RecordsInit, NoModal, ModalInv, EditInv
<1>11. FormInv
  BY <1>2 DEF FormInv, SlidIn
<1>12. QED
  BY <1>7, <1>8, <1>9, <1>10, <1>11 DEF RecordsInv

(* The page: no record and no mutation changes, but some may be stray.     *)
LEMMA RecordsPageSteps ==
  ASSUME RecordsInv, catalogue' = catalogue, listing' \in ListingType, modal' \in ModalType,
         edit' \in [Edits -> EditType],
         \A i \in Edits : /\ edit'[i].at = edit[i].at \/ edit'[i].at = "over"
                          /\ edit'[i].id = edit[i].id /\ edit'[i].from = edit[i].from
                          /\ edit'[i].named = edit[i].named /\ edit'[i].byHand = edit[i].byHand,
         listing'.order = listing.order \/ listing'.order = catalogue.order,
         \/ modal'.chosen = modal.chosen
         \/ modal'.chosen = Nothing
         \/ modal'.chosen \in There(listing.order) /\ ~modal'.open,
         modal'.open =>
           \/ /\ modal.open /\ modal'.from = modal.from /\ modal'.named = modal.named
              /\ modal'.chosen = modal.chosen
           \/ /\ modal'.from = ShownRecord /\ modal'.named # 0 /\ listing.order # <<>>
              /\ modal'.chosen = modal.chosen
  PROVE  RecordsInv'
<1>1. catalogue \in CatalogueType /\ catalogue.order \in Seq(Entries)
      /\ listing.order \in Seq(Entries)
  BY RecordsTypes DEF RecordsInv, CatalogueType, ListingType
<1>2. RecordsTypeOK'
  BY <1>1 DEF RecordsTypeOK, CatalogueType, ListingType, ModalType, EditType
<1>3. There(listing.order) \subseteq There(listing'.order)
  BY <1>1, OlderEndIsThere DEF RecordsInv
<1>4. OlderEnd(listing'.order, catalogue.order)
  BY <1>1, SameEnd DEF RecordsInv
<1>5. ModalInv'
  BY <1>3, ShownIsListed DEF RecordsInv, ModalInv
<1>6. EditInv' /\ FormInv'
  BY DEF RecordsInv, EditInv, FormInv
<1>7. QED
  BY <1>2, <1>4, <1>5, <1>6 DEF RecordsInv

LEMMA VisitSteps ==
  ASSUME RecordsInv,
         \/ OpenRecords \/ LeaveRecords \/ ReadListing \/ ListingGoesStale
         \/ OpenModal \/ CloseModal \/ \E e \in Entries : ChooseRecord(e)
         \/ UNCHANGED recordsVars
  PROVE  RecordsInv'
<1>1. /\ catalogue \in CatalogueType /\ listing \in ListingType
      /\ modal \in ModalType /\ edit \in [Edits -> EditType]
  BY RecordsTypes DEF RecordsInv
<1>2. catalogue' = catalogue
  BY DEF OpenRecords, LeaveRecords, ReadListing, ListingGoesStale, OpenModal, CloseModal,
         ChooseRecord, recordsVars
<1>3. NoModal \in ModalType /\ NoModal.chosen = Nothing /\ ~NoModal.open
  BY DEF NoModal, ModalType
<1>4. /\ listing' \in ListingType
      /\ listing'.order = listing.order \/ listing'.order = catalogue.order
  <2>1. CASE ReadListing
    BY <1>1, <2>1 DEF ReadListing, CatalogueType, ListingType
  <2>2. CASE ListingGoesStale
    BY <1>1, <2>2 DEF ListingGoesStale, ListingType
  <2>3. CASE listing' = listing
    BY <1>1, <2>3
  <2>4. QED
    BY <2>1, <2>2, <2>3 DEF OpenRecords, LeaveRecords, OpenModal, CloseModal, ChooseRecord,
                            recordsVars
<1>5. /\ edit' \in [Edits -> EditType]
      /\ \A i \in Edits :
           /\ edit'[i].at = edit[i].at
           /\ edit'[i].id = edit[i].id /\ edit'[i].from = edit[i].from
           /\ edit'[i].named = edit[i].named /\ edit'[i].byHand = edit[i].byHand
  <2>1. CASE LeaveRecords
    <3> DEFINE stray(i) == edit[i].stray \/ i \in Busy
    <3>1. edit' = [i \in Edits |-> [edit[i] EXCEPT !.stray = stray(i)]]
      BY <2>1 DEF LeaveRecords
    <3>2. \A i \in Edits : stray(i) \in BOOLEAN
      BY <1>1 DEF EditType
    <3> HIDE DEF stray
    <3>3. \A i \in Edits : edit'[i] \in EditType
      BY <1>1, <3>1, <3>2 DEF EditType
    <3>4. edit' \in [Edits -> EditType]
      BY <3>1, <3>3
    <3>5. QED
      BY <1>1, <3>1, <3>4 DEF EditType
  <2>2. CASE edit' = edit
    BY <1>1, <2>2
  <2>3. QED
    BY <2>1, <2>2 DEF OpenRecords, ReadListing, ListingGoesStale, OpenModal, CloseModal,
                      ChooseRecord, recordsVars
<1>6. /\ modal' \in ModalType
      /\ \/ modal'.chosen = modal.chosen
         \/ modal'.chosen = Nothing
         \/ modal'.chosen \in There(listing.order) /\ ~modal'.open
      /\ modal'.open =>
           \/ /\ modal.open /\ modal'.from = modal.from /\ modal'.named = modal.named
              /\ modal'.chosen = modal.chosen
           \/ /\ modal'.from = ShownRecord /\ modal'.named # 0 /\ listing.order # <<>>
              /\ modal'.chosen = modal.chosen
  <2>1. CASE OpenRecords
    BY <1>3, <2>1 DEF OpenRecords, NoModal, ModalType
  <2>2. CASE LeaveRecords
    BY <1>3, <2>2 DEF LeaveRecords
  <2>3. ASSUME NEW e \in Entries, ChooseRecord(e)
        PROVE  /\ modal' \in ModalType /\ ~modal'.open
               /\ modal'.chosen \in There(listing.order)
    BY <1>1, <2>3 DEF ChooseRecord, ModalType
  <2>4. CASE OpenModal
    <3> DEFINE shown == ShownRecord
               named == listing.named[shown]
    <3>1. listing.order # <<>> /\ shown \in Entries
      BY <2>4, ShownIsListed DEF OpenModal
    <3>2. named \in Names /\ named # 0
      BY <1>1, <3>1, NoNameIsZero DEF ListingType
    <3>3. modal' = [modal EXCEPT !.open = TRUE, !.from = shown, !.named = named]
      BY <2>4 DEF OpenModal
    <3> HIDE DEF shown, named
    <3>4. /\ modal' \in ModalType /\ modal'.from = shown /\ modal'.named = named
          /\ modal'.chosen = modal.chosen
      BY <1>1, <3>1, <3>2, <3>3 DEF ModalType
    <3>5. QED
      BY <3>1, <3>2, <3>4 DEF shown
  <2>5. CASE CloseModal
    BY <1>1, <2>5 DEF CloseModal, Closed, ModalType
  <2>6. CASE modal' = modal
    BY <1>1, <2>6
  <2>7. QED
    BY <2>1, <2>2, <2>3, <2>4, <2>5, <2>6 DEF ReadListing, ListingGoesStale, recordsVars
<1>7. QED
  BY <1>2, <1>4, <1>5, <1>6, RecordsPageSteps

(* Save: the record shown by then is the one the text is from, or slid in  *)
(* over it.                                                                *)
LEMMA SaveRecordStep ==
  ASSUME RecordsInv, NEW i \in Edits, SaveRecord(i)
  PROVE  RecordsInv'
<1> DEFINE shown == ShownRecord
           hand  == modal.chosen # Nothing
<1>1. /\ catalogue \in CatalogueType /\ listing \in ListingType
      /\ modal \in ModalType /\ edit \in [Edits -> EditType]
      /\ listing.order \in Seq(Entries) /\ catalogue.order \in Seq(Entries)
  BY RecordsTypes DEF RecordsInv, ListingType, CatalogueType
<1>2. UNCHANGED <<catalogue, listing, modal>> /\ modal.open
  BY DEF SaveRecord
<1>3. PICK name \in {modal.named, i} :
        edit' = [edit EXCEPT ![i] = [at |-> "sent", id |-> shown, from |-> modal.from,
                                     named |-> name, byHand |-> hand, stray |-> FALSE]]
  BY DEF SaveRecord
<1>4. modal.from \in There(listing.order) /\ modal.named # 0
      /\ (modal.chosen # Nothing => modal.from = modal.chosen)
  BY <1>2 DEF RecordsInv, ModalInv
<1>5. listing.order # <<>>
  BY <1>4 DEF There
<1>6. /\ shown \in Entries /\ modal.from \in Entries
      /\ modal.from # shown => /\ ~hand
                               /\ Newer(listing.order, shown, modal.from)
  <2>1. shown \in Entries /\ modal.from \in Entries
    BY <1>4, <1>5, ShownIsListed
  <2>2. ASSUME modal.from # shown
        PROVE  ~hand /\ Newer(listing.order, shown, modal.from)
    <3>1. modal.chosen = Nothing
      BY <1>4, <1>5, <2>2, ShownIsListed
    <3>2. shown = listing.order[1] /\ 1 \in DOMAIN listing.order
      BY <1>5, <3>1, ShownIsListed
    <3>3. PICK j \in DOMAIN listing.order : listing.order[j] = modal.from
      BY <1>4 DEF There
    <3>4. 1 < j
      BY <1>1, <2>2, <3>2, <3>3
    <3>5. QED
      BY <3>1, <3>2, <3>3, <3>4 DEF Newer
  <2>3. QED
    BY <2>1, <2>2
<1>7. name \in Names /\ name # 0
  BY <1>1, <1>4, NoNameIsZero DEF Names, ModalType
<1>8. SlidIn(catalogue.order, shown, modal.from, hand)
  BY <1>1, <1>6, NewerInOlderEnd DEF SlidIn, RecordsInv
<1> DEFINE x == [at |-> "sent", id |-> shown, from |-> modal.from,
                 named |-> name, byHand |-> hand, stray |-> FALSE]
<1>9. x \in EditType /\ x.id = shown /\ x.from = modal.from /\ x.named = name /\ x.byHand = hand
  <2>1. hand \in BOOLEAN
    OBVIOUS
  <2> HIDE DEF hand, shown
  <2>2. QED
    BY <1>6, <1>7, <2>1 DEF EditType
<1> HIDE DEF x, shown, hand
<1>10. /\ edit' \in [Edits -> EditType] /\ edit'[i] = x
       /\ \A j \in Edits : j # i => edit'[j] = edit[j]
  BY <1>1, <1>3, <1>9 DEF x
<1>11. RecordsTypeOK'
  BY <1>1, <1>2, <1>10 DEF RecordsTypeOK, CatalogueType, ListingType, ModalType, EditType
<1>12. EditInv'
  BY <1>2, <1>7, <1>8, <1>9, <1>10 DEF RecordsInv, EditInv
<1>13. QED
  BY <1>2, <1>11, <1>12 DEF RecordsInv, ModalInv, FormInv

(* admin-api. *)
LEMMA WriteRecordStep ==
  ASSUME RecordsInv, NEW i \in Edits, WriteRecord(i)
  PROVE  RecordsInv'
<1> DEFINE id == edit[i].id
           x == [edit[i] EXCEPT !.at = "written"]
<1>1. /\ catalogue \in CatalogueType /\ edit \in [Edits -> EditType]
      /\ listing \in ListingType /\ modal \in ModalType
  BY RecordsTypes DEF RecordsInv
<1>2. /\ edit[i].at = "sent" /\ UNCHANGED <<listing, modal>>
      /\ catalogue' = [catalogue EXCEPT !.form[id] = edit[i].from,
                                        !.named[id] = edit[i].named,
                                        !.byHand[id] = edit[i].byHand]
      /\ edit' = [edit EXCEPT ![i] = x]
  BY <1>1 DEF WriteRecord
<1>3. /\ SlidIn(catalogue.order, id, edit[i].from, edit[i].byHand)
      /\ edit[i].named \in Names /\ edit[i].byHand \in BOOLEAN
  BY <1>1, <1>2 DEF RecordsInv, EditInv, EditType
<1>4. id \in Entries /\ edit[i].from \in Entries
  BY <1>3 DEF SlidIn
<1>5. /\ x \in EditType /\ x.id = id /\ x.from = edit[i].from /\ x.named = edit[i].named
      /\ x.byHand = edit[i].byHand
  BY <1>1 DEF EditType
<1> HIDE DEF x
<1>6. /\ edit' \in [Edits -> EditType] /\ edit'[i] = x
      /\ \A j \in Edits : j # i => edit'[j] = edit[j]
  BY <1>1, <1>2, <1>5
<1>7. /\ catalogue' \in CatalogueType /\ catalogue'.order = catalogue.order
      /\ catalogue'.form = [catalogue.form EXCEPT ![id] = edit[i].from]
      /\ catalogue'.byHand = [catalogue.byHand EXCEPT ![id] = edit[i].byHand]
  <2> DEFINE form == [catalogue.form EXCEPT ![id] = edit[i].from]
             named == [catalogue.named EXCEPT ![id] = edit[i].named]
             hand == [catalogue.byHand EXCEPT ![id] = edit[i].byHand]
  <2>1. /\ form \in [Entries -> Entries] /\ named \in [Entries -> Names]
        /\ hand \in [Entries -> BOOLEAN]
    BY <1>1, <1>3, <1>4 DEF CatalogueType
  <2>2. catalogue' = [catalogue EXCEPT !.form = form, !.named = named, !.byHand = hand]
    BY <1>1, <1>2 DEF CatalogueType
  <2> HIDE DEF form, named, hand
  <2>3. /\ catalogue' \in CatalogueType /\ catalogue'.order = catalogue.order
        /\ catalogue'.form = form /\ catalogue'.byHand = hand
    BY <1>1, <2>1, <2>2 DEF CatalogueType
  <2>4. QED
    BY <2>3 DEF form, hand
<1>8. RecordsTypeOK'
  BY <1>1, <1>2, <1>6, <1>7 DEF RecordsTypeOK, CatalogueType, ListingType, ModalType, EditType
<1> HIDE DEF id
<1>9. FormInv'
  <2> SUFFICES ASSUME NEW e \in Entries
               PROVE  SlidIn(catalogue.order, e, catalogue'.form[e], catalogue'.byHand[e])
    BY <1>7 DEF FormInv
  <2>1. CASE e = id
    BY <1>1, <1>3, <1>4, <1>7, <2>1 DEF CatalogueType
  <2>2. CASE e # id
    <3>1. catalogue'.form[e] = catalogue.form[e] /\ catalogue'.byHand[e] = catalogue.byHand[e]
      BY <1>1, <1>7, <2>2 DEF CatalogueType
    <3>2. QED
      BY <3>1 DEF RecordsInv, FormInv
  <2>3. QED
    BY <2>1, <2>2
<1>10. EditInv'
  <2> SUFFICES ASSUME NEW j \in Edits, edit'[j].at \in {"sent", "written"}
               PROVE  /\ SlidIn(catalogue.order, edit'[j].id, edit'[j].from, edit'[j].byHand)
                      /\ edit'[j].named # 0
    BY <1>7 DEF EditInv
  <2>1. CASE j = i
    BY <1>2, <1>5, <1>6, <2>1 DEF RecordsInv, EditInv, id
  <2>2. CASE j # i
    BY <1>6, <2>2 DEF RecordsInv, EditInv
  <2>3. QED
    BY <2>1, <2>2
<1>11. QED
  BY <1>2, <1>7, <1>8, <1>9, <1>10 DEF RecordsInv, ModalInv

LEMMA AddRecordStep ==
  ASSUME RecordsInv, NEW e \in Entries, AddRecord(e)
  PROVE  RecordsInv'
<1> DEFINE more == <<e>> \o catalogue.order
<1>1. /\ catalogue \in CatalogueType /\ catalogue.order \in Seq(Entries)
      /\ listing.order \in Seq(Entries)
  BY RecordsTypes DEF RecordsInv, CatalogueType, ListingType
<1>2. /\ e \notin There(catalogue.order) /\ UNCHANGED <<listing, modal, edit>>
      /\ catalogue' = [catalogue EXCEPT !.order = more]
  BY DEF AddRecord
<1>3. /\ more \in Seq(Entries) /\ Distinct(more) /\ OlderEnd(catalogue.order, more)
      /\ OlderEnd(listing.order, more)
  BY <1>1, <1>2, AddedOnTop DEF RecordsInv
<1> HIDE DEF more
<1>4. /\ catalogue' \in CatalogueType /\ catalogue'.order = more
      /\ catalogue'.form = catalogue.form /\ catalogue'.byHand = catalogue.byHand
  BY <1>1, <1>2, <1>3 DEF CatalogueType
<1>5. RecordsTypeOK'
  BY <1>2, <1>4 DEF RecordsInv, RecordsTypeOK, CatalogueType
<1>6. \A a, b, h : SlidIn(catalogue.order, a, b, h) => SlidIn(more, a, b, h)
  BY <1>1, <1>3, SlidInKept
<1>7. EditInv' /\ FormInv'
  BY <1>2, <1>4, <1>6 DEF RecordsInv, EditInv, FormInv
<1>8. QED
  BY <1>2, <1>3, <1>4, <1>5, <1>7 DEF RecordsInv, ModalInv

LEMMA SaveOverStep ==
  ASSUME RecordsInv, NEW i \in Edits, SaveAnswered(i) \/ SaveLost(i)
  PROVE  RecordsInv'
<1> DEFINE x == [edit[i] EXCEPT !.at = "over"]
<1>1. /\ catalogue \in CatalogueType /\ listing \in ListingType
      /\ modal \in ModalType /\ edit \in [Edits -> EditType]
  BY RecordsTypes DEF RecordsInv
<1>2. /\ catalogue' = catalogue /\ edit' = [edit EXCEPT ![i] = x]
      /\ listing' \in ListingType /\ listing'.order = listing.order
      /\ modal' = modal \/ modal' = Closed(modal)
  BY <1>1 DEF SaveAnswered, SaveLost, ListingType
<1>3. /\ x \in EditType /\ x.at = "over" /\ x.id = edit[i].id /\ x.from = edit[i].from
      /\ x.named = edit[i].named /\ x.byHand = edit[i].byHand
  BY <1>1 DEF EditType
<1> HIDE DEF x
<1>4. /\ edit' \in [Edits -> EditType]
      /\ \A j \in Edits :
           /\ edit'[j].at = edit[j].at \/ edit'[j].at = "over"
           /\ edit'[j].id = edit[j].id /\ edit'[j].from = edit[j].from
           /\ edit'[j].named = edit[j].named /\ edit'[j].byHand = edit[j].byHand
  BY <1>1, <1>2, <1>3
<1>5. /\ modal' \in ModalType /\ modal'.chosen = modal.chosen
      /\ modal'.open => modal' = modal
  BY <1>1, <1>2 DEF Closed, ModalType
<1>6. QED
  BY <1>2, <1>4, <1>5, RecordsPageSteps

LEMMA RecordsInvNext == RecordsInv /\ [RecordsNext]_recordsVars => RecordsInv'
<1> SUFFICES ASSUME RecordsInv, [RecordsNext]_recordsVars PROVE RecordsInv'
  OBVIOUS
<1>1. QED
  BY VisitSteps, SaveRecordStep, WriteRecordStep, AddRecordStep, SaveOverStep DEF RecordsNext

THEOREM RecordsTypeCorrect == RecordsSpec => []RecordsTypeOK
<1>1. RecordsInv => RecordsTypeOK
  BY DEF RecordsInv
<1>2. QED
  BY <1>1, RecordsInvInit, RecordsInvNext, PTL DEF RecordsSpec

(* A record holds the text of another one only if it is newer than that    *)
(* one and nothing had been chosen by hand on the page that saved it,      *)
(* however listings, modals, saves and new records interleave.             *)
THEOREM ForeignTextIsOlder == RecordsSpec => []ForeignTextSlidIn
<1>1. RecordsInv => ForeignTextSlidIn
  <2> DEFINE place(e) == CHOOSE i \in DOMAIN catalogue.order : catalogue.order[i] = e
  <2> SUFFICES ASSUME RecordsInv, NEW e \in Entries, catalogue.form[e] # e
               PROVE  ~catalogue.byHand[e] /\ place(e) < place(catalogue.form[e])
    BY DEF ForeignTextSlidIn
  <2>1. ~catalogue.byHand[e] /\ Newer(catalogue.order, e, catalogue.form[e])
    BY DEF RecordsInv, FormInv, SlidIn
  <2>2. PICK i, j \in DOMAIN catalogue.order :
          catalogue.order[i] = e /\ catalogue.order[j] = catalogue.form[e] /\ i < j
    BY <2>1 DEF Newer
  <2>3. \A k \in DOMAIN catalogue.order : place(catalogue.order[k]) = k
    BY DEF RecordsInv, Distinct
  <2>4. place(e) = i /\ place(catalogue.form[e]) = j
    BY <2>2, <2>3
  <2>5. QED
    BY <2>1, <2>2, <2>4
<1>2. QED
  BY <1>1, RecordsInvInit, RecordsInvNext, PTL DEF RecordsSpec
=============================================================================
