--------------------------- MODULE RegistryPages ---------------------------
(***************************************************************************)
(* The Tool Registry and Skill Catalog pages of agent-studio, opened in    *)
(* several tabs, against tool-registry and skill-catalog on Postgres, for  *)
(* one entry.                                                              *)
(*                                                                         *)
(* A transition is validated against a status read earlier.  An edit is    *)
(* not validated: it replaces the record, its status included, by what the *)
(* row of the page showed when Save was clicked.                           *)
(*                                                                         *)
(* A fetch is asked for, read by the registry and taken over in separate   *)
(* steps; an invalidation does not reach the one a list without data waits *)
(* for, nor that of a page the tab has left.                               *)
(***************************************************************************)
EXTENDS Naturals, FiniteSets

CONSTANTS
  Tabs,
  MaxChanges,    (* bound: writes that change the status                   *)
  MaxCalls       (* bound: mutations and fetches begun while others are on *)
                 (* their way                                              *)

ASSUME RegistryPagesAssumption == MaxChanges \in Nat /\ MaxCalls \in Nat

Calls == {"create", "edit", "approve", "stage", "activate"}

EntryStatuses == {"none", "pending_review", "approved", "deprecated",
                  "draft", "staged", "active", "paused", "archived"}

(* validTransitions of the two stores; the draft and pending_review of a   *)
(* new record are set by handleCreate.                                     *)
EntryMoves == {<<"none", "pending_review">>, <<"pending_review", "approved">>,
               <<"approved", "deprecated">>, <<"none", "draft">>, <<"draft", "staged">>,
               <<"staged", "active">>, <<"staged", "draft">>, <<"active", "paused">>,
               <<"active", "archived">>, <<"paused", "active">>, <<"paused", "archived">>}

VARIABLES
  kind,          (* the page: tools or skills                              *)
  entry,         (* the record: its status, and how often that has changed *)
  row,           (* Tabs -> the cached row                                 *)
  form,          (* Tabs -> the sheet that is open, or "away" from the page*)
  call           (* Tabs -> Calls -> the mutation in flight                *)

registryVars == <<kind, entry, row, form, call>>

(* base: the change after which the status was read; at, read: the fetch   *)
(* of the list and what was read for its answer; missed (history): since   *)
(* the reading there was a write that does not have it fetched again.      *)
Reading == [status : EntryStatuses, base : 0..MaxChanges]
Rows    == [shown : Reading, loaded : BOOLEAN, fresh : BOOLEAN,
            at : {"idle", "asked", "answered"}, read : Reading, missed : BOOLEAN]
NoReading == [status |-> "none", base |-> 0]
Unread  == [shown |-> NoReading, loaded |-> FALSE, fresh |-> FALSE, at |-> "idle",
            read |-> NoReading, missed |-> FALSE]
NoCall  == [at |-> "idle", status |-> "none", base |-> 0]

RegistryTypeOK ==
  /\ kind \in {"tools", "skills"}
  /\ entry \in Reading
  /\ row \in [Tabs -> Rows]
  /\ form \in [Tabs -> {"none", "create", "edit", "away"}]
  /\ call \in [Tabs -> [Calls -> [at : {"idle", "sent", "checked", "done"},
                                  status : EntryStatuses, base : 0..MaxChanges]]]

FirstStatus == IF kind = "tools" THEN "pending_review" ELSE "draft"

RegistryInit ==
  /\ kind \in {"tools", "skills"}
  /\ entry \in [status : {"none", FirstStatus}, base : {0}]
  /\ row = [t \in Tabs |-> Unread]
  /\ form = [t \in Tabs |-> "none"]
  /\ call = [t \in Tabs |-> [c \in Calls |-> NoCall]]

----------------------------------------------------------------------------
(* The pages. *)
Editable(s) == s \notin {"none", "deprecated", "archived"}

InFlight == Cardinality({x \in Tabs \X Calls : call[x[1]][x[2]].at # "idle"})
              + Cardinality({t \in Tabs : row[t].at # "idle"})

Fetched(r) == [r EXCEPT !.fresh = FALSE, !.at = "asked", !.read = NoReading, !.missed = FALSE]

(* The list is fetched when the page is there and it is not fresh. *)
AskRow(t) ==
  /\ form[t] # "away"
  /\ ~row[t].fresh /\ row[t].at = "idle"
  /\ InFlight < MaxCalls
  /\ row' = [row EXCEPT ![t] = Fetched(@)]
  /\ UNCHANGED <<kind, entry, form, call>>

AnswerRow(t) ==
  /\ row[t].at = "asked"
  /\ row' = [row EXCEPT ![t].at = "answered", ![t].read = entry]
  /\ UNCHANGED <<kind, entry, form, call>>

(* The sheet of a row that offers no Edit any more goes with its button. *)
RowArrives(t) ==
  LET r == row[t] IN
  /\ r.at = "answered"
  /\ row' = [row EXCEPT ![t] = [Unread EXCEPT !.shown = r.read, !.loaded = TRUE, !.fresh = TRUE,
                                              !.missed = r.missed]]
  /\ form' = [form EXCEPT ![t] = IF @ = "edit" /\ ~Editable(r.read.status) THEN "none" ELSE @]
  /\ UNCHANGED <<kind, entry, call>>

(* The fetch fails: what is shown stays. *)
RowFails(t) ==
  /\ row[t].at # "idle"
  /\ row' = [row EXCEPT ![t].at = "idle", ![t].read = NoReading, ![t].missed = FALSE]
  /\ UNCHANGED <<kind, entry, form, call>>

RowGoesStale(t) ==
  /\ row[t].fresh
  /\ row' = [row EXCEPT ![t].fresh = FALSE, ![t].missed = FALSE]
  /\ UNCHANGED <<kind, entry, form, call>>

(* invalidateQueries: what is mounted and loaded is fetched anew, in place *)
(* of a fetch that is on its way; any other fetch stays.                   *)
RowInvalidated(t) ==
  LET r == row[t] IN
  IF form[t] = "away" \/ (r.at # "idle" /\ ~r.loaded)
  THEN [r EXCEPT !.fresh = FALSE, !.missed = r.at = "answered"]
  ELSE Fetched(r)

(* Leaving the page closes its sheets; its mutations go on. *)
LeavePage(t) ==
  /\ form[t] # "away"
  /\ form' = [form EXCEPT ![t] = "away"]
  /\ UNCHANGED <<kind, entry, row, call>>

(* The trigger of a sheet, and closing it or coming back to the page. *)
OpenForm(t, f) ==
  /\ form[t] = "none"
  /\ f = "edit" => Editable(row[t].shown.status)
  /\ form' = [form EXCEPT ![t] = f]
  /\ UNCHANGED <<kind, entry, row, call>>

CloseForm(t) ==
  /\ form[t] # "none"
  /\ form' = [form EXCEPT ![t] = "none"]
  /\ UNCHANGED <<kind, entry, row, call>>

(* The button of each mutation is shown, and the status it asks for. *)
Offers(t, c) ==
  LET s == row[t].shown.status IN
  /\ form[t] # "away"
  /\ \/ c \in {"create", "edit"} /\ form[t] = c
     \/ <<c, s>> \in {<<"approve", "pending_review">>, <<"stage", "draft">>,
                     <<"activate", "staged">>}

(* A mutant of Asked: an edit that starts the review anew. *)
AskedAnew(t, c) ==
  CASE c \in {"create", "edit"} -> FirstStatus
    [] c = "approve"  -> "approved"
    [] c = "stage"    -> "staged"
    [] c = "activate" -> "active"

Asked(t, c) ==
  CASE c = "create"   -> FirstStatus
    [] c = "edit"     -> row[t].shown.status
    [] c = "approve"  -> "approved"
    [] c = "stage"    -> "staged"
    [] c = "activate" -> "active"

(* mutate: a button is disabled while its mutation is pending. *)
Click(t, c) ==
  /\ call[t][c].at = "idle"
  /\ Offers(t, c)
  /\ InFlight < MaxCalls
  /\ call' = [call EXCEPT ![t][c] = [at |-> "sent", status |-> Asked(t, c),
                                     base |-> row[t].shown.base]]
  /\ UNCHANGED <<kind, entry, row, form>>

----------------------------------------------------------------------------
(* The registries. *)
WasRead(t) == row[t].fresh \/ row[t].at = "answered"

SetStatus(s) ==
  /\ entry.base < MaxChanges \/ s = entry.status
  /\ entry' = [status |-> s, base |-> IF s = entry.status THEN entry.base ELSE entry.base + 1]

(* Transition: the record is read and the step validated.                  *)
Validate(t, c) ==
  /\ c \in {"approve", "stage", "activate"}
  /\ call[t][c].at = "sent"
  /\ <<entry.status, call[t][c].status>> \in EntryMoves
  /\ call' = [call EXCEPT ![t][c].at = "checked", ![t][c].base = entry.base]
  /\ UNCHANGED <<kind, entry, row, form>>

(* The write of a transition, and Create and Update, whose only test is    *)
(* whether the record is there.                                            *)
WriteEntry(t, c) ==
  /\ \/ call[t][c].at = "checked"
     \/ call[t][c].at = "sent" /\ c = "create" /\ entry.status = "none"
     \/ call[t][c].at = "sent" /\ c = "edit" /\ entry.status # "none"
  /\ SetStatus(call[t][c].status)
  /\ call' = [call EXCEPT ![t][c].at = "done"]
  /\ row' = [u \in Tabs |-> [row[u] EXCEPT !.missed = @ \/ (WasRead(u) /\ u # t)]]
  /\ UNCHANGED <<kind, form>>

(* Another client of the registry. *)
MoveElsewhere(s) ==
  /\ entry.status # "none"
  /\ <<entry.status, s>> \in EntryMoves
  /\ SetStatus(s)
  /\ row' = [u \in Tabs |-> [row[u] EXCEPT !.missed = WasRead(u)]]
  /\ UNCHANGED <<kind, form, call>>

----------------------------------------------------------------------------
(* A mutant of CallSucceeds that does not invalidate the list. *)
CallSucceedsUnseen(t, c) ==
  /\ call[t][c].at = "done"
  /\ call' = [call EXCEPT ![t][c] = NoCall]
  /\ form' = [form EXCEPT ![t] = IF c = @ THEN "none" ELSE @]
  /\ UNCHANGED <<kind, entry, row>>

(* onSuccess: only this tab's list is invalidated. *)
CallSucceeds(t, c) ==
  /\ call[t][c].at = "done"
  /\ call' = [call EXCEPT ![t][c] = NoCall]
  /\ row' = [row EXCEPT ![t] = RowInvalidated(t)]
  /\ form' = [form EXCEPT ![t] = IF c = @ THEN "none" ELSE @]
  /\ UNCHANGED <<kind, entry>>

(* 422, 404 or 500: a sheet shows the error, a row shows nothing, and      *)
(* nothing is invalidated.  An answer that is lost looks the same.         *)
CallFails(t, c) ==
  /\ call[t][c].at \in {"sent", "done"}
  /\ call' = [call EXCEPT ![t][c] = NoCall]
  /\ row' = [row EXCEPT ![t].missed = @ \/ (WasRead(t) /\ call[t][c].at = "done")]
  /\ UNCHANGED <<kind, entry, form>>

CallStep(t, c) ==
  \/ Click(t, c) \/ Validate(t, c) \/ WriteEntry(t, c)
  \/ CallSucceeds(t, c) \/ CallFails(t, c)

RowStep(t) ==
  AskRow(t) \/ AnswerRow(t) \/ RowArrives(t) \/ RowFails(t) \/ RowGoesStale(t)

RegistryNext ==
  \/ \E s \in EntryStatuses : MoveElsewhere(s)
  \/ \E t \in Tabs : RowStep(t) \/ CloseForm(t) \/ LeavePage(t)
                     \/ OpenForm(t, "create") \/ OpenForm(t, "edit")
  \/ \E t \in Tabs, c \in Calls : CallStep(t, c)

RegistrySpec == RegistryInit /\ [][RegistryNext]_registryVars

----------------------------------------------------------------------------
(* A status comes back by a step the lifecycle does not have only from a   *)
(* request whose author had not seen the last change: an edit sent from an *)
(* older row, or a transition validated before the change.                 *)
UndoneByOlderReadingsOnly ==
  [][ \/ entry'.status = entry.status
      \/ <<entry.status, entry'.status>> \in EntryMoves
      \/ \E t \in Tabs, c \in Calls :
           /\ call[t][c].at # "done" /\ call'[t][c].at = "done"
           /\ call[t][c].base < entry.base ]_registryVars

(* A tab whose own mutations have all been answered shows as fresh what    *)
(* the registry holds, unless since the registry was read for it someone   *)
(* else wrote, an answer was lost, or a mutation of the tab ended that     *)
(* could not cancel the fetch.                                             *)
FreshRowIsCurrent ==
  \A t \in Tabs :
    /\ row[t].fresh
    /\ ~row[t].missed
    /\ \A c \in Calls : call[t][c].at # "done"
    => row[t].shown = entry
============================================================================
