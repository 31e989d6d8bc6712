-------------------------- MODULE LifecycleProofs ---------------------------
(***************************************************************************)
(* Proofs about the pages that move agents, tools and skills through their *)
(* lifecycle, for any number of tabs, changes and calls.                   *)
(***************************************************************************)
EXTENDS AgentPages, RegistryPages, TLAPS

(* Tools and skills.                                                       *)

CallType == [at : {"idle", "sent", "checked", "done"}, status : EntryStatuses,
             base : 0..MaxChanges]
FormType == {"none", "create", "edit", "away"}

(* A mutation whose status was read after the last change asks for         *)
(* something that fits the status now; what was read earlier has an older  *)
(* base.                                                                   *)
CallFits(x, c, e) ==
  /\ x.base <= e.base
  /\ x.at = "checked" /\ x.base = e.base => <<e.status, x.status>> \in EntryMoves
  /\ x.at = "sent" /\ c = "edit" /\ x.base = e.base => x.status = e.status
  /\ x.at = "sent" /\ c = "create" => x.status = FirstStatus

ReadingFits(x, e) ==
  /\ x.base <= e.base
  /\ x.status # "none" /\ x.base = e.base => x.status = e.status

RowFits(r, f, e) ==
  /\ ReadingFits(r.shown, e) /\ ReadingFits(r.read, e)
  /\ f = "edit" => Editable(r.shown.status)

CallsFit == \A t \in Tabs, c \in Calls : CallFits(call[t][c], c, entry)
RowsFit  == \A t \in Tabs : RowFits(row[t], form[t], entry)

RegistryInv == RegistryTypeOK /\ CallsFit /\ RowsFit

----------------------------------------------------------------------------
(* The parts of the state, for the steps below.                            *)
LEMMA RegistryTypes ==
  ASSUME RegistryTypeOK
  PROVE  /\ kind \in {"tools", "skills"}
         /\ entry.status \in EntryStatuses /\ entry.base \in 0..MaxChanges /\ entry.base \in Nat
         /\ MaxChanges \in Nat
         /\ entry \in Reading
         /\ row \in [Tabs -> Rows]
         /\ form \in [Tabs -> FormType]
         /\ call \in [Tabs -> [Calls -> CallType]]
         /\ \A t \in Tabs, c \in Calls : call[t][c] \in CallType
BY RegistryPagesAssumption DEF RegistryTypeOK, Reading, CallType, FormType

(* After a change everything read before it is older.                      *)
LEMMA ChangeKeepsReadings ==
  ASSUME RegistryInv, NEW s \in EntryStatuses, SetStatus(s),
         NEW x \in Reading, ReadingFits(x, entry)
  PROVE  ReadingFits(x, entry')
BY RegistryTypes DEF RegistryInv, SetStatus, ReadingFits, Reading

LEMMA ChangeKeepsRows ==
  ASSUME RegistryInv, NEW s \in EntryStatuses, SetStatus(s),
         NEW r \in Rows, NEW q \in Rows, NEW f, RowFits(r, f, entry),
         q.shown = r.shown, q.read = r.read
  PROVE  RowFits(q, f, entry')
<1>1. r.shown \in Reading /\ r.read \in Reading
  BY DEF Rows
<1> QED
  BY <1>1, ChangeKeepsReadings DEF RowFits

(* The empty reading, and a reading of now. *)
LEMMA ReadingsFit ==
  ASSUME RegistryInv
  PROVE  /\ NoReading \in Reading /\ ReadingFits(NoReading, entry)
         /\ entry \in Reading /\ ReadingFits(entry, entry)
<1>1. entry \in Reading /\ entry.base \in Nat /\ 0 \in 0..MaxChanges /\ "none" \in EntryStatuses
  BY RegistryTypes DEF RegistryInv, EntryStatuses
<1> QED
  BY <1>1 DEF NoReading, Reading, ReadingFits

LEMMA ChangeTypes ==
  ASSUME RegistryInv, NEW s \in EntryStatuses, SetStatus(s)
  PROVE  entry' \in Reading /\ entry'.base >= entry.base
BY RegistryTypes DEF RegistryInv, SetStatus, Reading

(* Steps that leave the entry alone and change one row, one form or one    *)
(* mutation.                                                               *)
LEMMA OneRow ==
  ASSUME RegistryInv, NEW t \in Tabs, NEW r \in Rows, NEW f \in FormType,
         RowFits(r, f, entry),
         row' = [row EXCEPT ![t] = r], form' = [form EXCEPT ![t] = f],
         entry' = entry, kind' = kind, call' = call
  PROVE  RegistryInv'
<1>1. row \in [Tabs -> Rows] /\ form \in [Tabs -> FormType]
  BY RegistryTypes DEF RegistryInv
<1>2. row' \in [Tabs -> Rows] /\ form' \in [Tabs -> FormType]
  BY <1>1
<1>3. RegistryTypeOK'
  BY <1>2 DEF RegistryInv, RegistryTypeOK, FormType
<1>4. \A u \in Tabs : RowFits(row'[u], form'[u], entry)
  BY <1>1 DEF RegistryInv, RowsFit
<1> QED
  BY <1>3, <1>4 DEF RegistryInv, CallsFit, CallFits, RowsFit, RowFits, ReadingFits, FirstStatus

LEMMA OneCall ==
  ASSUME RegistryInv, NEW t \in Tabs, NEW c \in Calls, NEW x \in CallType,
         CallFits(x, c, entry),
         call' = [call EXCEPT ![t] = [@ EXCEPT ![c] = x]],
         entry' = entry, kind' = kind, row' = row, form' = form
  PROVE  RegistryInv'
<1>1. call \in [Tabs -> [Calls -> CallType]]
  BY RegistryTypes DEF RegistryInv
<1>2. call' \in [Tabs -> [Calls -> CallType]]
  BY <1>1
<1>3. RegistryTypeOK'
  BY <1>2 DEF RegistryInv, RegistryTypeOK, CallType
<1>4. \A u \in Tabs, d \in Calls : CallFits(call'[u][d], d, entry)
  <2> TAKE u \in Tabs, d \in Calls
  <2>1. call'[u][d] = IF u = t /\ d = c THEN x ELSE call[u][d]
    BY <1>1
  <2> QED
    BY <2>1 DEF RegistryInv, CallsFit
<1> QED
  BY <1>3, <1>4 DEF RegistryInv, CallsFit, CallFits, RowsFit, RowFits, ReadingFits, FirstStatus

----------------------------------------------------------------------------
LEMMA RegistryInvInit == RegistryInit => RegistryInv
<1> SUFFICES ASSUME RegistryInit PROVE RegistryInv
  OBVIOUS
<1>1. /\ kind \in {"tools", "skills"}
      /\ entry.status \in {"none", FirstStatus} /\ entry.base = 0
      /\ entry = [status |-> entry.status, base |-> 0]
  BY DEF RegistryInit
<1>2. FirstStatus \in EntryStatuses /\ "none" \in EntryStatuses
  BY <1>1 DEF FirstStatus, EntryStatuses
<1>3. 0 \in 0..MaxChanges
  BY RegistryPagesAssumption
<1>4. entry \in Reading
  BY <1>1, <1>2, <1>3 DEF Reading
<1>5. RegistryTypeOK
  <2>1. Unread \in Rows
    BY <1>2, <1>3 DEF Unread, Rows, NoReading, Reading
  <2> QED
    BY <1>1, <1>2, <1>3, <1>4, <2>1 DEF RegistryInit, RegistryTypeOK, NoCall
<1>6. CallsFit
  BY <1>1 DEF RegistryInit, CallsFit, CallFits, NoCall
<1>7. RowsFit
  BY <1>1 DEF RegistryInit, RowsFit, RowFits, ReadingFits, Unread, NoReading
<1> QED
  BY <1>5, <1>6, <1>7 DEF RegistryInv

(* The steps of the pages.                                                 *)
LEMMA RowSteps ==
  ASSUME RegistryInv, NEW t \in Tabs, RowStep(t)
  PROVE  RegistryInv'
<1>1. /\ row \in [Tabs -> Rows] /\ form \in [Tabs -> FormType]
      /\ RowFits(row[t], form[t], entry) /\ row[t] \in Rows /\ form[t] \in FormType
      /\ form = [form EXCEPT ![t] = form[t]]
  BY RegistryTypes DEF RegistryInv, RowsFit
<1>2. /\ NoReading \in Reading /\ ReadingFits(NoReading, entry)
      /\ entry \in Reading /\ ReadingFits(entry, entry)
  BY ReadingsFit
<1>3. CASE AskRow(t) \/ AnswerRow(t) \/ RowFails(t) \/ RowGoesStale(t)
  <2>1. PICK r \in Rows : /\ row' = [row EXCEPT ![t] = r]
                          /\ r.shown = row[t].shown
                          /\ r.read \in {row[t].read, NoReading, entry}
    <3>1. CASE AskRow(t)
      <4> DEFINE r == Fetched(row[t])
      <4>1. r \in Rows /\ r.shown = row[t].shown /\ r.read = NoReading
        BY <1>1, <1>2 DEF Fetched, Rows
      <4> QED
        BY <3>1, <4>1 DEF AskRow
    <3>2. CASE AnswerRow(t)
      <4> DEFINE r == [row[t] EXCEPT !.at = "answered", !.read = entry]
      <4>1. r \in Rows /\ r.shown = row[t].shown /\ r.read = entry
        BY <1>1, <1>2 DEF Rows
      <4>2. row' = [row EXCEPT ![t] = r]
        BY <1>1, <3>2 DEF AnswerRow
      <4> QED
        BY <4>1, <4>2
    <3>3. CASE RowFails(t)
      <4> DEFINE r == [row[t] EXCEPT !.at = "idle", !.read = NoReading, !.missed = FALSE]
      <4>1. r \in Rows /\ r.shown = row[t].shown /\ r.read = NoReading
        BY <1>1, <1>2 DEF Rows
      <4>2. row' = [row EXCEPT ![t] = r]
        BY <1>1, <3>3 DEF RowFails
      <4> QED
        BY <4>1, <4>2
    <3>4. CASE RowGoesStale(t)
      <4> DEFINE r == [row[t] EXCEPT !.fresh = FALSE, !.missed = FALSE]
      <4>1. r \in Rows /\ r.shown = row[t].shown /\ r.read = row[t].read
        BY <1>1 DEF Rows
      <4>2. row' = [row EXCEPT ![t] = r]
        BY <1>1, <3>4 DEF RowGoesStale
      <4> QED
        BY <4>1, <4>2
    <3> QED
      BY <1>3, <3>1, <3>2, <3>3, <3>4
  <2>2. RowFits(r, form[t], entry)
    BY <1>1, <1>2, <2>1 DEF RowFits
  <2>3. UNCHANGED <<kind, entry, form, call>>
    BY <1>3 DEF AskRow, AnswerRow, RowFails, RowGoesStale
  <2> QED
    BY <1>1, <2>1, <2>2, <2>3, OneRow
<1>4. CASE RowArrives(t)
  <2> DEFINE read == row[t].read
             r == [Unread EXCEPT !.shown = read, !.loaded = TRUE, !.fresh = TRUE,
                                 !.missed = row[t].missed]
             f == IF form[t] = "edit" /\ ~Editable(read.status) THEN "none" ELSE form[t]
  <2>1. /\ row' = [row EXCEPT ![t] = r] /\ form' = [form EXCEPT ![t] = f]
        /\ UNCHANGED <<kind, entry, call>>
    BY <1>4 DEF RowArrives
  <2>2. read \in Reading /\ row[t].missed \in BOOLEAN /\ ReadingFits(read, entry)
    BY <1>1 DEF Rows, RowFits
  <2>3. f \in FormType /\ (f = "edit" => Editable(read.status))
    BY <1>1 DEF FormType
  <2> HIDE DEF read, f
  <2>4. r \in Rows /\ r.shown = read /\ r.read = NoReading
    BY <1>2, <2>2 DEF Rows, Unread
  <2> HIDE DEF r
  <2>5. RowFits(r, f, entry)
    BY <1>2, <2>2, <2>3, <2>4 DEF RowFits
  <2> QED
    BY <2>1, <2>3, <2>4, <2>5, OneRow
<1> QED
  BY <1>3, <1>4 DEF RowStep

LEMMA FormSteps ==
  ASSUME RegistryInv, NEW t \in Tabs,
         CloseForm(t) \/ LeavePage(t) \/ OpenForm(t, "create") \/ OpenForm(t, "edit")
  PROVE  RegistryInv'
<1>1. /\ row \in [Tabs -> Rows] /\ row[t] \in Rows /\ RowFits(row[t], form[t], entry)
      /\ row = [row EXCEPT ![t] = row[t]]
  BY RegistryTypes DEF RegistryInv, RowsFit
<1>2. PICK f \in FormType : /\ form' = [form EXCEPT ![t] = f]
                            /\ f = "edit" => Editable(row[t].shown.status)
  BY DEF CloseForm, LeavePage, OpenForm, FormType
<1>3. RowFits(row[t], f, entry)
  BY <1>1, <1>2 DEF RowFits
<1>4. UNCHANGED <<kind, entry, row, call>>
  BY DEF CloseForm, LeavePage, OpenForm
<1> QED
  BY <1>1, <1>2, <1>3, <1>4, OneRow

(* A click reads the row it is made on.                                    *)
LEMMA ClickStep ==
  ASSUME RegistryInv, NEW t \in Tabs, NEW c \in Calls, Click(t, c)
  PROVE  RegistryInv'
<1> DEFINE x == [at |-> "sent", status |-> Asked(t, c), base |-> row[t].shown.base]
<1>1. /\ kind \in {"tools", "skills"} /\ row[t] \in Rows /\ row[t].shown \in Reading
      /\ ReadingFits(row[t].shown, entry) /\ RowFits(row[t], form[t], entry)
      /\ call \in [Tabs -> [Calls -> CallType]]
  BY RegistryTypes DEF RegistryInv, RowsFit, RowFits, Rows
<1>2. /\ Offers(t, c)
      /\ call' = [call EXCEPT ![t] = [@ EXCEPT ![c] = x]]
      /\ UNCHANGED <<kind, entry, row, form>>
  BY DEF Click
<1>3. Asked(t, c) \in EntryStatuses
  BY <1>1 DEF Asked, FirstStatus, EntryStatuses, Reading, Calls
<1>4. x \in CallType
  BY <1>1, <1>3 DEF CallType, Reading
<1>5. c = "create" => Asked(t, c) = FirstStatus
  BY DEF Asked
<1>6. c = "edit" => Asked(t, c) = row[t].shown.status /\ row[t].shown.status # "none"
  BY <1>1, <1>2 DEF Asked, Offers, RowFits, Editable
<1>7. CallFits(x, c, entry)
  BY <1>1, <1>5, <1>6 DEF CallFits, ReadingFits
<1> HIDE DEF x
<1> QED
  BY <1>2, <1>4, <1>7, OneCall

LEMMA ValidateStep ==
  ASSUME RegistryInv, NEW t \in Tabs, NEW c \in Calls, Validate(t, c)
  PROVE  RegistryInv'
<1> DEFINE x == [call[t][c] EXCEPT !.at = "checked", !.base = entry.base]
<1>1. /\ call \in [Tabs -> [Calls -> CallType]] /\ call[t][c] \in CallType
      /\ entry.base \in 0..MaxChanges /\ entry.base \in Nat
  BY RegistryTypes DEF RegistryInv
<1>2. /\ <<entry.status, call[t][c].status>> \in EntryMoves
      /\ call' = [call EXCEPT ![t] = [@ EXCEPT ![c] = x]]
      /\ UNCHANGED <<kind, entry, row, form>>
  BY <1>1 DEF Validate
<1>3. x \in CallType /\ x.at = "checked" /\ x.base = entry.base /\ x.status = call[t][c].status
  BY <1>1 DEF CallType
<1> HIDE DEF x
<1>4. CallFits(x, c, entry)
  BY <1>1, <1>2, <1>3 DEF CallFits
<1> QED
  BY <1>2, <1>3, <1>4, OneCall

(* Rows keep their status and their base when the record changes.          *)
LEMMA EntryChanges ==
  ASSUME RegistryInv, NEW s \in EntryStatuses, SetStatus(s), kind' = kind, form' = form,
         row' \in [Tabs -> Rows],
         \A t \in Tabs : row'[t].shown = row[t].shown /\ row'[t].read = row[t].read,
         call' \in [Tabs -> [Calls -> CallType]],
         \A t \in Tabs, c \in Calls : CallFits(call'[t][c], c, entry)
  PROVE  RegistryInv'
<1>1. RegistryTypeOK'
  BY ChangeTypes DEF RegistryInv, RegistryTypeOK, FormType, CallType
<1>2. RowsFit'
  <2> SUFFICES ASSUME NEW t \in Tabs PROVE RowFits(row'[t], form[t], entry')
    BY DEF RowsFit, RowFits, ReadingFits
  <2>1. row[t] \in Rows /\ row'[t] \in Rows /\ RowFits(row[t], form[t], entry)
    BY RegistryTypes DEF RegistryInv, RowsFit
  <2> QED
    BY <2>1, ChangeKeepsRows
<1>3. CallsFit'
  <2> SUFFICES ASSUME NEW t \in Tabs, NEW c \in Calls
               PROVE  CallFits(call'[t][c], c, entry')
    BY DEF CallsFit, CallFits, FirstStatus
  <2>1. call'[t][c] \in CallType /\ CallFits(call'[t][c], c, entry)
    OBVIOUS
  <2>2. entry.base \in Nat /\ entry'.base \in Nat /\ MaxChanges \in Nat
    BY ChangeTypes, RegistryTypes DEF RegistryInv, Reading
  <2> QED
    BY <2>1, <2>2 DEF SetStatus, CallFits, CallType
<1> QED
  BY <1>1, <1>2, <1>3 DEF RegistryInv

LEMMA WriteStep ==
  ASSUME RegistryInv, NEW t \in Tabs, NEW c \in Calls, WriteEntry(t, c)
  PROVE  RegistryInv'
<1> DEFINE x == [call[t][c] EXCEPT !.at = "done"]
           m(u) == row[u].missed \/ (WasRead(u) /\ u # t)
<1>1. /\ call \in [Tabs -> [Calls -> CallType]] /\ call[t][c] \in CallType
      /\ row \in [Tabs -> Rows]
  BY RegistryTypes DEF RegistryInv
<1>2. /\ SetStatus(call[t][c].status)
      /\ call' = [call EXCEPT ![t] = [@ EXCEPT ![c] = x]]
      /\ row' = [u \in Tabs |-> [row[u] EXCEPT !.missed = m(u)]]
      /\ UNCHANGED <<kind, form>>
  BY <1>1 DEF WriteEntry
<1>3. x \in CallType /\ x.at = "done" /\ x.base = call[t][c].base
  BY <1>1 DEF CallType
<1>4. \A u \in Tabs : m(u) \in BOOLEAN
  BY <1>1 DEF Rows
<1> HIDE DEF x, m
<1>5. row' \in [Tabs -> Rows]
      /\ \A u \in Tabs : row'[u].shown = row[u].shown /\ row'[u].read = row[u].read
  BY <1>1, <1>2, <1>4 DEF Rows
<1>6. call' \in [Tabs -> [Calls -> CallType]]
  BY <1>1, <1>2, <1>3
<1>7. \A u \in Tabs, d \in Calls : CallFits(call'[u][d], d, entry)
  <2> TAKE u \in Tabs, d \in Calls
  <2>1. call'[u][d] = IF u = t /\ d = c THEN x ELSE call[u][d]
    BY <1>1, <1>2
  <2>2. CallFits(call[u][d], d, entry)
    BY DEF RegistryInv, CallsFit
  <2>3. CallFits(call[t][c], c, entry) => CallFits(x, c, entry)
    BY <1>3 DEF CallFits
  <2> QED
    BY <2>1, <2>2, <2>3
<1>8. call[t][c].status \in EntryStatuses
  BY <1>1 DEF CallType
<1> QED
  BY <1>2, <1>5, <1>6, <1>7, <1>8, EntryChanges

LEMMA ElsewhereStep ==
  ASSUME RegistryInv, NEW s \in EntryStatuses, MoveElsewhere(s)
  PROVE  RegistryInv'
<1>1. row \in [Tabs -> Rows] /\ call \in [Tabs -> [Calls -> CallType]]
  BY RegistryTypes DEF RegistryInv
<1>2. /\ SetStatus(s) /\ row' = [u \in Tabs |-> [row[u] EXCEPT !.missed = WasRead(u)]]
      /\ UNCHANGED <<kind, form, call>>
  BY DEF MoveElsewhere
<1>m. \A u \in Tabs : WasRead(u) \in BOOLEAN
  BY <1>1 DEF WasRead, Rows
<1>3. row' \in [Tabs -> Rows]
      /\ \A u \in Tabs : row'[u].shown = row[u].shown /\ row'[u].read = row[u].read
  BY <1>1, <1>2, <1>m DEF Rows
<1>4. \A u \in Tabs, d \in Calls : CallFits(call'[u][d], d, entry)
  BY <1>2 DEF RegistryInv, CallsFit
<1> QED
  BY <1>1, <1>2, <1>3, <1>4, EntryChanges

(* The row an invalidation leaves is stale: what was or will be read for   *)
(* it has missed the mutation, or is still to be read.                     *)
LEMMA InvalidatedRow ==
  ASSUME RegistryInv, NEW t \in Tabs
  PROVE  /\ RowInvalidated(t) \in Rows /\ RowInvalidated(t).shown = row[t].shown
         /\ RowInvalidated(t).read \in {row[t].read, NoReading}
         /\ ~RowInvalidated(t).fresh
         /\ RowInvalidated(t).at = "answered" => RowInvalidated(t).missed
<1>1. row[t] \in Rows /\ NoReading \in Reading
  BY RegistryTypes, ReadingsFit DEF RegistryInv
<1> DEFINE missed == row[t].at = "answered"
<1>2. missed \in BOOLEAN
  OBVIOUS
<1>3. RowInvalidated(t) \in {[row[t] EXCEPT !.fresh = FALSE, !.missed = missed], Fetched(row[t])}
  BY DEF RowInvalidated
<1>4. CASE RowInvalidated(t) = [row[t] EXCEPT !.fresh = FALSE, !.missed = missed]
  BY <1>1, <1>2, <1>4 DEF Rows
<1>5. CASE RowInvalidated(t) = Fetched(row[t])
  BY <1>1, <1>5 DEF Fetched, Rows
<1> QED
  BY <1>3, <1>4, <1>5

(* The answers: the mutation is over, the row is stale or has missed it.   *)
LEMMA AnswerStep ==
  ASSUME RegistryInv, NEW t \in Tabs, NEW c \in Calls, CallSucceeds(t, c) \/ CallFails(t, c)
  PROVE  RegistryInv'
<1> DEFINE gone == row[t].missed \/ (WasRead(t) /\ call[t][c].at = "done")
<1>1. /\ call \in [Tabs -> [Calls -> CallType]] /\ row \in [Tabs -> Rows]
      /\ form \in [Tabs -> FormType] /\ "none" \in EntryStatuses
      /\ 0 \in 0..MaxChanges /\ entry.base \in Nat
  BY RegistryTypes DEF RegistryInv, EntryStatuses
<1>2. /\ call' = [call EXCEPT ![t] = [@ EXCEPT ![c] = NoCall]]
      /\ UNCHANGED <<kind, entry>>
      /\ \/ row' = [row EXCEPT ![t] = RowInvalidated(t)]
         \/ row' = [row EXCEPT ![t] = [@ EXCEPT !.missed = gone]]
      /\ \/ form' = form
         \/ form' = [form EXCEPT ![t] = IF c = form[t] THEN "none" ELSE form[t]]
  BY <1>1 DEF CallSucceeds, CallFails
<1>3. gone \in BOOLEAN
  BY <1>1 DEF Rows, WasRead
<1> HIDE DEF gone
<1>4. /\ row' \in [Tabs -> Rows]
      /\ \A u \in Tabs : /\ row'[u].shown = row[u].shown
                         /\ row'[u].read \in {row[u].read, NoReading}
  <2>1. CASE row' = [row EXCEPT ![t] = RowInvalidated(t)]
    BY <1>1, <2>1, InvalidatedRow
  <2>2. CASE row' = [row EXCEPT ![t] = [@ EXCEPT !.missed = gone]]
    BY <1>1, <1>3, <2>2 DEF Rows
  <2> QED
    BY <1>2, <2>1, <2>2
<1>5. form' \in [Tabs -> FormType]
      /\ \A u \in Tabs : form'[u] \in {"none", form[u]}
  BY <1>1, <1>2 DEF FormType
<1>6. NoCall \in CallType /\ NoCall.at = "idle" /\ NoCall.base = 0
  BY <1>1 DEF NoCall, CallType
<1>7. call' \in [Tabs -> [Calls -> CallType]]
  BY <1>1, <1>2, <1>6
<1>8. RegistryTypeOK'
  BY <1>2, <1>4, <1>5, <1>7 DEF RegistryInv, RegistryTypeOK, FormType, CallType
<1>9. RowsFit'
  <2> SUFFICES ASSUME NEW u \in Tabs PROVE RowFits(row'[u], form'[u], entry)
    BY <1>2 DEF RowsFit, RowFits, ReadingFits
  <2> QED
    BY <1>4, <1>5, ReadingsFit DEF RegistryInv, RowsFit, RowFits
<1>10. \A u \in Tabs, d \in Calls : CallFits(call'[u][d], d, entry)
  <2> TAKE u \in Tabs, d \in Calls
  <2>1. call'[u][d] = IF u = t /\ d = c THEN NoCall ELSE call[u][d]
    BY <1>1, <1>2
  <2>2. CallFits(NoCall, d, entry)
    BY <1>1, <1>6 DEF CallFits
  <2> QED
    BY <2>1, <2>2 DEF RegistryInv, CallsFit
<1> QED
  BY <1>2, <1>8, <1>9, <1>10 DEF RegistryInv, CallsFit, CallFits, FirstStatus

LEMMA RegistryInvNext == RegistryInv /\ [RegistryNext]_registryVars => RegistryInv'
<1> SUFFICES ASSUME RegistryInv, [RegistryNext]_registryVars PROVE RegistryInv'
  OBVIOUS
<1>1. CASE \E s \in EntryStatuses : MoveElsewhere(s)
  BY <1>1, ElsewhereStep
<1>2. ASSUME NEW t \in Tabs, NEW c \in Calls, CallStep(t, c) PROVE RegistryInv'
  BY <1>2, ClickStep, ValidateStep, WriteStep, AnswerStep DEF CallStep
<1>3. CASE UNCHANGED registryVars
  BY <1>3 DEF registryVars, RegistryInv, RegistryTypeOK, CallsFit, CallFits, RowsFit, RowFits,
              ReadingFits, FirstStatus
<1> QED
  BY <1>1, <1>2, <1>3, RowSteps, FormSteps DEF RegistryNext

----------------------------------------------------------------------------
(* The entry, the rows, the sheets and the mutations keep their types.     *)
THEOREM RegistryTypeCorrect == RegistrySpec => []RegistryTypeOK
<1>1. RegistryInv => RegistryTypeOK
  BY DEF RegistryInv
<1> QED
  BY <1>1, RegistryInvInit, RegistryInvNext, PTL DEF RegistrySpec

(* A write that leaves the lifecycle is of a mutation whose status was     *)
(* read before the last change.                                            *)
LEMMA WritesFit ==
  ASSUME RegistryInv, NEW t \in Tabs, NEW c \in Calls, WriteEntry(t, c)
  PROVE  \/ entry'.status = entry.status
         \/ <<entry.status, entry'.status>> \in EntryMoves
         \/ /\ call[t][c].at # "done" /\ call'[t][c].at = "done"
            /\ call[t][c].base < entry.base
<1>1. /\ call \in [Tabs -> [Calls -> CallType]] /\ call[t][c] \in CallType
      /\ entry.base \in Nat /\ kind \in {"tools", "skills"} /\ MaxChanges \in Nat
  BY RegistryTypes DEF RegistryInv
<1>2. SetStatus(call[t][c].status)
  BY DEF WriteEntry
<1>3. entry'.status = call[t][c].status
  BY <1>2 DEF SetStatus
<1>4. /\ call' = [call EXCEPT ![t][c].at = "done"]
      /\ \/ call[t][c].at = "checked"
         \/ call[t][c].at = "sent" /\ c = "create" /\ entry.status = "none"
         \/ call[t][c].at = "sent" /\ c = "edit" /\ entry.status # "none"
  BY <1>1 DEF WriteEntry
<1>5. call'[t][c].at = "done" /\ call[t][c].at # "done"
  BY <1>1, <1>4 DEF CallType
<1>6. call[t][c].base \in Nat
  BY <1>1 DEF CallType
<1>7. CallFits(call[t][c], c, entry)
  BY DEF RegistryInv, CallsFit
<1>8. <<"none", FirstStatus>> \in EntryMoves
  BY <1>1 DEF FirstStatus, EntryMoves
<1>9. call[t][c].base = entry.base \/ call[t][c].base < entry.base
  BY <1>1, <1>6, <1>7 DEF CallFits
<1>10. CASE call[t][c].base = entry.base
  BY <1>3, <1>4, <1>7, <1>8, <1>10 DEF CallFits
<1> QED
  BY <1>5, <1>9, <1>10

(* The lifecycle is left only by what an older reading asked for.          *)
THEOREM LifecycleIsKept == RegistrySpec => UndoneByOlderReadingsOnly
<1>1. ASSUME RegistryInv, [RegistryNext]_registryVars
      PROVE  \/ entry'.status = entry.status
             \/ <<entry.status, entry'.status>> \in EntryMoves
             \/ \E t \in Tabs, c \in Calls :
                  /\ call[t][c].at # "done" /\ call'[t][c].at = "done"
                  /\ call[t][c].base < entry.base
  <2>1. CASE \E s \in EntryStatuses : MoveElsewhere(s)
    BY <2>1 DEF MoveElsewhere, SetStatus
  <2>2. CASE \E t \in Tabs, c \in Calls : WriteEntry(t, c)
    BY <2>2, <1>1, WritesFit
  <2>3. CASE entry' = entry
    BY <2>3
  <2>4. \/ \E s \in EntryStatuses : MoveElsewhere(s)
        \/ \E t \in Tabs, c \in Calls : WriteEntry(t, c)
        \/ entry' = entry
    BY <1>1 DEF RegistryNext, CallStep, RowStep, registryVars, AskRow, AnswerRow, RowArrives,
                RowFails, RowGoesStale, CloseForm, LeavePage, OpenForm, Click, Validate, CallSucceeds, CallFails
  <2> QED
    BY <2>1, <2>2, <2>3, <2>4
<1> QED
  BY <1>1, RegistryInvInit, RegistryInvNext, PTL DEF RegistrySpec, UndoneByOlderReadingsOnly

(* What was read for a fresh row, or for an answer on its way, and missed  *)
(* nothing is what the registry holds, or a mutation of the row's own tab  *)
(* has been served and will have it fetched again or be missed.            *)
Served(t) == \E c \in Calls : call[t][c].at = "done"

FreshRowFits(r, t) ==
  /\ r.fresh => r.at = "idle"
  /\ ~r.missed => /\ r.fresh => r.shown = entry \/ Served(t)
                  /\ r.at = "answered" => r.read = entry \/ Served(t)

FreshRowsFit == \A t \in Tabs : FreshRowFits(row[t], t)

(* Every row but that of one tab is left as it is, and the tab's own fits. *)
LEMMA FreshRowsKept ==
  ASSUME FreshRowsFit, entry' = entry, NEW t \in Tabs,
         \A u \in Tabs : u # t => row'[u] = row[u] /\ (Served(u) => Served(u)'),
         \/ FreshRowFits(row[t], t)'
         \/ row'[t] = row[t] /\ (Served(t) => Served(t)')
  PROVE  FreshRowsFit'
BY DEF FreshRowsFit, FreshRowFits

LEMMA FreshRowsNext ==
  ASSUME RegistryInv, FreshRowsFit, [RegistryNext]_registryVars
  PROVE  FreshRowsFit'
<1>1. /\ row \in [Tabs -> Rows] /\ call \in [Tabs -> [Calls -> CallType]]
  BY RegistryTypes DEF RegistryInv
<1>2. ASSUME NEW s \in EntryStatuses, MoveElsewhere(s) PROVE FreshRowsFit'
  <2>1. row' = [u \in Tabs |-> [row[u] EXCEPT !.missed = WasRead(u)]]
    BY <1>2 DEF MoveElsewhere
  <2>2. ASSUME NEW u \in Tabs PROVE FreshRowFits(row[u], u)'
    <3>1. row'[u].fresh = row[u].fresh /\ row'[u].at = row[u].at /\ row'[u].missed = WasRead(u)
      BY <1>1, <2>1 DEF Rows
    <3>2. row[u].fresh => row[u].at = "idle"
      BY DEF FreshRowsFit, FreshRowFits
    <3> QED
      BY <3>1, <3>2 DEF FreshRowFits, WasRead
  <2> QED
    BY <2>2 DEF FreshRowsFit
<1>3. ASSUME NEW t \in Tabs,
             \/ RowStep(t) \/ CloseForm(t) \/ LeavePage(t)
             \/ OpenForm(t, "create") \/ OpenForm(t, "edit")
      PROVE  FreshRowsFit'
  <2>1. /\ entry' = entry /\ call' = call
        /\ \A u \in Tabs : u # t => row'[u] = row[u]
    BY <1>1, <1>3 DEF RowStep, AskRow, AnswerRow, RowArrives, RowFails, RowGoesStale, CloseForm,
                      LeavePage, OpenForm
  <2>2. \A u \in Tabs : Served(u) => Served(u)'
    BY <2>1 DEF Served
  <2>3. row[t] \in Rows /\ FreshRowFits(row[t], t)
    BY <1>1 DEF FreshRowsFit
  <2>4. row'[t] = row[t] \/ FreshRowFits(row[t], t)'
    <3>1. CASE AskRow(t)
      <4>1. ~row'[t].fresh /\ row'[t].at = "asked"
        BY <1>1, <3>1 DEF AskRow, Fetched, Rows
      <4> QED
        BY <4>1 DEF FreshRowFits
    <3>2. CASE AnswerRow(t)
      <4>1. /\ row'[t].fresh = row[t].fresh /\ row'[t].at = "answered" /\ row'[t].read = entry
            /\ row[t].at = "asked"
        BY <1>1, <3>2 DEF AnswerRow, Rows
      <4> QED
        BY <2>1, <2>3, <4>1 DEF FreshRowFits
    <3>3. CASE RowArrives(t)
      <4>1. /\ row'[t].at = "idle" /\ row'[t].shown = row[t].read
            /\ row'[t].missed = row[t].missed /\ row[t].at = "answered"
        BY <1>1, <3>3 DEF RowArrives, Unread
      <4> QED
        BY <2>1, <2>2, <2>3, <4>1 DEF FreshRowFits
    <3>4. CASE RowFails(t)
      <4>1. ~row'[t].fresh /\ row'[t].at = "idle"
        BY <1>1, <2>3, <3>4 DEF RowFails, Rows, FreshRowFits
      <4> QED
        BY <4>1 DEF FreshRowFits
    <3>5. CASE RowGoesStale(t)
      <4>1. ~row'[t].fresh /\ row'[t].at = "idle"
        BY <1>1, <2>3, <3>5 DEF RowGoesStale, Rows, FreshRowFits
      <4> QED
        BY <4>1 DEF FreshRowFits
    <3>6. CASE row' = row
      BY <3>6
    <3> QED
      BY <1>3, <3>1, <3>2, <3>3, <3>4, <3>5, <3>6 DEF RowStep, CloseForm, LeavePage, OpenForm
  <2> QED
    BY <2>1, <2>2, <2>4, FreshRowsKept
<1>4. ASSUME NEW t \in Tabs, NEW c \in Calls, Click(t, c) \/ Validate(t, c)
      PROVE  FreshRowsFit'
  <2>1. /\ entry' = entry /\ row' = row /\ call[t][c].at \in {"idle", "sent"}
        /\ \A u \in Tabs, d \in Calls : u # t \/ d # c => call'[u][d] = call[u][d]
    BY <1>1, <1>4 DEF Click, Validate
  <2>2. \A u \in Tabs : Served(u) => Served(u)'
    BY <2>1 DEF Served
  <2> QED
    BY <2>1, <2>2, FreshRowsKept
<1>5. ASSUME NEW t \in Tabs, NEW c \in Calls, WriteEntry(t, c)
      PROVE  FreshRowsFit'
  <2> DEFINE m(u) == row[u].missed \/ (WasRead(u) /\ u # t)
  <2>1. row' = [u \in Tabs |-> [row[u] EXCEPT !.missed = m(u)]]
    BY <1>5 DEF WriteEntry
  <2>2. call'[t][c].at = "done"
    BY <1>1, <1>5 DEF WriteEntry, CallType
  <2>3. Served(t)'
    BY <2>2 DEF Served
  <2>4. ASSUME NEW u \in Tabs PROVE FreshRowFits(row[u], u)'
    <3>1. row'[u].fresh = row[u].fresh /\ row'[u].at = row[u].at /\ row'[u].missed = m(u)
      BY <1>1, <2>1 DEF Rows
    <3>2. row[u].fresh => row[u].at = "idle"
      BY DEF FreshRowsFit, FreshRowFits
    <3>3. CASE u = t
      BY <2>3, <3>1, <3>2, <3>3 DEF FreshRowFits
    <3>4. CASE u # t
      BY <3>1, <3>2, <3>4 DEF FreshRowFits, WasRead
    <3> QED
      BY <3>3, <3>4
  <2> QED
    BY <2>4 DEF FreshRowsFit
<1>6. ASSUME NEW t \in Tabs, NEW c \in Calls, CallSucceeds(t, c) \/ CallFails(t, c)
      PROVE  FreshRowsFit'
  <2>1. /\ entry' = entry
        /\ \A u \in Tabs : u # t => row'[u] = row[u]
        /\ \A u \in Tabs, d \in Calls : u # t \/ d # c => call'[u][d] = call[u][d]
    BY <1>1, <1>6 DEF CallSucceeds, CallFails
  <2>2. \A u \in Tabs : u # t => (Served(u) => Served(u)')
    BY <2>1 DEF Served
  <2>3. CASE CallSucceeds(t, c)
    <3>1. row'[t] = RowInvalidated(t)
      BY <1>1, <2>3 DEF CallSucceeds
    <3>2. FreshRowFits(row[t], t)'
      BY <3>1, InvalidatedRow DEF FreshRowFits
    <3> QED
      BY <2>1, <2>2, <3>2, FreshRowsKept
  <2>4. CASE CallFails(t, c) /\ call[t][c].at = "done"
    <3>1. /\ row'[t].fresh = row[t].fresh /\ row'[t].at = row[t].at
          /\ row'[t].missed = (row[t].missed \/ WasRead(t))
      BY <1>1, <2>4 DEF CallFails, Rows
    <3>2. FreshRowFits(row[t], t)
      BY DEF FreshRowsFit
    <3>3. FreshRowFits(row[t], t)'
      BY <3>1, <3>2 DEF FreshRowFits, WasRead
    <3> QED
      BY <2>1, <2>2, <3>3, FreshRowsKept
  <2>5. CASE CallFails(t, c) /\ call[t][c].at # "done"
    <3>1. row'[t] = row[t]
      <4>1. row'[t] = [row[t] EXCEPT !.missed = row[t].missed]
        BY <1>1, <2>5 DEF CallFails, Rows
      <4> QED
        BY <1>1, <4>1 DEF Rows
    <3>2. Served(t) => Served(t)'
      BY <2>1, <2>5 DEF Served
    <3> QED
      BY <2>1, <2>2, <3>1, <3>2, FreshRowsKept
  <2> QED
    BY <1>6, <2>3, <2>4, <2>5
<1>7. CASE UNCHANGED registryVars
  BY <1>7 DEF registryVars, FreshRowsFit, FreshRowFits, Served
<1> QED
  BY <1>2, <1>3, <1>4, <1>5, <1>6, <1>7 DEF RegistryNext, CallStep

(* A tab with no answer outstanding shows as fresh what the registry       *)
(* holds, unless since it was read someone else wrote, an answer was lost, *)
(* or an invalidation of the tab could not reach the fetch.  The reading   *)
(* may be as old as the fetch: what keeps it right is that a mutation ends *)
(* either by having it read again or by counting as missed.                *)
THEOREM FreshRowsAreCurrent == RegistrySpec => []FreshRowIsCurrent
<1>1. RegistryInit => FreshRowsFit
  BY DEF RegistryInit, FreshRowsFit, FreshRowFits, Unread
<1>2. RegistryInv /\ FreshRowsFit /\ [RegistryNext]_registryVars => FreshRowsFit'
  BY FreshRowsNext
<1>3. FreshRowsFit => FreshRowIsCurrent
  BY DEF FreshRowsFit, FreshRowFits, FreshRowIsCurrent, Served
<1> QED
  BY <1>1, <1>2, <1>3, RegistryInvInit, RegistryInvNext, PTL DEF RegistrySpec

----------------------------------------------------------------------------
(* Agents.                                                                 *)

JobType == [at : Phases, plan : Seq(Statuses), seen : Statuses, wrote : BOOLEAN]

(* What a mutation asks for next, and that a transition it was accepted    *)
(* for is one from the status that was read.                               *)
JobFits(j, k) ==
  /\ j.at = "idle" => ~j.wrote
  /\ j.at \in {"call", "checked"} /\ k # "save" => j.plan # <<>>
  /\ j.at \in {"call", "checked"} /\ k = "create" => j.plan = <<"draft">>
  /\ j.at = "checked" /\ k = "create" => j.seen = "none"
  /\ j.at = "checked" /\ k \notin {"create", "save"} => <<j.seen, Head(j.plan)>> \in Valid

(* What was read for a fresh copy, or for an answer on its way, and missed *)
(* nothing is the status, or a mutation that has written will have it      *)
(* fetched again or be missed.                                             *)
Current(s) == s = agent \/ \E k \in Kinds : job[k].wrote

CopyFits(c) ==
  /\ c.fresh => c.at = "idle"
  /\ ~c.missed => /\ c.fresh => Current(c.status)
                  /\ c.at = "answered" => Current(c.read)

AgentInv ==
  /\ AgentTypeOK
  /\ \A k \in Kinds : JobFits(job[k], k)
  /\ \A p \in Pages : CopyFits(copy[p])

LEMMA AgentTypes ==
  ASSUME AgentInv
  PROVE  /\ agent \in Statuses
         /\ copy \in [Pages -> Copies]
         /\ job \in [Kinds -> JobType]
         /\ open \in [page : Pages, confirm : BOOLEAN, sheet : BOOLEAN]
BY DEF AgentInv, AgentTypeOK, JobType

LEMMA IdleType == Idle \in JobType /\ Idle.at = "idle" /\ ~Idle.wrote /\ Idle.plan = <<>>
<1>1. <<>> \in Seq(Statuses) /\ "none" \in Statuses
  BY DEF Statuses
<1> QED
  BY <1>1 DEF Idle, JobType, Phases

LEMMA AgentInvInit == AgentInit => AgentInv
<1> SUFFICES ASSUME AgentInit PROVE AgentInv
  OBVIOUS
<1>1. job \in [Kinds -> JobType]
  BY IdleType DEF AgentInit
<1>2. "none" \in Statuses /\ "list" \in Pages
  BY DEF Statuses, Pages
<1>3. AgentTypeOK
  <2>1. Unfetched \in Copies
    BY DEF Unfetched, Copies, CopyStatuses
  <2> QED
    BY <1>1, <1>2, <2>1 DEF AgentInit, AgentTypeOK, JobType
<1>4. \A k \in Kinds : JobFits(job[k], k)
  BY IdleType DEF AgentInit, JobFits
<1>5. \A p \in Pages : CopyFits(copy[p])
  BY DEF AgentInit, CopyFits, Unfetched
<1> QED
  BY <1>3, <1>4, <1>5 DEF AgentInv

(* One mutation changes, and nothing it wrote is forgotten.                *)
LEMMA OneJob ==
  ASSUME AgentInv, NEW k \in Kinds, NEW j \in JobType, JobFits(j, k),
         job[k].wrote => j.wrote,
         job' = [job EXCEPT ![k] = j], agent' = agent, copy' = copy, open' = open
  PROVE  AgentInv'
<1>1. /\ job \in [Kinds -> JobType] /\ job' \in [Kinds -> JobType] /\ job'[k] = j
      /\ \A i \in Kinds : i # k => job'[i] = job[i]
  BY AgentTypes
<1>2. AgentTypeOK'
  BY <1>1 DEF AgentInv, AgentTypeOK, JobType
<1>3. \A i \in Kinds : JobFits(job'[i], i)
  BY <1>1 DEF AgentInv
<1>4. \A p \in Pages : CopyFits(copy[p])'
  <2>1. (\E i \in Kinds : job[i].wrote) => \E i \in Kinds : job'[i].wrote
    BY <1>1
  <2> QED
    BY <2>1 DEF AgentInv, CopyFits, Current
<1> QED
  BY <1>2, <1>3, <1>4 DEF AgentInv, JobFits

(* The copies: one changes and no mutation does.                           *)
LEMMA OneCopy ==
  ASSUME AgentInv, NEW p \in Pages, NEW c \in Copies, CopyFits(c),
         copy' = [copy EXCEPT ![p] = c], agent' = agent, job' = job, open' = open
  PROVE  AgentInv'
<1>1. /\ copy \in [Pages -> Copies] /\ copy' \in [Pages -> Copies]
      /\ \A r \in Pages : copy'[r] = IF r = p THEN c ELSE copy[r]
  BY AgentTypes
<1>2. AgentTypeOK'
  BY <1>1 DEF AgentInv, AgentTypeOK
<1>3. \A r \in Pages : CopyFits(copy'[r])
  BY <1>1 DEF AgentInv
<1>4. \A r \in Pages : CopyFits(copy[r])'
  BY <1>3 DEF CopyFits, Current
<1> QED
  BY <1>2, <1>4 DEF AgentInv, JobFits

LEMMA RefetchedType ==
  ASSUME NEW c \in Copies
  PROVE  /\ Refetched(c) \in Copies
         /\ ~Refetched(c).fresh /\ Refetched(c).at = "asked"
BY DEF Refetched, Copies, CopyStatuses

LEMMA CopySteps ==
  ASSUME AgentInv, NEW p \in Pages, CopyStep(p)
  PROVE  AgentInv'
<1>1. /\ agent \in CopyStatuses /\ copy \in [Pages -> Copies] /\ copy[p] \in Copies
      /\ CopyFits(copy[p]) /\ Current(agent)
  BY AgentTypes DEF AgentInv, CopyStatuses, Current
<1>2. PICK c \in Copies : copy' = [copy EXCEPT ![p] = c] /\ CopyFits(c)
  <2>1. CASE AskCopy(p)
    <3>1. CopyFits(Refetched(copy[p]))
      BY <1>1, RefetchedType DEF CopyFits
    <3> QED
      BY <1>1, <2>1, <3>1, RefetchedType DEF AskCopy
  <2>2. CASE AnswerCopy(p)
    <3> DEFINE c == [copy[p] EXCEPT !.at = "answered", !.read = agent]
    <3>1. /\ c \in Copies /\ c.at = "answered" /\ c.read = agent /\ c.fresh = copy[p].fresh
          /\ copy' = [copy EXCEPT ![p] = c] /\ copy[p].at = "asked"
      BY <1>1, <2>2 DEF AnswerCopy, Copies
    <3>2. CopyFits(c)
      BY <1>1, <3>1 DEF CopyFits
    <3> QED
      BY <3>1, <3>2
  <2>3. CASE CopyArrives(p)
    <3> DEFINE c == [Unfetched EXCEPT !.status = copy[p].read, !.fresh = TRUE,
                                      !.missed = copy[p].missed]
    <3>1. /\ c \in Copies /\ c.at = "idle" /\ c.status = copy[p].read
          /\ c.missed = copy[p].missed
          /\ copy' = [copy EXCEPT ![p] = c] /\ copy[p].at = "answered"
      BY <1>1, <2>3 DEF CopyArrives, Copies, Unfetched, CopyStatuses
    <3>2. CopyFits(c)
      BY <1>1, <3>1 DEF CopyFits
    <3> QED
      BY <3>1, <3>2
  <2>4. CASE CopyFails(p)
    <3> DEFINE c == [Unfetched EXCEPT !.status = copy[p].status]
    <3>1. /\ c \in Copies /\ c.at = "idle" /\ ~c.fresh /\ copy' = [copy EXCEPT ![p] = c]
      BY <1>1, <2>4 DEF CopyFails, Copies, Unfetched, CopyStatuses
    <3>2. CopyFits(c)
      BY <3>1 DEF CopyFits
    <3> QED
      BY <3>1, <3>2
  <2>5. CASE CopyGoesStale(p)
    <3> DEFINE c == [copy[p] EXCEPT !.fresh = FALSE, !.missed = FALSE]
    <3>1. /\ c \in Copies /\ c.at = copy[p].at /\ ~c.fresh /\ copy[p].fresh
          /\ copy' = [copy EXCEPT ![p] = c]
      BY <1>1, <2>5 DEF CopyGoesStale, Copies
    <3>2. CopyFits(c)
      BY <1>1, <3>1 DEF CopyFits
    <3> QED
      BY <3>1, <3>2
  <2> QED
    BY <2>1, <2>2, <2>3, <2>4, <2>5 DEF CopyStep
<1>3. agent' = agent /\ job' = job /\ open' = open
  BY DEF CopyStep, AskCopy, AnswerCopy, CopyArrives, CopyFails, CopyGoesStale
<1> QED
  BY <1>2, <1>3, OneCopy

(* The pages. *)
LEMMA AgentPageSteps ==
  ASSUME AgentInv,
         \/ ToggleConfirm \/ ToggleSheet
         \/ \E p \in Pages : Navigate(p)
         \/ UNCHANGED agentVars
  PROVE  AgentInv'
<1>1. open \in [page : Pages, confirm : BOOLEAN, sheet : BOOLEAN]
  BY AgentTypes
<1>2. agent' = agent /\ job' = job /\ copy' = copy
  BY DEF ToggleConfirm, ToggleSheet, Navigate, agentVars
<1>3. open' \in [page : Pages, confirm : BOOLEAN, sheet : BOOLEAN]
  <2>1. CASE ToggleConfirm
    BY <1>1, <2>1 DEF ToggleConfirm
  <2>2. CASE ToggleSheet
    BY <1>1, <2>2 DEF ToggleSheet
  <2>3. ASSUME NEW p \in Pages, Navigate(p)
        PROVE  open' \in [page : Pages, confirm : BOOLEAN, sheet : BOOLEAN]
    BY <2>3 DEF Navigate
  <2> QED
    BY <1>1, <2>1, <2>2, <2>3 DEF agentVars
<1>4. AgentTypeOK'
  BY <1>2, <1>3 DEF AgentInv, AgentTypeOK
<1>5. \A p \in Pages : CopyFits(copy[p])'
  BY <1>2 DEF AgentInv, CopyFits, Current
<1> QED
  BY <1>2, <1>4, <1>5 DEF AgentInv, JobFits

(* The requests of a mutation. *)
LEMMA BeginStep ==
  ASSUME AgentInv, NEW k \in Kinds, Begin(k)
  PROVE  AgentInv'
<1> DEFINE at == IF k = "delete" THEN "get" ELSE "call"
           j  == [Idle EXCEPT !.plan = Plan(k), !.at = at]
<1>1. job' = [job EXCEPT ![k] = j] /\ agent' = agent /\ copy' = copy /\ open' = open
      /\ job[k].at = "idle"
  BY DEF Begin
<1>2. /\ Plan(k) \in Seq(Statuses)
      /\ k \notin {"save", "delete"} => Plan(k) # <<>>
      /\ k = "create" => Plan(k) = <<"draft">>
  <2>1. /\ <<"draft">> \in Seq(Statuses) /\ <<"staged", "active">> \in Seq(Statuses)
        /\ <<"active">> \in Seq(Statuses) /\ <<"paused">> \in Seq(Statuses)
        /\ <<>> \in Seq(Statuses)
    BY DEF Statuses
  <2>2. /\ <<"draft">> # <<>> /\ <<"staged", "active">> # <<>>
        /\ <<"active">> # <<>> /\ <<"paused">> # <<>>
    OBVIOUS
  <2> QED
    BY <2>1, <2>2 DEF Plan, Kinds
<1>3. at \in Phases /\ at \in {"get", "call"} /\ (k = "delete" => at = "get")
  BY DEF Phases
<1> HIDE DEF at
<1>4. j \in JobType /\ j.at = at /\ j.plan = Plan(k)
  BY <1>2, <1>3, IdleType DEF JobType, Idle
<1>5. ~job[k].wrote
  BY <1>1 DEF AgentInv, JobFits
<1> HIDE DEF j
<1>6. JobFits(j, k)
  BY <1>2, <1>3, <1>4 DEF JobFits
<1> QED
  BY <1>1, <1>4, <1>5, <1>6, OneJob

LEMMA GetAgentStep ==
  ASSUME AgentInv, GetAgent
  PROVE  AgentInv'
<1> DEFINE plan == IF agent \in {"draft", "paused"}
                   THEN <<"staged", "active", "archived">> ELSE <<"archived">>
           j == [job["delete"] EXCEPT !.at = "call", !.plan = plan]
<1>1. /\ job' = [job EXCEPT !["delete"] = j]
      /\ agent' = agent /\ copy' = copy /\ open' = open
  BY DEF GetAgent
<1>2. plan \in Seq(Statuses) /\ plan # <<>> /\ "delete" \in Kinds /\ "call" \in Phases
  <2>1. /\ <<"staged", "active", "archived">> \in Seq(Statuses)
        /\ <<"archived">> \in Seq(Statuses)
        /\ <<"staged", "active", "archived">> # <<>> /\ <<"archived">> # <<>>
    BY DEF Statuses
  <2> QED
    BY <2>1 DEF Kinds, Phases
<1> HIDE DEF plan
<1>3. j \in JobType /\ j.at = "call" /\ j.plan = plan /\ j.wrote = job["delete"].wrote
  BY <1>2, AgentTypes DEF JobType
<1> HIDE DEF j
<1>4. JobFits(j, "delete")
  BY <1>2, <1>3 DEF JobFits
<1> QED
  BY <1>1, <1>2, <1>3, <1>4, OneJob

LEMMA AcceptStep ==
  ASSUME AgentInv, NEW k \in Kinds, Accept(k)
  PROVE  AgentInv'
<1> DEFINE j == [job[k] EXCEPT !.at = "checked", !.seen = agent]
<1>1. /\ job' = [job EXCEPT ![k] = j]
      /\ agent' = agent /\ copy' = copy /\ open' = open
      /\ job[k].at = "call" /\ Allowed(k)
  BY AgentTypes DEF Accept
<1>2. "checked" \in Phases
  BY DEF Phases
<1>3. /\ j \in JobType /\ j.at = "checked" /\ j.seen = agent /\ j.plan = job[k].plan
      /\ j.wrote = job[k].wrote
  BY <1>2, AgentTypes DEF JobType
<1> HIDE DEF j
<1>4. /\ k = "create" => agent = "none"
      /\ k \notin {"create", "save"} => <<agent, Head(job[k].plan)>> \in Valid
  BY <1>1 DEF Allowed
<1>5. JobFits(job[k], k)
  BY DEF AgentInv
<1>6. JobFits(j, k)
  BY <1>1, <1>3, <1>4, <1>5 DEF JobFits
<1> QED
  BY <1>1, <1>3, <1>6, OneJob

LEMMA LongTail ==
  ASSUME NEW q \in Seq(Statuses), Len(q) > 1
  PROVE  Tail(q) # <<>>
<1>1. Len(q) \in Nat /\ q # <<>>
  OBVIOUS
<1>2. Len(Tail(q)) = Len(q) - 1
  BY <1>1
<1>3. Len(Tail(q)) # Len(<<>>)
  BY <1>1, <1>2
<1> QED
  BY <1>3

LEMMA WriteJobStep ==
  ASSUME AgentInv, NEW k \in Kinds, Write(k)
  PROVE  AgentInv'
<1> DEFINE plan == IF k = "save" THEN job[k].plan ELSE Tail(job[k].plan)
           at   == IF Len(job[k].plan) <= 1 THEN "done" ELSE "call"
           j    == [job[k] EXCEPT !.wrote = TRUE, !.seen = "none", !.plan = plan, !.at = at]
<1>1. /\ agent \in Statuses /\ copy \in [Pages -> Copies] /\ job \in [Kinds -> JobType]
      /\ job[k].plan \in Seq(Statuses) /\ job[k].seen \in Statuses
      /\ JobFits(job[k], k)
  BY AgentTypes DEF AgentInv, JobType
<1>2. /\ agent' = IF k = "save" THEN job[k].seen ELSE Head(job[k].plan)
      /\ job' = [job EXCEPT ![k] = j]
      /\ copy' = copy /\ open' = open /\ job[k].at = "checked"
  BY <1>1 DEF Write
<1>3. k # "save" => job[k].plan # <<>>
  BY <1>1, <1>2 DEF JobFits
<1>4. agent' \in Statuses
  BY <1>1, <1>2, <1>3
<1>5. /\ plan \in Seq(Statuses) /\ at \in {"done", "call"}
      /\ at = "call" /\ k # "save" => plan # <<>>
      /\ at = "call" => k # "create"
  <2>1. k = "create" => job[k].plan = <<"draft">>
    BY <1>1, <1>2 DEF JobFits
  <2>2. k = "create" => Len(job[k].plan) = 1
    BY <2>1
  <2>3. plan \in Seq(Statuses)
    BY <1>1, <1>3
  <2>4. at = "call" => Len(job[k].plan) > 1
    BY <1>1
  <2>5. k # "save" /\ Len(job[k].plan) > 1 => plan # <<>>
    BY <1>1, LongTail
  <2>6. at \in {"done", "call"} /\ (at = "call" => k # "create")
    <3>1. k = "create" => Len(job[k].plan) <= 1
      <4>1. 1 <= 1
        OBVIOUS
      <4> QED
        BY <2>2, <4>1, Zenon
    <3>2. Len(job[k].plan) <= 1 => at = "done"
      OBVIOUS
    <3>3. at \in {"done", "call"}
      OBVIOUS
    <3> QED
      BY <3>1, <3>2, <3>3
  <2> HIDE DEF plan, at
  <2> QED
    BY <2>3, <2>4, <2>5, <2>6
<1> HIDE DEF plan, at
<1>6. at \in Phases /\ "none" \in Statuses
  BY <1>5 DEF Phases, Statuses
<1>7. j \in JobType /\ j.at = at /\ j.plan = plan /\ j.wrote
  BY <1>1, <1>5, <1>6 DEF JobType
<1> HIDE DEF j
<1>8. /\ job' \in [Kinds -> JobType] /\ job'[k] = j
      /\ \A i \in Kinds : i # k => job'[i] = job[i]
  BY <1>1, <1>2, <1>7
<1>9. JobFits(j, k)
  BY <1>5, <1>7 DEF JobFits
<1>10. AgentTypeOK'
  BY <1>2, <1>4, <1>8 DEF AgentInv, AgentTypeOK, JobType
<1>11. \A i \in Kinds : JobFits(job'[i], i)
  BY <1>8, <1>9 DEF AgentInv
<1>12. \A p \in Pages : CopyFits(copy[p])'
  <2>1. \A s : Current(s)'
    BY <1>7, <1>8 DEF Current
  <2> QED
    BY <1>2, <2>1 DEF AgentInv, CopyFits
<1> QED
  BY <1>10, <1>11, <1>12 DEF AgentInv, JobFits

(* The mutation is over: what it wrote makes the copies stale or has been  *)
(* missed.                                                                 *)
LEMMA JobOver ==
  ASSUME AgentInv, NEW k \in Kinds, job' = [job EXCEPT ![k] = Idle], agent' = agent,
         open' \in [page : Pages, confirm : BOOLEAN, sheet : BOOLEAN],
         copy' \in [Pages -> Copies],
         \A p \in Pages :
           \/ ~copy'[p].fresh /\ copy'[p].at # "answered"
           \/ copy'[p].missed /\ (copy'[p].fresh => copy'[p].at = "idle")
           \/ copy'[p] = copy[p] /\ ~job[k].wrote
  PROVE  AgentInv'
<1>1. /\ agent \in Statuses /\ job \in [Kinds -> JobType]
  BY AgentTypes
<1>2. /\ job' \in [Kinds -> JobType] /\ job'[k] = Idle
      /\ \A i \in Kinds : i # k => job'[i] = job[i]
  BY <1>1, IdleType
<1>3. AgentTypeOK'
  BY <1>1, <1>2 DEF AgentTypeOK, JobType
<1>4. \A i \in Kinds : JobFits(job'[i], i)
  BY <1>2, IdleType DEF AgentInv, JobFits
<1>5. \A p \in Pages : CopyFits(copy[p])'
  <2> TAKE p \in Pages
  <2>1. CopyFits(copy[p])
    BY DEF AgentInv
  <2>2. \A s : ~job[k].wrote /\ Current(s) => Current(s)'
    BY <1>2 DEF Current
  <2> QED
    BY <2>1, <2>2 DEF CopyFits
<1> QED
  BY <1>3, <1>4, <1>5 DEF AgentInv, JobFits

LEMMA InvalidatedCopy ==
  ASSUME AgentInv, NEW p \in Pages
  PROVE  /\ CopyInvalidated(p) \in Copies /\ ~CopyInvalidated(p).fresh
         /\ CopyInvalidated(p).at = "answered" => CopyInvalidated(p).missed
<1>1. copy[p] \in Copies
  BY AgentTypes
<1> DEFINE missed == copy[p].at = "answered"
<1>2. missed \in BOOLEAN
  OBVIOUS
<1>3. CopyInvalidated(p) \in
        {[copy[p] EXCEPT !.fresh = FALSE, !.missed = missed], Refetched(copy[p])}
  BY DEF CopyInvalidated
<1>4. CASE CopyInvalidated(p) = [copy[p] EXCEPT !.fresh = FALSE, !.missed = missed]
  BY <1>1, <1>2, <1>4 DEF Copies
<1>5. CASE CopyInvalidated(p) = Refetched(copy[p])
  BY <1>1, <1>5, RefetchedType
<1> QED
  BY <1>3, <1>4, <1>5

LEMMA SucceedStep ==
  ASSUME AgentInv, NEW k \in Kinds, Succeed(k)
  PROVE  AgentInv'
<1> DEFINE missed(p) == CopyRead(p) /\ (copy[p].missed \/ p = "list")
           c(p) == IF p \in Invalidates(k) THEN CopyInvalidated(p)
                   ELSE [copy[p] EXCEPT !.missed = missed(p)]
<1>1. copy \in [Pages -> Copies] /\ open \in [page : Pages, confirm : BOOLEAN, sheet : BOOLEAN]
  BY AgentTypes
<1>2. copy' = [p \in Pages |-> c(p)]
  BY DEF Succeed
<1>3. ASSUME NEW p \in Pages
      PROVE  /\ c(p) \in Copies
             /\ \/ ~c(p).fresh /\ c(p).at # "answered"
                \/ c(p).missed /\ (c(p).fresh => c(p).at = "idle")
  <2>1. CASE p \in Invalidates(k)
    BY <2>1, InvalidatedCopy
  <2>2. CASE p \notin Invalidates(k)
    <3>1. p = "list" /\ CopyFits(copy[p]) /\ copy[p] \in Copies
      BY <1>1, <2>2 DEF Invalidates, Pages, AgentInv
    <3>2. missed(p) \in BOOLEAN /\ (missed(p) <=> CopyRead(p))
      BY <3>1 DEF Copies, CopyRead
    <3>3. c(p) = [copy[p] EXCEPT !.missed = missed(p)]
      BY <2>2
    <3> HIDE DEF c, missed
    <3>4. /\ c(p) \in Copies /\ c(p).fresh = copy[p].fresh /\ c(p).at = copy[p].at
          /\ c(p).missed = missed(p)
      BY <3>1, <3>2, <3>3 DEF Copies
    <3> QED
      BY <3>1, <3>2, <3>4 DEF CopyFits, CopyRead
  <2> QED
    BY <2>1, <2>2
<1> HIDE DEF c
<1>4. copy' \in [Pages -> Copies] /\ \A p \in Pages : copy'[p] = c(p)
  BY <1>2, <1>3
<1>5. /\ job' = [job EXCEPT ![k] = Idle] /\ agent' = agent
      /\ open' \in [page : Pages, confirm : BOOLEAN, sheet : BOOLEAN]
  BY <1>1 DEF Succeed
<1>6. \A p \in Pages : \/ ~copy'[p].fresh /\ copy'[p].at # "answered"
                       \/ copy'[p].missed /\ (copy'[p].fresh => copy'[p].at = "idle")
  BY <1>3, <1>4
<1> QED
  BY <1>4, <1>5, <1>6, JobOver

LEMMA FailStep ==
  ASSUME AgentInv, NEW k \in Kinds, FailWith(k)
  PROVE  AgentInv'
<1> DEFINE missed(p) == copy[p].missed \/ (CopyRead(p) /\ job[k].wrote)
<1>1. /\ copy \in [Pages -> Copies] /\ job[k].wrote \in BOOLEAN
      /\ open \in [page : Pages, confirm : BOOLEAN, sheet : BOOLEAN]
  BY AgentTypes DEF JobType
<1>2. /\ copy' = [p \in Pages |-> [copy[p] EXCEPT !.missed = missed(p)]]
      /\ job' = [job EXCEPT ![k] = Idle] /\ agent' = agent /\ open' = open
  BY DEF FailWith
<1>3. \A p \in Pages : missed(p) \in BOOLEAN
  BY <1>1 DEF Copies, CopyRead
<1> HIDE DEF missed
<1>4. /\ copy' \in [Pages -> Copies]
      /\ \A p \in Pages : copy'[p] = [copy[p] EXCEPT !.missed = missed(p)]
  BY <1>1, <1>2, <1>3 DEF Copies
<1>5. ASSUME NEW p \in Pages
      PROVE  \/ ~copy'[p].fresh /\ copy'[p].at # "answered"
             \/ copy'[p].missed /\ (copy'[p].fresh => copy'[p].at = "idle")
             \/ copy'[p] = copy[p] /\ ~job[k].wrote
  <2>1. /\ copy'[p].fresh = copy[p].fresh /\ copy'[p].at = copy[p].at
        /\ copy'[p].missed = missed(p) /\ CopyFits(copy[p])
    BY <1>1, <1>4 DEF AgentInv, Copies
  <2>2. CASE job[k].wrote
    BY <2>1, <2>2 DEF missed, CopyFits, CopyRead
  <2>3. CASE ~job[k].wrote
    <3>1. missed(p) = copy[p].missed
      BY <1>1, <2>3 DEF missed, Copies
    <3>2. copy'[p] = copy[p]
      BY <1>1, <1>4, <3>1 DEF Copies
    <3> QED
      BY <2>3, <3>2
  <2> QED
    BY <2>2, <2>3
<1> QED
  BY <1>1, <1>2, <1>4, <1>5, JobOver

LEMMA AgentInvNext == AgentInv /\ [AgentNext]_agentVars => AgentInv'
<1> SUFFICES ASSUME AgentInv, [AgentNext]_agentVars PROVE AgentInv'
  OBVIOUS
<1>1. ASSUME NEW k \in Kinds, JobStep(k) PROVE AgentInv'
  BY <1>1, BeginStep, AcceptStep, WriteJobStep, SucceedStep, FailStep
  DEF JobStep, Refuse, LoseRequest
<1> QED
  BY <1>1, AgentPageSteps, CopySteps, GetAgentStep DEF AgentNext

(* The status, the copies and the mutations keep their types.              *)
THEOREM AgentPagesTypeCorrect == AgentSpec => []AgentTypeOK
<1>1. AgentInv => AgentTypeOK
  BY DEF AgentInv
<1> QED
  BY <1>1, AgentInvInit, AgentInvNext, PTL DEF AgentSpec

(* With no mutation in flight a page shows as fresh what the registry      *)
(* holds, unless it missed a write it is not invalidated for, or one whose *)
(* invalidation could not reach the fetch its data comes from.             *)
THEOREM FreshCopiesAreCurrent == AgentSpec => []FreshCopyIsCurrent
<1>1. AgentInv => FreshCopyIsCurrent
  BY DEF AgentInv, FreshCopyIsCurrent, CopyFits, Current, JobFits, Running
<1> QED
  BY <1>1, AgentInvInit, AgentInvNext, PTL DEF AgentSpec

(* A write takes the lifecycle a step on from the status it was accepted   *)
(* on: it leaves the lifecycle only when that is no longer the status.     *)
THEOREM AgentLifecycleIsKept == AgentSpec => LifecycleLeftByRacesOnly
<1>1. ASSUME AgentInv, [AgentNext]_agentVars
      PROVE  \/ agent' = agent
             \/ <<agent, agent'>> \in Valid \union {<<"none", "draft">>}
             \/ \E k \in Kinds : job[k].at = "checked" /\ job[k].seen # agent
  <2>1. ASSUME NEW k \in Kinds, Write(k), job[k].seen = agent
        PROVE  agent' = agent \/ <<agent, agent'>> \in Valid \union {<<"none", "draft">>}
    <3>1. /\ agent' = IF k = "save" THEN job[k].seen ELSE Head(job[k].plan)
          /\ job[k].at = "checked" /\ JobFits(job[k], k)
      BY <1>1, <2>1 DEF Write, AgentInv
    <3>2. CASE k = "save"
      BY <2>1, <3>1, <3>2
    <3>3. CASE k = "create"
      <4>1. job[k].plan = <<"draft">> /\ job[k].seen = "none"
        BY <3>1, <3>3 DEF JobFits
      <4>2. Head(job[k].plan) = "draft"
        BY <4>1
      <4> QED
        BY <2>1, <3>1, <3>3, <4>1, <4>2
    <3>4. CASE k \notin {"create", "save"}
      BY <2>1, <3>1, <3>4 DEF JobFits
    <3> QED
      BY <3>2, <3>3, <3>4
  <2>2. agent' = agent \/ \E k \in Kinds : Write(k)
    BY <1>1 DEF AgentNext, agentVars, ToggleConfirm, ToggleSheet, GetAgent, Navigate, CopyStep,
                AskCopy, AnswerCopy, CopyArrives, CopyFails, CopyGoesStale, JobStep, Begin, Accept, Succeed, Refuse, LoseRequest, FailWith
  <2>3. \A k \in Kinds : Write(k) => job[k].at = "checked"
    BY DEF Write
  <2> QED
    BY <2>1, <2>2, <2>3
<1> QED
  BY <1>1, AgentInvInit, AgentInvNext, PTL DEF AgentSpec, LifecycleLeftByRacesOnly
=============================================================================
