--------------------------- MODULE SystemRecords ---------------------------
(***************************************************************************)
(* The System Agents, System Tools and System Skills pages of              *)
(* admin-console: three pages of one design, a list, the record shown      *)
(* beside it and a modal that edits it, over admin-api.                    *)
(*                                                                         *)
(* The record shown is the one chosen by hand or else the first of the     *)
(* list, which has the newest record first.  The modal keeps the text it   *)
(* was opened with; Save sends it to the record that is shown by then.     *)
(* The modal covers the list, so that no record is chosen under it.        *)
(***************************************************************************)
EXTENDS Naturals, Sequences

CONSTANTS
  Entries,       (* system records; none is ever removed                   *)
  MaxEdits       (* bound: times Save is clicked                           *)

Nothing == "nothing"

ASSUME SystemRecordsAssumption ==
  MaxEdits \in Nat /\ Nothing \notin Entries /\ Entries \cap (0..MaxEdits) = {}

Edits == 1..MaxEdits

(* A name and version: that a record has from its creation, or that was    *)
(* typed before a save and no other record has.                            *)
Names == Entries \union Edits

VARIABLES
  catalogue,     (* order: the records there are, the newest first; named: *)
                 (* the name and version of each; form: the record whose   *)
                 (* text each was saved with; byHand (history): a record   *)
                 (* had been chosen on that page                           *)
  listing,       (* the cached list of the page                            *)
  modal,         (* the page: the record chosen, the modal and whose text  *)
                 (* it holds                                               *)
  edit           (* Edits -> a mutation                                    *)

recordsVars == <<catalogue, listing, modal, edit>>

NoModal == [page |-> FALSE, chosen |-> Nothing, open |-> FALSE, from |-> Nothing,
            named |-> 0]

RecordsTypeOK ==
  /\ catalogue \in [order : Seq(Entries), named : [Entries -> Names],
                    form : [Entries -> Entries], byHand : [Entries -> BOOLEAN]]
  /\ listing \in [order : Seq(Entries), named : [Entries -> Names], fresh : BOOLEAN]
  /\ modal \in [page : BOOLEAN, chosen : Entries \union {Nothing}, open : BOOLEAN,
                from : Entries \union {Nothing}, named : Names \union {0}]
  /\ edit \in [Edits -> [at : {"unmade", "sent", "written", "over"},
                         id : Entries \union {Nothing}, from : Entries \union {Nothing},
                         named : Names \union {0},
                         byHand : BOOLEAN, stray : BOOLEAN]]

There(order) == {order[i] : i \in DOMAIN order}

RecordsInit ==
  /\ catalogue \in [order : {<<e>> : e \in Entries}, named : {[e \in Entries |-> e]},
                    form : {[e \in Entries |-> e]}, byHand : {[e \in Entries |-> FALSE]}]
  /\ listing = [order |-> <<>>, named |-> catalogue.named, fresh |-> FALSE]
  /\ modal = NoModal
  /\ edit = [i \in Edits |-> [at |-> "unmade", id |-> Nothing, from |-> Nothing,
                              named |-> 0, byHand |-> FALSE, stray |-> FALSE]]

----------------------------------------------------------------------------
OpenRecords ==
  /\ ~modal.page
  /\ modal' = [NoModal EXCEPT !.page = TRUE]
  /\ UNCHANGED <<catalogue, listing, edit>>

Busy == {i \in Edits : edit[i].at \in {"sent", "written"} /\ ~edit[i].stray}

(* What the page holds is gone; its mutation goes on. *)
LeaveRecords ==
  /\ modal.page
  /\ modal' = NoModal
  /\ edit' = [i \in Edits |-> [edit[i] EXCEPT !.stray = @ \/ i \in Busy]]
  /\ UNCHANGED <<catalogue, listing>>

(* The list is fetched: first, after an invalidation, or five minutes      *)
(* later when the window is looked at again, under the modal as well.      *)
ReadListing ==
  /\ modal.page /\ ~listing.fresh
  /\ listing' = [order |-> catalogue.order, named |-> catalogue.named, fresh |-> TRUE]
  /\ UNCHANGED <<catalogue, modal, edit>>

ListingGoesStale ==
  /\ listing.fresh
  /\ listing' = [listing EXCEPT !.fresh = FALSE]
  /\ UNCHANGED <<catalogue, modal, edit>>

ChooseRecord(e) ==
  /\ modal.page /\ ~modal.open
  /\ e \in There(listing.order) \ {modal.chosen}
  /\ modal' = [modal EXCEPT !.chosen = e]
  /\ UNCHANGED <<catalogue, listing, edit>>

(* A mutant of ShownRecord: the first of the list, whatever was chosen.    *)
ShownFirst == Head(listing.order)

ShownRecord == IF modal.chosen \in There(listing.order) THEN modal.chosen
               ELSE Head(listing.order)

(* The modal takes the text of the record shown. *)
OpenModal ==
  /\ modal.page /\ ~modal.open
  /\ listing.order # <<>>
  /\ modal' = [modal EXCEPT !.open = TRUE, !.from = ShownRecord,
                              !.named = listing.named[ShownRecord]]
  /\ UNCHANGED <<catalogue, listing, edit>>

Closed(m) == [m EXCEPT !.open = FALSE, !.from = Nothing, !.named = 0]

(* Cancel, also while the text is being saved. *)
CloseModal ==
  /\ modal.open
  /\ modal' = Closed(modal)
  /\ UNCHANGED <<catalogue, listing, edit>>

(* Save, disabled while this page has a mutation pending; the name or the  *)
(* version may have been edited.                                           *)
SaveRecord(i) ==
  /\ modal.open /\ Busy = {}
  /\ edit[i].at = "unmade" /\ \A j \in 1..(i - 1) : edit[j].at # "unmade"
  /\ \E name \in {modal.named, i} :
       edit' = [edit EXCEPT ![i] = [at |-> "sent", id |-> ShownRecord, from |-> modal.from,
                                    named |-> name, byHand |-> modal.chosen # Nothing,
                                    stray |-> FALSE]]
  /\ UNCHANGED <<catalogue, listing, modal>>

----------------------------------------------------------------------------
(* admin-api looks at nothing but the id; the database has one record of a *)
(* name and version.                                                       *)
WriteRecord(i) ==
  /\ edit[i].at = "sent"
  /\ \A e \in There(catalogue.order) \ {edit[i].id} : catalogue.named[e] # edit[i].named
  /\ catalogue' = [catalogue EXCEPT !.form[edit[i].id] = edit[i].from,
                                    !.named[edit[i].id] = edit[i].named,
                                    !.byHand[edit[i].id] = edit[i].byHand]
  /\ edit' = [edit EXCEPT ![i].at = "written"]
  /\ UNCHANGED <<listing, modal>>

(* Another administrator, or the seeding of the platform. *)
AddRecord(e) ==
  /\ e \notin There(catalogue.order)
  /\ catalogue' = [catalogue EXCEPT !.order = <<e>> \o @]
  /\ UNCHANGED <<listing, modal, edit>>

(* onSuccess: whichever modal is open by then is closed. *)
SaveAnswered(i) ==
  /\ edit[i].at = "written"
  /\ edit' = [edit EXCEPT ![i].at = "over"]
  /\ listing' = [listing EXCEPT !.fresh = FALSE]
  /\ modal' = IF edit[i].stray THEN modal ELSE Closed(modal)
  /\ UNCHANGED catalogue

(* Refused, or the answer is lost: the modal stays and shows nothing. *)
SaveLost(i) ==
  /\ edit[i].at \in {"sent", "written"}
  /\ edit' = [edit EXCEPT ![i].at = "over"]
  /\ UNCHANGED <<catalogue, listing, modal>>

RecordsNext ==
  \/ OpenRecords \/ LeaveRecords \/ ReadListing \/ ListingGoesStale
  \/ OpenModal \/ CloseModal
  \/ \E e \in Entries : ChooseRecord(e) \/ AddRecord(e)
  \/ \E i \in Edits : SaveRecord(i) \/ WriteRecord(i) \/ SaveAnswered(i) \/ SaveLost(i)

RecordsSpec == RecordsInit /\ [][RecordsNext]_recordsVars

----------------------------------------------------------------------------
(* A record is saved with the text of another one only when it is newer    *)
(* than that one, so that it slid under the modal as the first of the      *)
(* list, and only on a page on which no record had been chosen by hand.    *)
ForeignTextSlidIn ==
  LET place(e) == CHOOSE i \in DOMAIN catalogue.order : catalogue.order[i] = e IN
    \A e \in Entries :
      catalogue.form[e] # e =>
        ~catalogue.byHand[e] /\ place(e) < place(catalogue.form[e])
============================================================================
