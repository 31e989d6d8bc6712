------------------------- MODULE ManifestAssistant -------------------------
(***************************************************************************)
(* The Manifest Assistant panel of agent-studio: one chat with the system  *)
(* agent that drafts a manifest, the draft read from its answer, and the   *)
(* Edit Agent form the draft is applied to, whose record may be edited     *)
(* elsewhere at the same time.                                             *)
(***************************************************************************)
EXTENDS Naturals, Sequences

CONSTANTS
  MaxAsks,       (* bound: messages sent                                   *)
  MaxSections,   (* bound: sections of an answer                           *)
  MaxHandEdits   (* bound: edits by hand, in the form or elsewhere         *)

ASSUME ManifestAssumption == MaxAsks \in Nat /\ MaxSections \in Nat /\ MaxHandEdits \in Nat

(* Of a skills section the model knows whether a z precedes its first item.*)
Sections == {"prompt", "skills", "skills after a z", "other"}
FormFields == {"prompt", "skills"}
Fields == FormFields \union {"tools"}      (* tools and native_tools       *)

(* Who a value is from: the agent as it was (0), the draft of an answer,   *)
(* an edit made elsewhere, the user of the form, or nobody any more.       *)
Drafts == 1..MaxAsks
Typed  == MaxAsks + MaxHandEdits + 1
Erased == MaxAsks + MaxHandEdits + 2
Values == 0..Erased

NoDraft == {"no draft"}

VARIABLES
  panel,         (* the panel: the last answer, and the draft it offers    *)
  wire,          (* the response of the chat                               *)
  applying,      (* the draft a timer holds, and the answer it is of       *)
  sheetForm,     (* the form, and the agent as the page has read it        *)
  record,        (* the agent in agent-registry                            *)
  update,        (* the mutation of the form                               *)
  handEdits      (* edits by hand so far                                   *)

manifestVars == <<panel, wire, applying, sheetForm, record, update, handEdits>>

(* text: what was received of the last answer; failed: an error is shown   *)
(* in its place; draft: the fields an answer had; busy: streaming; cursor: *)
(* the answer is still marked as streaming.                                *)
NoPanel == [open |-> FALSE, text |-> <<>>, failed |-> FALSE, ask |-> 0, busy |-> FALSE,
            cursor |-> FALSE, draft |-> NoDraft]
NoTimer == [draft |-> NoDraft, ask |-> 0]
Fresh   == [f \in FormFields |-> 0]
NoUpdate == [at |-> "idle", data |-> Fresh, base |-> Fresh]

ManifestTypeOK ==
  /\ panel \in [open : BOOLEAN, text : Seq(Sections), failed : BOOLEAN, ask : 0..MaxAsks,
                busy : BOOLEAN, cursor : BOOLEAN, draft : {NoDraft} \union SUBSET FormFields]
  /\ wire \in {"none", "open", "ended"}
  /\ applying \in [draft : {NoDraft} \union SUBSET FormFields, ask : 0..MaxAsks]
  /\ sheetForm \in [open : BOOLEAN, data : [FormFields -> Values], read : [FormFields -> Values]]
  /\ record \in [Fields -> Values]
  /\ update \in [at : {"idle", "sent", "done"}, data : [FormFields -> Values],
                 base : [FormFields -> Values]]
  /\ handEdits \in 0..MaxHandEdits

ManifestInit ==
  /\ panel = NoPanel /\ wire = "none" /\ applying = NoTimer
  /\ record = [f \in Fields |-> 0]
  /\ sheetForm = [open |-> FALSE, data |-> Fresh, read |-> Fresh]
  /\ update = NoUpdate /\ handEdits = 0

----------------------------------------------------------------------------
(* extractAssistantDraft.  The list of skills must be followed by another  *)
(* heading or by a z: the end of the text, which its expression writes     *)
(* \Z, is none in this language.                                           *)
IsSkills(s) == s \in {"skills", "skills after a z"}

Extract(text) ==
  {f \in FormFields :
     \/ f = "prompt" /\ \E i \in DOMAIN text : text[i] = "prompt"
     \/ f = "skills" /\ \E i \in 1..(Len(text) - 1) :
          /\ text[i] = "skills"
          /\ \A j \in 1..(i - 1) : ~IsSkills(text[j])}

(* The panel is mounted and unmounted; an unmounted one hears no answer,   *)
(* but its timer runs on.                                                  *)
ShowAssistant ==
  /\ ~panel.open
  /\ panel' = [NoPanel EXCEPT !.open = TRUE, !.ask = panel.ask]
  /\ UNCHANGED <<wire, applying, sheetForm, record, update, handEdits>>

HideAssistant ==
  /\ panel.open
  /\ panel' = [NoPanel EXCEPT !.ask = panel.ask]
  /\ wire' = "none"
  /\ UNCHANGED <<applying, sheetForm, record, update, handEdits>>

Asking(draft) ==
  /\ panel.open /\ ~panel.busy
  /\ panel.ask < MaxAsks
  /\ panel' = [panel EXCEPT !.text = <<>>, !.failed = FALSE, !.ask = @ + 1, !.busy = TRUE,
                            !.cursor = TRUE, !.draft = draft]
  /\ wire' = "open"
  /\ UNCHANGED <<applying, sheetForm, record, update, handEdits>>

(* A mutant of AskAssistant that leaves the last draft on offer. *)
AskKeepingDraft == Asking(panel.draft)

(* sendMessage, up to the request. *)
AskAssistant == Asking(NoDraft)

(* text events; thinking and tool_call are only shown. *)
ReceiveText(s) ==
  /\ wire = "open"
  /\ Len(panel.text) < MaxSections
  /\ panel' = [panel EXCEPT !.text = Append(@, s)]
  /\ UNCHANGED <<wire, applying, sheetForm, record, update, handEdits>>

(* done or error: a draft is read from as much as there is. *)
ReceiveEnd ==
  /\ wire = "open"
  /\ panel' = [panel EXCEPT !.cursor = FALSE, !.draft = Extract(panel.text)]
  /\ wire' = "ended"
  /\ UNCHANGED <<applying, sheetForm, record, update, handEdits>>

(* The response is over, with its end event or without; or it breaks, and  *)
(* an error takes the place of the answer.  A draft on offer stays.        *)
StreamOver ==
  /\ wire # "none"
  /\ \E broken \in BOOLEAN :
       panel' = [panel EXCEPT !.busy = FALSE, !.cursor = @ /\ ~broken, !.failed = broken]
  /\ wire' = "none"
  /\ UNCHANGED <<applying, sheetForm, record, update, handEdits>>

(* handleApply: disabled while its timer runs, in this panel. *)
ApplyDraft ==
  /\ panel.draft # NoDraft
  /\ applying = NoTimer
  /\ applying' = [draft |-> panel.draft, ask |-> panel.ask]
  /\ UNCHANGED <<panel, wire, sheetForm, record, update, handEdits>>

(* handleApplyAssistantDraft, 100 ms later. *)
DraftApplied ==
  /\ applying # NoTimer
  /\ sheetForm' = [sheetForm EXCEPT !.data =
       [f \in FormFields |-> IF f \in applying.draft THEN applying.ask ELSE @[f]]]
  /\ applying' = NoTimer
  /\ UNCHANGED <<panel, wire, record, update, handEdits>>

----------------------------------------------------------------------------
(* The form keeps what was put into it when it is closed, which it can be  *)
(* while it is being saved.                                                *)
ToggleForm ==
  /\ sheetForm' = [sheetForm EXCEPT !.open = ~@]
  /\ UNCHANGED <<panel, wire, applying, record, update, handEdits>>

(* A field is edited by hand. *)
TypeField(f) ==
  /\ sheetForm.open
  /\ handEdits < MaxHandEdits
  /\ handEdits' = handEdits + 1
  /\ sheetForm' = [sheetForm EXCEPT !.data[f] = Typed]
  /\ UNCHANGED <<panel, wire, applying, record, update>>

(* What the form takes from the agent: its schema has no tools.            *)
Carried == [f \in FormFields |-> record[f]]

(* A mutant of AgentRead: a form with default values, as the create form.  *)
ReadBesideForm ==
  /\ sheetForm' = [sheetForm EXCEPT !.read = Carried]
  /\ UNCHANGED <<panel, wire, applying, record, update, handEdits>>

(* The page reads the agent again; values that differ from those read last *)
(* reset the form, drafts and all.                                         *)
AgentRead ==
  /\ sheetForm' = [sheetForm EXCEPT !.read = Carried,
                                    !.data = IF sheetForm.read = Carried THEN @ ELSE Carried]
  /\ UNCHANGED <<panel, wire, applying, record, update, handEdits>>

SaveForm ==
  /\ sheetForm.open /\ update.at = "idle"
  /\ update' = [at |-> "sent", data |-> sheetForm.data, base |-> sheetForm.read]
  /\ UNCHANGED <<panel, wire, applying, sheetForm, record, handEdits>>

(* The update replaces the record: what it does not carry is erased.       *)
UpdateRecord ==
  /\ update.at = "sent"
  /\ record' = [f \in Fields |-> IF f \in FormFields THEN update.data[f] ELSE Erased]
  /\ update' = [update EXCEPT !.at = "done"]
  /\ UNCHANGED <<panel, wire, applying, sheetForm, handEdits>>

UpdateAnswered ==
  /\ update.at # "idle"
  /\ \/ update.at = "done" /\ sheetForm' = [sheetForm EXCEPT !.open = FALSE]
     \/ UNCHANGED sheetForm
  /\ update' = NoUpdate
  /\ UNCHANGED <<panel, wire, applying, record, handEdits>>

EditElsewhere(f) ==
  /\ handEdits < MaxHandEdits
  /\ handEdits' = handEdits + 1
  /\ record' = [record EXCEPT ![f] = MaxAsks + handEdits']
  /\ UNCHANGED <<panel, wire, applying, sheetForm, update>>

ManifestNext ==
  \/ ShowAssistant \/ HideAssistant \/ AskAssistant \/ ReceiveEnd \/ StreamOver
  \/ ApplyDraft \/ DraftApplied \/ ToggleForm \/ AgentRead
  \/ SaveForm \/ UpdateRecord \/ UpdateAnswered
  \/ \E s \in Sections : ReceiveText(s)
  \/ \E f \in FormFields : TypeField(f)
  \/ \E f \in Fields : EditElsewhere(f)

ManifestSpec == ManifestInit /\ [][ManifestNext]_manifestVars

----------------------------------------------------------------------------
(* What Apply offers was read from what was received for the question      *)
(* asked last, never for an earlier one, however the streams of both       *)
(* ended; also when the answer is no longer shown, its stream having       *)
(* broken after the end event.                                             *)
DraftIsOfTheAnswer ==
  panel.draft # NoDraft => panel.draft = Extract(panel.text)

(* Of the fields the form carries a save changes one to what it was not    *)
(* meant to be only when the field was changed elsewhere after the page    *)
(* last read it: it carries a draft, what was typed, or what the agent was *)
(* at that reading.  Nothing of the kind holds of the tools, which every   *)
(* save erases.                                                            *)
SaveUndoesTheUnreadOnly ==
  [][ update.at = "sent" /\ update'.at = "done" =>
        \A f \in FormFields :
          \/ record'[f] = record[f]
          \/ update.data[f] \in Drafts \union {Typed}
          \/ update.base[f] # record[f] ]_manifestVars
============================================================================
