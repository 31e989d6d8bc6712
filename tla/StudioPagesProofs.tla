------------------------- MODULE StudioPagesProofs --------------------------
(***************************************************************************)
(* Proofs about pages of agent-studio: the tenant they show and their      *)
(* query cache, the manifest assistant, and the builder of knowledge       *)
(* graphs, for any tenants, keys, fields, nodes and numbers of requests.   *)
(***************************************************************************)
EXTENDS TenantScope, ManifestAssistant, GraphBuilder, TLAPS

(* The tenant and the query cache.                                         *)

QueryType ==
  [data : Tenants \union {NoData}, fresh : BOOLEAN, dataLate : BOOLEAN,
   asked : Tenants \union {NoData}, askedLate : BOOLEAN]

(* A query whose data, and whose fetch on its way, is of tenant t or late. *)
IsOf(q, t) ==
  /\ q.fresh /\ q.data # t => q.dataLate
  /\ q.asked # NoData /\ q.asked # t => q.askedLate

RuntimeFollows == tenant.synced => tenant.runtime = tenant.shown

ScopeInv ==
  /\ ScopeTypeOK
  /\ RuntimeFollows
  /\ \A k \in Keys : IsOf(query[k], tenant.shown)

----------------------------------------------------------------------------
(* What the actions do to one query.                                       *)
LEMMA FetchIsOf ==
  ASSUME NEW q \in QueryType, NEW t, IsOf(q, t), NEW u \in Tenants,
         tenant.synced \in BOOLEAN, tenant.synced => u = t
  PROVE  Fetch(q, u) \in QueryType /\ IsOf(Fetch(q, u), t)
BY DEF Fetch, QueryType, IsOf

(* After a switch to t no query is left that is fresh, or on its way, for  *)
(* another tenant unless it is marked as late.                             *)
LEMMA InvalidatedIsOf ==
  ASSUME ScopeTypeOK, tenant.synced, NEW k \in Keys, NEW t \in Tenants
  PROVE  Invalidated(k, t) \in QueryType /\ IsOf(Invalidated(k, t), t)
<1> DEFINE late == query[k].asked # NoData
           q == [query[k] EXCEPT !.fresh = FALSE, !.dataLate = FALSE, !.askedLate = late]
<1>1. late \in BOOLEAN /\ query[k] \in QueryType
  BY DEF ScopeTypeOK, QueryType
<1>2. q \in QueryType /\ ~q.fresh /\ q.askedLate = late /\ q.asked = query[k].asked
  BY <1>1 DEF QueryType
<1>3. q.askedLate = (q.asked # NoData)
  BY <1>2
<1>4. \/ Invalidated(k, t) = q
      \/ Invalidated(k, t) = Fetch(q, t)
  BY DEF Invalidated
<1> HIDE DEF q, late
<1>5. IsOf(q, t)
  BY <1>2, <1>3 DEF IsOf
<1>6. tenant.synced \in BOOLEAN
  BY DEF ScopeTypeOK
<1> QED
  BY <1>2, <1>4, <1>5, <1>6, FetchIsOf

LEMMA EndedIsOf ==
  ASSUME ScopeInv, NEW k \in Keys, FetchEnds(k)
  PROVE  /\ query' = [query EXCEPT ![k] = query'[k]]
         /\ query'[k] \in QueryType
         /\ IsOf(query'[k], tenant.shown)
<1> DEFINE q == [query[k] EXCEPT !.asked = NoData, !.askedLate = FALSE]
<1>1. /\ query[k].asked \in Tenants
      /\ query[k] \in QueryType /\ IsOf(query[k], tenant.shown)
      /\ tenant.runtime \in Tenants /\ tenant.synced \in BOOLEAN
      /\ tenant.synced => tenant.runtime = tenant.shown
  BY DEF FetchEnds, ScopeInv, ScopeTypeOK, QueryType, RuntimeFollows
<1>2. query \in [Keys -> QueryType]
  BY DEF ScopeInv, ScopeTypeOK, QueryType
<1>3. CASE query' = [query EXCEPT ![k] = [q EXCEPT !.data = query[k].asked, !.fresh = TRUE,
                                                   !.dataLate = query[k].askedLate]]
  <2> DEFINE r == [q EXCEPT !.data = query[k].asked, !.fresh = TRUE,
                            !.dataLate = query[k].askedLate]
  <2>1. r \in QueryType /\ IsOf(r, tenant.shown)
    BY <1>1, TenantScopeAssumption DEF QueryType, IsOf
  <2> HIDE DEF r
  <2> QED
    BY <1>2, <1>3, <2>1 DEF r
<1>4. CASE query' = [query EXCEPT ![k] = q]
  <2>1. q \in QueryType /\ IsOf(q, tenant.shown)
    BY <1>1 DEF QueryType, IsOf
  <2> HIDE DEF q
  <2> QED
    BY <1>2, <1>4, <2>1
<1>5. CASE query' = [query EXCEPT ![k] = Fetch(@, tenant.runtime)]
  BY <1>1, <1>2, <1>5, FetchIsOf
<1> QED
  BY <1>3, <1>4, <1>5 DEF FetchEnds

----------------------------------------------------------------------------
LEMMA ScopeInvInit == ScopeInit => ScopeInv
<1> SUFFICES ASSUME ScopeInit PROVE ScopeInv
  OBVIOUS
<1>1. PICK t \in Tenants :
        tenant = [shown |-> t, runtime |-> DefaultTenant, stored |-> t, synced |-> FALSE]
  BY DEF ScopeInit
<1> QED
  BY <1>1, TenantScopeAssumption
     DEF ScopeInit, ScopeInv, ScopeTypeOK, RuntimeFollows, IsOf, NoQuery

(* A step that leaves the tenant alone and changes one query for one of    *)
(* the tenant shown.                                                       *)
LEMMA OneQuery ==
  ASSUME ScopeInv, NEW k \in Keys, NEW q \in QueryType, IsOf(q, tenant.shown),
         query' = [query EXCEPT ![k] = q], tenant' = tenant, switches' = switches,
         mounted' \subseteq Keys
  PROVE  ScopeInv'
<1>1. query \in [Keys -> QueryType]
  BY DEF ScopeInv, ScopeTypeOK, QueryType
<1>2. query' \in [Keys -> QueryType]
  BY <1>1
<1>3. ScopeTypeOK'
  BY <1>2 DEF ScopeInv, ScopeTypeOK, QueryType
<1>4. \A j \in Keys : IsOf(query'[j], tenant.shown)
  BY <1>1 DEF ScopeInv
<1> QED
  BY <1>3, <1>4 DEF ScopeInv, RuntimeFollows, IsOf

LEMMA ScopeInvNext == ScopeInv /\ [ScopeNext]_scopeVars => ScopeInv'
<1> SUFFICES ASSUME ScopeInv, [ScopeNext]_scopeVars PROVE ScopeInv'
  OBVIOUS
<1>1. /\ query \in [Keys -> QueryType]
      /\ tenant.shown \in Tenants /\ tenant.stored \in Tenants
      /\ tenant.runtime \in Tenants /\ tenant.synced \in BOOLEAN
      /\ tenant.synced => tenant.runtime = tenant.shown
      /\ switches \in 0..MaxSwitches /\ MaxSwitches \in Nat
      /\ mounted \subseteq Keys
      /\ \A k \in Keys : IsOf(query[k], tenant.shown)
  BY TenantScopeAssumption DEF ScopeInv, ScopeTypeOK, QueryType, RuntimeFollows
<1>2. CASE SyncRuntimeTenant
  BY <1>2 DEF SyncRuntimeTenant, ScopeInv, ScopeTypeOK, RuntimeFollows, IsOf
<1>3. CASE Reload
  BY <1>1, <1>3, TenantScopeAssumption
     DEF Reload, ScopeInv, ScopeTypeOK, RuntimeFollows, IsOf, NoQuery
<1>4. ASSUME NEW t \in Tenants, SwitchTenant(t) PROVE ScopeInv'
  <2>1. /\ tenant.synced
        /\ tenant' = [tenant EXCEPT !.shown = t, !.runtime = t, !.stored = t]
        /\ switches' = switches + 1 /\ switches < MaxSwitches
        /\ query' = [k \in Keys |-> Invalidated(k, t)]
        /\ mounted' = mounted
    BY <1>4 DEF SwitchTenant, Switch
  <2>2. tenant'.shown = t /\ RuntimeFollows'
    BY <2>1, <1>4 DEF ScopeInv, ScopeTypeOK, RuntimeFollows
  <2>3. \A k \in Keys : Invalidated(k, t) \in QueryType /\ IsOf(Invalidated(k, t), t)
    BY <2>1, <1>4, InvalidatedIsOf DEF ScopeInv
  <2>4. query' \in [Keys -> QueryType] /\ \A k \in Keys : IsOf(query'[k], t)
    BY <2>1, <2>3
  <2>5. tenant' \in [shown : Tenants, runtime : Tenants, stored : Tenants, synced : BOOLEAN]
    BY <1>4, <2>1 DEF ScopeInv, ScopeTypeOK
  <2>6. switches' \in 0..MaxSwitches
    BY <1>1, <2>1
  <2>7. ScopeTypeOK'
    BY <1>1, <2>1, <2>4, <2>5, <2>6 DEF ScopeTypeOK, QueryType
  <2> QED
    BY <2>2, <2>4, <2>7 DEF ScopeInv, IsOf
<1>5. ASSUME NEW k \in Keys, MountPage(k) PROVE ScopeInv'
  <2>1. CASE query' = query
    BY <1>1, <1>5, <2>1 DEF MountPage, ScopeInv, ScopeTypeOK, RuntimeFollows, IsOf
  <2>2. CASE query' = [query EXCEPT ![k] = Fetch(@, tenant.runtime)]
    <3>1. Fetch(query[k], tenant.runtime) \in QueryType
          /\ IsOf(Fetch(query[k], tenant.runtime), tenant.shown)
      BY <1>1, <1>5, FetchIsOf
    <3> QED
      BY <1>1, <1>5, <2>2, <3>1, OneQuery DEF MountPage
  <2> QED
    BY <1>5, <2>1, <2>2 DEF MountPage
<1>6. ASSUME NEW k \in Keys, UnmountPage(k) PROVE ScopeInv'
  BY <1>1, <1>6 DEF UnmountPage, ScopeInv, ScopeTypeOK, RuntimeFollows, IsOf
<1>7. ASSUME NEW k \in Keys, FetchEnds(k) PROVE ScopeInv'
  BY <1>1, <1>7, EndedIsOf, OneQuery DEF FetchEnds
<1>8. ASSUME NEW k \in Keys, GoesStale(k) PROVE ScopeInv'
  <2> DEFINE q == [query[k] EXCEPT !.fresh = FALSE, !.dataLate = FALSE]
  <2>1. q \in QueryType /\ IsOf(q, tenant.shown)
    BY <1>1, <1>8 DEF QueryType, IsOf
  <2>2. query' = [query EXCEPT ![k] = q]
    BY <1>1, <1>8 DEF GoesStale
  <2> HIDE DEF q
  <2> QED
    BY <1>1, <1>8, <2>1, <2>2, OneQuery DEF GoesStale
<1>9. CASE UNCHANGED scopeVars
  BY <1>9 DEF scopeVars, ScopeInv, ScopeTypeOK, RuntimeFollows, IsOf
<1> QED
  BY <1>2, <1>3, <1>4, <1>5, <1>6, <1>7, <1>8, <1>9 DEF ScopeNext

(* The tenant, the queries and the mounted pages keep their types.         *)
THEOREM ScopeTypeCorrect == ScopeSpec => []ScopeTypeOK
<1>1. ScopeInv => ScopeTypeOK
  BY DEF ScopeInv
<1> QED
  BY <1>1, ScopeInvInit, ScopeInvNext, PTL DEF ScopeSpec

(* Fresh data of a tenant that is not shown was asked for before the last  *)
(* switch, or before the runtime tenant was set.                           *)
THEOREM ForeignDataIsLate == ScopeSpec => []OnlyLateDataIsForeign
<1>1. ScopeInv => OnlyLateDataIsForeign
  BY DEF ScopeInv, IsOf, OnlyLateDataIsForeign
<1> QED
  BY <1>1, ScopeInvInit, ScopeInvNext, PTL DEF ScopeSpec

----------------------------------------------------------------------------
(* The manifest assistant.                                                 *)

PanelType == [open : BOOLEAN, text : Seq(Sections), failed : BOOLEAN, ask : 0..MaxAsks,
              busy : BOOLEAN, cursor : BOOLEAN, draft : {NoDraft} \union SUBSET FormFields]
TimerType == [draft : {NoDraft} \union SUBSET FormFields, ask : 0..MaxAsks]
FormType  == [open : BOOLEAN, data : [FormFields -> Values], read : [FormFields -> Values]]
SaveType  == [at : {"idle", "sent", "done"}, data : [FormFields -> Values],
              base : [FormFields -> Values]]

(* A draft on offer was read from what was received, which grows no more;  *)
(* an answer on its way, a draft on offer and a draft a timer holds are of *)
(* a message that was sent.                                                *)
PanelOk ==
  /\ wire = "open" => panel.draft = NoDraft /\ panel.ask \in Drafts
  /\ panel.draft # NoDraft => panel.draft = Extract(panel.text) /\ panel.ask \in Drafts

TimerOk == applying # NoTimer => applying.ask \in Drafts

(* What differs from the reading it was made on is a draft's, or typed.    *)
Drafted(data, base) ==
  \A f \in FormFields : data[f] = base[f] \/ data[f] \in Drafts \union {Typed}

FormOk == Drafted(sheetForm.data, sheetForm.read)
SaveOk == update.at = "sent" => Drafted(update.data, update.base)

ManifestInv ==
  /\ ManifestTypeOK
  /\ PanelOk /\ TimerOk /\ FormOk /\ SaveOk

----------------------------------------------------------------------------
LEMMA ManifestTypes ==
  ASSUME ManifestTypeOK
  PROVE  /\ panel \in PanelType /\ applying \in TimerType /\ sheetForm \in FormType
         /\ record \in [Fields -> Values] /\ update \in SaveType
         /\ wire \in {"none", "open", "ended"} /\ handEdits \in 0..MaxHandEdits
         /\ MaxAsks \in Nat /\ MaxHandEdits \in Nat
BY ManifestAssumption DEF ManifestTypeOK, PanelType, TimerType, FormType, SaveType

LEMMA ExtractType == \A text : Extract(text) \in SUBSET FormFields
BY DEF Extract

LEMMA EmptyAnswer == <<>> \in Seq(Sections)
OBVIOUS

LEMMA ValuesOfDrafts ==
  /\ Drafts \subseteq Values /\ 0 \in Values /\ Typed \in Values /\ Erased \in Values
  /\ Fresh \in [FormFields -> Values]
<1>1. /\ Drafts \subseteq Values /\ 0 \in Values /\ Typed \in Values /\ Erased \in Values
  BY ManifestAssumption DEF Drafts, Values, Typed, Erased
<1> QED
  BY <1>1 DEF Fresh

(* The fields of the form are fields of the record.                        *)
LEMMA CarriedType ==
  ASSUME record \in [Fields -> Values]
  PROVE  Carried \in [FormFields -> Values]
BY DEF Carried, Fields

LEMMA ManifestInvInit == ManifestInit => ManifestInv
<1> SUFFICES ASSUME ManifestInit PROVE ManifestInv
  OBVIOUS
<1>1. 0 \in 0..MaxAsks /\ 0 \in 0..MaxHandEdits
  BY ManifestAssumption
<1>2. [f \in Fields |-> 0] \in [Fields -> Values]
  BY ValuesOfDrafts
<1>3. /\ panel = NoPanel /\ wire = "none" /\ applying = NoTimer /\ update = NoUpdate
      /\ record = [f \in Fields |-> 0] /\ handEdits = 0
      /\ sheetForm = [open |-> FALSE, data |-> Fresh, read |-> Fresh]
  BY DEF ManifestInit
<1>4. ManifestTypeOK
  BY <1>1, <1>2, <1>3, ValuesOfDrafts DEF ManifestTypeOK, NoPanel, NoTimer, NoUpdate
<1> QED
  BY <1>3, <1>4 DEF ManifestInv, PanelOk, TimerOk, FormOk, SaveOk, Drafted, NoPanel, NoUpdate

(* Steps of the panel, which leave the form, the record and the save.      *)
LEMMA PanelSteps ==
  ASSUME ManifestInv, panel' \in PanelType, applying' \in TimerType,
         wire' \in {"none", "open", "ended"}, PanelOk', TimerOk',
         UNCHANGED <<sheetForm, record, update, handEdits>>
  PROVE  ManifestInv'
BY DEF ManifestInv, ManifestTypeOK, FormOk, SaveOk, Drafted, PanelType, TimerType

(* Steps of the form and the record, which leave the panel.                *)
LEMMA FormSteps ==
  ASSUME ManifestInv, applying' \in TimerType, TimerOk', sheetForm' \in FormType,
         record' \in [Fields -> Values], update' \in SaveType, handEdits' \in 0..MaxHandEdits,
         FormOk', SaveOk', UNCHANGED <<panel, wire>>
  PROVE  ManifestInv'
BY DEF ManifestInv, ManifestTypeOK, PanelOk, TimerType, FormType, SaveType

LEMMA PanelInv ==
  ASSUME ManifestInv,
         \/ ShowAssistant \/ HideAssistant \/ AskAssistant \/ ReceiveEnd \/ StreamOver
         \/ ApplyDraft \/ \E s \in Sections : ReceiveText(s)
  PROVE  ManifestInv'
<1>1. /\ panel \in PanelType /\ applying \in TimerType /\ MaxAsks \in Nat
      /\ wire \in {"none", "open", "ended"} /\ panel.ask \in 0..MaxAsks
      /\ panel.text \in Seq(Sections)
  BY ManifestTypes DEF ManifestInv, PanelType
<1>2. PanelOk /\ TimerOk
  BY DEF ManifestInv
<1>3. CASE ShowAssistant \/ HideAssistant
  <2> DEFINE p(b) == [open |-> b, text |-> <<>>, failed |-> FALSE, ask |-> panel.ask,
                      busy |-> FALSE, cursor |-> FALSE, draft |-> NoDraft]
  <2>1. PICK b \in BOOLEAN : panel' = p(b)
    BY <1>3 DEF ShowAssistant, HideAssistant, NoPanel
  <2>2. NoDraft \in {NoDraft} \union SUBSET FormFields /\ FALSE \in BOOLEAN
    OBVIOUS
  <2>3. p(b) \in PanelType
    BY <1>1, <2>1, <2>2, EmptyAnswer DEF PanelType
  <2>4. wire' \in {"none", "open", "ended"} /\ (wire' = "open" => wire = "open")
    BY <1>1, <1>3 DEF ShowAssistant, HideAssistant
  <2>5. /\ panel' \in PanelType /\ panel'.draft = NoDraft /\ panel'.ask = panel.ask
    BY <2>1, <2>3
  <2>6. PanelOk'
    BY <1>2, <2>5, <2>4 DEF PanelOk
  <2>7. TimerOk' /\ UNCHANGED <<applying, sheetForm, record, update, handEdits>>
    BY <1>2, <1>3 DEF ShowAssistant, HideAssistant, TimerOk
  <2> QED
    BY <1>1, <2>5, <2>6, <2>7, <2>4, PanelSteps
<1>4. CASE AskAssistant
  <2>1. /\ panel' = [panel EXCEPT !.text = <<>>, !.failed = FALSE, !.ask = panel.ask + 1,
                                  !.busy = TRUE, !.cursor = TRUE, !.draft = NoDraft]
        /\ panel.ask < MaxAsks /\ wire' = "open"
        /\ UNCHANGED <<applying, sheetForm, record, update, handEdits>>
    BY <1>4 DEF AskAssistant, Asking
  <2>2. panel.ask + 1 \in 0..MaxAsks /\ panel.ask + 1 \in Drafts
    BY <1>1, <2>1 DEF Drafts
  <2>3. panel' \in PanelType /\ panel'.draft = NoDraft /\ panel'.ask = panel.ask + 1
    BY <1>1, <2>1, <2>2, EmptyAnswer DEF PanelType
  <2>4. PanelOk' /\ TimerOk'
    BY <1>2, <2>1, <2>2, <2>3 DEF PanelOk, TimerOk
  <2> QED
    BY <1>1, <2>1, <2>3, <2>4, PanelSteps
<1>5. CASE ReceiveEnd
  <2>1. /\ panel' = [panel EXCEPT !.cursor = FALSE, !.draft = Extract(panel.text)]
        /\ wire = "open" /\ wire' = "ended"
        /\ UNCHANGED <<applying, sheetForm, record, update, handEdits>>
    BY <1>5 DEF ReceiveEnd
  <2>2. /\ panel' \in PanelType /\ panel'.ask = panel.ask
        /\ panel'.draft = Extract(panel.text) /\ panel'.text = panel.text
    BY <1>1, <2>1, ExtractType DEF PanelType
  <2>3. PanelOk' /\ TimerOk'
    BY <1>2, <2>1, <2>2 DEF PanelOk, TimerOk
  <2> QED
    BY <1>1, <2>1, <2>2, <2>3, PanelSteps
<1>6. CASE StreamOver
  <2>1. PICK broken \in BOOLEAN :
          panel' = [panel EXCEPT !.busy = FALSE, !.cursor = panel.cursor /\ ~broken,
                                 !.failed = broken]
    BY <1>6 DEF StreamOver
  <2>2. wire' = "none" /\ UNCHANGED <<applying, sheetForm, record, update, handEdits>>
    BY <1>6 DEF StreamOver
  <2>3. (panel.cursor /\ ~broken) \in BOOLEAN
    BY <1>1 DEF PanelType
  <2>4. /\ panel' \in PanelType /\ panel'.ask = panel.ask
        /\ panel'.draft = panel.draft /\ panel'.text = panel.text
    BY <1>1, <2>1, <2>3 DEF PanelType
  <2>5. PanelOk' /\ TimerOk'
    BY <1>2, <2>2, <2>4 DEF PanelOk, TimerOk
  <2> QED
    BY <1>1, <2>2, <2>4, <2>5, PanelSteps
<1>7. CASE ApplyDraft
  <2>1. /\ panel.draft # NoDraft
        /\ applying' = [draft |-> panel.draft, ask |-> panel.ask]
        /\ UNCHANGED <<panel, wire, sheetForm, record, update, handEdits>>
    BY <1>7 DEF ApplyDraft
  <2>2. applying' \in TimerType
    BY <1>1, <2>1 DEF TimerType, PanelType
  <2>3. PanelOk' /\ TimerOk'
    BY <1>2, <2>1 DEF PanelOk, TimerOk
  <2> QED
    BY <1>1, <2>1, <2>2, <2>3, PanelSteps
<1>8. ASSUME NEW s \in Sections, ReceiveText(s) PROVE ManifestInv'
  <2>1. /\ panel' = [panel EXCEPT !.text = Append(panel.text, s)]
        /\ wire = "open" /\ wire' = wire
        /\ UNCHANGED <<applying, sheetForm, record, update, handEdits>>
    BY <1>8 DEF ReceiveText
  <2>2. Append(panel.text, s) \in Seq(Sections)
    BY <1>1
  <2>3. /\ panel' \in PanelType /\ panel'.ask = panel.ask /\ panel'.draft = panel.draft
    BY <1>1, <2>1, <2>2 DEF PanelType
  <2>4. PanelOk' /\ TimerOk'
    BY <1>2, <2>1, <2>3 DEF PanelOk, TimerOk
  <2> QED
    BY <1>1, <2>1, <2>3, <2>4, PanelSteps
<1> QED
  BY <1>3, <1>4, <1>5, <1>6, <1>7, <1>8

LEMMA FormInv ==
  ASSUME ManifestInv,
         \/ DraftApplied \/ ToggleForm \/ AgentRead \/ SaveForm \/ UpdateRecord
         \/ UpdateAnswered \/ (\E f \in FormFields : TypeField(f))
         \/ \E f \in Fields : EditElsewhere(f)
  PROVE  ManifestInv'
<1>1. /\ applying \in TimerType /\ sheetForm \in FormType /\ update \in SaveType
      /\ record \in [Fields -> Values] /\ handEdits \in 0..MaxHandEdits
      /\ MaxAsks \in Nat /\ MaxHandEdits \in Nat
      /\ sheetForm.data \in [FormFields -> Values] /\ sheetForm.read \in [FormFields -> Values]
  BY ManifestTypes DEF ManifestInv, FormType
<1>2. TimerOk /\ FormOk /\ SaveOk
  BY DEF ManifestInv
<1>3. CASE DraftApplied
  <2> DEFINE d == [f \in FormFields |->
                     IF f \in applying.draft THEN applying.ask ELSE sheetForm.data[f]]
  <2>1. /\ applying # NoTimer /\ applying' = NoTimer
        /\ sheetForm' = [sheetForm EXCEPT !.data = d]
        /\ UNCHANGED <<panel, wire, record, update, handEdits>>
    BY <1>3 DEF DraftApplied
  <2>2. applying.ask \in Drafts
    BY <1>2, <2>1 DEF TimerOk
  <2>3. d \in [FormFields -> Values] /\ Drafted(d, sheetForm.read)
    BY <1>1, <1>2, <2>2, ValuesOfDrafts DEF FormOk, Drafted
  <2> HIDE DEF d
  <2>4. sheetForm' \in FormType /\ sheetForm'.data = d /\ sheetForm'.read = sheetForm.read
    BY <1>1, <2>1, <2>3 DEF FormType
  <2>5. FormOk' /\ SaveOk'
    BY <1>2, <2>1, <2>3, <2>4 DEF FormOk, SaveOk, Drafted
  <2>6. NoTimer \in TimerType
    BY <1>1 DEF NoTimer, TimerType
  <2> QED
    BY <1>1, <2>1, <2>4, <2>5, <2>6, FormSteps DEF TimerOk
<1>4. CASE ToggleForm
  <2>1. /\ sheetForm' \in FormType
        /\ sheetForm'.data = sheetForm.data /\ sheetForm'.read = sheetForm.read
        /\ UNCHANGED <<panel, wire, applying, record, update, handEdits>>
    BY <1>1, <1>4 DEF ToggleForm, FormType
  <2>2. FormOk' /\ SaveOk' /\ TimerOk'
    BY <1>2, <2>1 DEF FormOk, SaveOk, TimerOk, Drafted
  <2> QED
    BY <1>1, <2>1, <2>2, FormSteps
<1>5. CASE AgentRead
  <2> DEFINE d == IF sheetForm.read = Carried THEN sheetForm.data ELSE Carried
  <2>0. Carried \in [FormFields -> Values]
    BY <1>1, CarriedType
  <2>1. /\ sheetForm' = [sheetForm EXCEPT !.read = Carried, !.data = d]
        /\ UNCHANGED <<panel, wire, applying, record, update, handEdits>>
    BY <1>5 DEF AgentRead
  <2>2. d \in [FormFields -> Values] /\ Drafted(d, Carried)
    BY <1>1, <1>2, <2>0 DEF FormOk, Drafted
  <2> HIDE DEF d
  <2>3. sheetForm' \in FormType /\ sheetForm'.data = d /\ sheetForm'.read = Carried
    BY <1>1, <2>0, <2>1, <2>2 DEF FormType
  <2>4. FormOk' /\ SaveOk' /\ TimerOk'
    BY <1>2, <2>1, <2>2, <2>3 DEF FormOk, SaveOk, TimerOk, Drafted
  <2> QED
    BY <1>1, <2>1, <2>3, <2>4, FormSteps
<1>6. CASE SaveForm
  <2>1. /\ update' = [at |-> "sent", data |-> sheetForm.data, base |-> sheetForm.read]
        /\ UNCHANGED <<panel, wire, applying, sheetForm, record, handEdits>>
    BY <1>6 DEF SaveForm
  <2>2. update' \in SaveType
    BY <1>1, <2>1 DEF SaveType
  <2>3. FormOk' /\ SaveOk' /\ TimerOk'
    BY <1>2, <2>1 DEF FormOk, SaveOk, TimerOk, Drafted
  <2> QED
    BY <1>1, <2>1, <2>2, <2>3, FormSteps
<1>7. CASE UpdateRecord
  <2>1. /\ record' = [f \in Fields |-> IF f \in FormFields THEN update.data[f] ELSE Erased]
        /\ update' = [update EXCEPT !.at = "done"]
        /\ UNCHANGED <<panel, wire, applying, sheetForm, handEdits>>
    BY <1>7 DEF UpdateRecord
  <2>2. update' \in SaveType /\ update'.at = "done" /\ record' \in [Fields -> Values]
    BY <1>1, <2>1, ValuesOfDrafts DEF SaveType
  <2>3. FormOk' /\ SaveOk' /\ TimerOk'
    BY <1>2, <2>1, <2>2 DEF FormOk, SaveOk, TimerOk, Drafted
  <2> QED
    BY <1>1, <2>1, <2>2, <2>3, FormSteps
<1>8. CASE UpdateAnswered
  <2>1. /\ update' = NoUpdate /\ UNCHANGED <<panel, wire, applying, record, handEdits>>
        /\ sheetForm' = sheetForm \/ sheetForm' = [sheetForm EXCEPT !.open = FALSE]
    BY <1>8 DEF UpdateAnswered
  <2>2. /\ sheetForm' \in FormType
        /\ sheetForm'.data = sheetForm.data /\ sheetForm'.read = sheetForm.read
    BY <1>1, <2>1 DEF FormType
  <2>3. update' \in SaveType /\ update'.at = "idle"
    BY <2>1, ValuesOfDrafts DEF NoUpdate, SaveType
  <2>4. FormOk' /\ SaveOk' /\ TimerOk'
    BY <1>2, <2>1, <2>2, <2>3 DEF FormOk, SaveOk, TimerOk, Drafted
  <2> QED
    BY <1>1, <2>1, <2>2, <2>3, <2>4, FormSteps
<1>9. ASSUME NEW f \in Fields, EditElsewhere(f) PROVE ManifestInv'
  <2>1. /\ handEdits < MaxHandEdits /\ handEdits' = handEdits + 1
        /\ record' = [record EXCEPT ![f] = MaxAsks + (handEdits + 1)]
        /\ UNCHANGED <<panel, wire, applying, sheetForm, update>>
    BY <1>9 DEF EditElsewhere
  <2>2. handEdits' \in 0..MaxHandEdits /\ MaxAsks + (handEdits + 1) \in Values
    BY <1>1, <2>1 DEF Values, Erased
  <2>3. record' \in [Fields -> Values]
    BY <1>1, <2>1, <2>2
  <2>4. FormOk' /\ SaveOk' /\ TimerOk'
    BY <1>2, <2>1 DEF FormOk, SaveOk, TimerOk, Drafted
  <2> QED
    BY <1>1, <2>1, <2>2, <2>3, <2>4, FormSteps
<1>10. ASSUME NEW f \in FormFields, TypeField(f) PROVE ManifestInv'
  <2> DEFINE d == [sheetForm.data EXCEPT ![f] = Typed]
  <2>1. /\ handEdits < MaxHandEdits /\ handEdits' = handEdits + 1
        /\ sheetForm' = [sheetForm EXCEPT !.data = d]
        /\ UNCHANGED <<panel, wire, applying, record, update>>
    BY <1>10 DEF TypeField
  <2>2. handEdits' \in 0..MaxHandEdits
    BY <1>1, <2>1
  <2>3. d \in [FormFields -> Values] /\ Drafted(d, sheetForm.read)
    BY <1>1, <1>2, ValuesOfDrafts DEF FormOk, Drafted
  <2> HIDE DEF d
  <2>4. sheetForm' \in FormType /\ sheetForm'.data = d /\ sheetForm'.read = sheetForm.read
    BY <1>1, <2>1, <2>3 DEF FormType
  <2>5. FormOk' /\ SaveOk' /\ TimerOk'
    BY <1>2, <2>1, <2>3, <2>4 DEF FormOk, SaveOk, TimerOk, Drafted
  <2> QED
    BY <1>1, <2>1, <2>2, <2>4, <2>5, FormSteps
<1> QED
  BY <1>3, <1>4, <1>5, <1>6, <1>7, <1>8, <1>9, <1>10

LEMMA ManifestInvNext == ManifestInv /\ [ManifestNext]_manifestVars => ManifestInv'
<1> SUFFICES ASSUME ManifestInv, [ManifestNext]_manifestVars PROVE ManifestInv'
  OBVIOUS
<1>1. CASE ManifestNext
  BY <1>1, PanelInv, FormInv DEF ManifestNext
<1>2. CASE UNCHANGED manifestVars
  BY <1>2 DEF manifestVars, ManifestInv, ManifestTypeOK, PanelOk, TimerOk, FormOk, SaveOk, Drafted
<1> QED
  BY <1>1, <1>2

----------------------------------------------------------------------------
(* The panel, the response, the timer, the form, the record and the save   *)
(* keep their types.                                                       *)
THEOREM ManifestTypeCorrect == ManifestSpec => []ManifestTypeOK
<1>1. ManifestInv => ManifestTypeOK
  BY DEF ManifestInv
<1> QED
  BY <1>1, ManifestInvInit, ManifestInvNext, PTL DEF ManifestSpec

(* What Apply offers was read from what was received for the question      *)
(* asked last, also when that answer is no longer shown.                   *)
THEOREM DraftOfTheAnswer == ManifestSpec => []DraftIsOfTheAnswer
<1>1. ManifestInv => DraftIsOfTheAnswer
  BY DEF ManifestInv, PanelOk, DraftIsOfTheAnswer
<1> QED
  BY <1>1, ManifestInvInit, ManifestInvNext, PTL DEF ManifestSpec

(* Of the fields the form carries a save undoes nothing its page had read: *)
(* one that changes to what neither a draft nor the user put there was     *)
(* changed elsewhere since.  The tools, which it does not carry, are       *)
(* erased.                                                                 *)
THEOREM SavesOverTheUnread == ManifestSpec => SaveUndoesTheUnreadOnly
<1>1. ASSUME ManifestInv, [ManifestNext]_manifestVars
      PROVE  update.at = "sent" /\ update'.at = "done" =>
               \A f \in FormFields :
                 \/ record'[f] = record[f]
                 \/ update.data[f] \in Drafts \union {Typed}
                 \/ update.base[f] # record[f]
  <2> SUFFICES ASSUME update.at = "sent", update'.at = "done", NEW f \in FormFields
               PROVE  \/ record'[f] = record[f]
                      \/ update.data[f] \in Drafts \union {Typed}
                      \/ update.base[f] # record[f]
    OBVIOUS
  <2>1. update.data[f] = update.base[f] \/ update.data[f] \in Drafts \union {Typed}
    BY <1>1 DEF ManifestInv, SaveOk, Drafted
  <2>2. UpdateRecord \/ SaveForm \/ UpdateAnswered \/ update' = update
    BY <1>1 DEF ManifestNext, manifestVars, ShowAssistant, HideAssistant, AskAssistant, Asking,
                ReceiveEnd, StreamOver, ApplyDraft, DraftApplied, ToggleForm, AgentRead,
                ReceiveText, TypeField, EditElsewhere
  <2>3. UpdateRecord
    BY <2>2 DEF SaveForm, UpdateAnswered, NoUpdate
  <2>4. f \in Fields
    BY DEF Fields
  <2>5. record'[f] = update.data[f]
    BY <2>3, <2>4 DEF UpdateRecord
  <2> QED
    BY <2>1, <2>5
<1> QED
  BY <1>1, ManifestInvInit, ManifestInvNext, PTL DEF ManifestSpec, SaveUndoesTheUnreadOnly

----------------------------------------------------------------------------
(* The builder of knowledge graphs.                                        *)

SessionType == [at : {"none", "thinking", "tool", "ended"}, used : 0..MaxTools,
                tool : Nodes \union {NoNode}, told : BOOLEAN, ran : BOOLEAN]
ChatType    == [sent : 0..MaxChats, reading : SUBSET Chats, waits : 0..MaxChats,
                due : SUBSET Nodes]
PreviewType == [data : SUBSET Nodes, loaded : BOOLEAN, fresh : BOOLEAN, asked : BOOLEAN,
                read : BOOLEAN, answer : SUBSET Nodes]
DrawingType == [tab : {"builder", "explore"}, matches : SUBSET Nodes, drawn : SUBSET Nodes]

(* What was due when the last tool_call was read is still listed, and is   *)
(* in every answer read since and in the data while it is fresh.           *)
DueInv(p) ==
  /\ chat.due \subseteq Listing
  /\ ~p.loaded => chat.due = {}
  /\ p.read => chat.due \subseteq p.answer
  /\ p.fresh => chat.due \subseteq p.data

BuilderInv ==
  /\ BuilderTypeOK
  /\ \A c \in Chats : architect[c].at = "tool" => architect[c].tool \in Nodes
  /\ DueInv(preview)

LEMMA BuilderTypes ==
  BuilderTypeOK <=> /\ reader \in BuilderTenants
                    /\ graph \in [Nodes -> BuilderTenants \union {NoOwner}]
                    /\ executor \in {"direct", "workflow"}
                    /\ architect \in [Chats -> SessionType]
                    /\ events \in [Chats -> Seq({"tool_call", "end"})]
                    /\ chat \in ChatType /\ preview \in PreviewType /\ drawing \in DrawingType
BY DEF BuilderTypeOK, SessionType, ChatType, PreviewType, DrawingType

LEMMA BuilderInvInit == BuilderInit => BuilderInv
<1> SUFFICES ASSUME BuilderInit PROVE BuilderInv
  OBVIOUS
<1>1. 0 \in 0..MaxTools /\ 0 \in 0..MaxChats /\ <<>> \in Seq({"tool_call", "end"})
  BY GraphBuilderAssumption
<1>2. architect \in [Chats -> SessionType] /\ \A c \in Chats : architect[c].at = "none"
  BY <1>1 DEF BuilderInit, SessionType
<1>3. /\ chat \in ChatType /\ preview \in PreviewType /\ drawing \in DrawingType
      /\ chat.due = {} /\ ~preview.read /\ ~preview.fresh /\ preview.data = {}
  BY <1>1 DEF BuilderInit, ChatType, PreviewType, DrawingType
<1>4. events \in [Chats -> Seq({"tool_call", "end"})]
  BY <1>1 DEF BuilderInit
<1>5. BuilderTypeOK
  BY <1>2, <1>3, <1>4, BuilderTypes DEF BuilderInit
<1> QED
  BY <1>2, <1>3, <1>5 DEF BuilderInv, DueInv

(* Steps of the sessions: a node that has an owner keeps it.               *)
LEMMA ArchitectStep ==
  ASSUME BuilderInv, reader' = reader, executor' = executor,
         graph' \in [Nodes -> BuilderTenants \union {NoOwner}],
         \A n \in Nodes : graph[n] # NoOwner => graph'[n] = graph[n],
         architect' \in [Chats -> SessionType],
         \A c \in Chats : architect'[c].at = "tool" => architect'[c].tool \in Nodes,
         events' \in [Chats -> Seq({"tool_call", "end"})],
         chat' \in ChatType, chat'.due = chat.due, preview' = preview, drawing' = drawing
  PROVE  BuilderInv'
<1>1. Listing \subseteq Listing'
  BY GraphBuilderAssumption DEF Listing, BuilderInv, BuilderTypeOK
<1>2. BuilderTypeOK'
  BY DEF BuilderInv, BuilderTypeOK, ChatType, SessionType
<1>3. DueInv(preview)'
  BY <1>1 DEF BuilderInv, DueInv
<1> QED
  BY <1>2, <1>3 DEF BuilderInv

LEMMA OneArchitect ==
  ASSUME architect \in [Chats -> SessionType], NEW c \in Chats, NEW a \in SessionType,
         architect' = [architect EXCEPT ![c] = a]
  PROVE  /\ architect' \in [Chats -> SessionType] /\ architect'[c] = a
         /\ \A d \in Chats : d # c => architect'[d] = architect[d]
OBVIOUS

LEMMA EmitType ==
  ASSUME events \in [Chats -> Seq({"tool_call", "end"})], NEW c \in Chats,
         NEW e \in {"tool_call", "end"}, Emit(c, e)
  PROVE  events' \in [Chats -> Seq({"tool_call", "end"})]
<1>1. Append(events[c], e) \in Seq({"tool_call", "end"})
  OBVIOUS
<1> QED
  BY <1>1 DEF Emit

LEMMA ChooseToolStep ==
  ASSUME BuilderInv, NEW c \in Chats, NEW n \in Nodes, ChooseTool(c, n)
  PROVE  BuilderInv'
<1> DEFINE a == [architect[c] EXCEPT !.at = "tool", !.tool = n, !.used = architect[c].used + 1]
<1>1. architect \in [Chats -> SessionType] /\ architect[c].used < MaxTools
  BY BuilderTypes DEF BuilderInv, ChooseTool
<1>2. architect[c].used + 1 \in 0..MaxTools
  BY <1>1, GraphBuilderAssumption DEF SessionType
<1>3. a \in SessionType /\ a.tool = n
  BY <1>1, <1>2 DEF SessionType
<1>4. /\ architect' = [architect EXCEPT ![c] = a]
      /\ UNCHANGED <<reader, graph, executor, events, chat, preview, drawing>>
  BY <1>1 DEF ChooseTool, SessionType
<1> HIDE DEF a
<1>5. /\ architect' \in [Chats -> SessionType] /\ architect'[c] = a
      /\ \A d \in Chats : d # c => architect'[d] = architect[d]
  BY <1>1, <1>3, <1>4, OneArchitect
<1>6. \A d \in Chats : architect'[d].at = "tool" => architect'[d].tool \in Nodes
  BY <1>3, <1>5 DEF BuilderInv
<1> QED
  BY <1>4, <1>5, <1>6, ArchitectStep, BuilderTypes DEF BuilderInv

LEMMA ToolSteps ==
  ASSUME BuilderInv, NEW c \in Chats, TellTool(c) \/ RunTool(c) \/ ThinkOn(c) \/ EndSession(c)
  PROVE  BuilderInv'
<1>1. /\ architect \in [Chats -> SessionType]
      /\ graph \in [Nodes -> BuilderTenants \union {NoOwner}]
      /\ events \in [Chats -> Seq({"tool_call", "end"})]
      /\ \A d \in Chats : architect[d].at = "tool" => architect[d].tool \in Nodes
  BY BuilderTypes DEF BuilderInv
<1>2. PICK a \in SessionType : /\ architect' = [architect EXCEPT ![c] = a]
                               /\ a.at = "tool" => a.tool \in Nodes
  <2>1. CASE TellTool(c)
    <3> DEFINE a == [architect[c] EXCEPT !.told = TRUE]
    <3>1. a \in SessionType /\ (a.at = "tool" => a.tool \in Nodes)
      BY <1>1 DEF SessionType
    <3>2. architect' = [architect EXCEPT ![c] = a]
      BY <1>1, <2>1 DEF TellTool
    <3> QED
      BY <3>1, <3>2
  <2>2. CASE RunTool(c)
    <3> DEFINE a == [architect[c] EXCEPT !.ran = TRUE]
    <3>1. a \in SessionType /\ (a.at = "tool" => a.tool \in Nodes)
      BY <1>1 DEF SessionType
    <3>2. architect' = [architect EXCEPT ![c] = a]
      BY <1>1, <2>2 DEF RunTool
    <3> QED
      BY <3>1, <3>2
  <2>3. CASE ThinkOn(c)
    <3> DEFINE a == [architect[c] EXCEPT !.at = "thinking", !.tool = NoNode,
                                         !.told = FALSE, !.ran = FALSE]
    <3>1. a \in SessionType /\ a.at = "thinking"
      BY <1>1 DEF SessionType
    <3>2. architect' = [architect EXCEPT ![c] = a]
      BY <1>1, <2>3 DEF ThinkOn
    <3> QED
      BY <3>1, <3>2
  <2>4. CASE EndSession(c)
    <3> DEFINE a == [architect[c] EXCEPT !.at = "ended", !.used = 0]
    <3>0. 0 \in 0..MaxTools
      BY GraphBuilderAssumption
    <3>1. a \in SessionType /\ a.at = "ended"
      BY <1>1, <3>0 DEF SessionType
    <3>2. architect' = [architect EXCEPT ![c] = a]
      BY <1>1, <2>4 DEF EndSession
    <3> QED
      BY <3>1, <3>2
  <2> QED
    BY <2>1, <2>2, <2>3, <2>4
<1>3. /\ architect' \in [Chats -> SessionType]
      /\ \A d \in Chats : architect'[d].at = "tool" => architect'[d].tool \in Nodes
  BY <1>1, <1>2, OneArchitect
<1>4. events' \in [Chats -> Seq({"tool_call", "end"})]
  <2>1. CASE TellTool(c)
    BY <1>1, <2>1, EmitType DEF TellTool
  <2>2. CASE EndSession(c)
    BY <1>1, <2>2, EmitType DEF EndSession
  <2>3. CASE RunTool(c) \/ ThinkOn(c)
    BY <1>1, <2>3 DEF RunTool, ThinkOn
  <2> QED
    BY <2>1, <2>2, <2>3
<1>5. /\ graph' \in [Nodes -> BuilderTenants \union {NoOwner}]
      /\ \A n \in Nodes : graph[n] # NoOwner => graph'[n] = graph[n]
  <2>1. CASE RunTool(c)
    BY <1>1, <2>1, GraphBuilderAssumption DEF RunTool
  <2>2. CASE graph' = graph
    BY <1>1, <2>2
  <2> QED
    BY <2>1, <2>2 DEF TellTool, ThinkOn, EndSession
<1>6. reader' = reader /\ executor' = executor /\ chat' = chat
      /\ preview' = preview /\ drawing' = drawing
  BY DEF TellTool, RunTool, ThinkOn, EndSession
<1> QED
  BY <1>3, <1>4, <1>5, <1>6, ArchitectStep, BuilderTypes DEF BuilderInv

LEMMA AddElsewhereStep ==
  ASSUME BuilderInv, NEW n \in Nodes, AddElsewhere(n)
  PROVE  BuilderInv'
<1>1. /\ graph' \in [Nodes -> BuilderTenants \union {NoOwner}]
      /\ \A m \in Nodes : graph[m] # NoOwner => graph'[m] = graph[m]
  BY BuilderTypes DEF BuilderInv, AddElsewhere
<1>2. UNCHANGED <<reader, executor, architect, events, chat, preview, drawing>>
  BY DEF AddElsewhere
<1> QED
  BY <1>1, <1>2, ArchitectStep, BuilderTypes DEF BuilderInv

(* The chat panel. *)
LEMMA SendToArchitectStep ==
  ASSUME BuilderInv, SendToArchitect
  PROVE  BuilderInv'
<1> DEFINE c == chat.sent + 1
           a == [architect[c] EXCEPT !.at = "thinking"]
           read == chat.reading \union {c}
<1>1. architect \in [Chats -> SessionType] /\ chat \in ChatType /\ chat.sent < MaxChats
  BY BuilderTypes DEF BuilderInv, SendToArchitect
<1>2. c \in Chats /\ c \in 0..MaxChats
  BY <1>1, GraphBuilderAssumption DEF ChatType, Chats
<1>3. a \in SessionType /\ a.at = "thinking"
  BY <1>1, <1>2 DEF SessionType
<1>4. /\ architect' = [architect EXCEPT ![c] = a]
      /\ chat' = [chat EXCEPT !.sent = c, !.reading = read, !.waits = c]
      /\ UNCHANGED <<reader, graph, executor, events, preview, drawing>>
  BY <1>1, <1>2 DEF SendToArchitect
<1>5. read \in SUBSET Chats
  BY <1>1, <1>2 DEF ChatType
<1> HIDE DEF a, c, read
<1>6. chat' \in ChatType /\ chat'.due = chat.due
  BY <1>1, <1>2, <1>4, <1>5 DEF ChatType
<1>7. /\ architect' \in [Chats -> SessionType] /\ architect'[c] = a
      /\ \A d \in Chats : d # c => architect'[d] = architect[d]
  BY <1>1, <1>2, <1>3, <1>4, OneArchitect
<1>8. \A d \in Chats : architect'[d].at = "tool" => architect'[d].tool \in Nodes
  BY <1>3, <1>7 DEF BuilderInv
<1> QED
  BY <1>4, <1>6, <1>7, <1>8, ArchitectStep, BuilderTypes DEF BuilderInv

LEMMA StopReadingType ==
  ASSUME chat \in ChatType, NEW c \in Chats, StopReading(c)
  PROVE  chat' \in ChatType /\ chat'.due = chat.due
<1> DEFINE read == chat.reading \ {c}
           wait == IF chat.waits = c THEN 0 ELSE chat.waits
<1>1. read \in SUBSET Chats /\ wait \in 0..MaxChats
  BY GraphBuilderAssumption DEF ChatType
<1>2. chat' = [chat EXCEPT !.reading = read, !.waits = wait]
  BY DEF StopReading
<1> HIDE DEF read, wait
<1> QED
  BY <1>1, <1>2 DEF ChatType

LEMMA BreakStreamStep ==
  ASSUME BuilderInv, NEW c \in Chats, BreakStream(c)
  PROVE  BuilderInv'
<1>1. chat' \in ChatType /\ chat'.due = chat.due
  BY BuilderTypes, StopReadingType DEF BuilderInv, BreakStream
<1>2. events' \in [Chats -> Seq({"tool_call", "end"})]
  BY BuilderTypes DEF BuilderInv, BreakStream
<1>3. UNCHANGED <<reader, graph, executor, architect, preview, drawing>>
  BY DEF BreakStream
<1> QED
  BY <1>1, <1>2, <1>3, ArchitectStep, BuilderTypes DEF BuilderInv

(* What was listed is due in the answer of a fetch that starts now.        *)
LEMMA ReadEventStep ==
  ASSUME BuilderInv, NEW c \in Chats, ReadEvent(c)
  PROVE  BuilderInv'
<1>1. /\ chat \in ChatType /\ preview \in PreviewType
      /\ events \in [Chats -> Seq({"tool_call", "end"})]
  BY BuilderTypes DEF BuilderInv
<1>2. /\ events[c] # <<>> /\ events' = [events EXCEPT ![c] = Tail(@)]
      /\ UNCHANGED <<reader, graph, executor, architect, drawing>>
  BY DEF ReadEvent
<1>3. events' \in [Chats -> Seq({"tool_call", "end"})]
  BY <1>1, <1>2
<1>4. CASE StopReading(c) /\ UNCHANGED preview
  <2>1. chat' \in ChatType /\ chat'.due = chat.due
    BY <1>1, <1>4, StopReadingType
  <2> QED
    BY <1>2, <1>3, <1>4, <2>1, ArchitectStep, BuilderTypes DEF BuilderInv
<1>5. CASE /\ chat' = [chat EXCEPT !.due = IF preview.loaded THEN Listing ELSE @]
           /\ InvalidateNodes
  <2>1. Listing \in SUBSET Nodes
    BY DEF Listing
  <2>2. /\ chat' \in ChatType
        /\ chat'.due = IF preview.loaded THEN Listing ELSE chat.due
    BY <1>1, <1>5, <2>1 DEF ChatType
  <2>3. /\ preview' \in PreviewType /\ preview'.data = preview.data
        /\ preview'.loaded = preview.loaded
        /\ preview.loaded => ~preview'.fresh /\ ~preview'.read
    BY <1>1, <1>5 DEF InvalidateNodes, PreviewType
  <2>4. BuilderTypeOK'
    BY <1>2, <1>3, <2>2, <2>3 DEF BuilderInv, BuilderTypeOK, ChatType, PreviewType
  <2>5. Listing' = Listing
    BY <1>2 DEF Listing
  <2>6. DueInv(preview)'
    <3>1. CASE preview.loaded
      BY <2>2, <2>3, <2>5, <3>1 DEF DueInv
    <3>2. CASE ~preview.loaded
      BY <2>2, <2>3, <2>5, <3>2 DEF BuilderInv, DueInv
    <3> QED
      BY <3>1, <3>2
  <2> QED
    BY <1>2, <2>3, <2>4, <2>6 DEF BuilderInv
<1> QED
  BY <1>4, <1>5 DEF ReadEvent

(* The query and the drawing. *)
LEMMA PreviewStep ==
  ASSUME BuilderInv, UNCHANGED <<reader, graph, executor, architect, events>>,
         chat' \in ChatType, chat'.due = chat.due,
         preview' \in PreviewType, drawing' \in DrawingType,
         DueInv(preview')
  PROVE  BuilderInv'
<1>1. BuilderTypeOK'
  BY DEF BuilderInv, BuilderTypeOK, ChatType, PreviewType, DrawingType
<1>2. Listing' = Listing
  BY DEF Listing
<1>3. DueInv(preview)'
  BY <1>2 DEF DueInv
<1> QED
  BY <1>1, <1>3 DEF BuilderInv

LEMMA QuerySteps ==
  ASSUME BuilderInv, ServeNodes \/ RefetchNodes
  PROVE  BuilderInv'
<1>1. preview \in PreviewType /\ Listing \in SUBSET Nodes
  BY BuilderTypes DEF BuilderInv, Listing
<1>2. UNCHANGED <<reader, graph, executor, architect, events, chat, drawing>>
  BY DEF ServeNodes, RefetchNodes
<1>3. /\ preview' \in PreviewType /\ preview'.data = preview.data
      /\ preview'.loaded = preview.loaded /\ (preview'.fresh => preview.fresh)
      /\ \/ preview'.read = preview.read /\ preview'.answer = preview.answer
         \/ preview'.answer = Listing
  BY <1>1 DEF ServeNodes, RefetchNodes, PreviewType
<1>4. DueInv(preview')
  BY <1>3 DEF BuilderInv, DueInv
<1> QED
  BY <1>2, <1>3, <1>4, PreviewStep, BuilderTypes DEF BuilderInv

(* A drawing shows nodes. *)
LEMMA DrawnType ==
  ASSUME NEW data \in SUBSET Nodes, NEW d, d.drawn \in SUBSET Nodes
  PROVE  Drawn(data, d) \in SUBSET Nodes
BY DEF Drawn

LEMMA NodesArriveStep ==
  ASSUME BuilderInv, NodesArrive
  PROVE  BuilderInv'
<1>1. preview \in PreviewType /\ drawing \in DrawingType
  BY BuilderTypes DEF BuilderInv
<1>2. UNCHANGED <<reader, graph, executor, architect, events, chat>> /\ preview.read
  BY DEF NodesArrive
<1>3. CASE /\ preview' = [preview EXCEPT !.data = preview.answer, !.loaded = TRUE, !.fresh = TRUE,
                                         !.asked = FALSE, !.read = FALSE, !.answer = {}]
           /\ drawing' = [drawing EXCEPT !.drawn =
                IF preview.answer = preview.data THEN @ ELSE Drawn(preview.answer, drawing)]
  <2> DEFINE drawn == IF preview.answer = preview.data THEN drawing.drawn
                      ELSE Drawn(preview.answer, drawing)
  <2>1. drawn \in SUBSET Nodes
    BY <1>1, DrawnType DEF PreviewType, DrawingType
  <2>2. drawing' = [drawing EXCEPT !.drawn = drawn]
    BY <1>3
  <2> HIDE DEF drawn
  <2>3. drawing' \in DrawingType
    BY <1>1, <2>1, <2>2 DEF DrawingType
  <2>4. /\ preview' \in PreviewType /\ preview'.data = preview.answer
        /\ preview'.loaded /\ ~preview'.read
    BY <1>1, <1>3 DEF PreviewType
  <2>5. DueInv(preview')
    BY <1>2, <2>4 DEF BuilderInv, DueInv
  <2> QED
    BY <1>2, <2>3, <2>4, <2>5, PreviewStep, BuilderTypes DEF BuilderInv
<1>4. CASE /\ preview' = [preview EXCEPT !.asked = FALSE, !.read = FALSE, !.answer = {}]
           /\ UNCHANGED drawing
  <2>1. /\ preview' \in PreviewType /\ preview'.data = preview.data
        /\ preview'.loaded = preview.loaded /\ preview'.fresh = preview.fresh
        /\ ~preview'.read
    BY <1>1, <1>4 DEF PreviewType
  <2>2. DueInv(preview')
    BY <1>4, <2>1 DEF BuilderInv, DueInv
  <2> QED
    BY <1>1, <1>2, <1>4, <2>1, <2>2, PreviewStep, BuilderTypes DEF BuilderInv
<1> QED
  BY <1>3, <1>4 DEF NodesArrive

(* What is drawn and filtered concerns the drawing only.                   *)
LEMMA DrawingSteps ==
  ASSUME BuilderInv,
         \/ ChangeTab \/ Relayout
         \/ (\E n \in Nodes : HideNode(n)) \/ \E m \in SUBSET Nodes : Filter(m)
  PROVE  BuilderInv'
<1>1. /\ preview \in PreviewType /\ drawing \in DrawingType /\ chat \in ChatType
      /\ preview.data \in SUBSET Nodes /\ drawing.drawn \in SUBSET Nodes
  BY BuilderTypes DEF BuilderInv, PreviewType, DrawingType
<1>2. CASE ChangeTab
  <2> DEFINE tab == IF drawing.tab = "builder" THEN "explore" ELSE "builder"
             asked == preview.asked \/ ~preview.fresh
  <2>1. tab \in {"builder", "explore"} /\ asked \in BOOLEAN /\ 0 \in 0..MaxChats
    BY GraphBuilderAssumption
  <2>2. /\ drawing' = [tab |-> tab, matches |-> Nodes, drawn |-> preview.data]
        /\ chat' = [chat EXCEPT !.waits = 0]
        /\ preview' = [preview EXCEPT !.asked = asked]
        /\ UNCHANGED <<reader, graph, executor, architect, events>>
    BY <1>1, <1>2 DEF ChangeTab, PreviewType
  <2> HIDE DEF tab, asked
  <2>3. drawing' \in DrawingType
    BY <1>1, <2>1, <2>2 DEF DrawingType
  <2>4. chat' \in ChatType /\ chat'.due = chat.due
    BY <1>1, <2>1, <2>2 DEF ChatType
  <2>5. /\ preview' \in PreviewType /\ preview'.data = preview.data
        /\ preview'.loaded = preview.loaded /\ preview'.fresh = preview.fresh
        /\ preview'.read = preview.read /\ preview'.answer = preview.answer
    BY <1>1, <2>1, <2>2 DEF PreviewType
  <2>6. DueInv(preview')
    BY <2>5 DEF BuilderInv, DueInv
  <2> QED
    BY <2>2, <2>3, <2>4, <2>5, <2>6, PreviewStep
<1>3. ASSUME drawing' \in DrawingType,
             UNCHANGED <<reader, graph, executor, architect, events, chat, preview>>
      PROVE  BuilderInv'
  BY <1>1, <1>3, PreviewStep DEF BuilderInv
<1>4. CASE Relayout
  <2> DEFINE drawn == Drawn(preview.data, drawing)
  <2>1. drawn \in SUBSET Nodes
    BY <1>1, DrawnType
  <2>2. /\ drawing' = [drawing EXCEPT !.drawn = drawn]
        /\ UNCHANGED <<reader, graph, executor, architect, events, chat, preview>>
    BY <1>4 DEF Relayout
  <2> HIDE DEF drawn
  <2>3. drawing' \in DrawingType
    BY <1>1, <2>1, <2>2 DEF DrawingType
  <2> QED
    BY <1>3, <2>2, <2>3
<1>5. ASSUME NEW n \in Nodes, HideNode(n)
      PROVE  BuilderInv'
  <2>1. drawing' \in DrawingType
    BY <1>1, <1>5 DEF HideNode, DrawingType
  <2> QED
    BY <1>3, <1>5, <2>1 DEF HideNode
<1>6. ASSUME NEW m \in SUBSET Nodes, Filter(m)
      PROVE  BuilderInv'
  <2> DEFINE d == [drawing EXCEPT !.matches = m]
             drawn == Drawn(preview.data, d)
  <2>1. /\ drawing' = [d EXCEPT !.drawn = drawn]
        /\ UNCHANGED <<reader, graph, executor, architect, events, chat, preview>>
    BY <1>6 DEF Filter
  <2>2. d \in DrawingType /\ d.drawn \in SUBSET Nodes
    BY <1>1 DEF DrawingType
  <2> HIDE DEF d
  <2>3. drawn \in SUBSET Nodes
    BY <1>1, <2>2, DrawnType
  <2> HIDE DEF drawn
  <2>4. drawing' \in DrawingType
    BY <2>1, <2>2, <2>3 DEF DrawingType
  <2> QED
    BY <1>3, <2>1, <2>4
<1> QED
  BY <1>2, <1>4, <1>5, <1>6

LEMMA BuilderInvNext == BuilderInv /\ [BuilderNext]_builderVars => BuilderInv'
<1> SUFFICES ASSUME BuilderInv, [BuilderNext]_builderVars PROVE BuilderInv'
  OBVIOUS
<1>1. ASSUME NEW c \in Chats, SessionStep(c) PROVE BuilderInv'
  BY <1>1, ChooseToolStep, ToolSteps, ReadEventStep, BreakStreamStep DEF SessionStep
<1>2. CASE UNCHANGED builderVars
  BY <1>2, PreviewStep, BuilderTypes
  DEF builderVars, BuilderInv, DueInv, Listing
<1> QED
  BY <1>1, <1>2, SendToArchitectStep, AddElsewhereStep, QuerySteps, NodesArriveStep, DrawingSteps
  DEF BuilderNext

(* The graph, the sessions, their events, the query and the drawing keep   *)
(* their types.                                                            *)
THEOREM BuilderTypeCorrect == BuilderSpec => []BuilderTypeOK
<1>1. BuilderInv => BuilderTypeOK
  BY DEF BuilderInv
<1> QED
  BY <1>1, BuilderInvInit, BuilderInvNext, PTL DEF BuilderSpec

(* A preview that is fresh lacks no node that was listed when the last     *)
(* tool_call was read, whatever answer was on its way then.                *)
THEOREM FreshPreviewHoldsTheDue == BuilderSpec => []PreviewHoldsWhatWasDue
<1>1. BuilderInv => PreviewHoldsWhatWasDue
  BY DEF BuilderInv, DueInv, PreviewHoldsWhatWasDue
<1> QED
  BY <1>1, BuilderInvInit, BuilderInvNext, PTL DEF BuilderSpec
=============================================================================
