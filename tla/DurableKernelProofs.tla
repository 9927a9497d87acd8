------------------------ MODULE DurableKernelProofs ------------------------
(***************************************************************************)
(* Proofs about DurableKernel, for any number of runs, attempts, tools and *)
(* restarts: the types, the inductive invariant IInv behind the safety     *)
(* invariants, and the two action properties.                              *)
(***************************************************************************)
EXTENDS DurableKernel, TLAPS

-----------------------------------------------------------------------------
(* The inductive invariant.  None of the safety properties is inductive    *)
(* alone: what a handler may assume of a row depends on which events went  *)
(* into the ledger before, and the other way round.                        *)

\* A run has its accepted event first and at most one terminal event last,
\* and the restart pass only holds runs that have rows.
RunHistory ==
  /\ \A r \in Run : Open(r) => <<"accepted", r>> \in events
  /\ \A r \in Run : <<"terminal", r>> \in events => <<"accepted", r>> \in events
  /\ \A r \in Run :
       <<"restart-terminal", r>> \in events => <<"accepted", r>> \in events
  /\ \A r \in Run : <<"terminal", r>> \in events => ~Open(r)
  /\ \A r \in Run : <<"restart-terminal", r>> \in events => ~Open(r)
  /\ \A r \in Run :
       <<"terminal", r>> \in events => <<"restart-terminal", r>> \notin events
  /\ host = "recovering" => \A r \in todo : Open(r)

\* The tool table and the runs' rows agree.
ToolEffects ==
  /\ UnknownEffectKeepsRun /\ AggregateMatches /\ NoUnsafeTwins
  /\ \A t \in Tool : tool[t].status = "none" => tool[t] = NoTool

\* An attempt has its dispatch first, then at most a decision or an outcome.
OutcomeNeedsDispatch ==
  \A m \in Model :
    <<"model-outcome", m>> \in events => <<"model-dispatch", m>> \in events

DecisionNeedsDispatch ==
  \A m \in Model :
    <<"model-reconciliation", m>> \in events => <<"model-dispatch", m>> \in events

\* The attempt a row names is its own, dispatched and undecided.
CurrentModel ==
  /\ \A r \in Run : run[r].phase = "model_effect_pending" => run[r].model # None
  /\ \A r \in Run : ~Open(r) => run[r].model = None
  /\ \A r \in Run : run[r].model # None =>
       /\ RunOf[run[r].model] = r /\ run[r].model \notin Auxiliary
       /\ <<"model-dispatch", run[r].model>> \in events
       /\ <<"model-outcome", run[r].model>> \notin events
       /\ <<"model-reconciliation", run[r].model>> \notin events

ModelEffects == OutcomeNeedsDispatch /\ DecisionNeedsDispatch /\ CurrentModel

\* A run is parked for a tool or for an attempt.
ParkedHasCause ==
  \A r \in Run : run[r].phase = "recovery_parked" =>
    Unsettled(r) # {} \/ run[r].model # None

\* Only parking on tools drops the marker of a hidden run that is open.
MarkerIsKept ==
  \A r \in Hidden : Open(r) =>
    run[r].visible = "false" \/ <<"recovery-parked", r>> \in events

LedgerInv ==
  /\ RunHistory /\ ToolEffects /\ ModelEffects
  /\ ParkedHasCause /\ ParkedIsRecorded /\ MarkerIsKept

IInv == TypeOK /\ LedgerInv

-----------------------------------------------------------------------------
(* Facts about the ledger's own operators.                                 *)

LEMMA OwnRun == \A e \in Model \cup Tool : RunOf[e] \in Run
BY KernelAssumption

LEMMA RunIds == \A r \in Run, k \in RunEvent : <<k, r>> \in EventId
BY DEF EventId

LEMMA ModelIds == \A m \in Model, k \in ModelEvent : <<k, m>> \in EventId
BY DEF EventId

LEMMA ToolIds == \A t \in Tool, k \in ToolEvent : <<k, t>> \in EventId
BY DEF EventId

LEMMA RowTyped ==
  ASSUME TypeOK, NEW r \in Run, NEW row \in RowType, SetRun(r, row)
  PROVE  run' \in [Run -> RowType]
BY DEF TypeOK, SetRun

LEMMA Appended ==
  ASSUME TypeOK, NEW new \in SUBSET EventId, AppendEvents(new)
  PROVE  events' \subseteq EventId
BY DEF TypeOK, AppendEvents

LEMMA RowUpdates ==
  ASSUME NEW row \in RowType, NEW p \in Phase,
         NEW m \in Model \cup {None}, NEW u \in SUBSET Tool
  PROVE  /\ [row EXCEPT !.phase = p] \in RowType
         /\ [row EXCEPT !.phase = p, !.model = m] \in RowType
         /\ [row EXCEPT !.phase = p, !.unsettled = u] \in RowType
<1>1. row \in [phase : Phase \cup {"none"}, model : Model \cup {None},
               unsettled : SUBSET Tool, visible : {"true", "false", "absent"}]
  BY DEF RowType
<1>2. [row EXCEPT !.phase = p] \in RowType
  BY <1>1 DEF RowType
<1>3. [row EXCEPT !.phase = p, !.model = m] \in RowType
  BY <1>1 DEF RowType
<1>4. [row EXCEPT !.phase = p, !.unsettled = u] \in RowType
  BY <1>1 DEF RowType
<1> QED
  BY <1>2, <1>3, <1>4

\* The ids of events are never removed, so neither is the record of a parking.
LEMMA RecordedStays ==
  ASSUME events \subseteq events'
  PROVE  \A q \in Run : Recorded(q) => Recorded(q)'
BY DEF Recorded

-----------------------------------------------------------------------------
(* Every handler keeps the types.                                          *)

LEMMA AcceptRunType ==
  ASSUME TypeOK, NEW r \in Run, AcceptRun(r)
  PROVE  TypeOK'
<1>1. run' \in [Run -> RowType]
  <2>1. NewRow(r) \in RowType
    BY DEF NewRow, RowType, Phase
  <2> QED
    BY <2>1, RowTyped DEF AcceptRun
<1>2. events' \subseteq EventId
  <2>1. {<<"accepted", r>>, <<"user", r>>} \subseteq EventId
    BY RunIds DEF RunEvent
  <2> QED
    BY <2>1, Appended DEF AcceptRun
<1> QED
  BY <1>1, <1>2 DEF AcceptRun, TypeOK

LEMMA CommitRunFactType ==
  ASSUME TypeOK, NEW r \in Run, CommitRunFact(r)
  PROVE  TypeOK'
<1>1. <<"fact", r>> \in EventId
  BY RunIds DEF RunEvent
<1> QED
  BY <1>1 DEF CommitRunFact, TypeOK

LEMMA PrepareModelType ==
  ASSUME TypeOK, NEW m \in Model, PrepareModel(m)
  PROVE  TypeOK'
<1>1. run' \in [Run -> RowType]
  <2>1. [run[RunOf[m]] EXCEPT !.phase = "model_effect_pending", !.model = m]
          \in RowType
    BY OwnRun, RowUpdates DEF TypeOK, Phase, Unsettled
  <2> QED
    BY OwnRun, <2>1, RowTyped DEF PrepareModel
<1>2. events' \subseteq EventId
  <2>1. {<<"model-dispatch", m>>} \subseteq EventId
    BY ModelIds DEF ModelEvent
  <2> QED
    BY <2>1, Appended DEF PrepareModel
<1> QED
  BY <1>1, <1>2 DEF PrepareModel, TypeOK

LEMMA PrepareAuxiliaryType ==
  ASSUME TypeOK, NEW m \in Model, PrepareAuxiliary(m)
  PROVE  TypeOK'
<1>1. events' \subseteq EventId
  <2>1. {<<"model-dispatch", m>>} \subseteq EventId
    BY ModelIds DEF ModelEvent
  <2> QED
    BY <2>1, Appended DEF PrepareAuxiliary
<1> QED
  BY <1>1 DEF PrepareAuxiliary, TypeOK

LEMMA CommitModelOutcomeType ==
  ASSUME TypeOK, NEW m \in Model, NEW res \in Result, CommitModelOutcome(m, res)
  PROVE  TypeOK'
<1>1. run' \in [Run -> RowType]
  <2>1. [run[RunOf[m]] EXCEPT !.phase = "checkpoint", !.model = None] \in RowType
    BY OwnRun, RowUpdates DEF TypeOK, Phase
  <2>2. CASE OwnsCheckpoint(m)
    BY <2>1, <2>2, OwnRun, RowTyped DEF CommitModelOutcome
  <2>3. CASE ~OwnsCheckpoint(m)
    BY <2>3 DEF CommitModelOutcome, TypeOK
  <2> QED
    BY <2>2, <2>3
<1>2. events' \subseteq EventId
  <2>1. {<<"model-outcome", m>>} \subseteq EventId
    BY ModelIds DEF ModelEvent
  <2> QED
    BY <2>1, Appended DEF CommitModelOutcome
<1>3. shown' \subseteq Model /\ reply' \in [Model -> Result \cup {None}]
  BY DEF CommitModelOutcome, TypeOK
<1> QED
  BY <1>1, <1>2, <1>3 DEF CommitModelOutcome, TypeOK

LEMMA PrepareToolType ==
  ASSUME TypeOK, NEW t \in Tool, NEW a \in Action, PrepareTool(t, a)
  PROVE  TypeOK'
<1>1. run' \in [Run -> RowType]
  <2>1. [run[RunOf[t]] EXCEPT !.phase = "tool_effect_pending",
                              !.unsettled = Unsettled(RunOf[t]) \cup {t}]
          \in RowType
    BY OwnRun, RowUpdates DEF TypeOK, Phase, Unsettled
  <2> QED
    BY OwnRun, <2>1, RowTyped DEF PrepareTool
<1>2. events' \subseteq EventId
  <2>1. {<<"call", t>>, <<"dispatch", t>>} \subseteq EventId
    BY ToolIds DEF ToolEvent
  <2> QED
    BY <2>1, Appended DEF PrepareTool
<1>3. tool' \in [Tool -> ToolType]
  BY DEF PrepareTool, TypeOK, ToolType
<1> QED
  BY <1>1, <1>2, <1>3 DEF PrepareTool, TypeOK

LEMMA CommitToolOutcomeType ==
  ASSUME TypeOK, NEW t \in Tool, NEW res \in Result, CommitToolOutcome(t, res)
  PROVE  TypeOK'
<1> DEFINE rest == Unsettled(RunOf[t]) \ {t}
<1>1. run' \in [Run -> RowType]
  <2>1. (IF rest = {} THEN "checkpoint" ELSE "tool_effect_pending") \in Phase
    BY DEF Phase
  <2>2. rest \in SUBSET Tool
    BY DEF Unsettled
  <2> HIDE DEF rest
  <2>3. [run[RunOf[t]] EXCEPT
           !.phase = IF rest = {} THEN "checkpoint" ELSE "tool_effect_pending",
           !.unsettled = rest] \in RowType
    BY <2>1, <2>2, OwnRun, RowUpdates DEF TypeOK
  <2> QED
    BY <2>3, OwnRun, RowTyped DEF CommitToolOutcome, rest
<1>2. events' \subseteq EventId
  <2>1. {<<"outcome", t>>} \subseteq EventId
    BY ToolIds DEF ToolEvent
  <2> QED
    BY <2>1, Appended DEF CommitToolOutcome
<1>3. tool' \in [Tool -> ToolType]
  BY DEF CommitToolOutcome, TypeOK, ToolType
<1> QED
  BY <1>1, <1>2, <1>3 DEF CommitToolOutcome, TypeOK

LEMMA ReconcileType ==
  ASSUME TypeOK, NEW t \in Tool, NEW res \in Result, Reconcile(t, res),
         queried' \subseteq queried, host' = host
  PROVE  TypeOK'
<1> DEFINE rest == Unsettled(RunOf[t]) \ {t}
<1>1. run' \in [Run -> RowType]
  <2>1. (IF rest = {} THEN "checkpoint" ELSE "recovery_parked") \in Phase
    BY DEF Phase
  <2>2. rest \in SUBSET Tool
    BY DEF Unsettled
  <2> HIDE DEF rest
  <2>3. [run[RunOf[t]] EXCEPT
           !.phase = IF rest = {} THEN "checkpoint" ELSE "recovery_parked",
           !.unsettled = rest] \in RowType
    BY <2>1, <2>2, OwnRun, RowUpdates DEF TypeOK
  <2> QED
    BY <2>3, OwnRun, RowTyped DEF Reconcile, rest
<1>2. events' \subseteq EventId
  <2>1. {<<"reconciliation", t>>, <<"reconciled-outcome", t>>} \subseteq EventId
    BY ToolIds DEF ToolEvent
  <2> QED
    BY <2>1, Appended DEF Reconcile
<1>3. tool' \in [Tool -> ToolType]
  BY DEF Reconcile, TypeOK, ToolType
<1> QED
  BY <1>1, <1>2, <1>3 DEF Reconcile, TypeOK

LEMMA ReconcileModelType ==
  ASSUME TypeOK, NEW m \in Model, ReconcileModel(m)
  PROVE  TypeOK'
<1>1. run' \in [Run -> RowType]
  <2>1. [run[RunOf[m]] EXCEPT !.phase = "checkpoint", !.model = None]
          \in RowType
    BY OwnRun, RowUpdates DEF TypeOK, Phase, Unsettled
  <2> QED
    BY OwnRun, <2>1, RowTyped DEF ReconcileModel
<1>2. events' \subseteq EventId
  <2>1. {<<"model-reconciliation", m>>} \subseteq EventId
    BY ModelIds DEF ModelEvent
  <2> QED
    BY <2>1, Appended DEF ReconcileModel
<1> QED
  BY <1>1, <1>2 DEF ReconcileModel, TypeOK

LEMMA RecoverInterruptedModelType ==
  ASSUME TypeOK, NEW r \in Run, RecoverInterruptedModel(r)
  PROVE  TypeOK'
<1>1. run' \in [Run -> RowType]
  <2>1. NoRow \in RowType
    BY DEF NoRow, RowType
  <2> QED
    BY <2>1, RowTyped DEF RecoverInterruptedModel
<1>2. events' \subseteq EventId
  <2>1. {<<"model-reconciliation", run[r].model>>, <<"terminal", r>>} \subseteq EventId
    BY RunIds, ModelIds DEF RunEvent, ModelEvent, TypeOK, RowType,
      RecoverInterruptedModel
  <2> QED
    BY <2>1, Appended DEF RecoverInterruptedModel
<1> QED
  BY <1>1, <1>2 DEF RecoverInterruptedModel, TypeOK

LEMMA ParkOnToolsType ==
  ASSUME TypeOK, NEW r \in Run, ParkOnTools(r)
  PROVE  TypeOK'
<1>1. run' \in [Run -> RowType]
  <2>1. [phase |-> "recovery_parked", model |-> None,
         unsettled |-> Unsettled(r), visible |-> "absent"] \in RowType
    BY DEF RowType, Phase, Unsettled
  <2> QED
    BY <2>1, RowTyped DEF ParkOnTools
<1>2. events' \subseteq EventId
  <2>1. {<<"recovery-parked", r>>} \subseteq EventId
    BY RunIds DEF RunEvent
  <2> QED
    BY <2>1, Appended DEF ParkOnTools
<1> QED
  BY <1>1, <1>2 DEF ParkOnTools, TypeOK

LEMMA ParkOnModelType ==
  ASSUME TypeOK, NEW r \in Run, ParkOnModel(r)
  PROVE  TypeOK'
<1>1. run' \in [Run -> RowType]
  <2>1. [run[r] EXCEPT !.phase = "recovery_parked"]
          \in RowType
    BY RowUpdates DEF TypeOK, Phase, Unsettled
  <2> QED
    BY <2>1, RowTyped DEF ParkOnModel
<1>2. events' \subseteq EventId
  <2>1. {<<"model-recovery-parked", run[r].model>>} \subseteq EventId
    BY ModelIds DEF ModelEvent, TypeOK, RowType, ParkOnModel,
      AwaitsModel
  <2> QED
    BY <2>1, Appended DEF ParkOnModel
<1> QED
  BY <1>1, <1>2 DEF ParkOnModel, TypeOK

LEMMA TerminateType ==
  ASSUME TypeOK, NEW r \in Run, Terminate(r)
  PROVE  TypeOK'
<1>1. run' \in [Run -> RowType]
  <2>1. NoRow \in RowType
    BY DEF NoRow, RowType
  <2> QED
    BY <2>1, RowTyped DEF Terminate
<1>2. events' \subseteq EventId
  <2>1. {<<"terminal", r>>} \subseteq EventId
    BY RunIds DEF RunEvent
  <2> QED
    BY <2>1, Appended DEF Terminate
<1> QED
  BY <1>1, <1>2 DEF Terminate, TypeOK

LEMMA RecoverModelType ==
  ASSUME TypeOK, NEW r \in Run, RecoverModel(r)
  PROVE  TypeOK'
<1>1. run' \in [Run -> RowType]
  <2>1. [run[r] EXCEPT !.phase = "recovery_parked"]
          \in RowType
    BY RowUpdates DEF TypeOK, Phase, Unsettled
  <2> QED
    BY <2>1, RowTyped DEF RecoverModel
<1>2. events' \subseteq EventId
  <2>1. {<<"model-restart-recovery", run[r].model>>} \subseteq EventId
    BY ModelIds DEF ModelEvent, TypeOK, RowType, RecoverModel,
      AwaitsModel
  <2> QED
    BY <2>1, Appended DEF RecoverModel
<1> QED
  BY <1>1, <1>2 DEF RecoverModel, TypeOK, Reduced

LEMMA RecoverToolsType ==
  ASSUME TypeOK, NEW r \in Run, RecoverTools(r)
  PROVE  TypeOK'
<1>1. run' \in [Run -> RowType]
  <2>1. [run[r] EXCEPT !.phase = "recovery_parked",
                     !.unsettled = Unsettled(r)]
          \in RowType
    BY RowUpdates DEF TypeOK, Phase, Unsettled
  <2> QED
    BY <2>1, RowTyped DEF RecoverTools
<1>2. events' \subseteq EventId
  <2>1. {<<"restart-recovery", r>>} \subseteq EventId
    BY RunIds DEF RunEvent
  <2> QED
    BY <2>1, Appended DEF RecoverTools
<1> QED
  BY <1>1, <1>2 DEF RecoverTools, TypeOK, Reduced

LEMMA RecoverInterruptedType ==
  ASSUME TypeOK, NEW r \in Run, RecoverInterrupted(r)
  PROVE  TypeOK'
<1>1. run' \in [Run -> RowType]
  <2>1. NoRow \in RowType
    BY DEF NoRow, RowType
  <2> QED
    BY <2>1, RowTyped DEF RecoverInterrupted
<1>2. events' \subseteq EventId
  <2>1. {<<"restart-terminal", r>>} \subseteq EventId
    BY RunIds DEF RunEvent
  <2> QED
    BY <2>1, Appended DEF RecoverInterrupted
<1> QED
  BY <1>1, <1>2 DEF RecoverInterrupted, TypeOK, Reduced

-----------------------------------------------------------------------------
(* Every handler keeps LedgerInv.                                         *)

LEMMA AcceptRunKeeps ==
  ASSUME IInv, NEW r \in Run, AcceptRun(r)
  PROVE  LedgerInv'
<1> USE KernelAssumption DEF IInv, LedgerInv, TypeOK, RowType, ToolType,
    AcceptRun, NewRow, SetRun, AppendEvents, Open
<1>1. RunHistory'
  BY DEF RunHistory
<1>2. ToolEffects'
  BY DEF ToolEffects, UnknownEffectKeepsRun, AggregateMatches,
      NoUnsafeTwins, Pending, Unsettled, NoTool
<1>3. ModelEffects'
  BY DEF ModelEffects, OutcomeNeedsDispatch, DecisionNeedsDispatch,
      CurrentModel
<1>4. ParkedHasCause'
  BY DEF ParkedHasCause, Unsettled, Pending
<1>5. ParkedIsRecorded'
  <2>1. \A q \in Run : Recorded(q) => Recorded(q)'
    BY RecordedStays
  <2> QED
    BY <2>1 DEF ParkedIsRecorded
<1>6. MarkerIsKept'
  BY DEF MarkerIsKept
<1> QED
  BY <1>1, <1>2, <1>3, <1>4, <1>5, <1>6 DEF LedgerInv

LEMMA CommitRunFactKeeps ==
  ASSUME IInv, NEW r \in Run, CommitRunFact(r)
  PROVE  LedgerInv'
<1> USE KernelAssumption DEF IInv, LedgerInv, TypeOK, RowType, ToolType,
    CommitRunFact, SetRun, AppendEvents, Open
<1>1. RunHistory'
  BY DEF RunHistory
<1>2. ToolEffects'
  BY DEF ToolEffects, UnknownEffectKeepsRun, AggregateMatches,
      NoUnsafeTwins, Pending, Unsettled, NoTool
<1>3. ModelEffects'
  BY DEF ModelEffects, OutcomeNeedsDispatch, DecisionNeedsDispatch,
      CurrentModel
<1>4. ParkedHasCause'
  BY DEF ParkedHasCause, Unsettled, Pending
<1>5. ParkedIsRecorded'
  <2>1. \A q \in Run : Recorded(q) => Recorded(q)'
    BY RecordedStays
  <2> QED
    BY <2>1 DEF ParkedIsRecorded
<1>6. MarkerIsKept'
  BY DEF MarkerIsKept
<1> QED
  BY <1>1, <1>2, <1>3, <1>4, <1>5, <1>6 DEF LedgerInv

LEMMA PrepareModelKeeps ==
  ASSUME IInv, NEW m \in Model, PrepareModel(m)
  PROVE  LedgerInv'
<1> USE KernelAssumption DEF IInv, LedgerInv, TypeOK, RowType, ToolType,
    PrepareModel, SetRun, AppendEvents, Open
<1>1. RunHistory'
  BY DEF RunHistory
<1>2. ToolEffects'
  BY DEF ToolEffects, UnknownEffectKeepsRun, AggregateMatches,
      NoUnsafeTwins, Pending, Unsettled, NoTool
<1>3. ModelEffects'
  BY DEF ModelEffects, OutcomeNeedsDispatch, DecisionNeedsDispatch,
      CurrentModel
<1>4. ParkedHasCause'
  BY DEF ParkedHasCause, Unsettled, Pending
<1>5. ParkedIsRecorded'
  <2>1. \A q \in Run : Recorded(q) => Recorded(q)'
    BY RecordedStays
  <2> QED
    BY <2>1 DEF ParkedIsRecorded
<1>6. MarkerIsKept'
  BY DEF MarkerIsKept
<1> QED
  BY <1>1, <1>2, <1>3, <1>4, <1>5, <1>6 DEF LedgerInv

LEMMA PrepareAuxiliaryKeeps ==
  ASSUME IInv, NEW m \in Model, PrepareAuxiliary(m)
  PROVE  LedgerInv'
<1> USE KernelAssumption DEF IInv, LedgerInv, TypeOK, RowType, ToolType,
    PrepareAuxiliary, SetRun, AppendEvents, Open
<1>1. RunHistory'
  BY DEF RunHistory
<1>2. ToolEffects'
  BY DEF ToolEffects, UnknownEffectKeepsRun, AggregateMatches,
      NoUnsafeTwins, Pending, Unsettled, NoTool
<1>3. ModelEffects'
  BY DEF ModelEffects, OutcomeNeedsDispatch, DecisionNeedsDispatch,
      CurrentModel
<1>4. ParkedHasCause'
  BY DEF ParkedHasCause, Unsettled, Pending
<1>5. ParkedIsRecorded'
  <2>1. \A q \in Run : Recorded(q) => Recorded(q)'
    BY RecordedStays
  <2> QED
    BY <2>1 DEF ParkedIsRecorded
<1>6. MarkerIsKept'
  BY DEF MarkerIsKept
<1> QED
  BY <1>1, <1>2, <1>3, <1>4, <1>5, <1>6 DEF LedgerInv

LEMMA CommitModelOutcomeKeeps ==
  ASSUME IInv, NEW m \in Model, NEW res \in Result, CommitModelOutcome(m, res)
  PROVE  LedgerInv'
<1> USE KernelAssumption DEF IInv, LedgerInv, TypeOK, RowType, ToolType, SetRun,
    AppendEvents, Open
<1>1. /\ <<"model-dispatch", m>> \in events
      /\ AppendEvents({<<"model-outcome", m>>})
      /\ UNCHANGED <<tool, queried, todo, host>>
  BY DEF CommitModelOutcome
<1>2. CASE OwnsCheckpoint(m)
  <2>1. SetRun(RunOf[m],
                [run[RunOf[m]] EXCEPT !.phase = "checkpoint", !.model = None])
    BY <1>2 DEF CommitModelOutcome
  <2>0. Open(RunOf[m])
    BY <1>2, OwnRun DEF OwnsCheckpoint, ModelEffects, CurrentModel
  <2>2. RunHistory'
    BY <1>1, <2>1, <2>0 DEF RunHistory
  <2>3. ToolEffects'
    BY <1>1, <2>1 DEF ToolEffects, UnknownEffectKeepsRun, AggregateMatches,
      NoUnsafeTwins, Pending, Unsettled, NoTool
  <2>4. ModelEffects'
    <3>1. OutcomeNeedsDispatch'
      BY <1>1 DEF ModelEffects, OutcomeNeedsDispatch
    <3>2. DecisionNeedsDispatch'
      BY <1>1 DEF ModelEffects, DecisionNeedsDispatch
    <3>3. CurrentModel'
      BY <1>1, <1>2, <2>1 DEF ModelEffects, CurrentModel, OwnsCheckpoint
    <3> QED
      BY <3>1, <3>2, <3>3 DEF ModelEffects
  <2>5. ParkedHasCause'
    BY <1>1, <2>1 DEF ParkedHasCause, Unsettled, Pending
  <2>6. \A q \in Run : Recorded(q) => Recorded(q)'
    BY <1>1, RecordedStays
  <2>7. ParkedIsRecorded'
    BY <2>1, <2>6 DEF ParkedIsRecorded
  <2>8. MarkerIsKept'
    BY <1>1, <2>1, <2>0 DEF MarkerIsKept
  <2> QED
    BY <2>2, <2>3, <2>4, <2>5, <2>7, <2>8 DEF LedgerInv
<1>3. CASE ~OwnsCheckpoint(m)
  <2>1. run' = run
    BY <1>3 DEF CommitModelOutcome
  <2>2. RunHistory'
    BY <1>1, <2>1 DEF RunHistory
  <2>3. ToolEffects'
    BY <1>1, <2>1 DEF ToolEffects, UnknownEffectKeepsRun, AggregateMatches,
      NoUnsafeTwins, Pending, Unsettled, NoTool
  <2>4. ModelEffects'
    <3>1. OutcomeNeedsDispatch'
      BY <1>1 DEF ModelEffects, OutcomeNeedsDispatch
    <3>2. DecisionNeedsDispatch'
      BY <1>1 DEF ModelEffects, DecisionNeedsDispatch
    <3>3. CurrentModel'
      BY <1>1, <1>3, <2>1 DEF ModelEffects, CurrentModel, OwnsCheckpoint
    <3> QED
      BY <3>1, <3>2, <3>3 DEF ModelEffects
  <2>5. ParkedHasCause'
    BY <1>1, <2>1 DEF ParkedHasCause, Unsettled, Pending
  <2>6. \A q \in Run : Recorded(q) => Recorded(q)'
    BY <1>1, RecordedStays
  <2>7. ParkedIsRecorded'
    BY <2>1, <2>6 DEF ParkedIsRecorded
  <2>8. MarkerIsKept'
    BY <1>1, <2>1 DEF MarkerIsKept
  <2> QED
    BY <2>2, <2>3, <2>4, <2>5, <2>7, <2>8 DEF LedgerInv
<1> QED
  BY <1>2, <1>3

LEMMA PrepareToolKeeps ==
  ASSUME IInv, NEW t \in Tool, NEW a \in Action, PrepareTool(t, a)
  PROVE  LedgerInv'
<1> USE KernelAssumption DEF IInv, LedgerInv, TypeOK, RowType, ToolType,
    PrepareTool, Unresolved, SetRun, AppendEvents, Open
<1>1. RunHistory'
  BY DEF RunHistory
<1>2. ToolEffects'
  BY DEF ToolEffects, UnknownEffectKeepsRun, AggregateMatches,
      NoUnsafeTwins, Pending, Unsettled, NoTool
<1>3. ModelEffects'
  BY DEF ModelEffects, OutcomeNeedsDispatch, DecisionNeedsDispatch,
      CurrentModel
<1>4. ParkedHasCause'
  BY DEF ParkedHasCause, Unsettled, Pending
<1>5. ParkedIsRecorded'
  <2>1. \A q \in Run : Recorded(q) => Recorded(q)'
    BY RecordedStays
  <2> QED
    BY <2>1 DEF ParkedIsRecorded
<1>6. MarkerIsKept'
  BY DEF MarkerIsKept
<1> QED
  BY <1>1, <1>2, <1>3, <1>4, <1>5, <1>6 DEF LedgerInv

LEMMA CommitToolOutcomeKeeps ==
  ASSUME IInv, NEW t \in Tool, NEW res \in Result, CommitToolOutcome(t, res)
  PROVE  LedgerInv'
<1> USE KernelAssumption DEF IInv, LedgerInv, TypeOK, RowType, ToolType,
    CommitToolOutcome, SetRun, AppendEvents, Open
<1>1. RunHistory'
  BY DEF RunHistory
<1>2. ToolEffects'
  BY DEF ToolEffects, UnknownEffectKeepsRun, AggregateMatches,
      NoUnsafeTwins, Pending, Unsettled, NoTool
<1>3. ModelEffects'
  BY DEF ModelEffects, OutcomeNeedsDispatch, DecisionNeedsDispatch,
      CurrentModel
<1>4. ParkedHasCause'
  <2> DEFINE rest == Unsettled(RunOf[t]) \ {t}
  <2>1. \A q \in Run : Unsettled(q)' = Unsettled(q) \ {t}
    BY DEF Unsettled, Pending
  <2>2. \A q \in Run \ {RunOf[t]} : Unsettled(q)' = Unsettled(q)
    BY <2>1 DEF Unsettled
  <2>3. run'[RunOf[t]].phase = "recovery_parked" => rest # {}
    BY OwnRun
  <2>4. \A q \in Run \ {RunOf[t]} : run'[q] = run[q]
    BY OwnRun
  <2> QED
    BY <2>1, <2>2, <2>3, <2>4, OwnRun DEF ParkedHasCause
<1>5. ParkedIsRecorded'
  <2>1. \A q \in Run : Recorded(q) => Recorded(q)'
    BY RecordedStays
  <2> QED
    BY <2>1 DEF ParkedIsRecorded
<1>6. MarkerIsKept'
  BY DEF MarkerIsKept
<1> QED
  BY <1>1, <1>2, <1>3, <1>4, <1>5, <1>6 DEF LedgerInv

LEMMA ReconcileKeeps ==
  ASSUME IInv, NEW t \in Tool, NEW res \in Result, Reconcile(t, res)
  PROVE  LedgerInv'
<1> USE KernelAssumption DEF IInv, LedgerInv, TypeOK, RowType, ToolType,
    Reconcile, Reconcilable, SetRun, AppendEvents, Open
<1>1. RunHistory'
  BY DEF RunHistory
<1>2. ToolEffects'
  BY DEF ToolEffects, UnknownEffectKeepsRun, AggregateMatches,
      NoUnsafeTwins, Pending, Unsettled, NoTool
<1>3. ModelEffects'
  BY DEF ModelEffects, OutcomeNeedsDispatch, DecisionNeedsDispatch,
      CurrentModel
<1>4. ParkedHasCause'
  <2> DEFINE rest == Unsettled(RunOf[t]) \ {t}
  <2>1. \A q \in Run : Unsettled(q)' = Unsettled(q) \ {t}
    BY DEF Unsettled, Pending
  <2>2. \A q \in Run \ {RunOf[t]} : Unsettled(q)' = Unsettled(q)
    BY <2>1 DEF Unsettled
  <2>3. run'[RunOf[t]].phase = "recovery_parked" => rest # {}
    BY OwnRun
  <2>4. \A q \in Run \ {RunOf[t]} : run'[q] = run[q]
    BY OwnRun
  <2> QED
    BY <2>1, <2>2, <2>3, <2>4, OwnRun DEF ParkedHasCause
<1>5. ParkedIsRecorded'
  <2>1. \A q \in Run : Recorded(q) => Recorded(q)'
    BY RecordedStays
  <2>2. Recorded(RunOf[t])'
    BY OwnRun DEF Recorded
  <2> QED
    BY <2>1, <2>2, OwnRun DEF ParkedIsRecorded
<1>6. MarkerIsKept'
  BY DEF MarkerIsKept
<1> QED
  BY <1>1, <1>2, <1>3, <1>4, <1>5, <1>6 DEF LedgerInv

LEMMA ReconcileModelKeeps ==
  ASSUME IInv, NEW m \in Model, ReconcileModel(m)
  PROVE  LedgerInv'
<1> USE KernelAssumption DEF IInv, LedgerInv, TypeOK, RowType, ToolType,
    ReconcileModel, SetRun, AppendEvents, Open
<1>1. RunHistory'
  BY DEF RunHistory
<1>2. ToolEffects'
  BY DEF ToolEffects, UnknownEffectKeepsRun, AggregateMatches,
      NoUnsafeTwins, Pending, Unsettled, NoTool
<1>3. ModelEffects'
  <2>1. m \in Model /\ <<"model-dispatch", m>> \in events
    BY DEF ModelEffects, CurrentModel
  <2>2. OutcomeNeedsDispatch'
    BY DEF ModelEffects, OutcomeNeedsDispatch
  <2>3. DecisionNeedsDispatch'
    BY <2>1 DEF ModelEffects, DecisionNeedsDispatch
  <2>4. CurrentModel'
    BY <2>1 DEF ModelEffects, CurrentModel
  <2> QED
    BY <2>2, <2>3, <2>4 DEF ModelEffects
<1>4. ParkedHasCause'
  BY DEF ParkedHasCause, Unsettled, Pending
<1>5. ParkedIsRecorded'
  <2>1. \A q \in Run : Recorded(q) => Recorded(q)'
    BY RecordedStays
  <2> QED
    BY <2>1 DEF ParkedIsRecorded
<1>6. MarkerIsKept'
  BY DEF MarkerIsKept
<1> QED
  BY <1>1, <1>2, <1>3, <1>4, <1>5, <1>6 DEF LedgerInv

LEMMA RecoverInterruptedModelKeeps ==
  ASSUME IInv, NEW r \in Run, RecoverInterruptedModel(r)
  PROVE  LedgerInv'
<1> USE KernelAssumption DEF IInv, LedgerInv, TypeOK, RowType, ToolType,
    RecoverInterruptedModel, NoRow, SetRun, AppendEvents, Open
<1>1. RunHistory'
  BY DEF RunHistory
<1>2. ToolEffects'
  BY DEF ToolEffects, UnknownEffectKeepsRun, AggregateMatches,
      NoUnsafeTwins, Pending, Unsettled, NoTool
<1>3. ModelEffects'
  <2>1. run[r].model \in Model /\ <<"model-dispatch", run[r].model>> \in events
    BY DEF ModelEffects, CurrentModel
  <2>2. OutcomeNeedsDispatch'
    BY DEF ModelEffects, OutcomeNeedsDispatch
  <2>3. DecisionNeedsDispatch'
    BY <2>1 DEF ModelEffects, DecisionNeedsDispatch
  <2>4. CurrentModel'
    BY <2>1 DEF ModelEffects, CurrentModel
  <2> QED
    BY <2>2, <2>3, <2>4 DEF ModelEffects
<1>4. ParkedHasCause'
  BY DEF ParkedHasCause, Unsettled, Pending
<1>5. ParkedIsRecorded'
  <2>1. \A q \in Run : Recorded(q) => Recorded(q)'
    BY RecordedStays
  <2> QED
    BY <2>1 DEF ParkedIsRecorded
<1>6. MarkerIsKept'
  BY DEF MarkerIsKept
<1> QED
  BY <1>1, <1>2, <1>3, <1>4, <1>5, <1>6 DEF LedgerInv

LEMMA ParkOnToolsKeeps ==
  ASSUME IInv, NEW r \in Run, ParkOnTools(r)
  PROVE  LedgerInv'
<1> USE KernelAssumption DEF IInv, LedgerInv, TypeOK, RowType, ToolType,
    ParkOnTools, Completable, SetRun, AppendEvents, Open
<1>1. RunHistory'
  BY DEF RunHistory
<1>2. ToolEffects'
  BY DEF ToolEffects, UnknownEffectKeepsRun, AggregateMatches,
      NoUnsafeTwins, Pending, Unsettled, NoTool
<1>3. ModelEffects'
  BY DEF ModelEffects, OutcomeNeedsDispatch, DecisionNeedsDispatch,
      CurrentModel
<1>4. ParkedHasCause'
  BY DEF ParkedHasCause, Unsettled, Pending
<1>5. ParkedIsRecorded'
  <2>1. \A q \in Run : Recorded(q) => Recorded(q)'
    BY RecordedStays
  <2>2. Recorded(r)'
    BY OwnRun DEF Recorded
  <2> QED
    BY <2>1, <2>2, OwnRun DEF ParkedIsRecorded
<1>6. MarkerIsKept'
  BY DEF MarkerIsKept
<1> QED
  BY <1>1, <1>2, <1>3, <1>4, <1>5, <1>6 DEF LedgerInv

LEMMA ParkOnModelKeeps ==
  ASSUME IInv, NEW r \in Run, ParkOnModel(r)
  PROVE  LedgerInv'
<1> USE KernelAssumption DEF IInv, LedgerInv, TypeOK, RowType, ToolType,
    ParkOnModel, Completable, AwaitsModel, SetRun, AppendEvents, Open
<1>1. RunHistory'
  BY DEF RunHistory
<1>2. ToolEffects'
  BY DEF ToolEffects, UnknownEffectKeepsRun, AggregateMatches,
      NoUnsafeTwins, Pending, Unsettled, NoTool
<1>3. ModelEffects'
  BY DEF ModelEffects, OutcomeNeedsDispatch, DecisionNeedsDispatch,
      CurrentModel
<1>4. ParkedHasCause'
  BY DEF ParkedHasCause, Unsettled, Pending
<1>5. ParkedIsRecorded'
  <2>1. \A q \in Run : Recorded(q) => Recorded(q)'
    BY RecordedStays
  <2>2. Recorded(r)'
    <3>1. run[r].model \in Model /\ RunOf[run[r].model] = r
      BY DEF ModelEffects, CurrentModel
    <3>2. <<"model-recovery-parked", run[r].model>> \in events'
      OBVIOUS
    <3> QED
      BY <3>1, <3>2 DEF Recorded
  <2> QED
    BY <2>1, <2>2, OwnRun DEF ParkedIsRecorded
<1>6. MarkerIsKept'
  BY DEF MarkerIsKept
<1> QED
  BY <1>1, <1>2, <1>3, <1>4, <1>5, <1>6 DEF LedgerInv

LEMMA TerminateKeeps ==
  ASSUME IInv, NEW r \in Run, Terminate(r)
  PROVE  LedgerInv'
<1> USE KernelAssumption DEF IInv, LedgerInv, TypeOK, RowType, ToolType,
    Terminate, Completable, AwaitsModel, NoRow, SetRun, AppendEvents, Open
<1>1. RunHistory'
  BY DEF RunHistory
<1>2. ToolEffects'
  BY DEF ToolEffects, UnknownEffectKeepsRun, AggregateMatches,
      NoUnsafeTwins, Pending, Unsettled, NoTool
<1>3. ModelEffects'
  BY DEF ModelEffects, OutcomeNeedsDispatch, DecisionNeedsDispatch,
      CurrentModel
<1>4. ParkedHasCause'
  BY DEF ParkedHasCause, Unsettled, Pending
<1>5. ParkedIsRecorded'
  <2>1. \A q \in Run : Recorded(q) => Recorded(q)'
    BY RecordedStays
  <2> QED
    BY <2>1 DEF ParkedIsRecorded
<1>6. MarkerIsKept'
  BY DEF MarkerIsKept
<1> QED
  BY <1>1, <1>2, <1>3, <1>4, <1>5, <1>6 DEF LedgerInv

LEMMA RecoverModelKeeps ==
  ASSUME IInv, NEW r \in Run, RecoverModel(r)
  PROVE  LedgerInv'
<1> USE KernelAssumption DEF IInv, LedgerInv, TypeOK, RowType, ToolType,
    RecoverModel, Recovering, Reduced, AwaitsModel, SetRun, AppendEvents, Open
<1>1. RunHistory'
  BY DEF RunHistory
<1>2. ToolEffects'
  BY DEF ToolEffects, UnknownEffectKeepsRun, AggregateMatches,
      NoUnsafeTwins, Pending, Unsettled, NoTool
<1>3. ModelEffects'
  BY DEF ModelEffects, OutcomeNeedsDispatch, DecisionNeedsDispatch,
      CurrentModel
<1>4. ParkedHasCause'
  BY DEF ParkedHasCause, Unsettled, Pending
<1>5. ParkedIsRecorded'
  <2>1. \A q \in Run : Recorded(q) => Recorded(q)'
    BY RecordedStays
  <2>2. Recorded(r)'
    <3>1. run[r].model \in Model /\ RunOf[run[r].model] = r
      BY DEF ModelEffects, CurrentModel
    <3>2. <<"model-restart-recovery", run[r].model>> \in events'
      OBVIOUS
    <3> QED
      BY <3>1, <3>2 DEF Recorded
  <2> QED
    BY <2>1, <2>2, OwnRun DEF ParkedIsRecorded
<1>6. MarkerIsKept'
  BY DEF MarkerIsKept
<1> QED
  BY <1>1, <1>2, <1>3, <1>4, <1>5, <1>6 DEF LedgerInv

LEMMA RecoverToolsKeeps ==
  ASSUME IInv, NEW r \in Run, RecoverTools(r)
  PROVE  LedgerInv'
<1> USE KernelAssumption DEF IInv, LedgerInv, TypeOK, RowType, ToolType,
    RecoverTools, Recovering, Reduced, HasUnknownEffect, SetRun, AppendEvents,
    Open
<1>1. RunHistory'
  BY DEF RunHistory
<1>2. ToolEffects'
  BY DEF ToolEffects, UnknownEffectKeepsRun, AggregateMatches,
      NoUnsafeTwins, Pending, Unsettled, NoTool
<1>3. ModelEffects'
  BY DEF ModelEffects, OutcomeNeedsDispatch, DecisionNeedsDispatch,
      CurrentModel
<1>4. ParkedHasCause'
  BY DEF ParkedHasCause, Unsettled, Pending
<1>5. ParkedIsRecorded'
  <2>1. \A q \in Run : Recorded(q) => Recorded(q)'
    BY RecordedStays
  <2>2. Recorded(r)'
    BY OwnRun DEF Recorded
  <2> QED
    BY <2>1, <2>2, OwnRun DEF ParkedIsRecorded
<1>6. MarkerIsKept'
  <2>1. Open(r)
    BY DEF RunHistory
  <2> QED
    BY <2>1 DEF MarkerIsKept
<1> QED
  BY <1>1, <1>2, <1>3, <1>4, <1>5, <1>6 DEF LedgerInv

LEMMA RecoverInterruptedKeeps ==
  ASSUME IInv, NEW r \in Run, RecoverInterrupted(r)
  PROVE  LedgerInv'
<1> USE KernelAssumption DEF IInv, LedgerInv, TypeOK, RowType, ToolType,
    RecoverInterrupted, Recovering, Reduced, AwaitsModel, NoRow, SetRun,
    AppendEvents, Open
<1>1. RunHistory'
  BY DEF RunHistory
<1>2. ToolEffects'
  BY DEF ToolEffects, UnknownEffectKeepsRun, AggregateMatches,
      NoUnsafeTwins, Pending, Unsettled, NoTool
<1>3. ModelEffects'
  BY DEF ModelEffects, OutcomeNeedsDispatch, DecisionNeedsDispatch,
      CurrentModel
<1>4. ParkedHasCause'
  BY DEF ParkedHasCause, Unsettled, Pending
<1>5. ParkedIsRecorded'
  <2>1. \A q \in Run : Recorded(q) => Recorded(q)'
    BY RecordedStays
  <2> QED
    BY <2>1 DEF ParkedIsRecorded
<1>6. MarkerIsKept'
  BY DEF MarkerIsKept
<1> QED
  BY <1>1, <1>2, <1>3, <1>4, <1>5, <1>6 DEF LedgerInv

-----------------------------------------------------------------------------
(* The inductive step.                                                     *)

LEMMA IInvInit == Init => IInv
<1> SUFFICES ASSUME Init PROVE IInv
  OBVIOUS
<1> USE KernelAssumption DEF Init, NoRow, NoTool, Open, Pending, Unsettled
<1>1. TypeOK
  BY DEF TypeOK, RowType, ToolType
<1>2. RunHistory
  BY DEF RunHistory
<1>3. ToolEffects
  BY DEF ToolEffects, UnknownEffectKeepsRun, AggregateMatches, NoUnsafeTwins
<1>4. ModelEffects
  BY DEF ModelEffects, OutcomeNeedsDispatch, DecisionNeedsDispatch, CurrentModel
<1>5. ParkedHasCause /\ ParkedIsRecorded /\ MarkerIsKept
  BY DEF ParkedHasCause, ParkedIsRecorded, MarkerIsKept
<1> QED
  BY <1>1, <1>2, <1>3, <1>4, <1>5 DEF IInv, LedgerInv

\* A step that leaves the ledger alone keeps the invariant if the restart pass
\* still holds only runs with rows.
LEMMA LedgerFrame ==
  ASSUME LedgerInv, UNCHANGED ledger,
         host' = "recovering" => \A r \in todo' : Open(r)
  PROVE  LedgerInv'
<1> USE DEF LedgerInv, ledger, Open, Pending, Unsettled
<1>1. RunHistory'
  BY DEF RunHistory
<1>2. ToolEffects'
  BY DEF ToolEffects, UnknownEffectKeepsRun, AggregateMatches, NoUnsafeTwins
<1>3. ModelEffects'
  BY DEF ModelEffects, OutcomeNeedsDispatch, DecisionNeedsDispatch, CurrentModel
<1>4. ParkedIsRecorded'
  BY DEF ParkedIsRecorded, Recorded
<1>5. ParkedHasCause' /\ MarkerIsKept'
  BY DEF ParkedHasCause, MarkerIsKept
<1> QED
  BY <1>1, <1>2, <1>3, <1>4, <1>5

LEMMA RestartKeeps == IInv /\ Restart => IInv'
<1> SUFFICES ASSUME IInv, Restart PROVE IInv'
  OBVIOUS
<1>1. TypeOK'
  BY DEF IInv, Restart, TypeOK, ledger
<1>2. LedgerInv'
  BY LedgerFrame DEF IInv, Restart
<1> QED
  BY <1>1, <1>2 DEF IInv

LEMMA RunStepKeeps == IInv /\ RunStep => IInv'
<1> SUFFICES ASSUME IInv, NEW r \in Run,
                    \/ AcceptRun(r) \/ CommitRunFact(r)
                    \/ CompleteRun(r) \/ RecoverInterruptedModel(r)
             PROVE  IInv'
  BY DEF RunStep
<1> USE DEF IInv
<1>1. CASE AcceptRun(r)
  BY <1>1, AcceptRunType, AcceptRunKeeps
<1>2. CASE CommitRunFact(r)
  BY <1>2, CommitRunFactType, CommitRunFactKeeps
<1>3. CASE ParkOnTools(r)
  BY <1>3, ParkOnToolsType, ParkOnToolsKeeps
<1>4. CASE ParkOnModel(r)
  BY <1>4, ParkOnModelType, ParkOnModelKeeps
<1>5. CASE Terminate(r)
  BY <1>5, TerminateType, TerminateKeeps
<1>6. CASE RecoverInterruptedModel(r)
  BY <1>6, RecoverInterruptedModelType, RecoverInterruptedModelKeeps
<1> QED
  BY <1>1, <1>2, <1>3, <1>4, <1>5, <1>6 DEF CompleteRun

LEMMA ModelStepKeeps == IInv /\ ModelStep => IInv'
<1> SUFFICES ASSUME IInv, NEW m \in Model,
                    \/ PrepareModel(m) \/ PrepareAuxiliary(m) \/ ReconcileModel(m)
                    \/ \E res \in Result : CommitModelOutcome(m, res)
             PROVE  IInv'
  BY DEF ModelStep
<1> USE DEF IInv
<1>1. CASE PrepareModel(m)
  BY <1>1, PrepareModelType, PrepareModelKeeps
<1>2. CASE PrepareAuxiliary(m)
  BY <1>2, PrepareAuxiliaryType, PrepareAuxiliaryKeeps
<1>3. CASE ReconcileModel(m)
  BY <1>3, ReconcileModelType, ReconcileModelKeeps
<1>4. CASE \E res \in Result : CommitModelOutcome(m, res)
  BY <1>4, CommitModelOutcomeType, CommitModelOutcomeKeeps
<1> QED
  BY <1>1, <1>2, <1>3, <1>4

LEMMA ToolStepKeeps == IInv /\ ToolStep => IInv'
<1> SUFFICES ASSUME IInv, NEW t \in Tool,
                    \/ \E a \in Action : PrepareTool(t, a)
                    \/ QueryExternal(t)
                    \/ \E res \in Result : \/ CommitToolOutcome(t, res)
                                           \/ ReconcileTool(t, res)
                                           \/ QueryAnswered(t, res)
             PROVE  IInv'
  BY DEF ToolStep
<1> USE DEF IInv
<1>1. CASE \E a \in Action : PrepareTool(t, a)
  BY <1>1, PrepareToolType, PrepareToolKeeps
<1>2. CASE QueryExternal(t)
  <2>1. TypeOK'
    BY <1>2 DEF QueryExternal, TypeOK, ledger
  <2>2. host' # "recovering"
    BY <1>2 DEF QueryExternal
  <2> QED
    BY <1>2, <2>1, <2>2, LedgerFrame DEF QueryExternal
<1>3. CASE \E res \in Result : CommitToolOutcome(t, res)
  BY <1>3, CommitToolOutcomeType, CommitToolOutcomeKeeps
<1>4. ASSUME NEW res \in Result, Reconcile(t, res),
             queried' \subseteq queried, host' = host
      PROVE  IInv'
  BY <1>4, ReconcileType, ReconcileKeeps
<1>5. CASE \E res \in Result : ReconcileTool(t, res)
  BY <1>4, <1>5 DEF ReconcileTool, Reconcile
<1>6. ASSUME NEW res \in Result, QueryAnswered(t, res)
      PROVE  IInv'
  <2>1. queried' \subseteq queried /\ host = "up"
    BY <1>6 DEF QueryAnswered
  <2>2. CASE Reconcile(t, res)
    BY <1>4, <2>1, <2>2 DEF Reconcile
  <2>3. CASE UNCHANGED <<ledger, todo, host>>
    <3>1. TypeOK'
      BY <2>1, <2>3 DEF TypeOK, ledger
    <3> QED
      BY <2>1, <2>3, <3>1, LedgerFrame
  <2> QED
    BY <1>6, <2>2, <2>3 DEF QueryAnswered
<1> QED
  BY <1>1, <1>2, <1>3, <1>5, <1>6

LEMMA RecoverStepKeeps == IInv /\ RecoverStep => IInv'
<1> SUFFICES ASSUME IInv, RecoverStep PROVE IInv'
  OBVIOUS
<1> USE DEF IInv
<1>1. ASSUME NEW r \in Run, RecoverParked(r)
      PROVE  IInv'
  <2>1. UNCHANGED ledger /\ todo' = todo \ {r} /\ UNCHANGED <<queried, host>>
    BY <1>1 DEF RecoverParked, Reduced, ledger
  <2>2. TypeOK'
    BY <2>1 DEF TypeOK, ledger
  <2>3. host' = "recovering" => \A q \in todo' : Open(q)
    BY <2>1 DEF LedgerInv, RunHistory
  <2> QED
    BY <2>1, <2>2, <2>3, LedgerFrame
<1>2. ASSUME NEW r \in Run, RecoverModel(r)
      PROVE  IInv'
  BY <1>2, RecoverModelType, RecoverModelKeeps
<1>3. ASSUME NEW r \in Run, RecoverTools(r)
      PROVE  IInv'
  BY <1>3, RecoverToolsType, RecoverToolsKeeps
<1>4. ASSUME NEW r \in Run, RecoverInterrupted(r)
      PROVE  IInv'
  BY <1>4, RecoverInterruptedType, RecoverInterruptedKeeps
<1>5. ASSUME UNCHANGED <<ledger, queried>>, host' = "up", todo' \subseteq todo
      PROVE  IInv'
  <2>1. TypeOK'
    BY <1>5 DEF TypeOK, ledger
  <2> QED
    BY <1>5, <2>1, LedgerFrame
<1>6. ASSUME NEW r \in Run, RecoverAborts(r)
      PROVE  IInv'
  BY <1>5, <1>6 DEF RecoverAborts
<1>7. CASE RecoverDone
  BY <1>5, <1>7 DEF RecoverDone
<1> QED
  BY <1>1, <1>2, <1>3, <1>4, <1>6, <1>7 DEF RecoverStep

LEMMA IInvStep == IInv /\ [Next]_vars => IInv'
<1> SUFFICES ASSUME IInv, [Next]_vars PROVE IInv'
  OBVIOUS
<1>1. CASE UNCHANGED vars
  <2>1. TypeOK'
    BY <1>1 DEF vars, IInv, TypeOK
  <2>2. UNCHANGED ledger /\ UNCHANGED <<todo, host>>
    BY <1>1 DEF vars, ledger
  <2>3. host' = "recovering" => \A r \in todo' : Open(r)
    BY <2>2 DEF IInv, LedgerInv, RunHistory
  <2> QED
    BY <2>1, <2>2, <2>3, LedgerFrame DEF IInv
<1> QED
  BY <1>1, RunStepKeeps, ModelStepKeeps, ToolStepKeeps, RestartKeeps,
     RecoverStepKeeps DEF Next

-----------------------------------------------------------------------------
(* The theorems.                                                           *)

(* The strengthening every safety theorem below is read off from.          *)
THEOREM InvariantHolds == Spec => []IInv
<1> QED
  BY IInvInit, IInvStep, PTL DEF Spec

(* TypeOK: the tables and the process state keep their types.              *)
THEOREM TypeCorrect == Spec => []TypeOK
<1>1. IInv => TypeOK
  BY DEF IInv
<1> QED
  BY <1>1, InvariantHolds, PTL

(* A tool effect with an unknown outcome keeps the row of its run.         *)
THEOREM EffectKeepsRun == Spec => []UnknownEffectKeepsRun
<1>1. IInv => UnknownEffectKeepsRun
  BY DEF IInv, LedgerInv, ToolEffects
<1> QED
  BY <1>1, InvariantHolds, PTL

(* The unsettled ids on a run's state are those of the tool table.         *)
THEOREM AggregateIsExact == Spec => []AggregateMatches
<1>1. IInv => AggregateMatches
  BY DEF IInv, LedgerInv, ToolEffects
<1> QED
  BY <1>1, InvariantHolds, PTL

(* An unsafe action is never unsettled twice among runs that recover from  *)
(* one another.                                                            *)
THEOREM TwinsAreSafe == Spec => []NoUnsafeTwins
<1>1. IInv => NoUnsafeTwins
  BY DEF IInv, LedgerInv, ToolEffects
<1> QED
  BY <1>1, InvariantHolds, PTL

(* A run waits only for an attempt that was dispatched and not answered.   *)
THEOREM AwaitedIsUnanswered == Spec => []AwaitedModelIsUnanswered
<1>1. IInv => AwaitedModelIsUnanswered
  BY DEF IInv, LedgerInv, ModelEffects, CurrentModel, AwaitedModelIsUnanswered
<1> QED
  BY <1>1, InvariantHolds, PTL

(* A parked run always has an effect left to decide.                       *)
THEOREM ParkedStaysDecidable == Spec => []ParkedIsDecidable
<1>1. IInv => ParkedIsDecidable
  BY DEF IInv, LedgerInv, ParkedHasCause, ModelEffects, CurrentModel,
     ParkedIsDecidable
<1> QED
  BY <1>1, InvariantHolds, PTL

(* A parked run has the event of what parked it.                           *)
THEOREM ParkingIsRecorded == Spec => []ParkedIsRecorded
<1>1. IInv => ParkedIsRecorded
  BY DEF IInv, LedgerInv
<1> QED
  BY <1>1, InvariantHolds, PTL

(* A run terminates at most once and has no row afterwards.                *)
THEOREM TerminatesOnce == Spec => []TerminalOnce
<1>1. IInv => TerminalOnce
  BY DEF IInv, LedgerInv, RunHistory, TerminalOnce, TerminalEvents
<1> QED
  BY <1>1, InvariantHolds, PTL

-----------------------------------------------------------------------------
(* Action properties.                                                      *)

LEMMA EventOwner ==
  ASSUME NEW r \in Run
  PROVE  /\ \A k \in RunEvent, q \in Run : <<k, q>> \in EventsOf(r) => q = r
         /\ \A k \in ModelEvent, m \in Model :
              <<k, m>> \in EventsOf(r) => RunOf[m] = r
         /\ \A k \in ToolEvent, t \in Tool :
              <<k, t>> \in EventsOf(r) => RunOf[t] = r
BY DEF EventsOf, RunEvent, ModelEvent, ToolEvent

\* The kinds of events a step adds, and to which runs.
LEMMA NewEvents ==
  ASSUME IInv, [Next]_vars, NEW e \in events' \ events
  PROVE  \/ \E q \in Run, k \in RunEvent :
              e = <<k, q>> /\ (Open(q) \/ <<"accepted", q>> \notin events)
         \/ \E m \in Model, k \in ModelEvent : e = <<k, m>> /\ Open(RunOf[m])
         \/ \E t \in Tool, k \in ToolEvent : e = <<k, t>> /\ Open(RunOf[t])
         \/ \E m \in Model : e = <<"model-outcome", m>>
<1> USE DEF RunEvent, ModelEvent, ToolEvent, AppendEvents
<1>1. CASE UNCHANGED vars
  BY <1>1 DEF vars
<1>2. CASE RunStep
  <2> PICK r \in Run : \/ AcceptRun(r) \/ CommitRunFact(r)
                       \/ CompleteRun(r) \/ RecoverInterruptedModel(r)
    BY <1>2 DEF RunStep
  <2>1. CASE AcceptRun(r)
    BY <2>1 DEF AcceptRun
  <2>2. CASE CommitRunFact(r)
    BY <2>2 DEF CommitRunFact
  <2>3. CASE ParkOnTools(r)
    BY <2>3 DEF ParkOnTools, Completable
  <2>4. CASE ParkOnModel(r)
    <3>1. run[r].model \in Model /\ RunOf[run[r].model] = r
      BY <2>4 DEF ParkOnModel, AwaitsModel, IInv, TypeOK, RowType, LedgerInv,
        ModelEffects, CurrentModel
    <3> QED
      BY <2>4, <3>1 DEF ParkOnModel, Completable
  <2>5. CASE Terminate(r)
    BY <2>5 DEF Terminate, Completable
  <2>6. CASE RecoverInterruptedModel(r)
    <3>1. /\ run[r].model \in Model /\ RunOf[run[r].model] = r
          /\ Open(r)
      BY <2>6 DEF RecoverInterruptedModel, IInv, TypeOK, RowType, LedgerInv,
        ModelEffects, CurrentModel, Open
    <3> QED
      BY <2>6, <3>1 DEF RecoverInterruptedModel
  <2> QED
    BY <2>1, <2>2, <2>3, <2>4, <2>5, <2>6 DEF CompleteRun
<1>3. CASE ModelStep
  <2> PICK m \in Model :
        \/ PrepareModel(m) \/ PrepareAuxiliary(m) \/ ReconcileModel(m)
        \/ \E res \in Result : CommitModelOutcome(m, res)
    BY <1>3 DEF ModelStep
  <2>1. CASE PrepareModel(m)
    BY <2>1 DEF PrepareModel
  <2>2. CASE PrepareAuxiliary(m)
    BY <2>2 DEF PrepareAuxiliary
  <2>3. CASE ReconcileModel(m)
    BY <2>3 DEF ReconcileModel, Open
  <2>4. CASE \E res \in Result : CommitModelOutcome(m, res)
    BY <2>4 DEF CommitModelOutcome
  <2> QED
    BY <2>1, <2>2, <2>3, <2>4
<1>4. CASE ToolStep
  <2> PICK t \in Tool :
        \/ \E a \in Action : PrepareTool(t, a)
        \/ QueryExternal(t)
        \/ \E res \in Result : \/ CommitToolOutcome(t, res)
                               \/ ReconcileTool(t, res)
                               \/ QueryAnswered(t, res)
    BY <1>4 DEF ToolStep
  <2>1. CASE \E a \in Action : PrepareTool(t, a)
    BY <2>1 DEF PrepareTool
  <2>2. CASE QueryExternal(t)
    BY <2>2 DEF QueryExternal, ledger
  <2>3. CASE \E res \in Result : CommitToolOutcome(t, res)
    BY <2>3 DEF CommitToolOutcome
  <2>4. CASE \E res \in Result : Reconcile(t, res)
    BY <2>4 DEF Reconcile, Reconcilable
  <2>5. CASE \E res \in Result : ReconcileTool(t, res) \/ QueryAnswered(t, res)
    BY <2>4, <2>5 DEF ReconcileTool, QueryAnswered, ledger
  <2> QED
    BY <2>1, <2>2, <2>3, <2>5
<1>5. CASE Restart
  BY <1>5 DEF Restart, ledger
<1>6. CASE RecoverStep
  <2>1. ASSUME NEW r \in Run, Recovering(r)
        PROVE  Open(r)
    BY <2>1 DEF Recovering, IInv, LedgerInv, RunHistory
  <2>2. ASSUME NEW r \in Run, RecoverModel(r)
        PROVE  \E m \in Model, k \in ModelEvent : e = <<k, m>> /\ Open(RunOf[m])
    <3>1. run[r].model \in Model /\ RunOf[run[r].model] = r
      BY <2>2 DEF RecoverModel, AwaitsModel, IInv, TypeOK, RowType, LedgerInv,
        ModelEffects, CurrentModel
    <3> QED
      BY <2>1, <2>2, <3>1 DEF RecoverModel
  <2>3. ASSUME NEW r \in Run, RecoverTools(r) \/ RecoverInterrupted(r)
        PROVE  \E k \in RunEvent : e = <<k, r>> /\ Open(r)
    BY <2>1, <2>3 DEF RecoverTools, RecoverInterrupted
  <2>4. ASSUME NEW r \in Run, RecoverParked(r) \/ RecoverAborts(r)
        PROVE  FALSE
    BY <2>4 DEF RecoverParked, RecoverAborts, ledger
  <2>5. CASE RecoverDone
    BY <2>5 DEF RecoverDone, ledger
  <2> QED
    BY <1>6, <2>2, <2>3, <2>4, <2>5 DEF RecoverStep
<1> QED
  BY <1>1, <1>2, <1>3, <1>4, <1>5, <1>6 DEF Next

(* Once a run has terminated, nothing but late outcomes of its attempts is *)
(* added to its history.                                                   *)
THEOREM HistoryCloses == Spec => ClosedHistoryIsFinal
<1>1. ASSUME IInv, [Next]_vars, NEW r \in Run, TerminalEvents(r) # {}
      PROVE  (events' \ events) \cap EventsOf(r) \subseteq LateOutcomes(r)
  <2> SUFFICES ASSUME NEW e \in events' \ events, e \in EventsOf(r)
               PROVE  e \in LateOutcomes(r)
    OBVIOUS
  <2>1. ~Open(r) /\ <<"accepted", r>> \in events
    BY <1>1 DEF IInv, LedgerInv, RunHistory, TerminalEvents
  <2>2. \E m \in Model : e = <<"model-outcome", m>>
    <3>1. ~ \E q \in Run, k \in RunEvent :
              e = <<k, q>> /\ (Open(q) \/ <<"accepted", q>> \notin events)
      <4>1. ASSUME NEW q \in Run, NEW k \in RunEvent, e = <<k, q>>
            PROVE  q = r
        BY <4>1, EventOwner
      <4> QED
        BY <2>1, <4>1
    <3>2. ~ \E m \in Model, k \in ModelEvent : e = <<k, m>> /\ Open(RunOf[m])
      BY <2>1, EventOwner
    <3>3. ~ \E t \in Tool, k \in ToolEvent : e = <<k, t>> /\ Open(RunOf[t])
      BY <2>1, EventOwner
    <3> QED
      BY <1>1, <3>1, <3>2, <3>3, NewEvents
  <2> QED
    BY <2>2, EventOwner DEF LateOutcomes, ModelEvent
<1>2. IInv /\ [Next]_vars
        => [\A r \in Run : TerminalEvents(r) # {} =>
              (events' \ events) \cap EventsOf(r) \subseteq LateOutcomes(r)]_vars
  BY <1>1
<1> QED
  BY <1>2, InvariantHolds, PTL DEF Spec, ClosedHistoryIsFinal

LEMMA OnlyOutcomesShow ==
  ASSUME [Next]_vars, NEW m \in shown' \ shown
  PROVE  MayShow(m)
<1> SUFFICES ASSUME ~ \E n \in Model, res \in Result : CommitModelOutcome(n, res)
             PROVE  shown' = shown
  BY DEF CommitModelOutcome
<1> USE DEF ledger
<1>1. CASE UNCHANGED vars
  BY <1>1 DEF vars
<1>2. CASE RunStep
  BY <1>2 DEF RunStep, AcceptRun, CommitRunFact, CompleteRun, ParkOnTools,
    ParkOnModel, Terminate, RecoverInterruptedModel
<1>3. CASE ModelStep
  BY <1>3 DEF ModelStep, PrepareModel, PrepareAuxiliary, ReconcileModel
<1>4. CASE ToolStep
  BY <1>4 DEF ToolStep, PrepareTool, QueryExternal, CommitToolOutcome,
    ReconcileTool, QueryAnswered, Reconcile
<1>5. CASE Restart \/ RecoverStep
  BY <1>5 DEF Restart, RecoverStep, RecoverParked, RecoverModel, RecoverTools,
    RecoverInterrupted, RecoverAborts, RecoverDone, Reduced
<1> QED
  BY <1>1, <1>2, <1>3, <1>4, <1>5 DEF Next

(* A hidden run's reply is shown only after its row or its marker is gone. *)
THEOREM HiddenRepliesShow == Spec => HiddenReplyNeedsLostRow
<1>1. ASSUME IInv, [Next]_vars, NEW m \in shown' \ shown, RunOf[m] \in Hidden
      PROVE  ~Open(RunOf[m]) \/ <<"recovery-parked", RunOf[m]>> \in events
  BY <1>1, OnlyOutcomesShow DEF MayShow, IInv, LedgerInv, MarkerIsKept
<1>2. IInv /\ [Next]_vars
        => [\A m \in shown' \ shown : RunOf[m] \in Hidden =>
              ~Open(RunOf[m]) \/ <<"recovery-parked", RunOf[m]>> \in events]_vars
  BY <1>1
<1> QED
  BY <1>2, InvariantHolds, PTL DEF Spec, HiddenReplyNeedsLostRow

-----------------------------------------------------------------------------
(***************************************************************************)
(* DurableKernel implements EffectLedger for every value of the constants: *)
(* AcceptRun opens a run, a terminal event closes it, T1 dispatches an     *)
(* effect, T2 or a reconciliation of a tool effect settles it, and every   *)
(* other step, restarts and parking included, is a stutter.                *)
(***************************************************************************)

(* The abstract state, read point by point.                                *)

LifeSame == \A q \in Run : RunLife(q)' = RunLife(q)
LifeBecomes(r, v) ==
  \A q \in Run : RunLife(q)' = IF q = r THEN v ELSE RunLife(q)

ToolsSame ==
  \A t \in Tool : ToolStage(t)' = ToolStage(t) /\ tool'[t].outcome = tool[t].outcome
ModelsSame ==
  \A m \in Model : ModelStage(m)' = ModelStage(m) /\ reply'[m] = reply[m]

\* One tool operation, or one attempt, gets the stage v and the answer a.
ToolBecomes(t, v, a) ==
  \A u \in Tool : /\ ToolStage(u)' = IF u = t THEN v ELSE ToolStage(u)
                  /\ tool'[u].outcome = IF u = t THEN a ELSE tool[u].outcome
ModelBecomes(m, v, a) ==
  \A n \in Model : /\ ModelStage(n)' = IF n = m THEN v ELSE ModelStage(n)
                   /\ reply'[n] = IF n = m THEN a ELSE reply[n]

LEMMA Disjoint == \A m \in Model : m \notin Tool
BY KernelAssumption

LEMMA StutterStep ==
  ASSUME LifeSame, ToolsSame, ModelsSame
  PROVE  UNCHANGED Effects!vars
BY Disjoint DEF LifeSame, ToolsSame, ModelsSame, Effects!vars

LEMMA OpenRunStep ==
  ASSUME NEW r \in Run, RunLife(r) = "fresh", LifeBecomes(r, "open"),
         ToolsSame, ModelsSame
  PROVE  Effects!OpenRun(r)
BY Disjoint DEF LifeBecomes, ToolsSame, ModelsSame, Effects!OpenRun

LEMMA CloseRunStep ==
  ASSUME NEW r \in Run, RunLife(r) = "open", LifeBecomes(r, "closed"),
         \A t \in Tool : RunOf[t] = r => ToolStage(t) # "dispatched",
         ToolsSame, ModelsSame
  PROVE  Effects!CloseRun(r)
BY Disjoint DEF LifeBecomes, ToolsSame, ModelsSame, Effects!CloseRun

LEMMA DispatchToolStep ==
  ASSUME NEW t \in Tool, RunLife(RunOf[t]) = "open", ToolStage(t) = "idle",
         ToolBecomes(t, "dispatched", tool[t].outcome), LifeSame, ModelsSame
  PROVE  Effects!Dispatch(t)
BY Disjoint, OwnRun DEF LifeSame, ToolBecomes, ModelsSame, Effects!Dispatch

LEMMA DispatchModelStep ==
  ASSUME NEW m \in Model, RunLife(RunOf[m]) = "open", ModelStage(m) = "idle",
         ModelBecomes(m, "dispatched", reply[m]), LifeSame, ToolsSame
  PROVE  Effects!Dispatch(m)
BY Disjoint, OwnRun DEF LifeSame, ModelBecomes, ToolsSame, Effects!Dispatch

LEMMA SettleToolStep ==
  ASSUME NEW t \in Tool, NEW a \in Result, RunLife(RunOf[t]) = "open",
         ToolStage(t) = "dispatched", ToolBecomes(t, "settled", a),
         LifeSame, ModelsSame
  PROVE  Effects!Settle(t, a)
BY Disjoint, OwnRun DEF LifeSame, ToolBecomes, ModelsSame, Effects!Settle

LEMMA SettleModelStep ==
  ASSUME NEW m \in Model, NEW a \in Result, ModelStage(m) = "dispatched",
         ModelBecomes(m, "settled", a), LifeSame, ToolsSame
  PROVE  Effects!Settle(m, a)
BY Disjoint, OwnRun DEF LifeSame, ModelBecomes, ToolsSame, Effects!Settle

-----------------------------------------------------------------------------
(* The steps of the kernel, by what they are in the abstract ledger.       *)

\* The rows the handlers write are rows of open runs.
LEMMA LiveRows ==
  ASSUME NEW row \in RowType, NEW p \in Phase,
         NEW m \in Model \cup {None}, NEW u \in SUBSET Tool
  PROVE  /\ [row EXCEPT !.phase = p].phase # "none"
         /\ [row EXCEPT !.phase = p, !.model = m].phase # "none"
         /\ [row EXCEPT !.phase = p, !.unsettled = u].phase # "none"
<1>1. p # "none"
  BY DEF Phase
<1> QED
  BY <1>1 DEF RowType

\* A run that has a row keeps its life while its row stays.
LEMMA LifeFrame ==
  ASSUME IInv, NEW r \in Run, NEW row \in RowType, Open(r), row.phase # "none",
         SetRun(r, row), events \subseteq events',
         \A q \in Run : <<"accepted", q>> \in events' => <<"accepted", q>> \in events
  PROVE  LifeSame
BY DEF LifeSame, RunLife, Open, SetRun, IInv, TypeOK, RowType

\* A step that keeps every run's row keeps every life.
LEMMA RowsFrame ==
  ASSUME run' = run, events \subseteq events',
         \A q \in Run : <<"accepted", q>> \in events' => <<"accepted", q>> \in events
  PROVE  LifeSame
BY DEF LifeSame, RunLife, Open

LEMMA ToolsFrame ==
  ASSUME tool' = tool
  PROVE  ToolsSame
BY DEF ToolsSame, ToolStage, Pending

LEMMA ModelsFrame ==
  ASSUME reply' = reply, events \subseteq events',
         \A m \in Model : /\ <<"model-dispatch", m>> \in events'
                               => <<"model-dispatch", m>> \in events
                          /\ <<"model-outcome", m>> \in events'
                               => <<"model-outcome", m>> \in events
  PROVE  ModelsSame
BY DEF ModelsSame, ModelStage

\* Events that neither accept a run nor belong to an attempt's exchange.
LEMMA OtherEvents ==
  ASSUME NEW new, AppendEvents(new), reply' = reply,
         \A q \in Run : <<"accepted", q>> \notin new,
         \A m \in Model : <<"model-dispatch", m>> \notin new,
         \A m \in Model : <<"model-outcome", m>> \notin new
  PROVE  /\ ModelsSame /\ events \subseteq events'
         /\ \A q \in Run :
              <<"accepted", q>> \in events' => <<"accepted", q>> \in events
<1>1. /\ events \subseteq events'
      /\ \A q \in Run : <<"accepted", q>> \in events' => <<"accepted", q>> \in events
      /\ \A m \in Model : /\ <<"model-dispatch", m>> \in events'
                               => <<"model-dispatch", m>> \in events
                          /\ <<"model-outcome", m>> \in events'
                               => <<"model-outcome", m>> \in events
  BY DEF AppendEvents
<1> QED
  BY <1>1, ModelsFrame

LEMMA AcceptRunRefines ==
  ASSUME IInv, NEW r \in Run, AcceptRun(r)
  PROVE  Effects!OpenRun(r)
<1>1. RunLife(r) = "fresh"
  BY DEF AcceptRun, AppendEvents, RunLife
<1>2. LifeBecomes(r, "open")
  BY DEF AcceptRun, AppendEvents, SetRun, NewRow, LifeBecomes, RunLife, Open,
    IInv, TypeOK
<1>3. ToolsSame
  BY ToolsFrame DEF AcceptRun
<1>4. ModelsSame
  <2>1. /\ events \subseteq events'
        /\ \A m \in Model : /\ <<"model-dispatch", m>> \in events'
                                 => <<"model-dispatch", m>> \in events
                            /\ <<"model-outcome", m>> \in events'
                                 => <<"model-outcome", m>> \in events
    BY DEF AcceptRun, AppendEvents
  <2> QED
    BY <2>1, ModelsFrame DEF AcceptRun
<1> QED
  BY <1>1, <1>2, <1>3, <1>4, OpenRunStep

\* Whatever removes the row of a run without unsettled tools closes it.
LEMMA CloseRefines ==
  ASSUME IInv, NEW r \in Run, Open(r), Unsettled(r) = {}, SetRun(r, NoRow),
         NEW new, AppendEvents(new), UNCHANGED <<tool, reply>>,
         \A q \in Run : <<"accepted", q>> \notin new,
         \A m \in Model : <<"model-dispatch", m>> \notin new,
         \A m \in Model : <<"model-outcome", m>> \notin new
  PROVE  Effects!CloseRun(r)
<1>1. /\ ModelsSame /\ events \subseteq events'
      /\ \A q \in Run : <<"accepted", q>> \in events' => <<"accepted", q>> \in events
  BY OtherEvents
<1>2. RunLife(r) = "open"
  BY DEF RunLife
<1>3. LifeBecomes(r, "closed")
  BY <1>1 DEF SetRun, NoRow, LifeBecomes, RunLife, Open, IInv, TypeOK, LedgerInv,
    RunHistory
<1>4. \A t \in Tool : RunOf[t] = r => ToolStage(t) # "dispatched"
  BY DEF Unsettled, ToolStage
<1>5. ToolsSame
  BY ToolsFrame
<1> QED
  BY <1>1, <1>2, <1>3, <1>4, <1>5, CloseRunStep

\* Whatever keeps the run's row and every exchange is a stutter.
LEMMA KeepRefines ==
  ASSUME IInv, NEW r \in Run, Open(r), NEW row \in RowType, row.phase # "none",
         SetRun(r, row), NEW new, AppendEvents(new), UNCHANGED <<tool, reply>>,
         \A q \in Run : <<"accepted", q>> \notin new,
         \A m \in Model : <<"model-dispatch", m>> \notin new,
         \A m \in Model : <<"model-outcome", m>> \notin new
  PROVE  UNCHANGED Effects!vars
<1>1. /\ ModelsSame /\ events \subseteq events'
      /\ \A q \in Run : <<"accepted", q>> \in events' => <<"accepted", q>> \in events
  BY OtherEvents
<1>2. LifeSame
  BY <1>1, LifeFrame
<1>3. ToolsSame
  BY ToolsFrame
<1> QED
  BY <1>1, <1>2, <1>3, StutterStep

LEMMA LedgerSameRefines ==
  ASSUME UNCHANGED ledger
  PROVE  UNCHANGED Effects!vars
<1>1. run' = run /\ tool' = tool /\ reply' = reply /\ events' = events
  BY DEF ledger
<1> QED
  BY <1>1, RowsFrame, ToolsFrame, ModelsFrame, StutterStep

LEMMA ParkOnModelStutters ==
  ASSUME IInv, NEW r \in Run, ParkOnModel(r)
  PROVE  UNCHANGED Effects!vars
<1> DEFINE row == [run[r] EXCEPT !.phase = "recovery_parked"]
<1>1. row \in RowType /\ row.phase # "none"
  <2>1. run[r] \in RowType /\ "recovery_parked" \in Phase
    BY DEF IInv, TypeOK, Phase
  <2> QED
    BY <2>1, RowUpdates, LiveRows
<1> HIDE DEF row
<1>2. /\ Open(r) /\ SetRun(r, row) /\ UNCHANGED <<tool, reply>>
      /\ AppendEvents({<<"model-recovery-parked", run[r].model>>})
  BY DEF ParkOnModel, Completable, row
<1> QED
  BY <1>1, <1>2, KeepRefines

LEMMA PrepareToolRefines ==
  ASSUME IInv, NEW t \in Tool, NEW a \in Action, PrepareTool(t, a)
  PROVE  Effects!Dispatch(t)
<1>1. Open(RunOf[t]) /\ RunLife(RunOf[t]) = "open" /\ ToolStage(t) = "idle"
  BY DEF PrepareTool, RunLife, ToolStage, Pending
<1>2. ToolBecomes(t, "dispatched", tool[t].outcome)
  <2>1. tool[t] = NoTool
    BY DEF PrepareTool, IInv, LedgerInv, ToolEffects
  <2> QED
    BY <2>1 DEF PrepareTool, NoTool, ToolBecomes, ToolStage, Pending, IInv, TypeOK
<1>3. /\ ModelsSame /\ events \subseteq events'
      /\ \A q \in Run : <<"accepted", q>> \in events' => <<"accepted", q>> \in events
  BY OtherEvents DEF PrepareTool
<1>4. LifeSame
  BY <1>1, <1>3, OwnRun DEF PrepareTool, SetRun, LifeSame, RunLife, Open, IInv,
    TypeOK, RowType
<1> QED
  BY <1>1, <1>2, <1>3, <1>4, DispatchToolStep

LEMMA CommitToolOutcomeRefines ==
  ASSUME IInv, NEW t \in Tool, NEW res \in Result, CommitToolOutcome(t, res)
  PROVE  Effects!Settle(t, res)
<1>1. RunLife(RunOf[t]) = "open" /\ ToolStage(t) = "dispatched"
  BY DEF CommitToolOutcome, RunLife, ToolStage
<1>2. ToolBecomes(t, "settled", res)
  BY DEF CommitToolOutcome, ToolBecomes, ToolStage, Pending, IInv, TypeOK, ToolType
<1>3. /\ ModelsSame /\ events \subseteq events'
      /\ \A q \in Run : <<"accepted", q>> \in events' => <<"accepted", q>> \in events
  BY OtherEvents DEF CommitToolOutcome
<1>4. LifeSame
  BY <1>3, OwnRun DEF CommitToolOutcome, SetRun, LifeSame, RunLife, Open, IInv,
    TypeOK, RowType
<1> QED
  BY <1>1, <1>2, <1>3, <1>4, SettleToolStep

LEMMA ReconcileRefines ==
  ASSUME IInv, NEW t \in Tool, NEW res \in Result, Reconcile(t, res)
  PROVE  Effects!Settle(t, res)
<1>1. RunLife(RunOf[t]) = "open" /\ ToolStage(t) = "dispatched"
  BY DEF Reconcile, Reconcilable, RunLife, ToolStage
<1>2. ToolBecomes(t, "settled", res)
  BY DEF Reconcile, Reconcilable, ToolBecomes, ToolStage, Pending, IInv, TypeOK,
    ToolType
<1>3. /\ ModelsSame /\ events \subseteq events'
      /\ \A q \in Run : <<"accepted", q>> \in events' => <<"accepted", q>> \in events
  BY OtherEvents DEF Reconcile
<1>4. LifeSame
  BY <1>3, OwnRun DEF Reconcile, Reconcilable, SetRun, LifeSame, RunLife, Open,
    IInv, TypeOK, RowType
<1> QED
  BY <1>1, <1>2, <1>3, <1>4, SettleToolStep

LEMMA DispatchRefines ==
  ASSUME IInv, NEW m \in Model, PrepareModel(m) \/ PrepareAuxiliary(m)
  PROVE  Effects!Dispatch(m)
<1>1. RunLife(RunOf[m]) = "open" /\ ModelStage(m) = "idle"
  BY DEF PrepareModel, PrepareAuxiliary, AppendEvents, RunLife, ModelStage
<1>2. ModelBecomes(m, "dispatched", reply[m])
  BY DEF PrepareModel, PrepareAuxiliary, AppendEvents, ModelBecomes, ModelStage
<1>3. LifeSame
  <2>1. \A q \in Run : <<"accepted", q>> \in events' <=> <<"accepted", q>> \in events
    BY DEF PrepareModel, PrepareAuxiliary, AppendEvents
  <2>2. CASE PrepareModel(m)
    BY <2>1, <2>2, OwnRun DEF PrepareModel, SetRun, LifeSame, RunLife, Open, IInv,
      TypeOK, RowType
  <2>3. CASE PrepareAuxiliary(m)
    BY <2>1, <2>3 DEF PrepareAuxiliary, LifeSame, RunLife, Open
  <2> QED
    BY <2>2, <2>3
<1>4. ToolsSame
  BY ToolsFrame DEF PrepareModel, PrepareAuxiliary
<1> QED
  BY <1>1, <1>2, <1>3, <1>4, DispatchModelStep

LEMMA CommitModelOutcomeRefines ==
  ASSUME IInv, NEW m \in Model, NEW res \in Result, CommitModelOutcome(m, res)
  PROVE  Effects!Settle(m, res)
<1>1. ModelStage(m) = "dispatched"
  BY DEF CommitModelOutcome, AppendEvents, ModelStage
<1>2. ModelBecomes(m, "settled", res)
  BY DEF CommitModelOutcome, AppendEvents, ModelBecomes, ModelStage, IInv, TypeOK
<1>3. LifeSame
  <2>1. \A q \in Run : <<"accepted", q>> \in events' <=> <<"accepted", q>> \in events
    BY DEF CommitModelOutcome, AppendEvents
  <2>2. \A q \in Run : Open(q)' <=> Open(q)
    <3>1. CASE OwnsCheckpoint(m)
      <4>1. Open(RunOf[m])
        BY <3>1, OwnRun, KernelAssumption DEF OwnsCheckpoint, IInv, LedgerInv,
          ModelEffects, CurrentModel
      <4>2. SetRun(RunOf[m],
                   [run[RunOf[m]] EXCEPT !.phase = "checkpoint", !.model = None])
        BY <3>1 DEF CommitModelOutcome
      <4> QED
        BY <4>1, <4>2, OwnRun DEF SetRun, Open, IInv, TypeOK, RowType
    <3>2. CASE ~OwnsCheckpoint(m)
      BY <3>2 DEF CommitModelOutcome, Open
    <3> QED
      BY <3>1, <3>2
  <2> QED
    BY <2>1, <2>2 DEF LifeSame, RunLife
<1>4. ToolsSame
  BY ToolsFrame DEF CommitModelOutcome
<1> QED
  BY <1>1, <1>2, <1>3, <1>4, SettleModelStep


-----------------------------------------------------------------------------
LEMMA RefinesInit == Init => Effects!Init
<1> SUFFICES ASSUME Init PROVE Effects!Init
  OBVIOUS
<1>1. \A r \in Run : RunLife(r) = "fresh"
  BY DEF Init, NoRow, RunLife, Open
<1>2. \A t \in Tool : ToolStage(t) = "idle" /\ tool[t].outcome = None
  BY DEF Init, NoTool, ToolStage, Pending
<1>3. \A m \in Model : ModelStage(m) = "idle" /\ reply[m] = None
  BY DEF Init, ModelStage
<1> QED
  BY <1>1, <1>2, <1>3, Disjoint DEF Effects!Init

LEMMA RunStepRefines ==
  ASSUME IInv, RunStep
  PROVE  Effects!Next \/ UNCHANGED Effects!vars
<1> PICK r \in Run : \/ AcceptRun(r) \/ CommitRunFact(r)
                     \/ CompleteRun(r) \/ RecoverInterruptedModel(r)
  BY DEF RunStep
<1>1. CASE AcceptRun(r)
  BY <1>1, AcceptRunRefines DEF Effects!Next
<1>2. CASE CommitRunFact(r)
  <2>1. /\ run' = run /\ tool' = tool /\ reply' = reply /\ events \subseteq events'
        /\ \A q \in Run : <<"accepted", q>> \in events' => <<"accepted", q>> \in events
        /\ \A m \in Model : /\ <<"model-dispatch", m>> \in events'
                                 => <<"model-dispatch", m>> \in events
                            /\ <<"model-outcome", m>> \in events'
                                 => <<"model-outcome", m>> \in events
    BY <1>2 DEF CommitRunFact
  <2> QED
    BY <2>1, RowsFrame, ToolsFrame, ModelsFrame, StutterStep
<1>3. CASE ParkOnTools(r)
  <2> DEFINE row == [phase |-> "recovery_parked", model |-> None,
                     unsettled |-> Unsettled(r), visible |-> "absent"]
  <2>1. row \in RowType /\ row.phase # "none"
    BY DEF RowType, Phase, Unsettled
  <2> HIDE DEF row
  <2>2. /\ Open(r) /\ SetRun(r, row) /\ UNCHANGED <<tool, reply>>
        /\ AppendEvents({<<"recovery-parked", r>>})
    BY <1>3 DEF ParkOnTools, Completable, row
  <2> QED
    BY <2>1, <2>2, KeepRefines
<1>4. CASE ParkOnModel(r)
  BY <1>4, ParkOnModelStutters
<1>5. CASE Terminate(r)
  <2>1. /\ Open(r) /\ Unsettled(r) = {} /\ SetRun(r, NoRow)
        /\ AppendEvents({<<"terminal", r>>}) /\ UNCHANGED <<tool, reply>>
    BY <1>5 DEF Terminate, Completable
  <2> QED
    BY <2>1, CloseRefines DEF Effects!Next
<1>6. CASE RecoverInterruptedModel(r)
  <2>1. /\ Open(r) /\ Unsettled(r) = {} /\ SetRun(r, NoRow)
        /\ AppendEvents({<<"model-reconciliation", run[r].model>>,
                         <<"terminal", r>>})
        /\ UNCHANGED <<tool, reply>>
    BY <1>6 DEF RecoverInterruptedModel, Open
  <2> QED
    BY <2>1, CloseRefines DEF Effects!Next
<1> QED
  BY <1>1, <1>2, <1>3, <1>4, <1>5, <1>6 DEF CompleteRun

LEMMA ModelStepRefines ==
  ASSUME IInv, ModelStep
  PROVE  Effects!Next \/ UNCHANGED Effects!vars
<1> PICK m \in Model : \/ PrepareModel(m) \/ PrepareAuxiliary(m) \/ ReconcileModel(m)
                       \/ \E res \in Result : CommitModelOutcome(m, res)
  BY DEF ModelStep
<1>1. CASE PrepareModel(m) \/ PrepareAuxiliary(m)
  BY <1>1, DispatchRefines DEF Effects!Next
<1>2. CASE ReconcileModel(m)
  <2> DEFINE row == [run[RunOf[m]] EXCEPT !.phase = "checkpoint", !.model = None]
  <2>1. row \in RowType /\ row.phase # "none"
    <3>1. run[RunOf[m]] \in RowType /\ "checkpoint" \in Phase
      BY OwnRun DEF IInv, TypeOK, Phase
    <3> QED
      BY <3>1, RowUpdates, LiveRows
  <2> HIDE DEF row
  <2>2. /\ Open(RunOf[m]) /\ SetRun(RunOf[m], row) /\ UNCHANGED <<tool, reply>>
        /\ AppendEvents({<<"model-reconciliation", m>>})
    BY <1>2 DEF ReconcileModel, Open, row
  <2> QED
    BY <2>1, <2>2, OwnRun, KeepRefines
<1>3. CASE \E res \in Result : CommitModelOutcome(m, res)
  BY <1>3, CommitModelOutcomeRefines DEF Effects!Next
<1> QED
  BY <1>1, <1>2, <1>3

LEMMA ToolStepRefines ==
  ASSUME IInv, ToolStep
  PROVE  Effects!Next \/ UNCHANGED Effects!vars
<1> PICK t \in Tool : \/ \E a \in Action : PrepareTool(t, a)
                      \/ QueryExternal(t)
                      \/ \E res \in Result : \/ CommitToolOutcome(t, res)
                                             \/ ReconcileTool(t, res)
                                             \/ QueryAnswered(t, res)
  BY DEF ToolStep
<1>1. CASE \E a \in Action : PrepareTool(t, a)
  BY <1>1, PrepareToolRefines DEF Effects!Next
<1>2. CASE QueryExternal(t)
  BY <1>2, LedgerSameRefines DEF QueryExternal
<1>3. CASE \E res \in Result : CommitToolOutcome(t, res)
  BY <1>3, CommitToolOutcomeRefines DEF Effects!Next
<1>4. CASE \E res \in Result : Reconcile(t, res)
  BY <1>4, ReconcileRefines DEF Effects!Next
<1>5. CASE \E res \in Result : ReconcileTool(t, res) \/ QueryAnswered(t, res)
  <2>1. CASE UNCHANGED ledger
    BY <2>1, LedgerSameRefines
  <2> QED
    BY <1>4, <1>5, <2>1 DEF ReconcileTool, QueryAnswered
<1> QED
  BY <1>1, <1>2, <1>3, <1>5

LEMMA RecoverStepRefines ==
  ASSUME IInv, RecoverStep
  PROVE  Effects!Next \/ UNCHANGED Effects!vars
<1>1. ASSUME NEW r \in Run, Recovering(r)
      PROVE  Open(r)
  BY <1>1 DEF Recovering, IInv, LedgerInv, RunHistory
<1>2. ASSUME NEW r \in Run, RecoverParked(r) \/ RecoverAborts(r)
      PROVE  UNCHANGED Effects!vars
  <2>1. UNCHANGED ledger
    BY <1>2 DEF RecoverParked, Reduced, RecoverAborts, ledger
  <2> QED
    BY <2>1, LedgerSameRefines
<1>3. ASSUME NEW r \in Run, RecoverModel(r)
      PROVE  UNCHANGED Effects!vars
  <2> DEFINE row == [run[r] EXCEPT !.phase = "recovery_parked"]
  <2>1. row \in RowType /\ row.phase # "none"
    <3>1. run[r] \in RowType /\ "recovery_parked" \in Phase
      BY DEF IInv, TypeOK, Phase
    <3> QED
      BY <3>1, RowUpdates, LiveRows
  <2> HIDE DEF row
  <2>2. /\ Open(r) /\ SetRun(r, row) /\ UNCHANGED <<tool, reply>>
        /\ AppendEvents({<<"model-restart-recovery", run[r].model>>})
    BY <1>1, <1>3 DEF RecoverModel, Reduced, row
  <2> QED
    BY <2>1, <2>2, KeepRefines
<1>4. ASSUME NEW r \in Run, RecoverTools(r)
      PROVE  UNCHANGED Effects!vars
  <2> DEFINE row == [run[r] EXCEPT !.phase = "recovery_parked",
                                   !.unsettled = Unsettled(r)]
  <2>1. row \in RowType /\ row.phase # "none"
    <3>1. run[r] \in RowType /\ "recovery_parked" \in Phase /\ Unsettled(r) \in SUBSET Tool
      BY DEF IInv, TypeOK, Phase, Unsettled
    <3> QED
      BY <3>1, RowUpdates, LiveRows
  <2> HIDE DEF row
  <2>2. /\ Open(r) /\ SetRun(r, row) /\ UNCHANGED <<tool, reply>>
        /\ AppendEvents({<<"restart-recovery", r>>})
    BY <1>1, <1>4 DEF RecoverTools, Reduced, row
  <2> QED
    BY <2>1, <2>2, KeepRefines
<1>5. ASSUME NEW r \in Run, RecoverInterrupted(r)
      PROVE  Effects!CloseRun(r)
  <2>1. /\ Open(r) /\ Unsettled(r) = {} /\ SetRun(r, NoRow)
        /\ AppendEvents({<<"restart-terminal", r>>}) /\ UNCHANGED <<tool, reply>>
    BY <1>1, <1>5 DEF RecoverInterrupted, Reduced
  <2> QED
    BY <2>1, CloseRefines
<1>6. CASE RecoverDone
  BY <1>6, LedgerSameRefines DEF RecoverDone
<1> QED
  BY <1>2, <1>3, <1>4, <1>5, <1>6 DEF RecoverStep, Effects!Next

LEMMA RefinesStep == IInv /\ [Next]_vars => [Effects!Next]_(Effects!vars)
<1> SUFFICES ASSUME IInv, [Next]_vars
             PROVE  Effects!Next \/ UNCHANGED Effects!vars
  OBVIOUS
<1>1. CASE UNCHANGED vars \/ Restart
  <2>1. UNCHANGED ledger
    BY <1>1 DEF vars, Restart, ledger
  <2> QED
    BY <2>1, LedgerSameRefines
<1> QED
  BY <1>1, RunStepRefines, ModelStepRefines, ToolStepRefines, RecoverStepRefines
     DEF Next

(* Whatever is late, repeated or restarted, the kernel opens and closes    *)
(* each run once, dispatches each effect once, answers it at most once and *)
(* closes a run only when each of its tool effects has an answer.          *)
THEOREM KernelRefinesEffectLedger == Spec => ImplementsEffectLedger
<1> QED
  BY RefinesInit, RefinesStep, InvariantHolds, PTL
     DEF Spec, ImplementsEffectLedger, Effects!Spec
=============================================================================
