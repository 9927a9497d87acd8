--------------------------- MODULE DurableKernel ---------------------------
(***************************************************************************)
(* The handlers of the durable runtime kernel                              *)
(* (durable-runtime/coordinator.ts) over the ledger of DurableLedger.      *)
(* Every handler runs to completion without an await and every commit is   *)
(* one SQLite transaction, so a handler is one action; a handler that      *)
(* throws leaves the ledger as it was and is a disabled action.  The       *)
(* restart pass commits one transaction per run and a crash may fall       *)
(* between two of them, so it is one action per run.                       *)
(*                                                                         *)
(* Callers are not modelled here: agents, retained receipts, users and     *)
(* other sessions may call any handler at any time, in any order.          *)
(***************************************************************************)
EXTENDS DurableLedger

-----------------------------------------------------------------------------
(* Seeded faults: for each property below, a plausible mistake in the code *)
(* that the property must catch.  None of them is part of the              *)
(* specification.                                                          *)

\* acceptRun enters a phase that types.ts declares and the kernel never uses.
AcceptRunPlanned(r) ==
  /\ host = "up" /\ ~Open(r)
  /\ AppendEvents({<<"accepted", r>>, <<"user", r>>})
  /\ SetRun(r, [NewRow(r) EXCEPT !.phase = "tool_planned"])
  /\ UNCHANGED <<tool, reply, shown, queried, todo, host>>

\* The run's modelVisible marker is not consulted.
MayShowAny(m) == m \notin Auxiliary

\* The legacy single currentTool slot: the parent forgets parallel calls.
PrepareToolSingleSlot(t, a) ==
  LET r == RunOf[t] IN
  /\ host = "up" /\ Open(r)
  /\ tool[t].status = "none"
  /\ a \notin Safe => Unresolved(t, a) = {}
  /\ AppendEvents({<<"call", t>>, <<"dispatch", t>>})
  /\ tool' = [tool EXCEPT ![t] =
                [status |-> "effect_pending", action |-> a, outcome |-> None]]
  /\ SetRun(r, [run[r] EXCEPT !.phase = "tool_effect_pending",
                              !.unsettled = {t}])
  /\ UNCHANGED <<reply, shown, queried, todo, host>>

\* The duplicate guard looks at the caller's run only.
PrepareToolOwnRunOnly(t, a) ==
  LET r == RunOf[t] IN
  /\ host = "up" /\ Open(r)
  /\ tool[t].status = "none"
  /\ a \notin Safe => ~\E u \in Unsettled(r) \ {t} : tool[u].action = a
  /\ AppendEvents({<<"call", t>>, <<"dispatch", t>>})
  /\ tool' = [tool EXCEPT ![t] =
                [status |-> "effect_pending", action |-> a, outcome |-> None]]
  /\ SetRun(r, [run[r] EXCEPT !.phase = "tool_effect_pending",
                              !.unsettled = Unsettled(r) \cup {t}])
  /\ UNCHANGED <<reply, shown, queried, todo, host>>

\* The verdict read before the external query is trusted after it.
ReconcileStale(t, res) ==
  LET r == RunOf[t]
      rest == Unsettled(r) \ {t}
  IN
  /\ tool[t].status # "none" /\ Open(r)
  /\ AppendEvents({<<"reconciliation", t>>, <<"reconciled-outcome", t>>})
  /\ tool' = [tool EXCEPT ![t].status = "reconciled", ![t].outcome = res]
  /\ SetRun(r, [run[r] EXCEPT
                  !.phase = IF rest = {} THEN "checkpoint"
                            ELSE "recovery_parked",
                  !.unsettled = rest])
  /\ UNCHANGED <<reply, shown, todo, host>>

\* A reconciliation never gives the run back.
ReconcileStaysParked(t, res) ==
  LET r == RunOf[t]
      rest == Unsettled(r) \ {t}
  IN
  /\ Reconcilable(t)
  /\ AppendEvents({<<"reconciliation", t>>, <<"reconciled-outcome", t>>})
  /\ tool' = [tool EXCEPT ![t].status = "reconciled", ![t].outcome = res]
  /\ SetRun(r, [run[r] EXCEPT !.phase = "recovery_parked", !.unsettled = rest])
  /\ UNCHANGED <<reply, shown, todo, host>>

\* completeRun trusts the phase instead of the tool table.
TerminateByPhase(r) ==
  /\ host = "up" /\ Open(r)
  /\ run[r].phase \notin {"recovery_parked", "tool_effect_pending"}
  /\ ~AwaitsModel(r)
  /\ AppendEvents({<<"terminal", r>>})
  /\ SetRun(r, NoRow)
  /\ UNCHANGED <<tool, reply, shown, queried, todo, host>>

-----------------------------------------------------------------------------
Init ==
  /\ run = [r \in Run |-> NoRow]
  /\ tool = [t \in Tool |-> NoTool]
  /\ reply = [m \in Model |-> None]
  /\ shown = {} /\ events = {} /\ queried = {} /\ todo = {}
  /\ host = "up"

(* acceptRun: a run that has a row is returned unchanged.                  *)
AcceptRun(r) ==
  /\ host = "up" /\ ~Open(r)
  /\ AppendEvents({<<"accepted", r>>, <<"user", r>>})
  /\ SetRun(r, NewRow(r))
  /\ UNCHANGED <<tool, reply, shown, queried, todo, host>>

(* commitAdditionalUserMessage, commitAssistantMessage, recordSdkObservation:*)
(* facts that need the run's row and leave its state alone.                *)
CommitRunFact(r) ==
  /\ host = "up" /\ Open(r)
  /\ events' = events \cup {<<"fact", r>>}
  /\ UNCHANGED <<run, tool, reply, shown, queried, todo, host>>

(* prepareModel without a purpose: T1 of a provider request.               *)
PrepareModel(m) ==
  LET r == RunOf[m] IN
  /\ host = "up" /\ m \notin Auxiliary /\ Open(r)
  /\ <<"model-outcome", m>> \notin events
  /\ run[r].phase # "model_effect_pending"
  /\ AppendEvents({<<"model-dispatch", m>>})
  /\ SetRun(r, [run[r] EXCEPT !.phase = "model_effect_pending", !.model = m])
  /\ UNCHANGED <<tool, reply, shown, queried, todo, host>>

(* prepareModel with a purpose: evidence only, the run's state is kept.    *)
PrepareAuxiliary(m) ==
  /\ host = "up" /\ m \in Auxiliary
  /\ Open(RunOf[m]) /\ run[RunOf[m]].phase # "recovery_parked"
  /\ <<"model-outcome", m>> \notin events
  /\ AppendEvents({<<"model-dispatch", m>>})
  /\ UNCHANGED <<run, tool, reply, shown, queried, todo, host>>

(* commitModelOutcome: T2 of a provider request, its run open or gone.     *)
OwnsCheckpoint(m) == m \notin Auxiliary /\ run[RunOf[m]].model = m

MayShow(m) == m \notin Auxiliary /\ run[RunOf[m]].visible # "false"

CommitModelOutcome(m, res) ==
  LET r == RunOf[m] IN
  /\ host = "up"
  /\ <<"model-dispatch", m>> \in events
  /\ AppendEvents({<<"model-outcome", m>>})
  /\ reply' = [reply EXCEPT ![m] = res]
  /\ \/ shown' = shown                       \* no text, or a stale context
     \/ MayShow(m) /\ shown' = shown \cup {m}
  /\ IF OwnsCheckpoint(m)
       THEN SetRun(r, [run[r] EXCEPT !.phase = "checkpoint", !.model = None])
       ELSE run' = run
  /\ UNCHANGED <<tool, queried, todo, host>>

(* prepareTool: T1 of a tool effect.  A known operation is never created   *)
(* again, whatever its arguments are.                                      *)
PrepareTool(t, a) ==
  LET r == RunOf[t] IN
  /\ host = "up" /\ Open(r)
  /\ tool[t].status = "none"
  /\ a \notin Safe => Unresolved(t, a) = {}
  /\ AppendEvents({<<"call", t>>, <<"dispatch", t>>})
  /\ tool' = [tool EXCEPT ![t] =
                [status |-> "effect_pending", action |-> a, outcome |-> None]]
  /\ SetRun(r, [run[r] EXCEPT !.phase = "tool_effect_pending",
                              !.unsettled = Unsettled(r) \cup {t}])
  /\ UNCHANGED <<reply, shown, queried, todo, host>>

(* commitToolOutcome: T2.  A repeated outcome changes nothing; one for a   *)
(* reconciled operation, or for a run without a row, throws.               *)
CommitToolOutcome(t, res) ==
  LET r == RunOf[t]
      rest == Unsettled(r) \ {t}
  IN
  /\ host = "up" /\ Pending(t) /\ Open(r)
  /\ AppendEvents({<<"outcome", t>>})
  /\ tool' = [tool EXCEPT ![t].status = "outcome_committed", ![t].outcome = res]
  /\ SetRun(r, [run[r] EXCEPT
                  !.phase = IF rest = {} THEN "checkpoint"
                            ELSE "tool_effect_pending",
                  !.unsettled = rest])
  /\ UNCHANGED <<reply, shown, queried, todo, host>>

(* reconcileTool: the durable decision about an unknown effect.            *)
Reconcile(t, res) ==
  LET r == RunOf[t]
      rest == Unsettled(r) \ {t}
  IN
  /\ Reconcilable(t)
  /\ AppendEvents({<<"reconciliation", t>>, <<"reconciled-outcome", t>>})
  /\ tool' = [tool EXCEPT ![t].status = "reconciled", ![t].outcome = res]
  /\ SetRun(r, [run[r] EXCEPT
                  !.phase = IF rest = {} THEN "checkpoint"
                            ELSE "recovery_parked",
                  !.unsettled = rest])
  /\ UNCHANGED <<reply, shown, todo, host>>

ReconcileTool(t, res) ==
  /\ host = "up"
  /\ Reconcile(t, res)
  /\ UNCHANGED queried

(* queryAndReconcileTool: the adapter is awaited between the two halves,   *)
(* and reconcileTool reads the ledger again.                               *)
QueryExternal(t) ==
  /\ host = "up" /\ Reconcilable(t) /\ t \notin queried
  /\ queried' = queried \cup {t}
  /\ UNCHANGED <<ledger, todo, host>>

QueryAnswered(t, res) ==
  /\ host = "up" /\ t \in queried
  /\ queried' = queried \ {t}
  /\ \/ Reconcile(t, res)
     \/ ~Reconcilable(t) /\ UNCHANGED <<ledger, todo, host>>

(* reconcileModel: the attempt of a parked run is given up.                *)
ReconcileModel(m) ==
  LET r == RunOf[m] IN
  /\ host = "up"
  /\ run[r].phase = "recovery_parked" /\ run[r].model = m
  /\ AppendEvents({<<"model-reconciliation", m>>})
  /\ SetRun(r, [run[r] EXCEPT !.phase = "checkpoint", !.model = None])
  /\ UNCHANGED <<tool, reply, shown, queried, todo, host>>

(* recoverInterruptedModel: reconcileModel, then completeRun.  The state a *)
(* crash leaves between the two is the one ReconcileModel leaves.          *)
RecoverInterruptedModel(r) ==
  /\ host = "up" /\ r \in AgentTurn
  /\ run[r].phase = "recovery_parked" /\ run[r].model # None
  /\ Unsettled(r) = {}
  /\ AppendEvents({<<"model-reconciliation", run[r].model>>, <<"terminal", r>>})
  /\ SetRun(r, NoRow)
  /\ UNCHANGED <<tool, reply, shown, queried, todo, host>>

-----------------------------------------------------------------------------
(* completeRun: one of three commits; a run that is parked or has no row   *)
(* is reported as it is.                                                   *)

Completable(r) == host = "up" /\ Open(r) /\ run[r].phase # "recovery_parked"

\* The parked row keeps nothing of the run's data but the unsettled ids.
ParkOnTools(r) ==
  /\ Completable(r) /\ Unsettled(r) # {}
  /\ AppendEvents({<<"recovery-parked", r>>})
  /\ SetRun(r, [phase |-> "recovery_parked", model |-> None,
                unsettled |-> Unsettled(r), visible |-> "absent"])
  /\ UNCHANGED <<tool, reply, shown, queried, todo, host>>

ParkOnModel(r) ==
  /\ Completable(r) /\ Unsettled(r) = {} /\ AwaitsModel(r)
  /\ AppendEvents({<<"model-recovery-parked", run[r].model>>})
  /\ SetRun(r, [run[r] EXCEPT !.phase = "recovery_parked"])
  /\ UNCHANGED <<tool, reply, shown, queried, todo, host>>

Terminate(r) ==
  /\ Completable(r) /\ Unsettled(r) = {} /\ ~AwaitsModel(r)
  /\ AppendEvents({<<"terminal", r>>})
  /\ SetRun(r, NoRow)
  /\ UNCHANGED <<tool, reply, shown, queried, todo, host>>

CompleteRun(r) == ParkOnTools(r) \/ ParkOnModel(r) \/ Terminate(r)

-----------------------------------------------------------------------------
(* A crash or a shutdown at any moment, then the restart pass of           *)
(* recoverWorkspace over the rows it listed; no other handler runs before  *)
(* the pass has returned.                                                  *)

Restart ==
  /\ host' = "recovering"
  /\ todo' = {r \in Run : Open(r)}
  /\ queried' = {}
  /\ UNCHANGED ledger

Recovering(r) == host = "recovering" /\ r \in todo

Reduced(r) ==
  /\ todo' = todo \ {r}
  /\ UNCHANGED <<tool, reply, shown, queried, host>>

RecoverParked(r) ==
  /\ Recovering(r) /\ run[r].phase = "recovery_parked"
  /\ Reduced(r) /\ UNCHANGED <<run, events>>

RecoverModel(r) ==
  /\ Recovering(r) /\ AwaitsModel(r)
  /\ AppendEvents({<<"model-restart-recovery", run[r].model>>})
  /\ SetRun(r, [run[r] EXCEPT !.phase = "recovery_parked"])
  /\ Reduced(r)

HasUnknownEffect(r) ==
  /\ Unsettled(r) # {}
  /\ run[r].phase # "recovery_parked" /\ ~AwaitsModel(r)

RecoverTools(r) ==
  /\ Recovering(r) /\ HasUnknownEffect(r)
  /\ AppendEvents({<<"restart-recovery", r>>})
  /\ SetRun(r, [run[r] EXCEPT !.phase = "recovery_parked",
                              !.unsettled = Unsettled(r)])
  /\ Reduced(r)

RecoverInterrupted(r) ==
  /\ Recovering(r)
  /\ Unsettled(r) = {} /\ run[r].phase # "recovery_parked" /\ ~AwaitsModel(r)
  /\ AppendEvents({<<"restart-terminal", r>>})
  /\ SetRun(r, NoRow)
  /\ Reduced(r)

(* An append of the pass throws: start() reports the error and opens the   *)
(* workspace with the remaining runs as they are.                          *)
RecoverAborts(r) ==
  /\ Recovering(r) /\ HasUnknownEffect(r)
  /\ <<"restart-recovery", r>> \in events
  /\ host' = "up" /\ todo' = {}
  /\ UNCHANGED <<ledger, queried>>

RecoverDone ==
  /\ host = "recovering" /\ todo = {}
  /\ host' = "up"
  /\ UNCHANGED <<ledger, queried, todo>>

RecoverStep ==
  \/ \E r \in Run :
       \/ RecoverParked(r) \/ RecoverModel(r) \/ RecoverTools(r)
       \/ RecoverInterrupted(r) \/ RecoverAborts(r)
  \/ RecoverDone

-----------------------------------------------------------------------------
RunStep ==
  \E r \in Run :
    \/ AcceptRun(r) \/ CommitRunFact(r)
    \/ CompleteRun(r) \/ RecoverInterruptedModel(r)

ModelStep ==
  \E m \in Model :
    \/ PrepareModel(m) \/ PrepareAuxiliary(m) \/ ReconcileModel(m)
    \/ \E res \in Result : CommitModelOutcome(m, res)

ToolStep ==
  \E t \in Tool :
    \/ \E a \in Action : PrepareTool(t, a)
    \/ QueryExternal(t)
    \/ \E res \in Result :
         \/ CommitToolOutcome(t, res) \/ ReconcileTool(t, res)
         \/ QueryAnswered(t, res)

Next == RunStep \/ ModelStep \/ ToolStep \/ Restart \/ RecoverStep

Spec == Init /\ [][Next]_vars

-----------------------------------------------------------------------------
(* Properties.                                                             *)

(* Types of the tables and of the process's own state.                     *)
TypeOK ==
  /\ run \in [Run -> RowType]
  /\ tool \in [Tool -> ToolType]
  /\ reply \in [Model -> Result \cup {None}]
  /\ shown \subseteq Model
  /\ events \subseteq EventId
  /\ queried \subseteq Tool
  /\ todo \subseteq Run
  /\ host \in {"up", "recovering"}

(* A tool effect whose outcome is unknown keeps its run: no settlement,    *)
(* restart or give-up of a model attempt removes the row that recovery     *)
(* needs to find and decide the effect.                                    *)
UnknownEffectKeepsRun == \A t \in Tool : Pending(t) => Open(RunOf[t])

(* The unsettled ids kept on the run's state are, at every moment and      *)
(* whichever handler wrote the row last, the ones of the authoritative     *)
(* tool_operations table.                                                  *)
AggregateMatches == \A r \in Run : run[r].unsettled = Unsettled(r)

(* A run that waits for a model attempt waits for one that was dispatched  *)
(* and has no committed outcome: an outcome never leaves its run waiting.  *)
AwaitedModelIsUnanswered ==
  \A r \in Run : run[r].phase = "model_effect_pending" =>
    /\ run[r].model # None /\ RunOf[run[r].model] = r
    /\ <<"model-dispatch", run[r].model>> \in events
    /\ <<"model-outcome", run[r].model>> \notin events

(* A parked run always has something left to decide, so a reconciliation   *)
(* or a late outcome can still move it: it is never stuck as unknown.      *)
ParkedIsDecidable ==
  \A r \in Run : run[r].phase = "recovery_parked" =>
    \/ Unsettled(r) # {}
    \/ /\ run[r].model # None
       /\ <<"model-outcome", run[r].model>> \notin events
       /\ <<"model-reconciliation", run[r].model>> \notin events

(* Parking is itself a durable decision: a parked run has the event of the *)
(* settlement or of the restart that parked it.                            *)
Recorded(r) ==
  \/ <<"recovery-parked", r>> \in events \/ <<"restart-recovery", r>> \in events
  \/ \E m \in Model : /\ RunOf[m] = r
                      /\ \/ <<"model-recovery-parked", m>> \in events
                         \/ <<"model-restart-recovery", m>> \in events
  \/ \E t \in Tool : RunOf[t] = r /\ <<"reconciliation", t>> \in events

ParkedIsRecorded ==
  \A r \in Run : run[r].phase = "recovery_parked" => Recorded(r)

(* Two tool operations of runs that recover from one another never carry   *)
(* the same unsafe action unsettled: an action with an unknown outcome is  *)
(* not repeated under a new identity.                                      *)
NoUnsafeTwins ==
  \A t, u \in Tool :
    /\ t # u /\ Pending(t) /\ Pending(u) /\ tool[t].action = tool[u].action
    /\ RunOf[t] \in Lineage[RunOf[u]] /\ RunOf[u] \in Lineage[RunOf[t]]
    => tool[t].action \in Safe

(* A run with a terminal event has exactly one and no row, and its history *)
(* only grows by outcomes of attempts it had dispatched.                   *)
TerminalEvents(r) == {<<"terminal", r>>, <<"restart-terminal", r>>} \cap events

EventsOf(r) ==
  (RunEvent \X {r}) \cup (ModelEvent \X {m \in Model : RunOf[m] = r})
                    \cup (ToolEvent \X {t \in Tool : RunOf[t] = r})

LateOutcomes(r) == {"model-outcome"} \X {m \in Model : RunOf[m] = r}

TerminalOnce ==
  \A r \in Run :
    /\ ~({<<"terminal", r>>, <<"restart-terminal", r>>} \subseteq events)
    /\ TerminalEvents(r) # {} => ~Open(r)

ClosedHistoryIsFinal ==
  [][\A r \in Run : TerminalEvents(r) # {} =>
        (events' \ events) \cap EventsOf(r) \subseteq LateOutcomes(r)]_vars

(* The reply of a hidden run reaches the model-visible history only when   *)
(* the run's row, or the data parking replaces, is gone: the marker is     *)
(* kept nowhere else.                                                      *)
HiddenReplyNeedsLostRow ==
  [][\A m \in shown' \ shown : RunOf[m] \in Hidden =>
        ~Open(RunOf[m]) \/ <<"recovery-parked", RunOf[m]>> \in events]_vars

(* The kernel implements EffectLedger: its effects are the tool operations *)
(* and the model attempts.                                                 *)
RunLife(r) ==
  IF Open(r) THEN "open"
  ELSE IF <<"accepted", r>> \in events THEN "closed" ELSE "fresh"

ToolStage(t) ==
  IF Pending(t) THEN "dispatched"
  ELSE IF tool[t].status = "none" THEN "idle" ELSE "settled"

ModelStage(m) ==
  IF <<"model-outcome", m>> \in events THEN "settled"
  ELSE IF <<"model-dispatch", m>> \in events THEN "dispatched" ELSE "idle"

Effects == INSTANCE EffectLedger WITH
  Effect <- Model \cup Tool,
  Bound  <- Tool,
  Owner  <- RunOf,
  Answer <- Result,
  life   <- [r \in Run |-> RunLife(r)],
  stage  <- [e \in Model \cup Tool |->
               IF e \in Tool THEN ToolStage(e) ELSE ModelStage(e)],
  answer <- [e \in Model \cup Tool |->
               IF e \in Tool THEN tool[e].outcome ELSE reply[e]]

ImplementsEffectLedger == Effects!Spec

-----------------------------------------------------------------------------
(* A statement of the design document that the code does not keep.         *)

(* durable-agent-runtime.md: startup terminalizes effect-free interrupted  *)
(* operations and parks unknown T1 tails.                                  *)
StartupReducesEveryRun ==
  [][host = "recovering" /\ host' = "up" =>
       \A r \in Run : run[r].phase \in {"none", "recovery_parked"}]_vars
=============================================================================
