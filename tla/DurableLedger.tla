--------------------------- MODULE DurableLedger ---------------------------
(***************************************************************************)
(* The durable ledger of one workspace, the tables of                      *)
(* durable-runtime/store.ts, with the reads and the append every handler   *)
(* of the coordinator is built from.  DurableKernel gives the handlers.    *)
(*                                                                         *)
(* Abstractions.  An operation id is a hash of the run and the provider's  *)
(* call id, so an effect belongs to one run for good (RunOf).  A tool name *)
(* with its canonical argument hash is one member of Action.  appendEvent  *)
(* accepts an event id twice only if the contents agree, createdAt         *)
(* included; two handler calls are assumed never to read the same          *)
(* millisecond, so an id that is present makes a new append throw.         *)
(* stateVersion is left out: a handler reads and writes a row without      *)
(* yielding, so its compare-and-swap never fails in one process.           *)
(***************************************************************************)
EXTENDS FiniteSets

CONSTANTS
  Run,        \* run operations: agent turns, task runs, utility runs
  Model,      \* model attempts
  Tool,       \* tool operations
  Action,     \* tool names paired with canonical argument hashes
  Result,     \* payloads of an outcome
  RunOf,      \* the run each attempt and each tool operation belongs to
  Lineage,    \* per run, the runs of its session and its recovery sessions
  Hidden,     \* runs accepted with modelVisible: false
  AgentTurn,  \* runs whose kind is agent_turn
  Auxiliary,  \* attempts sent with a purpose (cache warming, decisions)
  Safe,       \* actions whose recovery mode is safe_replay
  None        \* no attempt, no action, no result

ASSUME KernelAssumption ==
  /\ RunOf \in [Model \cup Tool -> Run]
  /\ Lineage \in [Run -> SUBSET Run]
  /\ \A r \in Run : r \in Lineage[r]
  /\ Hidden \subseteq Run /\ AgentTurn \subseteq Run
  /\ Auxiliary \subseteq Model /\ Safe \subseteq Action
  /\ Model \cap Tool = {}
  /\ None \notin Model \cup Action \cup Result

VARIABLES
  run,      \* rows of operations: phase and the data the handlers read
  tool,     \* rows of tool_operations: status, action and outcome
  reply,    \* payload of each attempt's outcome event
  shown,    \* attempts whose assistant message is model-visible
  events,   \* ids of the rows of runtime_events
  queried,  \* tools with an external query in flight (not durable)
  todo,     \* runs the restart pass has yet to reduce (not durable)
  host      \* whether the process is in its restart pass or serving

vars == <<run, tool, reply, shown, events, queried, todo, host>>
ledger == <<run, tool, reply, shown, events>>

Phase == {"accepted", "model_effect_pending", "tool_effect_pending",
          "checkpoint", "recovery_parked"}

RunEvent == {"accepted", "user", "fact", "recovery-parked",
             "restart-recovery", "terminal", "restart-terminal"}
ModelEvent == {"model-dispatch", "model-outcome", "model-recovery-parked",
               "model-restart-recovery", "model-reconciliation"}
ToolEvent == {"call", "dispatch", "outcome", "reconciliation",
              "reconciled-outcome"}
EventId == (RunEvent \X Run) \cup (ModelEvent \X Model) \cup (ToolEvent \X Tool)

NoRow ==
  [phase |-> "none", model |-> None, unsettled |-> {}, visible |-> "absent"]
NoTool == [status |-> "none", action |-> None, outcome |-> None]

RowType ==
  [phase : Phase \cup {"none"}, model : Model \cup {None},
   unsettled : SUBSET Tool, visible : {"true", "false", "absent"}]
ToolType ==
  [status : {"none", "effect_pending", "outcome_committed", "reconciled"},
   action : Action \cup {None}, outcome : Result \cup {None}]

\* The row acceptRun inserts; its data is where modelVisible is kept.
NewRow(r) ==
  [phase |-> "accepted", model |-> None, unsettled |-> {},
   visible |-> IF r \in Hidden THEN "false" ELSE "true"]

-----------------------------------------------------------------------------
(* Reads.                                                                  *)

Open(r) == run[r].phase # "none"
Pending(t) == tool[t].status = "effect_pending"

\* listUnsettledToolOperations of one run.
Unsettled(r) == {t \in Tool : RunOf[t] = r /\ Pending(t)}

\* An unsettled invocation of this very action under another identity, in the
\* caller's session or one it recovers from.
Unresolved(t, a) ==
  {u \in Tool \ {t} : /\ Pending(u) /\ tool[u].action = a
                      /\ Open(RunOf[u]) /\ RunOf[u] \in Lineage[RunOf[t]]}

\* The verdict is reconcile_required and the parent run's row is there.
Reconcilable(t) == Pending(t) /\ Open(RunOf[t])

AwaitsModel(r) == run[r].phase = "model_effect_pending" /\ run[r].model # None

\* appendEvent for a set of new events: one that is there already throws.
AppendEvents(new) == new \cap events = {} /\ events' = events \cup new

SetRun(r, row) == run' = [run EXCEPT ![r] = row]
=============================================================================
