--------------------------- MODULE ToolScheduler ---------------------------
(***************************************************************************)
(* The tool calls of the Pi subprocess: the wrapper every tool goes        *)
(* through (wrapSingleTool in pi-agent-server/src/index.ts) and the        *)
(* scheduler that orders conflicting calls (tool-execution-scheduler.ts).  *)
(*                                                                         *)
(* A call arrives, has its preflight (the permission check of the host)    *)
(* while it waits for conflicting calls, commits its intent (T1), invokes  *)
(* the implementation, records the outcome (T2) and settles.  The process  *)
(* is single-threaded: a handler up to its next await is one action, and   *)
(* the drain that ends it is part of that action.                          *)
(***************************************************************************)
EXTENDS Naturals, SequencesExt

CONSTANTS
  Call,      \* tool calls
  Turn,      \* turns of the agent; the calls of a turn share an abort signal
  Tool,      \* what a call is of: a kind of tool and, for files, a path
  TurnOf,    \* the turn a call belongs to
  ParentOf,  \* the codemode call whose script makes a nested call, or None
  None

\* Tools that only present or orchestrate hold no resource.
Orchestration == {"codemode", "tool_search", "ask_user"}

Kind == Orchestration \cup
        {"file_read", "file_write", "web", "browser_view", "session_read",
         "source_read", "opaque"}

ASSUME SchedulerAssumption ==
  /\ Tool \in [Call -> [kind : Kind, path : Seq(STRING)]]
  /\ TurnOf \in [Call -> Turn]
  /\ ParentOf \in [Call -> Call \cup {None}]
  /\ None \notin Call

VARIABLES
  waiting,    \* calls queued in the scheduler
  running,    \* calls that hold their resources
  arrival,    \* the position at which a call was queued, 0 before
  next,       \* the next position
  stage,      \* how far the wrapper of a call has come
  preflight,  \* how far the permission check of a call has come
  aborted,    \* turns whose signal is aborted
  adrift      \* interrupted calls whose effect may still be happening

vars == <<waiting, running, arrival, next, stage, preflight, aborted, adrift>>

-----------------------------------------------------------------------------
(* Resources and conflicts *)

\* Whatever is not recognised is a barrier to the whole session.
DomainOf(kind) ==
  CASE kind \in {"file_read", "file_write"} -> "files"
    [] kind = "web"          -> "web"
    [] kind = "browser_view" -> "browser"
    [] kind = "session_read" -> "session"
    [] kind = "source_read"  -> "source"
    [] OTHER                 -> "*"

AccessOf(kind) ==
  IF kind \in {"file_read", "web", "session_read", "source_read"}
  THEN "read" ELSE "write"

\* Seeded fault: a script is a barrier like any tool nobody recognises.
ResourcesOfScripts(c) ==
  IF Tool[c].kind \in {"tool_search", "ask_user"} THEN {}
  ELSE {[domain |-> DomainOf(Tool[c].kind), access |-> AccessOf(Tool[c].kind),
         path |-> Tool[c].path]}

Resources(c) ==
  IF Tool[c].kind \in Orchestration THEN {}
  ELSE {[domain |-> DomainOf(Tool[c].kind), access |-> AccessOf(Tool[c].kind),
         path |-> Tool[c].path]}

\* A path holds what lies below it; no path is the empty one, which holds all.
Nested(p, q) == IsPrefix(p, q) \/ IsPrefix(q, p)

Overlap(x, y) ==
  /\ "write" \in {x.access, y.access}
  /\ \/ "*" \in {x.domain, y.domain}
     \/ x.domain = y.domain /\ Nested(x.path, y.path)

Conflict(c, d) == \E x \in Resources(c), y \in Resources(d) : Overlap(x, y)

\* Orchestration asks nobody; its nested calls ask for themselves.
Asks(c) == Tool[c].kind \notin {"codemode", "tool_search"}

Stopped(c) == TurnOf[c] \in aborted
-----------------------------------------------------------------------------
(* Seeded faults: plausible mistakes in the code that the properties must  *)
(* catch.  None of them is part of the specification.                      *)

\* The pass compares with what ran before it and not with what it started.
StartableSnapshot(queue, active, position, ready) ==
  {c \in queue \cap ready : \A d \in active : ~Conflict(d, c)}

\* Only approved calls hold their place in the queue.
StartableOvertaking(queue, active, position, ready) ==
  {c \in queue \cap ready :
     /\ \A d \in active : ~Conflict(d, c)
     /\ \A d \in queue \cap ready : position[d] < position[c] => ~Conflict(d, c)}

\* A call that fails its preflight leaves without draining.
PreflightFailsQuietly(c) ==
  /\ \/ preflight[c] = "asking"
     \/ preflight[c] = "queued" /\ Stopped(c)
  /\ preflight' = [preflight EXCEPT ![c] = "failed"]
  /\ stage' = [stage EXCEPT ![c] = "settled"]
  /\ waiting' = waiting \ {c}
  /\ UNCHANGED <<running, arrival, next, aborted, adrift>>

\* An interrupted call keeps its resources.
InterruptedHolds(c) ==
  /\ stage[c] = "effect" /\ Stopped(c)
  /\ adrift' = adrift \cup {c}
  /\ stage' = [stage EXCEPT ![c] = "settled"]
  /\ UNCHANGED <<waiting, running, arrival, next, preflight, aborted>>

\* Queued calls do not listen to the signal.
AbortUnheard(t) ==
  /\ t \notin aborted
  /\ aborted' = aborted \cup {t}
  /\ UNCHANGED <<waiting, running, arrival, next, stage, preflight, adrift>>

-----------------------------------------------------------------------------
(* The drain *)

\* The calls of `queue` one pass over it starts.  A call is blocked by every
\* conflicting call before it: the earlier call either stays in the queue or
\* has just been started, so whether the pass started it does not matter.
Startable(queue, active, position, ready) ==
  {c \in queue :
     /\ c \in ready
     /\ \A d \in active : ~Conflict(d, c)
     /\ \A d \in queue : position[d] < position[c] => ~Conflict(d, c)}

\* The drain a handler ends with: `queue`, `active` and `st` are what the
\* handler leaves, the other variables what it has just written.  Aborted calls
\* are cancelled, and each cancellation drains again, so the pass that counts
\* is over the calls that are left.
Drain(queue, active, st) ==
  LET live == {c \in queue : TurnOf[c] \notin aborted'}
      started == Startable(live, active, arrival',
                           {c \in Call : preflight'[c] = "passed"})
  IN
  /\ waiting' = live \ started
  /\ running' = active \cup started
  /\ stage' = [c \in Call |-> IF c \in started THEN "starting"
                              ELSE IF c \in queue \ live THEN "settled"
                              ELSE st[c]]

\* The end of a call.  One that held resources releases them and drains.
Settle(c) ==
  IF c \in running
  THEN Drain(waiting, running \ {c}, [stage EXCEPT ![c] = "settled"])
  ELSE /\ stage' = [stage EXCEPT ![c] = "settled"]
       /\ UNCHANGED <<waiting, running>>
-----------------------------------------------------------------------------
(* Arrival and preflight *)

Init ==
  /\ waiting = {} /\ running = {}
  /\ arrival = [c \in Call |-> 0] /\ next = 1
  /\ stage = [c \in Call |-> "new"]
  /\ preflight = [c \in Call |-> "none"]
  /\ aborted = {} /\ adrift = {}

\* A nested call is made by a running script.
Arriving(c) ==
  /\ stage[c] = "new"
  /\ ParentOf[c] # None => stage[ParentOf[c]] = "effect"

ArriveStopped(c) ==
  /\ Arriving(c) /\ Stopped(c)
  /\ stage' = [stage EXCEPT ![c] = "settled"]
  /\ UNCHANGED <<waiting, running, arrival, next, preflight, aborted, adrift>>

\* Without resources there is nothing to wait for but the preflight.
ArriveDirect(c) ==
  /\ Arriving(c) /\ ~Stopped(c) /\ Resources(c) = {}
  /\ stage' = [stage EXCEPT ![c] = "direct"]
  /\ preflight' = [preflight EXCEPT ![c] = "queued"]
  /\ UNCHANGED <<waiting, running, arrival, next, aborted, adrift>>

Enqueue(c) ==
  /\ Arriving(c) /\ ~Stopped(c) /\ Resources(c) # {}
  /\ preflight' = [preflight EXCEPT ![c] = "queued"]
  /\ arrival' = [arrival EXCEPT ![c] = next]
  /\ next' = next + 1
  /\ UNCHANGED <<aborted, adrift>>
  /\ Drain(waiting \cup {c}, running, [stage EXCEPT ![c] = "waiting"])

\* The permission request goes to the host, which may take any time.
Ask(c) ==
  /\ preflight[c] = "queued" /\ Asks(c) /\ ~Stopped(c)
  /\ preflight' = [preflight EXCEPT ![c] = "asking"]
  /\ UNCHANGED <<waiting, running, arrival, next, stage, aborted, adrift>>

PreflightPasses(c) ==
  /\ IF Asks(c) THEN preflight[c] = "asking" ELSE preflight[c] = "queued"
  /\ ~Stopped(c)
  /\ preflight' = [preflight EXCEPT ![c] = "passed"]
  /\ UNCHANGED <<arrival, next, aborted, adrift>>
  /\ \/ /\ stage[c] = "direct"
        /\ stage' = [stage EXCEPT ![c] = "starting"]
        /\ UNCHANGED <<waiting, running>>
     \/ /\ stage[c] # "direct"
        /\ Drain(waiting, running, stage)

\* Blocked by the host, answered with another target, or stopped meanwhile.
PreflightFails(c) ==
  /\ \/ preflight[c] = "asking"
     \/ preflight[c] = "queued" /\ Stopped(c)
  /\ preflight' = [preflight EXCEPT ![c] = "failed"]
  /\ UNCHANGED <<arrival, next, aborted, adrift>>
  /\ \/ /\ stage[c] = "direct"
        /\ stage' = [stage EXCEPT ![c] = "settled"]
        /\ UNCHANGED <<waiting, running>>
     \/ /\ stage[c] # "direct"
        /\ Drain(waiting \ {c}, running, [stage EXCEPT ![c] = "settled"])
-----------------------------------------------------------------------------
(* Stopping a turn *)

\* The signal alone: the SDK, or a tool that hands control to the user.
Abort(t) ==
  /\ t \notin aborted
  /\ aborted' = aborted \cup {t}
  /\ UNCHANGED <<arrival, next, preflight, adrift>>
  /\ Drain(waiting, running, stage)

\* A stop by the user also answers every permission request with a block.
HandleAbort(t) ==
  LET blocked == {c \in Call : preflight[c] = "asking"} IN
  /\ aborted' = aborted \cup {t}
  /\ preflight' = [c \in Call |-> IF c \in blocked THEN "failed"
                                  ELSE preflight[c]]
  /\ UNCHANGED <<arrival, next, adrift>>
  /\ Drain(waiting \ blocked, running,
           [c \in Call |-> IF c \in blocked THEN "settled" ELSE stage[c]])
-----------------------------------------------------------------------------
(* Execution *)

Begin(c) ==
  /\ stage[c] = "starting" /\ ~Stopped(c)
  /\ stage' = [stage EXCEPT ![c] = "intent"]
  /\ UNCHANGED <<waiting, running, arrival, next, preflight, aborted, adrift>>

\* Stopped, out of context budget, or malformed: nothing is dispatched.
Reject(c) ==
  /\ stage[c] = "starting"
  /\ UNCHANGED <<arrival, next, preflight, aborted, adrift>>
  /\ Settle(c)

\* T1 is committed.  A signal that came with the answer keeps the
\* implementation from being invoked, and its absence is recorded instead.
IntentCommitted(c) ==
  /\ stage[c] = "intent"
  /\ stage' = [stage EXCEPT ![c] = IF Stopped(c) THEN "outcome" ELSE "effect"]
  /\ UNCHANGED <<waiting, running, arrival, next, preflight, aborted, adrift>>

\* T1 is refused, times out or is given up on a stop.
IntentFails(c) ==
  /\ stage[c] = "intent"
  /\ UNCHANGED <<arrival, next, preflight, aborted, adrift>>
  /\ Settle(c)

\* The implementation returns or throws.  A script awaits the calls it made.
Returns(c) ==
  /\ stage[c] = "effect"
  /\ \A d \in Call : ParentOf[d] = c => stage[d] \in {"new", "settled"}
  /\ stage' = [stage EXCEPT ![c] = "outcome"]
  /\ UNCHANGED <<waiting, running, arrival, next, preflight, aborted, adrift>>

\* The implementation gives up on the signal.  T1 stays without an outcome,
\* and what it started outside may still be going on.
Interrupted(c) ==
  /\ stage[c] = "effect" /\ Stopped(c)
  /\ adrift' = adrift \cup {c}
  /\ UNCHANGED <<arrival, next, preflight, aborted>>
  /\ Settle(c)

EffectEnds(c) ==
  /\ c \in adrift
  /\ adrift' = adrift \ {c}
  /\ UNCHANGED <<waiting, running, arrival, next, stage, preflight, aborted>>

\* T2 is committed, retained as a receipt, or could not be kept.
OutcomeRecorded(c) ==
  /\ stage[c] = "outcome"
  /\ UNCHANGED <<arrival, next, preflight, aborted, adrift>>
  /\ Settle(c)
-----------------------------------------------------------------------------
Next ==
  \/ \E c \in Call :
       \/ ArriveStopped(c) \/ ArriveDirect(c) \/ Enqueue(c)
       \/ Ask(c) \/ PreflightPasses(c) \/ PreflightFails(c)
       \/ Begin(c) \/ Reject(c) \/ IntentCommitted(c) \/ IntentFails(c)
       \/ Returns(c) \/ Interrupted(c) \/ EffectEnds(c) \/ OutcomeRecorded(c)
  \/ \E t \in Turn : Abort(t) \/ HandleAbort(t)

Spec == Init /\ [][Next]_vars

\* What the process does on its own: everything but arrivals, stops and the
\* host's answer to a permission request.  Implementations are taken to end.
Progress(c) ==
  \/ Ask(c) \/ Begin(c) \/ Reject(c) \/ IntentCommitted(c) \/ IntentFails(c)
  \/ Returns(c) \/ Interrupted(c) \/ OutcomeRecorded(c)
  \/ preflight[c] = "queued" /\ (PreflightPasses(c) \/ PreflightFails(c))

FairSpec == Spec /\ \A c \in Call : WF_vars(Progress(c))
-----------------------------------------------------------------------------
(* Properties *)

Stage == {"new", "waiting", "direct", "starting", "intent", "effect",
          "outcome", "settled"}

\* The stages in which a call that holds resources holds them.
Holding == {"starting", "intent", "effect", "outcome"}

\* Type invariant.  The two collections of the scheduler agree with what the
\* wrappers are doing: no call holds a resource after it settled.
TypeOK ==
  /\ waiting = {c \in Call : stage[c] = "waiting"}
  /\ running = {c \in Call : stage[c] \in Holding /\ Resources(c) # {}}
  /\ arrival \in [Call -> Nat] /\ next \in Nat \ {0}
  /\ stage \in [Call -> Stage]
  /\ preflight \in [Call -> {"none", "queued", "asking", "passed", "failed"}]
  /\ aborted \subseteq Turn /\ adrift \subseteq Call

\* A call between T1 and T2, or one whose effect may still be happening.
Live(c) == stage[c] \in {"intent", "effect", "outcome"} \/ c \in adrift

\* The intervals from T1 to T2 of conflicting calls never overlap, unless one
\* of them was interrupted and its effect is unknown.
ConflictsAreExclusive ==
  \A c, d \in Call :
    c # d /\ Live(c) /\ Live(d) /\ Conflict(c, d) => adrift \cap {c, d} # {}

\* After every handler the queue is drained: an approved call waits only for
\* a conflicting call that runs or came before it, and no stopped call waits.
WaitsForACause ==
  \A c \in waiting :
    /\ ~Stopped(c)
    /\ preflight[c] = "passed" =>
         \/ \E d \in running : Conflict(d, c)
         \/ \E d \in waiting : arrival[d] < arrival[c] /\ Conflict(d, c)

\* Nothing is dispatched that the host has not allowed, however the answer
\* and the turn of the call in the queue interleave.
DispatchIsApproved == \A c \in Call : Live(c) => preflight[c] = "passed"

\* A call never starts while an earlier conflicting one is still waiting, even
\* one whose permission is not there yet: a writer is not starved by readers.
NoOvertaking ==
  [][\A c, d \in waiting :
       /\ arrival[d] < arrival[c] /\ Conflict(d, c)
       /\ c \in running'
       => d \notin waiting' \cup running']_vars

\* Once its turn is stopped a call settles, unless it awaits the user.
StoppedCallsSettle ==
  \A c \in Call :
    Stopped(c) /\ stage[c] # "new" /\ preflight[c] # "asking"
      ~> stage[c] = "settled"

\* If no permission request stays unanswered, every call settles: calls do not
\* wait for each other in a circle, nor a script for the calls it makes.
AnsweredCallsSettle ==
  (<>[](\A c \in Call : preflight[c] # "asking"))
    => \A c \in Call : (stage[c] # "new" ~> stage[c] = "settled")
=============================================================================
