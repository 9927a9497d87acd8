------------------------ MODULE ToolSchedulerProofs ------------------------
(***************************************************************************)
(* What the tool scheduler guarantees for any calls, turns, paths and      *)
(* nesting: one inductive invariant, IInv, from which exclusion, approval, *)
(* work conservation and first come first served follow, and that the loop *)
(* of the drain starts the calls ToolScheduler says it starts.             *)
(***************************************************************************)
EXTENDS DrainLoop, SequenceTheorems, FiniteSetTheorems, WellFoundedInduction, TLAPS

\* Positions in the queue are distinct.
Ordered ==
  /\ \A c \in waiting : arrival[c] < next
  /\ \A c, d \in waiting : arrival[c] = arrival[d] => c = d

\* Only calls with resources queue, and only calls without bypass the queue.
RoutedByResources ==
  /\ \A c \in Call : stage[c] = "waiting" => Resources(c) # {}
  /\ \A c \in Call : stage[c] = "direct" => Resources(c) = {}

RunsExclusively == \A c, d \in running : c # d => ~Conflict(c, d)

\* A call past its start has passed its preflight, and a call that has not
\* arrived has none.
ApprovedInTime ==
  /\ \A c \in Call : stage[c] \in Holding => preflight[c] = "passed"
  /\ \A c \in adrift : stage[c] = "settled" /\ preflight[c] = "passed"
  /\ \A c \in Call : stage[c] = "new" => preflight[c] = "none"

IInv == /\ TypeOK /\ Ordered /\ RoutedByResources
        /\ RunsExclusively /\ WaitsForACause /\ ApprovedInTime
-----------------------------------------------------------------------------
\* Two calls conflict in either order.
LEMMA ConflictSymmetric ==
  \A c, d : Conflict(c, d) => Conflict(d, c)
BY DEF Conflict, Overlap, Nested

\* A call without resources conflicts with none.
LEMMA ConflictNeedsResources ==
  \A c, d : Conflict(c, d) => Resources(c) # {} /\ Resources(d) # {}
BY DEF Conflict
-----------------------------------------------------------------------------
(* What a drain leaves, from what the handler gives it. *)

\* A drain moves only queued calls: approved ones start, stopped ones settle.
LEMMA DrainMoves ==
  ASSUME NEW queue, NEW active, NEW st \in [Call -> Stage],
         queue \subseteq Call, Drain(queue, active, st)
  PROVE  /\ stage' \in [Call -> Stage]
         /\ \A c \in Call : \/ stage'[c] = st[c]
                            \/ c \in queue /\ stage'[c] = "settled"
                            \/ /\ c \in queue /\ stage'[c] = "starting"
                               /\ preflight'[c] = "passed"
BY DEF Drain, Startable, Stage

\* The collections agree with the stages again.
LEMMA DrainAgrees ==
  ASSUME NEW queue, NEW active, NEW st \in [Call -> Stage],
         queue = {c \in Call : st[c] = "waiting"},
         active = {c \in Call : st[c] \in Holding /\ Resources(c) # {}},
         \A c \in queue : Resources(c) # {},
         Drain(queue, active, st)
  PROVE  /\ waiting' = {c \in Call : stage'[c] = "waiting"}
         /\ running' = {c \in Call : stage'[c] \in Holding /\ Resources(c) # {}}
<1> DEFINE live == {c \in queue : TurnOf[c] \notin aborted'}
           started == Startable(live, active, arrival',
                                {c \in Call : preflight'[c] = "passed"})
<1>1. /\ waiting' = live \ started
      /\ running' = active \cup started
      /\ stage' = [c \in Call |-> IF c \in started THEN "starting"
                                  ELSE IF c \in queue \ live THEN "settled"
                                  ELSE st[c]]
  BY DEF Drain
<1>2. started \subseteq live /\ live \subseteq queue /\ queue \subseteq Call
  BY DEF Startable
<1>3. waiting' = {c \in Call : stage'[c] = "waiting"}
  BY <1>1, <1>2
<1>4. ASSUME NEW c \in Call
      PROVE  c \in running' <=> stage'[c] \in Holding /\ Resources(c) # {}
  <2>1. CASE c \in started
    BY <1>1, <1>2, <2>1 DEF Holding
  <2>2. CASE c \in queue \ live
    BY <1>1, <1>2, <2>2 DEF Holding
  <2>3. CASE c \notin started /\ c \notin queue \ live
    BY <1>1, <1>2, <2>3
  <2> QED  BY <2>1, <2>2, <2>3
<1>5. running' \subseteq Call
  BY <1>1, <1>2
<1> QED  BY <1>3, <1>4, <1>5

\* What one pass starts conflicts with nothing that runs.
LEMMA DrainExcludes ==
  ASSUME NEW queue, NEW active, NEW st,
         Drain(queue, active, st),
         arrival' \in [Call -> Nat], queue \subseteq Call,
         \A c, d \in queue : arrival'[c] = arrival'[d] => c = d,
         \A c, d \in active : c # d => ~Conflict(c, d)
  PROVE  RunsExclusively'
<1> DEFINE live == {c \in queue : TurnOf[c] \notin aborted'}
           ready == {c \in Call : preflight'[c] = "passed"}
           started == Startable(live, active, arrival', ready)
<1>1. running' = active \cup started
  BY DEF Drain
<1>2. ASSUME NEW c \in started, NEW d \in active
      PROVE  ~Conflict(c, d) /\ ~Conflict(d, c)
  BY <1>2, ConflictSymmetric DEF Startable
<1>3. ASSUME NEW c \in started, NEW d \in started, c # d
      PROVE  ~Conflict(c, d)
  <2>1. c \in live /\ d \in live /\ c \in Call /\ d \in Call
    BY DEF Startable
  <2>2. arrival'[c] \in Nat /\ arrival'[d] \in Nat /\ arrival'[c] # arrival'[d]
    BY <1>3, <2>1
  <2>3. CASE arrival'[c] < arrival'[d]
    BY <2>1, <2>3 DEF Startable
  <2>4. CASE arrival'[d] < arrival'[c]
    <3>1. ~Conflict(d, c)
      BY <2>1, <2>4 DEF Startable
    <3> QED  BY <3>1, ConflictSymmetric
  <2> QED  BY <2>2, <2>3, <2>4
<1> QED  BY <1>1, <1>2, <1>3 DEF RunsExclusively

\* What one pass leaves in the queue has a reason to be there.
LEMMA DrainLeavesCauses ==
  ASSUME NEW queue, NEW active, NEW st, queue \subseteq Call,
         Drain(queue, active, st)
  PROVE  WaitsForACause'
<1> DEFINE live == {c \in queue : TurnOf[c] \notin aborted'}
           ready == {c \in Call : preflight'[c] = "passed"}
           started == Startable(live, active, arrival', ready)
<1>1. waiting' = live \ started /\ running' = active \cup started
  BY DEF Drain
<1>2. SUFFICES ASSUME NEW c \in waiting'
      PROVE  /\ ~Stopped(c)'
             /\ preflight'[c] = "passed" =>
                  \/ \E d \in running' : Conflict(d, c)
                  \/ \E d \in waiting' : arrival'[d] < arrival'[c] /\ Conflict(d, c)
  BY DEF WaitsForACause
<1>3. ~Stopped(c)'
  BY <1>1 DEF Stopped
<1>4. ASSUME preflight'[c] = "passed"
      PROVE  \/ \E d \in active : Conflict(d, c)
             \/ \E d \in live : arrival'[d] < arrival'[c] /\ Conflict(d, c)
  BY <1>1, <1>4 DEF Startable
<1> QED  BY <1>1, <1>3, <1>4
-----------------------------------------------------------------------------
(* The invariant is inductive. *)

\* What a handler must leave for its drain to restore the invariant.
LEMMA DrainStep ==
  ASSUME NEW queue, NEW active, NEW st \in [Call -> Stage],
         queue = {c \in Call : st[c] = "waiting"},
         active = {c \in Call : st[c] \in Holding /\ Resources(c) # {}},
         \A c \in queue : Resources(c) # {},
         \A c \in Call : st[c] = "direct" => Resources(c) = {},
         \A c, d \in active : c # d => ~Conflict(c, d),
         arrival' \in [Call -> Nat], next' \in Nat \ {0},
         preflight' \in [Call -> {"none", "queued", "asking", "passed", "failed"}],
         aborted' \subseteq Turn, adrift' \subseteq Call,
         \A c \in queue : arrival'[c] < next',
         \A c, d \in queue : arrival'[c] = arrival'[d] => c = d,
         \A c \in Call : st[c] \in Holding => preflight'[c] = "passed",
         \A c \in adrift' : st[c] = "settled" /\ preflight'[c] = "passed",
         \A c \in Call : st[c] = "new" => preflight'[c] = "none",
         Drain(queue, active, st)
  PROVE  IInv'
<1>1. /\ stage' \in [Call -> Stage]
      /\ \A c \in Call : \/ stage'[c] = st[c]
                         \/ c \in queue /\ stage'[c] = "settled"
                         \/ /\ c \in queue /\ stage'[c] = "starting"
                            /\ preflight'[c] = "passed"
  BY DrainMoves
<1>2. TypeOK'
  <2>1. /\ waiting' = {c \in Call : stage'[c] = "waiting"}
        /\ running' = {c \in Call : stage'[c] \in Holding /\ Resources(c) # {}}
    BY DrainAgrees
  <2> QED  BY <1>1, <2>1 DEF TypeOK
<1>3. Ordered'
  <2>1. waiting' \subseteq queue
    BY DEF Drain
  <2> QED  BY <2>1 DEF Ordered
<1>4. RoutedByResources'
  BY <1>1 DEF RoutedByResources, Stage
<1>5. RunsExclusively'
  BY DrainExcludes
<1>6. WaitsForACause'
  BY DrainLeavesCauses
<1>7. ApprovedInTime'
  <2>1. \A c \in Call : stage'[c] \in Holding => preflight'[c] = "passed"
    BY <1>1 DEF Holding
  <2>2. \A c \in adrift' : stage'[c] = "settled" /\ preflight'[c] = "passed"
    BY <1>1
  <2>3. \A c \in Call : stage'[c] = "new" => preflight'[c] = "none"
    BY <1>1
  <2> QED  BY <2>1, <2>2, <2>3 DEF ApprovedInTime
<1> QED  BY <1>2, <1>3, <1>4, <1>5, <1>6, <1>7 DEF IInv

\* The invariant holds at the start.
LEMMA InitIInv == Init => IInv
<1> SUFFICES ASSUME Init PROVE IInv
  OBVIOUS
<1> USE DEF Init
<1>1. TypeOK
  BY DEF TypeOK, Stage, Holding
<1>2. Ordered /\ RunsExclusively /\ WaitsForACause
  BY DEF Ordered, RunsExclusively, WaitsForACause
<1>3. RoutedByResources /\ ApprovedInTime
  BY DEF RoutedByResources, ApprovedInTime, Holding
<1> QED  BY <1>1, <1>2, <1>3 DEF IInv

\* A call joins the queue.
LEMMA EnqueueStep ==
  ASSUME IInv, NEW c \in Call, Enqueue(c)
  PROVE  IInv'
<1> DEFINE st == [stage EXCEPT ![c] = "waiting"]
<1> USE DEF IInv, Enqueue, Arriving
<1>1. st \in [Call -> Stage] /\ stage[c] = "new" /\ Resources(c) # {}
  BY DEF TypeOK, Stage
<1>2. waiting \cup {c} = {d \in Call : st[d] = "waiting"}
  BY <1>1 DEF TypeOK
<1>3. running = {d \in Call : st[d] \in Holding /\ Resources(d) # {}}
  BY <1>1 DEF TypeOK, Holding
<1>4. /\ \A d \in waiting \cup {c} : Resources(d) # {}
      /\ \A d \in Call : st[d] = "direct" => Resources(d) = {}
  BY <1>1 DEF RoutedByResources, TypeOK
<1>5. /\ arrival' \in [Call -> Nat] /\ next' \in Nat \ {0}
      /\ preflight' \in [Call -> {"none", "queued", "asking", "passed", "failed"}]
      /\ aborted' \subseteq Turn /\ adrift' \subseteq Call
  BY DEF TypeOK
<1>6. /\ \A d \in waiting \cup {c} : arrival'[d] < next'
      /\ \A d, e \in waiting \cup {c} : arrival'[d] = arrival'[e] => d = e
  <2>1. waiting \subseteq Call /\ c \notin waiting
    BY <1>1 DEF TypeOK
  <2>2. /\ arrival'[c] = next /\ next' = next + 1 /\ next \in Nat
        /\ \A d \in waiting : arrival'[d] = arrival[d] /\ arrival[d] \in Nat
    BY <2>1 DEF TypeOK
  <2>3. \A d \in waiting : arrival[d] < next
    BY DEF Ordered
  <2>4. \A d, e \in waiting : arrival[d] = arrival[e] => d = e
    BY DEF Ordered
  <2> QED  BY <2>2, <2>3, <2>4
<1>7. \A d \in Call : st[d] \in Holding => preflight'[d] = "passed"
  BY <1>1 DEF ApprovedInTime, TypeOK, Holding
<1>8. \A d \in adrift' : st[d] = "settled" /\ preflight'[d] = "passed"
  BY <1>1 DEF ApprovedInTime, TypeOK
<1>9. \A d \in Call : st[d] = "new" => preflight'[d] = "none"
  BY <1>1 DEF ApprovedInTime, TypeOK
<1>10. \A d, e \in running : d # e => ~Conflict(d, e)
  BY DEF RunsExclusively
<1>11. Drain(waiting \cup {c}, running, st)
  OBVIOUS
<1> HIDE DEF st, IInv, Enqueue, Arriving
<1> QED  BY <1>1, <1>2, <1>3, <1>4, <1>5, <1>6, <1>7, <1>8, <1>9, <1>10, <1>11,
            DrainStep

\* A wrapper outside the queue moves on without touching the scheduler.
LEMMA StageStep ==
  ASSUME IInv, NEW c \in Call, NEW s \in Stage,
         NEW p \in {"none", "queued", "asking", "passed", "failed"},
         stage' = [stage EXCEPT ![c] = s],
         preflight' = [preflight EXCEPT ![c] = p],
         stage[c] # "waiting", s \notin {"new", "waiting"}, c \notin adrift,
         c \in running <=> s \in Holding /\ Resources(c) # {},
         s = "direct" => Resources(c) = {},
         s \in Holding => p = "passed",
         UNCHANGED <<waiting, running, arrival, next, aborted, adrift>>
  PROVE  IInv'
<1> USE DEF IInv
<1>1. stage \in [Call -> Stage] /\ c \notin waiting
  BY DEF TypeOK
<1>2. TypeOK'
  <2>1. waiting' = {d \in Call : stage'[d] = "waiting"}
    BY <1>1 DEF TypeOK
  <2>2. running' = {d \in Call : stage'[d] \in Holding /\ Resources(d) # {}}
    BY <1>1 DEF TypeOK
  <2> QED  BY <1>1, <2>1, <2>2 DEF TypeOK
<1>3. Ordered' /\ RunsExclusively'
  BY DEF Ordered, RunsExclusively
<1>4. RoutedByResources'
  BY <1>1 DEF RoutedByResources
<1>5. WaitsForACause'
  <2>1. \A d \in waiting : d \in Call /\ d # c
    BY <1>1 DEF TypeOK
  <2>2. \A d \in waiting : preflight'[d] = preflight[d] /\ (Stopped(d)' <=> Stopped(d))
    BY <2>1 DEF Stopped
  <2> QED  BY <2>2 DEF WaitsForACause
<1>6. ApprovedInTime'
  BY <1>1 DEF ApprovedInTime, TypeOK
<1> QED  BY <1>2, <1>3, <1>4, <1>5, <1>6

\* A call that held resources, or bypassed the queue, ends.
LEMMA SettleStep ==
  ASSUME IInv, NEW c \in Call, stage[c] \in Holding, Settle(c),
         adrift' \subseteq adrift \cup {c},
         UNCHANGED <<arrival, next, preflight, aborted>>
  PROVE  IInv'
<1> DEFINE st == [stage EXCEPT ![c] = "settled"]
<1> USE DEF IInv
<1>1. /\ st \in [Call -> Stage] /\ stage[c] # "waiting" /\ c \notin waiting
      /\ c \notin adrift /\ preflight[c] = "passed"
  BY DEF TypeOK, Stage, Holding, ApprovedInTime
<1>2. adrift' \subseteq Call
  BY DEF TypeOK
<1>3. \A d \in Call : st[d] \in Holding => preflight'[d] = "passed"
  BY DEF TypeOK, Holding, ApprovedInTime
<1>4. \A d \in adrift' : st[d] = "settled" /\ preflight'[d] = "passed"
  BY <1>1 DEF TypeOK, ApprovedInTime
<1>5. \A d \in Call : st[d] = "new" => preflight'[d] = "none"
  BY DEF TypeOK, ApprovedInTime
<1>6. waiting = {d \in Call : st[d] = "waiting"}
  BY <1>1 DEF TypeOK
<1>7. running \ {c} = {d \in Call : st[d] \in Holding /\ Resources(d) # {}}
  BY <1>1 DEF TypeOK, Holding
<1>8. /\ \A d \in waiting : Resources(d) # {}
      /\ \A d \in Call : st[d] = "direct" => Resources(d) = {}
  BY DEF TypeOK, RoutedByResources
<1>9. CASE c \in running
  <2>1. /\ arrival' \in [Call -> Nat] /\ next' \in Nat \ {0}
        /\ preflight' \in [Call -> {"none", "queued", "asking", "passed", "failed"}]
        /\ aborted' \subseteq Turn
    BY DEF TypeOK
  <2>2. /\ \A d \in waiting : arrival'[d] < next'
        /\ \A d, e \in waiting : arrival'[d] = arrival'[e] => d = e
    BY DEF Ordered
  <2>3. \A d, e \in running \ {c} : d # e => ~Conflict(d, e)
    BY DEF RunsExclusively
  <2>4. Drain(waiting, running \ {c}, st)
    BY <1>9 DEF Settle
  <2> HIDE DEF st, IInv
  <2> QED  BY <1>1, <1>2, <1>3, <1>4, <1>5, <1>6, <1>7, <1>8, <2>1, <2>2, <2>3,
              <2>4, DrainStep
<1>10. CASE c \notin running
  <2>1. stage' = st /\ waiting' = waiting /\ running' = running
    BY <1>10 DEF Settle
  <2>2. TypeOK'
    BY <1>1, <1>2, <1>6, <1>7, <1>10, <2>1 DEF TypeOK
  <2>3. Ordered' /\ RunsExclusively'
    BY <2>1 DEF Ordered, RunsExclusively
  <2>4. RoutedByResources'
    BY <1>1, <1>6, <1>8, <2>1 DEF RoutedByResources
  <2>5. WaitsForACause'
    BY <2>1 DEF WaitsForACause, Stopped
  <2>6. ApprovedInTime'
    BY <1>3, <1>4, <1>5, <2>1 DEF ApprovedInTime
  <2> QED  BY <2>2, <2>3, <2>4, <2>5, <2>6
<1> QED  BY <1>9, <1>10

\* A drain that follows a change of preflights, of signals, or the departure
\* of the calls `gone`, none of which has started.
LEMMA DepartureStep ==
  ASSUME IInv, NEW gone \in SUBSET Call,
         \A c \in gone : stage[c] \notin Holding /\ stage[c] # "new",
         Drain(waiting \ gone, running,
               [c \in Call |-> IF c \in gone THEN "settled" ELSE stage[c]]),
         preflight' \in [Call -> {"none", "queued", "asking", "passed", "failed"}],
         \A c \in Call : preflight[c] \in {"none", "passed"}
                           => preflight'[c] = preflight[c],
         aborted' \subseteq Turn,
         UNCHANGED <<arrival, next, adrift>>
  PROVE  IInv'
<1> DEFINE st == [c \in Call |-> IF c \in gone THEN "settled" ELSE stage[c]]
<1> USE DEF IInv
<1>1. st \in [Call -> Stage]
  BY DEF TypeOK, Stage
<1>2. waiting \ gone = {d \in Call : st[d] = "waiting"}
  BY DEF TypeOK
<1>3. running = {d \in Call : st[d] \in Holding /\ Resources(d) # {}}
  BY DEF TypeOK, Holding
<1>4. /\ \A d \in waiting \ gone : Resources(d) # {}
      /\ \A d \in Call : st[d] = "direct" => Resources(d) = {}
  BY DEF TypeOK, RoutedByResources
<1>5. /\ arrival' \in [Call -> Nat] /\ next' \in Nat \ {0} /\ adrift' \subseteq Call
  BY DEF TypeOK
<1>6. /\ \A d \in waiting \ gone : arrival'[d] < next'
      /\ \A d, e \in waiting \ gone : arrival'[d] = arrival'[e] => d = e
  BY DEF Ordered
<1>7. \A d \in Call : st[d] \in Holding => preflight'[d] = "passed"
  BY DEF Holding, ApprovedInTime
<1>8. \A d \in adrift' : st[d] = "settled" /\ preflight'[d] = "passed"
  BY DEF TypeOK, ApprovedInTime
<1>9. \A d \in Call : st[d] = "new" => preflight'[d] = "none"
  BY DEF ApprovedInTime
<1>10. \A d, e \in running : d # e => ~Conflict(d, e)
  BY DEF RunsExclusively
<1>11. Drain(waiting \ gone, running, st)
  OBVIOUS
<1> HIDE DEF st, IInv
<1> QED  BY <1>1, <1>2, <1>3, <1>4, <1>5, <1>6, <1>7, <1>8, <1>9, <1>10, <1>11,
            DrainStep

LEMMA ArriveStoppedStep ==
  ASSUME IInv, NEW c \in Call, ArriveStopped(c)
  PROVE  IInv'
<1> USE DEF IInv, ArriveStopped, Arriving
<1>1. preflight' = [preflight EXCEPT ![c] = preflight[c]] /\ c \notin running
  BY DEF TypeOK, Holding
<1>2. c \notin adrift
  BY DEF ApprovedInTime
<1>3. /\ "settled" \in Stage /\ "settled" \notin Holding
      /\ preflight[c] \in {"none", "queued", "asking", "passed", "failed"}
  BY DEF TypeOK, Stage, Holding
<1> QED  BY <1>1, <1>2, <1>3, StageStep

LEMMA ArriveDirectStep ==
  ASSUME IInv, NEW c \in Call, ArriveDirect(c)
  PROVE  IInv'
<1> USE DEF IInv, ArriveDirect, Arriving
<1>1. c \notin running /\ c \notin adrift
  BY DEF TypeOK, Holding, ApprovedInTime
<1>2. "direct" \in Stage /\ "direct" \notin Holding
  BY DEF Stage, Holding
<1> QED  BY <1>1, <1>2, StageStep

\* Asking for permission leaves the queue alone.
LEMMA AskStep ==
  ASSUME IInv, NEW c \in Call, Ask(c)
  PROVE  IInv'
<1> USE DEF IInv, Ask
<1>1. TypeOK' /\ Ordered' /\ RoutedByResources' /\ RunsExclusively'
  BY DEF TypeOK, Ordered, RoutedByResources, RunsExclusively
<1>2. WaitsForACause'
  BY DEF WaitsForACause, TypeOK, Stopped
<1>3. ApprovedInTime'
  BY DEF ApprovedInTime, TypeOK
<1> QED  BY <1>1, <1>2, <1>3

\* The permission is there: a call outside the queue starts, one in it drains.
LEMMA PreflightPassesStep ==
  ASSUME IInv, NEW c \in Call, PreflightPasses(c)
  PROVE  IInv'
<1> USE DEF IInv, PreflightPasses
<1>1. preflight[c] \in {"asking", "queued"}
  OBVIOUS
<1>2. CASE stage[c] = "direct" /\ stage' = [stage EXCEPT ![c] = "starting"]
           /\ UNCHANGED <<waiting, running>>
  <2>1. c \notin running /\ c \notin adrift /\ Resources(c) = {}
    BY <1>2 DEF TypeOK, Holding, ApprovedInTime, RoutedByResources
  <2>2. "starting" \in Stage
    BY DEF Stage
  <2> QED  BY <1>2, <2>1, <2>2, StageStep
<1>3. CASE Drain(waiting, running, stage)
  <2>1. /\ [d \in Call |-> IF d \in {} THEN "settled" ELSE stage[d]] = stage
        /\ waiting \ {} = waiting
    BY DEF TypeOK
  <2>2. Drain(waiting \ {}, running,
              [d \in Call |-> IF d \in {} THEN "settled" ELSE stage[d]])
    BY <1>3, <2>1
  <2>3. preflight' \in [Call -> {"none", "queued", "asking", "passed", "failed"}]
        /\ aborted' \subseteq Turn
    BY DEF TypeOK
  <2>4. \A d \in Call : preflight[d] \in {"none", "passed"}
                          => preflight'[d] = preflight[d]
    BY <1>1 DEF TypeOK
  <2>5. UNCHANGED <<arrival, next, adrift>> /\ {} \in SUBSET Call
    OBVIOUS
  <2> HIDE DEF IInv, PreflightPasses
  <2> QED  BY <2>2, <2>3, <2>4, <2>5, DepartureStep
<1> QED  BY <1>2, <1>3

\* The permission is not given: the call leaves the queue.
LEMMA PreflightFailsStep ==
  ASSUME IInv, NEW c \in Call, PreflightFails(c)
  PROVE  IInv'
<1> USE DEF IInv, PreflightFails
<1>1. preflight[c] \in {"asking", "queued"}
  OBVIOUS
<1>2. stage[c] \notin Holding /\ stage[c] # "new" /\ c \notin adrift
  BY <1>1 DEF ApprovedInTime
<1>3. CASE stage[c] = "direct" /\ stage' = [stage EXCEPT ![c] = "settled"]
           /\ UNCHANGED <<waiting, running>>
  <2>1. c \notin running
    BY <1>2 DEF TypeOK
  <2>2. "settled" \in Stage /\ "settled" \notin Holding
    BY DEF Stage, Holding
  <2> QED  BY <1>2, <1>3, <2>1, <2>2, StageStep
<1>4. CASE Drain(waiting \ {c}, running, [stage EXCEPT ![c] = "settled"])
  <2>1. [d \in Call |-> IF d \in {c} THEN "settled" ELSE stage[d]]
          = [stage EXCEPT ![c] = "settled"]
    BY DEF TypeOK
  <2>2. Drain(waiting \ {c}, running,
              [d \in Call |-> IF d \in {c} THEN "settled" ELSE stage[d]])
    BY <1>4, <2>1
  <2>3. preflight' \in [Call -> {"none", "queued", "asking", "passed", "failed"}]
        /\ aborted' \subseteq Turn
    BY DEF TypeOK
  <2>4. \A d \in Call : preflight[d] \in {"none", "passed"}
                          => preflight'[d] = preflight[d]
    BY <1>1 DEF TypeOK
  <2>5. UNCHANGED <<arrival, next, adrift>> /\ {c} \in SUBSET Call
    OBVIOUS
  <2>6. \A d \in {c} : stage[d] \notin Holding /\ stage[d] # "new"
    BY <1>2
  <2> HIDE DEF IInv, PreflightFails
  <2> QED  BY <2>2, <2>3, <2>4, <2>5, <2>6, DepartureStep
<1> QED  BY <1>3, <1>4

LEMMA AbortStep ==
  ASSUME IInv, NEW t \in Turn, Abort(t)
  PROVE  IInv'
<1> USE DEF IInv, Abort
<1>1. /\ [d \in Call |-> IF d \in {} THEN "settled" ELSE stage[d]] = stage
      /\ waiting \ {} = waiting
  BY DEF TypeOK
<1>2. Drain(waiting \ {}, running,
            [d \in Call |-> IF d \in {} THEN "settled" ELSE stage[d]])
  BY <1>1
<1>3. preflight' \in [Call -> {"none", "queued", "asking", "passed", "failed"}]
      /\ aborted' \subseteq Turn
  BY DEF TypeOK
<1>4. \A d \in Call : preflight'[d] = preflight[d]
  OBVIOUS
<1>5. UNCHANGED <<arrival, next, adrift>> /\ {} \in SUBSET Call
  OBVIOUS
<1> HIDE DEF IInv, Abort
<1> QED  BY <1>2, <1>3, <1>4, <1>5, DepartureStep

\* A stop by the user also ends every call whose permission is open.
LEMMA HandleAbortStep ==
  ASSUME IInv, NEW t \in Turn, HandleAbort(t)
  PROVE  IInv'
<1> DEFINE blocked == {c \in Call : preflight[c] = "asking"}
<1> USE DEF IInv, HandleAbort
<1>1. \A c \in blocked : stage[c] \notin Holding /\ stage[c] # "new"
  BY DEF ApprovedInTime
<1>2. Drain(waiting \ blocked, running,
            [c \in Call |-> IF c \in blocked THEN "settled" ELSE stage[c]])
  OBVIOUS
<1>3. preflight' \in [Call -> {"none", "queued", "asking", "passed", "failed"}]
      /\ aborted' \subseteq Turn
  BY DEF TypeOK
<1>4. \A c \in Call : preflight[c] \in {"none", "passed"}
                        => preflight'[c] = preflight[c]
  OBVIOUS
<1>5. UNCHANGED <<arrival, next, adrift>> /\ blocked \in SUBSET Call
  OBVIOUS
<1> HIDE DEF IInv, HandleAbort, blocked
<1> QED  BY <1>1, <1>2, <1>3, <1>4, <1>5, DepartureStep

\* A running call moves from one holding stage to the next.
LEMMA HoldingStep ==
  ASSUME IInv, NEW c \in Call, NEW s \in Holding, stage[c] \in Holding,
         stage' = [stage EXCEPT ![c] = s],
         UNCHANGED <<waiting, running, arrival, next, preflight, aborted, adrift>>
  PROVE  IInv'
<1> USE DEF IInv
<1>1. /\ preflight' = [preflight EXCEPT ![c] = "passed"]
      /\ c \in running <=> Resources(c) # {}
      /\ stage[c] # "waiting" /\ c \notin adrift
  BY DEF TypeOK, ApprovedInTime, Holding
<1>2. s \in Stage /\ s \notin {"new", "waiting", "direct"}
  BY DEF Stage, Holding
<1> HIDE DEF IInv
<1> QED  BY <1>1, <1>2, StageStep

LEMMA NextKeepsIInv == IInv /\ [Next]_vars => IInv'
<1> SUFFICES ASSUME IInv, [Next]_vars PROVE IInv'
  OBVIOUS
<1>1. ASSUME NEW c \in Call, ArriveStopped(c) \/ ArriveDirect(c) \/ Enqueue(c)
      PROVE  IInv'
  BY <1>1, ArriveStoppedStep, ArriveDirectStep, EnqueueStep
<1>2. ASSUME NEW c \in Call, Ask(c) \/ PreflightPasses(c) \/ PreflightFails(c)
      PROVE  IInv'
  BY <1>2, AskStep, PreflightPassesStep, PreflightFailsStep
<1>3. ASSUME NEW c \in Call, Begin(c) \/ IntentCommitted(c) \/ Returns(c)
      PROVE  IInv'
  <2>1. /\ UNCHANGED <<waiting, running, arrival, next, preflight, aborted, adrift>>
        /\ stage[c] \in Holding
        /\ \E s \in Holding : stage' = [stage EXCEPT ![c] = s]
    BY <1>3 DEF Begin, IntentCommitted, Returns, Holding
  <2> QED  BY <2>1, HoldingStep
<1>4. ASSUME NEW c \in Call,
             Reject(c) \/ IntentFails(c) \/ Interrupted(c) \/ OutcomeRecorded(c)
      PROVE  IInv'
  <2>1. /\ stage[c] \in Holding /\ Settle(c)
        /\ adrift' \subseteq adrift \cup {c}
        /\ UNCHANGED <<arrival, next, preflight, aborted>>
    BY <1>4 DEF Reject, IntentFails, Interrupted, OutcomeRecorded, Holding
  <2> QED  BY <2>1, SettleStep
<1>5. ASSUME NEW c \in Call, EffectEnds(c)
      PROVE  IInv'
  <2> USE DEF EffectEnds, IInv
  <2>1. TypeOK' /\ Ordered' /\ RoutedByResources' /\ RunsExclusively'
    BY <1>5 DEF TypeOK, Ordered, RoutedByResources, RunsExclusively
  <2>2. WaitsForACause' /\ ApprovedInTime'
    BY <1>5 DEF WaitsForACause, ApprovedInTime, Stopped
  <2> QED  BY <2>1, <2>2
<1>6. ASSUME NEW t \in Turn, Abort(t) \/ HandleAbort(t)
      PROVE  IInv'
  BY <1>6, AbortStep, HandleAbortStep
<1>7. CASE UNCHANGED vars
  <2> USE <1>7 DEF vars, IInv
  <2>1. TypeOK' /\ Ordered' /\ RoutedByResources' /\ RunsExclusively'
    BY DEF TypeOK, Ordered, RoutedByResources, RunsExclusively
  <2>2. WaitsForACause' /\ ApprovedInTime'
    BY DEF WaitsForACause, ApprovedInTime, Stopped
  <2> QED  BY <2>1, <2>2
<1> QED  BY <1>1, <1>2, <1>3, <1>4, <1>5, <1>6, <1>7 DEF Next

\* The inductive invariant of the scheduler.
THEOREM SchedulerInvariant == Spec => []IInv
<1>1. Init => IInv
  BY InitIInv
<1>2. IInv /\ [Next]_vars => IInv'
  BY NextKeepsIInv
<1> QED  BY <1>1, <1>2, PTL DEF Spec
-----------------------------------------------------------------------------
(* What follows from it. *)

\* The scheduler's queue and running set agree with the wrappers' stages.
THEOREM SchedulerTypeCorrect == Spec => []TypeOK
<1>1. IInv => TypeOK
  BY DEF IInv
<1> QED  BY <1>1, SchedulerInvariant, PTL

\* T1 to T2 intervals of conflicting tools do not overlap, an interrupted
\* effect apart.
THEOREM ConflictsExcludeEachOther == Spec => []ConflictsAreExclusive
<1>1. IInv => ConflictsAreExclusive
  <2> SUFFICES ASSUME IInv, NEW c \in Call, NEW d \in Call,
                      c # d, Live(c), Live(d), Conflict(c, d),
                      c \notin adrift, d \notin adrift
               PROVE  FALSE
    BY DEF ConflictsAreExclusive
  <2>1. stage[c] \in Holding /\ stage[d] \in Holding
    BY DEF Live, Holding
  <2>2. Resources(c) # {} /\ Resources(d) # {}
    BY ConflictNeedsResources
  <2>3. c \in running /\ d \in running
    BY <2>1, <2>2 DEF IInv, TypeOK
  <2> QED  BY <2>3 DEF IInv, RunsExclusively
<1> QED  BY <1>1, SchedulerInvariant, PTL

\* The queue is drained after every handler.
THEOREM WaitingIsJustified == Spec => []WaitsForACause
<1>1. IInv => WaitsForACause
  BY DEF IInv
<1> QED  BY <1>1, SchedulerInvariant, PTL

\* No tool is dispatched without the host's permission.
THEOREM DispatchNeedsApproval == Spec => []DispatchIsApproved
<1>1. IInv => DispatchIsApproved
  BY DEF IInv, ApprovedInTime, DispatchIsApproved, Live, Holding
<1> QED  BY <1>1, SchedulerInvariant, PTL

\* One drain starts no call past an earlier conflicting one.
LEMMA DrainInOrder ==
  ASSUME NEW queue, NEW active, NEW st, Drain(queue, active, st),
         active \subseteq running, waiting \cap running = {},
         NEW c \in waiting, NEW d \in waiting,
         arrival'[c] = arrival[c], arrival'[d] = arrival[d],
         arrival[d] < arrival[c], Conflict(d, c), c \in running'
  PROVE  d \notin waiting' \cup running'
<1> DEFINE live == {e \in queue : TurnOf[e] \notin aborted'}
           ready == {e \in Call : preflight'[e] = "passed"}
           started == Startable(live, active, arrival', ready)
<1>1. waiting' = live \ started /\ running' = active \cup started
  BY DEF Drain
<1>2. c \in started
  BY <1>1
<1>3. d \notin live
  BY <1>2 DEF Startable
<1>4. d \notin active /\ started \subseteq live
  BY DEF Startable
<1> QED  BY <1>1, <1>3, <1>4

\* Conflicting calls start in the order they came.
THEOREM FirstComeFirstServed == Spec => NoOvertaking
<1>1. ASSUME IInv, [Next]_vars, NEW c \in waiting, NEW d \in waiting,
             arrival[d] < arrival[c], Conflict(d, c), c \in running'
      PROVE  d \notin waiting' \cup running'
  <2>1. waiting \cap running = {} /\ waiting \subseteq Call
    BY <1>1 DEF IInv, TypeOK, Holding
  <2>2. running' # running
    BY <1>1, <2>1
  <2>3. PICK queue, active, st : active \subseteq running /\ Drain(queue, active, st)
    <3>1. ASSUME NEW e \in Call, Enqueue(e) \/ PreflightPasses(e) \/ PreflightFails(e)
          PROVE  \E queue, active, st :
                   active \subseteq running /\ Drain(queue, active, st)
      BY <3>1, <2>2 DEF Enqueue, PreflightPasses, PreflightFails
    <3>2. ASSUME NEW e \in Call, Settle(e)
          PROVE  \E queue, active, st :
                   active \subseteq running /\ Drain(queue, active, st)
      <4>1. running \ {e} \subseteq running
        OBVIOUS
      <4> QED  BY <3>2, <2>2, <4>1 DEF Settle
    <3>3. ASSUME NEW t \in Turn, Abort(t) \/ HandleAbort(t)
          PROVE  \E queue, active, st :
                   active \subseteq running /\ Drain(queue, active, st)
      BY <3>3 DEF Abort, HandleAbort
    <3>4. CASE UNCHANGED vars
      BY <3>4, <2>2 DEF vars
    <3> QED
      BY <1>1, <2>2, <3>1, <3>2, <3>3, <3>4
      DEF Next, ArriveStopped, ArriveDirect, Ask, Begin, Reject, IntentCommitted,
          IntentFails, Returns, Interrupted, EffectEnds, OutcomeRecorded
  <2>4. arrival'[c] = arrival[c] /\ arrival'[d] = arrival[d]
    <3>1. \A e \in Call : Enqueue(e) => stage[e] # "waiting"
      BY DEF Enqueue, Arriving
    <3>2. stage[c] = "waiting" /\ stage[d] = "waiting"
      BY <1>1 DEF IInv, TypeOK
    <3>3. ASSUME NEW e \in Call, Enqueue(e)
          PROVE  arrival'[c] = arrival[c] /\ arrival'[d] = arrival[d]
      <4>1. e # c /\ e # d /\ arrival' = [arrival EXCEPT ![e] = next]
        BY <3>1, <3>2, <3>3 DEF Enqueue
      <4>2. arrival \in [Call -> Nat]
        BY <1>1 DEF IInv, TypeOK
      <4> QED  BY <4>1, <4>2, <2>1
    <3>4. CASE \A e \in Call : ~Enqueue(e)
      <4>1. arrival' = arrival
        BY <1>1, <3>4
        DEF Next, vars, ArriveStopped, ArriveDirect, Ask, PreflightPasses,
            PreflightFails, Begin, Reject, IntentCommitted, IntentFails, Returns,
            Interrupted, EffectEnds, OutcomeRecorded, Abort, HandleAbort
      <4> QED  BY <4>1
    <3> QED  BY <3>3, <3>4
  <2> QED  BY <1>1, <2>1, <2>3, <2>4, DrainInOrder
<1>2. IInv /\ [Next]_vars =>
        [\A c, d \in waiting :
           /\ arrival[d] < arrival[c] /\ Conflict(d, c)
           /\ c \in running'
           => d \notin waiting' \cup running']_vars
  BY <1>1
<1> QED  BY <1>2, SchedulerInvariant, PTL DEF Spec, NoOvertaking
-----------------------------------------------------------------------------
(* The drain as the loop of the code. *)

\* The queue as it is: every call has a position of its own.
Queued == /\ waiting \subseteq Call
          /\ \A c \in waiting : arrival[c] \in Nat /\ arrival[c] < next
          /\ \A c, d \in waiting : arrival[c] = arrival[d] => c = d
          /\ next \in Nat

\* A splice takes one call out of the queue and moves up those behind it.
LEMMA SpliceEffect ==
  ASSUME NEW T, NEW q \in Seq(T), NEW k \in 1 .. Len(q)
  PROVE  /\ RemoveAt(q, k) \in Seq(T)
         /\ Len(RemoveAt(q, k)) = Len(q) - 1
         /\ \A i \in 1 .. Len(q) - 1 :
              RemoveAt(q, k)[i] = IF i < k THEN q[i] ELSE q[i + 1]
<1> DEFINE a == SubSeq(q, 1, k - 1)
           b == SubSeq(q, k + 1, Len(q))
<1>1. Len(q) \in Nat /\ k \in Int /\ \A i \in 1 .. Len(q) : q[i] \in T
  OBVIOUS
<1>2. /\ a \in Seq(T) /\ Len(a) = k - 1
      /\ \A i \in 1 .. k - 1 : a[i] = q[i]
  <2>1. \A i \in 1 .. k - 1 : q[i] \in T
    BY <1>1
  <2>2. /\ a \in Seq(T)
        /\ Len(a) = IF 1 <= k - 1 THEN k - 1 - 1 + 1 ELSE 0
        /\ \A i \in 1 .. k - 1 - 1 + 1 : a[i] = q[1 + i - 1]
    BY <1>1, <2>1, SubSeqProperties
  <2> HIDE DEF a
  <2> QED  BY <1>1, <2>2
<1>3. /\ b \in Seq(T) /\ Len(b) = Len(q) - k
      /\ \A i \in 1 .. Len(q) - k : b[i] = q[k + i]
  <2>1. \A i \in k + 1 .. Len(q) : q[i] \in T
    BY <1>1
  <2>2. /\ b \in Seq(T)
        /\ Len(b) = IF k + 1 <= Len(q) THEN Len(q) - (k + 1) + 1 ELSE 0
        /\ \A i \in 1 .. Len(q) - (k + 1) + 1 : b[i] = q[k + 1 + i - 1]
    BY <1>1, <2>1, SubSeqProperties
  <2> HIDE DEF b
  <2> QED  BY <1>1, <2>2
<1>4. RemoveAt(q, k) = a \o b
  BY DEF RemoveAt
<1> HIDE DEF a, b
<1>5. /\ a \o b \in Seq(T) /\ Len(a \o b) = Len(a) + Len(b)
      /\ \A i \in 1 .. Len(a) + Len(b) :
           (a \o b)[i] = IF i <= Len(a) THEN a[i] ELSE b[i - Len(a)]
  BY <1>2, <1>3, ConcatProperties
<1>6. ASSUME NEW i \in 1 .. Len(q) - 1
      PROVE  RemoveAt(q, k)[i] = IF i < k THEN q[i] ELSE q[i + 1]
  <2>1. CASE i < k
    BY <1>1, <1>2, <1>3, <1>4, <1>5, <2>1
  <2>2. CASE i >= k
    <3>1. (a \o b)[i] = b[i - Len(a)] /\ i - Len(a) \in 1 .. Len(q) - k
      BY <1>1, <1>2, <1>3, <1>5, <2>2, SMTT(30)
    <3>2. i - Len(a) \in Int /\ k + (i - Len(a)) = i + 1
      BY <1>1, <1>2
    <3>3. b[i - Len(a)] = q[k + (i - Len(a))]
      BY <1>3, <3>1
    <3> QED  BY <1>1, <1>4, <2>2, <3>1, <3>2, <3>3
  <2> QED  BY <1>1, <2>1, <2>2
<1> QED  BY <1>1, <1>2, <1>3, <1>4, <1>5, <1>6

\* What is left of a queue in order is in order.
LEMMA SpliceLists ==
  ASSUME Queued, NEW S \in SUBSET waiting,
         NEW q \in Seq(Call), Lists(q, S), NEW k \in 1 .. Len(q)
  PROVE  /\ RemoveAt(q, k) \in Seq(Call) /\ Len(RemoveAt(q, k)) = Len(q) - 1
         /\ Lists(RemoveAt(q, k), S \ {q[k]})
         /\ \A i \in 1 .. Len(q) - 1 : i < k => RemoveAt(q, k)[i] = q[i]
<1> DEFINE r == RemoveAt(q, k)
           from(i) == IF i < k THEN i ELSE i + 1
<1>1. Len(q) \in Nat /\ k \in Nat /\ DOMAIN q = 1 .. Len(q)
  OBVIOUS
<1>2. /\ r \in Seq(Call) /\ Len(r) = Len(q) - 1
      /\ \A i \in 1 .. Len(q) - 1 : r[i] = IF i < k THEN q[i] ELSE q[i + 1]
  BY SpliceEffect
<1> HIDE DEF r
<1>3. DOMAIN r = 1 .. Len(q) - 1
  BY <1>2
<1>4. /\ \A i \in 1 .. Len(q) - 1 : /\ from(i) \in 1 .. Len(q) /\ from(i) # k
                                    /\ r[i] = q[from(i)]
      /\ \A i, j \in 1 .. Len(q) - 1 : i < j => from(i) < from(j)
      /\ \A m \in 1 .. Len(q) : m # k => \E i \in 1 .. Len(q) - 1 : from(i) = m
  <2>1. ASSUME NEW m \in 1 .. Len(q), m # k
        PROVE  \E i \in 1 .. Len(q) - 1 : from(i) = m
    <3>1. CASE m < k
      BY <1>1, <2>1, <3>1
    <3>2. CASE m > k
      <4>1. m - 1 \in 1 .. Len(q) - 1 /\ from(m - 1) = m
        BY <1>1, <2>1, <3>2
      <4> QED  BY <4>1
    <3> QED  BY <1>1, <2>1, <3>1, <3>2
  <2>2. \A i \in 1 .. Len(q) - 1 : /\ from(i) \in 1 .. Len(q) /\ from(i) # k
                                   /\ r[i] = q[from(i)]
    BY <1>1, <1>2
  <2>3. \A i, j \in 1 .. Len(q) - 1 : i < j => from(i) < from(j)
    BY <1>1
  <2> QED  BY <2>1, <2>2, <2>3
<1>5. /\ \A i \in 1 .. Len(q) : q[i] \in S
      /\ \A c \in S : \E i \in 1 .. Len(q) : q[i] = c
      /\ \A i, j \in 1 .. Len(q) : i < j => arrival[q[i]] < arrival[q[j]]
  BY <1>1 DEF Lists, Range
<1>6. \A i, j \in 1 .. Len(q) : q[i] = q[j] => i = j
  <2> SUFFICES ASSUME NEW i \in 1 .. Len(q), NEW j \in 1 .. Len(q), q[i] = q[j], i # j
               PROVE  FALSE
    OBVIOUS
  <2>1. arrival[q[i]] \in Nat /\ arrival[q[i]] = arrival[q[j]]
    BY <1>5 DEF Queued
  <2>2. i < j \/ j < i
    BY <1>1
  <2> QED  BY <1>5, <2>1, <2>2
<1> HIDE DEF from
<1>7. Range(r) = S \ {q[k]}
  <2>1. ASSUME NEW c \in Range(r) PROVE c \in S \ {q[k]}
    <3>1. PICK i \in 1 .. Len(q) - 1 : r[i] = c
      BY <1>3 DEF Range
    <3> QED  BY <1>4, <1>5, <1>6, <3>1
  <2>2. ASSUME NEW c \in S \ {q[k]} PROVE c \in Range(r)
    <3>1. PICK m \in 1 .. Len(q) : q[m] = c /\ m # k
      BY <1>5
    <3>2. PICK i \in 1 .. Len(q) - 1 : from(i) = m
      BY <1>4, <3>1
    <3>3. r[i] = c
      BY <1>4, <3>1, <3>2
    <3> QED  BY <1>3, <3>3 DEF Range
  <2> QED  BY <2>1, <2>2
<1>8. ASSUME NEW i \in DOMAIN r, NEW j \in DOMAIN r, i < j
      PROVE  arrival[r[i]] < arrival[r[j]]
  <2>1. i \in 1 .. Len(q) - 1 /\ j \in 1 .. Len(q) - 1
    BY <1>3
  <2>2. /\ from(i) \in 1 .. Len(q) /\ from(j) \in 1 .. Len(q) /\ from(i) < from(j)
        /\ r[i] = q[from(i)] /\ r[j] = q[from(j)]
    BY <1>4, <1>8, <2>1
  <2> QED  BY <1>5, <2>2
<1>9. \A i \in 1 .. Len(q) - 1 : i < k => r[i] = q[i]
  BY <1>2
<1> QED  BY <1>2, <1>7, <1>8, <1>9 DEF Lists, r

\* The calls that wait can be listed in their order: a call is at the place
\* that is the number of calls up to it.
LEMMA InOrderLists ==
  ASSUME Queued
  PROVE  InOrder \in Seq(Call) /\ Lists(InOrder, waiting)
<1> DEFINE n == Cardinality(waiting)
           upTo(c) == {d \in waiting : arrival[d] <= arrival[c]}
           rank == [c \in waiting |-> Cardinality(upTo(c))]
<1>1. IsFiniteSet(waiting) /\ n \in Nat
  <2> DEFINE at == [c \in waiting |-> arrival[c]]
  <2>1. at \in [waiting -> 0 .. next]
    BY DEF Queued
  <2>2. \A c, d \in waiting : at[c] = at[d] => c = d
    BY DEF Queued
  <2>3. at \in Injection(waiting, 0 .. next)
    BY <2>1, <2>2 DEF Injection, IsInjective
  <2>4. IsFiniteSet(0 .. next)
    BY FS_Interval DEF Queued
  <2> HIDE DEF at
  <2>5. IsFiniteSet(waiting)
    BY <2>3, <2>4, FS_Injection
  <2> QED  BY <2>5, FS_CardinalityType
<1>2. ASSUME NEW c \in waiting
      PROVE  /\ c \in upTo(c) /\ upTo(c) \in SUBSET waiting /\ IsFiniteSet(upTo(c))
             /\ Cardinality(upTo(c)) \in 1 .. n
  <2>1. c \in upTo(c) /\ upTo(c) \in SUBSET waiting
    BY DEF Queued
  <2> HIDE DEF upTo
  <2>2. IsFiniteSet(upTo(c)) /\ Cardinality(upTo(c)) <= n
    <3>1. PICK u : u = upTo(c)
      OBVIOUS
    <3>2. IsFiniteSet(waiting) /\ u \in SUBSET waiting
      BY <1>1, <2>1, <3>1
    <3>3. IsFiniteSet(u) /\ Cardinality(u) <= Cardinality(waiting)
      BY <3>2, FS_Subset
    <3> QED  BY <3>1, <3>3
  <2>3. Cardinality(upTo(c)) \in Nat /\ Cardinality(upTo(c)) # 0
    BY <2>1, <2>2, FS_EmptySet, FS_CardinalityType
  <2> HIDE DEF n
  <2> QED  BY <1>1, <2>1, <2>2, <2>3
<1>3. ASSUME NEW c \in waiting, NEW d \in waiting, arrival[c] < arrival[d]
      PROVE  Cardinality(upTo(c)) < Cardinality(upTo(d))
  <2>1. upTo(c) \in SUBSET upTo(d) /\ d \notin upTo(c)
    BY <1>3 DEF Queued
  <2> HIDE DEF upTo, n
  <2>2. /\ IsFiniteSet(upTo(d)) /\ d \in upTo(d)
        /\ Cardinality(upTo(c)) \in Nat /\ Cardinality(upTo(d)) \in Nat
    BY <1>1, <1>2
  <2>3. /\ Cardinality(upTo(c)) <= Cardinality(upTo(d))
        /\ Cardinality(upTo(c)) # Cardinality(upTo(d))
    BY <2>1, <2>2, FS_Subset
  <2> QED  BY <2>2, <2>3
<1>4. rank \in [waiting -> 1 .. n] /\ \A c \in waiting : rank[c] = Cardinality(upTo(c))
  BY <1>2
<1> HIDE DEF rank, upTo
<1>5. \A c, d \in waiting : rank[c] = rank[d] => c = d
  <2> SUFFICES ASSUME NEW c \in waiting, NEW d \in waiting, rank[c] = rank[d], c # d
               PROVE  FALSE
    OBVIOUS
  <2>1. arrival[c] \in Nat /\ arrival[d] \in Nat /\ arrival[c] # arrival[d]
    BY DEF Queued
  <2>2. rank[c] \in Nat
    BY <1>1, <1>4
  <2>3. CASE arrival[c] < arrival[d]
    BY <1>3, <1>4, <2>2, <2>3
  <2>4. CASE arrival[d] < arrival[c]
    BY <1>3, <1>4, <2>2, <2>4
  <2> QED  BY <2>1, <2>3, <2>4
<1>6. \A i \in 1 .. n : \E c \in waiting : rank[c] = i
  <2>1. rank \in Injection(waiting, 1 .. n)
    BY <1>4, <1>5 DEF Injection, IsInjective
  <2>2. IsFiniteSet(1 .. n) /\ Cardinality(1 .. n) = n
    <3>1. n \in Int /\ 1 \in Int /\ (IF 1 > n THEN 0 ELSE n - 1 + 1) = n
      BY <1>1
    <3> HIDE DEF n
    <3> QED  BY <3>1, FS_Interval
  <2>3. rank \in Surjection(waiting, 1 .. n)
    BY <2>1, <2>2, FS_Injection
  <2> QED  BY <2>3 DEF Surjection
<1>7. PICK q \in [1 .. n -> waiting] : \A i \in 1 .. n : rank[q[i]] = i
  <2>1. [i \in 1 .. n |-> CHOOSE c \in waiting : rank[c] = i] \in [1 .. n -> waiting]
    BY <1>6
  <2>2. \A i \in 1 .. n : rank[CHOOSE c \in waiting : rank[c] = i] = i
    BY <1>6
  <2> QED  BY <2>1, <2>2
<1>8. Lists(q, waiting)
  <2>1. Range(q) = waiting
    <3>1. ASSUME NEW c \in waiting PROVE c \in Range(q)
      <4>1. rank[c] \in 1 .. n /\ q[rank[c]] \in waiting /\ rank[q[rank[c]]] = rank[c]
        BY <1>4, <1>7
      <4>2. q[rank[c]] = c
        BY <1>5, <4>1
      <4> QED  BY <1>7, <4>1, <4>2 DEF Range
    <3> QED  BY <1>7, <3>1 DEF Range
  <2>2. ASSUME NEW i \in 1 .. n, NEW j \in 1 .. n, i < j
        PROVE  arrival[q[i]] < arrival[q[j]]
    <3>1. /\ q[i] \in waiting /\ q[j] \in waiting /\ rank[q[i]] = i /\ rank[q[j]] = j
          /\ i \in Nat /\ j \in Nat
      BY <1>1, <1>7
    <3>2. arrival[q[i]] \in Nat /\ arrival[q[j]] \in Nat /\ q[i] # q[j]
      BY <2>2, <3>1 DEF Queued
    <3>3. arrival[q[i]] # arrival[q[j]]
      BY <3>1, <3>2 DEF Queued
    <3>4. ~ (arrival[q[j]] < arrival[q[i]])
      BY <1>3, <1>4, <2>2, <3>1
    <3> QED  BY <3>2, <3>3, <3>4
  <2> QED  BY <1>7, <2>1, <2>2 DEF Lists
<1>9. InOrder \in [1 .. n -> waiting] /\ Lists(InOrder, waiting)
  BY <1>7, <1>8 DEF InOrder
<1>10. InOrder \in [1 .. n -> Call]
  BY <1>9 DEF Queued
<1> QED  BY <1>1, <1>9, <1>10, SeqDef DEF n

LEMMA PushEffect ==
  ASSUME NEW T, NEW x \in T, NEW q \in Seq(T)
  PROVE  <<x>> \o q \in Seq(T) /\ Len(<<x>> \o q) = Len(q) + 1
<1>1. PICK p \in Seq(T) : p = <<x>> /\ Len(p) = 1
  <2>1. <<x>> \in Seq(T) /\ Len(<<x>>) = 1
    OBVIOUS
  <2> QED  BY <2>1, Zenon
<1>2. p \o q \in Seq(T) /\ Len(p \o q) = Len(p) + Len(q) /\ Len(q) \in Nat
  BY ConcatProperties
<1> QED  BY <1>1, <1>2

\* What one iteration does: nothing once the drain has ended, the return to the
\* loop before, or one of the three things a loop does with a call.
LEMMA IterateCases ==
  ASSUME NEW s \in LoopState, NEW ready, NEW stopped,
         NEW t, t = Iterate(s, ready, stopped)
  PROVE  /\ t \in LoopState
         /\ \/ Ended(s) /\ t = s
            \/ /\ Over(s) /\ Len(t.outer) = Len(s.outer) - 1 /\ s.outer # <<>>
               /\ t.queue = s.queue /\ t.running = s.running
            \/ /\ ~Over(s) /\ s.index \in 1 .. Len(s.queue)
               /\ TurnOf[s.queue[s.index]] \in stopped
               /\ t.queue = RemoveAt(s.queue, s.index) /\ t.running = s.running
               /\ t.index = 1 /\ Len(t.outer) = Len(s.outer) + 1
            \/ /\ ~Over(s) /\ s.index \in 1 .. Len(s.queue)
               /\ TurnOf[s.queue[s.index]] \notin stopped
               /\ Blocked(s, s.queue[s.index], ready)
               /\ t.queue = s.queue /\ t.running = s.running
               /\ t.index = s.index + 1 /\ t.outer = s.outer
            \/ /\ ~Over(s) /\ s.index \in 1 .. Len(s.queue)
               /\ TurnOf[s.queue[s.index]] \notin stopped
               /\ ~Blocked(s, s.queue[s.index], ready)
               /\ t.queue = RemoveAt(s.queue, s.index)
               /\ t.running = s.running \cup {s.queue[s.index]}
               /\ t.index = s.index /\ t.outer = s.outer
<1>1. /\ s.queue \in Seq(Call) /\ Len(s.queue) \in Nat /\ s.running \subseteq Call
      /\ s.index \in Nat \ {0} /\ s.outer \in Seq(Nat \ {0}) /\ Len(s.outer) \in Nat
      /\ s = [queue |-> s.queue, running |-> s.running, index |-> s.index, outer |-> s.outer]
  BY DEF LoopState
<1>2. CASE Over(s) /\ s.outer = <<>>
  BY <1>2 DEF Iterate, Ended
<1>3. CASE Over(s) /\ s.outer # <<>>
  <2>1. /\ Head(s.outer) \in Nat \ {0} /\ Tail(s.outer) \in Seq(Nat \ {0})
        /\ Len(Tail(s.outer)) = Len(s.outer) - 1
    BY <1>1, <1>3, HeadTailProperties
  <2>2. t = [s EXCEPT !.index = Head(s.outer), !.outer = Tail(s.outer)]
    BY <1>3 DEF Iterate
  <2>3. /\ t.queue = s.queue /\ t.running = s.running /\ t.outer = Tail(s.outer)
        /\ t \in LoopState
    BY <2>1, <2>2 DEF LoopState
  <2> QED  BY <1>3, <2>1, <2>3
<1>4. CASE ~Over(s)
  <2>1. PICK k \in 1 .. Len(s.queue) : k = s.index
    BY <1>1, <1>4 DEF Over
  <2>2. PICK job \in Call : job = s.queue[k]
    BY <1>1, <2>1
  <2>3. PICK rest \in Seq(Call) : rest = RemoveAt(s.queue, k)
    BY <1>1, SpliceEffect
  <2>4. t = IF TurnOf[job] \in stopped
            THEN [s EXCEPT !.queue = rest, !.index = 1, !.outer = <<k>> \o s.outer]
            ELSE IF Blocked(s, job, ready)
            THEN [s EXCEPT !.index = k + 1]
            ELSE [s EXCEPT !.queue = rest, !.running = s.running \cup {job}]
    BY <1>4, <2>1, <2>2, <2>3 DEF Iterate, Visit
  <2>5. CASE TurnOf[job] \in stopped
    <3>1. k \in Nat \ {0}
      BY <1>1, <2>1
    <3>2. PICK o \in Seq(Nat \ {0}) : o = <<k>> \o s.outer /\ Len(o) = Len(s.outer) + 1
      BY <1>1, <3>1, PushEffect
    <3>3. t = [s EXCEPT !.queue = rest, !.index = 1, !.outer = o]
      BY <2>4, <2>5, <3>2
    <3>a. t = [queue |-> rest, running |-> s.running, index |-> 1, outer |-> o]
      BY <1>1, <3>3
    <3>4. /\ t \in LoopState /\ t.queue = rest /\ t.running = s.running
          /\ t.index = 1 /\ t.outer = o
      BY <1>1, <3>a DEF LoopState
    <3> QED  BY <1>4, <2>1, <2>2, <2>3, <2>5, <3>2, <3>4
  <2>6. CASE TurnOf[job] \notin stopped /\ Blocked(s, job, ready)
    <3>1. t = [s EXCEPT !.index = k + 1] /\ k + 1 \in Nat \ {0}
      BY <1>1, <2>1, <2>4, <2>6
    <3>2. /\ t \in LoopState /\ t.queue = s.queue /\ t.running = s.running
          /\ t.index = k + 1 /\ t.outer = s.outer
      BY <3>1 DEF LoopState
    <3> QED  BY <1>4, <2>1, <2>2, <2>6, <3>2
  <2>7. CASE TurnOf[job] \notin stopped /\ ~Blocked(s, job, ready)
    <3>1. t = [s EXCEPT !.queue = rest, !.running = s.running \cup {job}]
      BY <2>4, <2>7
    <3>2. /\ t \in LoopState /\ t.queue = rest /\ t.running = s.running \cup {job}
          /\ t.index = s.index /\ t.outer = s.outer
      BY <1>1, <3>1 DEF LoopState
    <3> QED  BY <1>4, <2>1, <2>2, <2>3, <2>7, <3>2
  <2> QED  BY <2>5, <2>6, <2>7
<1> QED  BY <1>2, <1>3, <1>4
-----------------------------------------------------------------------------
(* What the loops have done so far. *)

Unstopped(stopped) == {c \in waiting : TurnOf[c] \notin stopped}
Starts(active, ready, stopped) ==
  Startable(Unstopped(stopped), active, arrival, ready)
Stays(active, ready, stopped) ==
  Unstopped(stopped) \ Starts(active, ready, stopped)

\* Only calls that are to start have started, and they are out of the queue; only
\* stopped calls have been cancelled.  The calls a loop has passed stay, and so
\* do those that are before a call that has started.
LoopInv(s, left, begun, active, ready, stopped) ==
  /\ s \in LoopState /\ left \subseteq waiting /\ Lists(s.queue, left)
  /\ begun \subseteq Starts(active, ready, stopped) /\ s.running = active \cup begun
  /\ left \cap begun = {} /\ Unstopped(stopped) \subseteq left \cup begun
  /\ \A d \in left, e \in begun :
       arrival[d] < arrival[e] => d \in Stays(active, ready, stopped)
  /\ \A p \in 1 .. Len(s.queue) :
       p < s.index => s.queue[p] \in Stays(active, ready, stopped)

LEMMA LoopInvStep ==
  ASSUME Queued, NEW s, NEW left, NEW begun, NEW active, NEW ready, NEW stopped,
         LoopInv(s, left, begun, active, ready, stopped)
  PROVE  \E left2, begun2 :
           LoopInv(Iterate(s, ready, stopped), left2, begun2, active, ready, stopped)
<1>1. PICK t : t = Iterate(s, ready, stopped)
  OBVIOUS
<1>2. PICK live, starts, stays :
        /\ live = Unstopped(stopped) /\ starts = Starts(active, ready, stopped)
        /\ stays = Stays(active, ready, stopped) /\ stays = live \ starts
        /\ starts \subseteq live /\ live \subseteq waiting
        /\ \A c \in live : c \in starts <=>
             /\ c \in ready
             /\ \A d \in active : ~Conflict(d, c)
             /\ \A d \in live : arrival[d] < arrival[c] => ~Conflict(d, c)
  <2>1. Unstopped(stopped) \subseteq waiting
    BY DEF Unstopped
  <2>2. /\ Starts(active, ready, stopped) \subseteq Unstopped(stopped)
        /\ \A c \in Unstopped(stopped) : c \in Starts(active, ready, stopped) <=>
             /\ c \in ready
             /\ \A d \in active : ~Conflict(d, c)
             /\ \A d \in Unstopped(stopped) : arrival[d] < arrival[c] => ~Conflict(d, c)
    BY DEF Starts, Startable
  <2>3. Stays(active, ready, stopped) = Unstopped(stopped) \ Starts(active, ready, stopped)
    BY DEF Stays
  <2> QED  BY <2>1, <2>2, <2>3
<1>3. /\ s \in LoopState /\ left \subseteq waiting /\ Lists(s.queue, left)
      /\ begun \subseteq starts /\ s.running = active \cup begun
      /\ left \cap begun = {} /\ live \subseteq left \cup begun
      /\ \A d \in left, e \in begun : arrival[d] < arrival[e] => d \in stays
      /\ \A p \in 1 .. Len(s.queue) : p < s.index => s.queue[p] \in stays
  BY <1>2 DEF LoopInv
<1>4. /\ s.queue \in Seq(Call) /\ Len(s.queue) \in Nat /\ DOMAIN s.queue = 1 .. Len(s.queue)
      /\ s.index \in Nat \ {0}
      /\ \A p \in 1 .. Len(s.queue) : s.queue[p] \in left
      /\ \A c \in left : \E p \in 1 .. Len(s.queue) : s.queue[p] = c
      /\ \A p, r \in 1 .. Len(s.queue) : p < r => arrival[s.queue[p]] < arrival[s.queue[r]]
  <2>1. s.queue \in Seq(Call) /\ s.index \in Nat \ {0}
    BY <1>3 DEF LoopState
  <2>2. Len(s.queue) \in Nat /\ DOMAIN s.queue = 1 .. Len(s.queue)
    BY <2>1
  <2> QED  BY <1>3, <2>1, <2>2 DEF Lists, Range
<1>5. /\ t \in LoopState
      /\ \/ Ended(s) /\ t = s
         \/ /\ Over(s) /\ Len(t.outer) = Len(s.outer) - 1 /\ s.outer # <<>>
            /\ t.queue = s.queue /\ t.running = s.running
         \/ /\ ~Over(s) /\ s.index \in 1 .. Len(s.queue)
            /\ TurnOf[s.queue[s.index]] \in stopped
            /\ t.queue = RemoveAt(s.queue, s.index) /\ t.running = s.running
            /\ t.index = 1 /\ Len(t.outer) = Len(s.outer) + 1
         \/ /\ ~Over(s) /\ s.index \in 1 .. Len(s.queue)
            /\ TurnOf[s.queue[s.index]] \notin stopped
            /\ Blocked(s, s.queue[s.index], ready)
            /\ t.queue = s.queue /\ t.running = s.running
            /\ t.index = s.index + 1 /\ t.outer = s.outer
         \/ /\ ~Over(s) /\ s.index \in 1 .. Len(s.queue)
            /\ TurnOf[s.queue[s.index]] \notin stopped
            /\ ~Blocked(s, s.queue[s.index], ready)
            /\ t.queue = RemoveAt(s.queue, s.index)
            /\ t.running = s.running \cup {s.queue[s.index]}
            /\ t.index = s.index /\ t.outer = s.outer
  BY <1>1, <1>3, IterateCases
<1> SUFFICES \E left2, begun2 :
       /\ t \in LoopState /\ left2 \subseteq waiting /\ Lists(t.queue, left2)
       /\ begun2 \subseteq starts /\ t.running = active \cup begun2
       /\ left2 \cap begun2 = {} /\ live \subseteq left2 \cup begun2
       /\ \A d \in left2, e \in begun2 : arrival[d] < arrival[e] => d \in stays
       /\ \A p \in 1 .. Len(t.queue) : p < t.index => t.queue[p] \in stays
  BY <1>1, <1>2 DEF LoopInv
<1>6. CASE Ended(s) /\ t = s
  BY <1>3, <1>6
<1>7. CASE Over(s) /\ t.queue = s.queue /\ t.running = s.running
  <2>1. \A p \in 1 .. Len(t.queue) : t.queue[p] \in stays
    BY <1>3, <1>4, <1>7 DEF Over
  <2> QED  BY <1>3, <1>5, <1>7, <2>1
<1>8. CASE s.index \in 1 .. Len(s.queue)
  <2>1. PICK k \in 1 .. Len(s.queue), job \in left : k = s.index /\ job = s.queue[k]
    BY <1>4, <1>8
  <2>2. job \in left /\ job \in waiting /\ arrival[job] \in Nat
    BY <1>3, <1>4, <2>1 DEF Queued
  <2>3. \A d \in left : arrival[d] < arrival[job] => d \in stays
    <3> SUFFICES ASSUME NEW d \in left, arrival[d] < arrival[job] PROVE d \in stays
      OBVIOUS
    <3>1. PICK p \in 1 .. Len(s.queue) : s.queue[p] = d
      BY <1>4
    <3>2. arrival[d] \in Nat
      BY <1>3 DEF Queued
    <3>3. ~ (k < p) /\ p # k
      BY <1>4, <2>1, <2>2, <3>1, <3>2
    <3>4. p < s.index
      BY <1>4, <2>1, <3>1, <3>3
    <3> QED  BY <1>3, <3>1, <3>4
  <2>4. PICK rest : /\ rest = RemoveAt(s.queue, k) /\ rest \in Seq(Call)
                    /\ Len(rest) = Len(s.queue) - 1 /\ Lists(rest, left \ {job})
                    /\ \A p \in 1 .. Len(s.queue) - 1 : p < k => rest[p] = s.queue[p]
    <3>1. left \in SUBSET waiting
      BY <1>3
    <3>2. PICK q \in Seq(Call) : q = s.queue
      BY <1>4
    <3>3. k \in 1 .. Len(q) /\ Lists(q, left) /\ q[k] = job
      BY <1>3, <2>1, <3>2
    <3>4. /\ RemoveAt(q, k) \in Seq(Call) /\ Len(RemoveAt(q, k)) = Len(q) - 1
          /\ Lists(RemoveAt(q, k), left \ {q[k]})
          /\ \A p \in 1 .. Len(q) - 1 : p < k => RemoveAt(q, k)[p] = q[p]
      BY <3>1, <3>3, SpliceLists
    <3> QED  BY <3>2, <3>3, <3>4
  <2>5. \A p \in 1 .. Len(rest) : p < k => rest[p] \in stays
    <3> SUFFICES ASSUME NEW p \in 1 .. Len(rest), p < k PROVE rest[p] \in stays
      OBVIOUS
    <3>1. p \in 1 .. Len(s.queue) - 1 /\ p \in 1 .. Len(s.queue) /\ p < s.index
      BY <1>4, <2>1, <2>4
    <3> QED  BY <1>3, <2>4, <3>1
  <2>6. CASE /\ TurnOf[job] \in stopped
             /\ t.queue = rest /\ t.running = s.running /\ t.index = 1
    <3>1. job \notin live
      BY <1>2, <2>6 DEF Unstopped
    <3>2. \A p \in 1 .. Len(rest) : ~ (p < 1)
      BY <1>4, <2>4
    <3>3. \A p \in 1 .. Len(t.queue) : p < t.index => t.queue[p] \in stays
      BY <2>6, <3>2
    <3> DEFINE left2 == left \ {job}
    <3>4. /\ left2 \subseteq waiting /\ Lists(t.queue, left2)
          /\ left2 \cap begun = {} /\ live \subseteq left2 \cup begun
          /\ \A d \in left2, e \in begun : arrival[d] < arrival[e] => d \in stays
          /\ t.running = active \cup begun /\ begun \subseteq starts
      BY <1>3, <2>4, <2>6, <3>1
    <3> HIDE DEF left2
    <3> QED  BY <1>5, <3>3, <3>4
  <2>7. CASE /\ TurnOf[job] \notin stopped /\ Blocked(s, job, ready)
             /\ t.queue = s.queue /\ t.running = s.running /\ t.index = k + 1
    <3>1. job \in live
      BY <1>2, <2>2, <2>7 DEF Unstopped
    <3>2. job \notin starts
      <4>1. CASE job \notin ready
        BY <1>2, <3>1, <4>1
      <4>2. CASE \E a \in s.running : Conflict(a, job)
        <5>1. PICK a \in active \cup begun : Conflict(a, job)
          BY <1>3, <4>2
        <5>2. CASE a \in active
          BY <1>2, <3>1, <5>1, <5>2
        <5>3. CASE a \in begun
          <6>1. a \in live /\ a \in waiting /\ a # job /\ arrival[a] \in Nat
            BY <1>2, <1>3, <2>2, <5>3 DEF Queued
          <6>2. arrival[a] # arrival[job]
            BY <2>2, <6>1 DEF Queued
          <6>3. CASE arrival[a] < arrival[job]
            BY <1>2, <3>1, <5>1, <6>1, <6>3
          <6>4. CASE arrival[job] < arrival[a]
            BY <1>2, <1>3, <2>2, <5>3, <6>4
          <6> QED  BY <2>2, <6>1, <6>2, <6>3, <6>4
        <5> QED  BY <5>1, <5>2, <5>3
      <4>3. CASE \E i \in 1 .. s.index - 1 : Conflict(s.queue[i], job)
        <5>1. PICK i \in 1 .. s.index - 1 : Conflict(s.queue[i], job)
          BY <4>3
        <5>2. i \in 1 .. Len(s.queue) /\ i < k
          BY <1>4, <2>1
        <5>3. s.queue[i] \in live /\ arrival[s.queue[i]] < arrival[job]
          BY <1>2, <1>3, <1>4, <2>1, <5>2
        <5> QED  BY <1>2, <3>1, <5>1, <5>3
      <4> QED  BY <2>7, <4>1, <4>2, <4>3 DEF Blocked
    <3>3. ASSUME NEW p \in 1 .. Len(t.queue), p < t.index PROVE t.queue[p] \in stays
      <4>1. p < s.index \/ p = k
        BY <1>4, <2>1, <2>7, <3>3
      <4> QED  BY <1>2, <1>3, <2>1, <2>7, <3>1, <3>2, <3>3, <4>1
    <3> QED  BY <1>3, <1>5, <2>7, <3>3
  <2>8. CASE /\ TurnOf[job] \notin stopped /\ ~Blocked(s, job, ready)
             /\ t.queue = rest /\ t.running = s.running \cup {job} /\ t.index = k
    <3>1. job \in live
      BY <1>2, <2>2, <2>8 DEF Unstopped
    <3>2. /\ job \in ready
          /\ \A a \in active \cup begun : ~Conflict(a, job)
          /\ \A i \in 1 .. k - 1 : ~Conflict(s.queue[i], job)
      BY <1>3, <2>1, <2>8 DEF Blocked
    <3>3. ASSUME NEW d \in live, arrival[d] < arrival[job] PROVE ~Conflict(d, job)
      <4>1. CASE d \in begun
        BY <3>2, <4>1
      <4>2. CASE d \in left
        <5>1. PICK p \in 1 .. Len(s.queue) : s.queue[p] = d
          BY <1>4, <4>2
        <5>2. arrival[d] \in Nat
          BY <1>3, <4>2 DEF Queued
        <5>3. ~ (k < p) /\ p # k
          BY <1>4, <2>1, <2>2, <3>3, <5>1, <5>2
        <5>4. p \in 1 .. k - 1
          BY <1>4, <2>1, <5>1, <5>3
        <5> QED  BY <3>2, <5>1, <5>4
      <4> QED  BY <1>3, <4>1, <4>2
    <3>4. job \in starts
      BY <1>2, <3>1, <3>2, <3>3
    <3> DEFINE left2 == left \ {job}
               begun2 == begun \cup {job}
    <3>5. /\ left2 \subseteq waiting /\ Lists(t.queue, left2) /\ begun2 \subseteq starts
          /\ t.running = active \cup begun2
          /\ left2 \cap begun2 = {} /\ live \subseteq left2 \cup begun2
      BY <1>3, <2>4, <2>8, <3>4
    <3>6. \A d \in left2, e \in begun2 : arrival[d] < arrival[e] => d \in stays
      BY <1>3, <2>3
    <3>7. \A p \in 1 .. Len(t.queue) : p < t.index => t.queue[p] \in stays
      BY <2>5, <2>8
    <3> HIDE DEF left2, begun2
    <3> QED  BY <1>5, <3>5, <3>6, <3>7
  <2>9. ~Over(s)
    BY <1>4, <1>8 DEF Over
  <2>10. \/ /\ TurnOf[job] \in stopped
            /\ t.queue = rest /\ t.running = s.running /\ t.index = 1
         \/ /\ TurnOf[job] \notin stopped /\ Blocked(s, job, ready)
            /\ t.queue = s.queue /\ t.running = s.running /\ t.index = k + 1
         \/ /\ TurnOf[job] \notin stopped /\ ~Blocked(s, job, ready)
            /\ t.queue = rest /\ t.running = s.running \cup {job} /\ t.index = k
    BY <1>5, <2>1, <2>4, <2>9 DEF Ended
  <2> QED  BY <2>6, <2>7, <2>8, <2>10
<1> QED  BY <1>5, <1>6, <1>7, <1>8

\* A set of numbers that has zero and the successor of each of its members
\* has them all.
LEMMA NatSet ==
  ASSUME NEW G \in SUBSET Nat, 0 \in G, \A k \in G : k + 1 \in G
  PROVE  \A k \in Nat : k \in G
<1> DEFINE T == Nat \ G
<1> SUFFICES ASSUME T # {} PROVE FALSE  OBVIOUS
<1>1. PICK m \in T : \A y \in T : ~ (<<y, m>> \in OpToRel(<, Nat))
  BY NatLessThanWellFounded, WFMin, T \subseteq Nat
<1>2. m # 0 /\ m \in Nat  OBVIOUS
<1>3. m - 1 \in Nat /\ m - 1 < m /\ (m - 1) + 1 = m  BY <1>2
<1>4. m - 1 \notin T  BY <1>1, <1>2, <1>3 DEF OpToRel
<1>5. QED  BY <1>3, <1>4
-----------------------------------------------------------------------------
(* How long the loops can go on. *)

LEMMA Times ==
  \A a, m \in Nat : a * m \in Nat /\ a * (m + 1) = a * m + a
OBVIOUS

\* What the loops of a queue of at most n calls have before them: the calls in the
\* queue weigh more than the loops that wait, and those more than the calls ahead.
Work(s, n) ==
  (2 * n) * Len(s.queue) + (n + 1) * Len(s.outer)
    + (IF Over(s) THEN 0 ELSE Len(s.queue) + 1 - s.index)

LEMMA WorkShrinks ==
  ASSUME NEW n \in Nat, NEW s \in LoopState, NEW ready, NEW stopped,
         NEW t, t = Iterate(s, ready, stopped), Len(s.queue) <= n
  PROVE  /\ t \in LoopState /\ Len(t.queue) <= n
         /\ Work(s, n) \in Nat /\ Work(t, n) \in Nat
         /\ (Ended(s) /\ t = s) \/ Work(t, n) < Work(s, n)
<1> DEFINE a == 2 * n
           b == n + 1
           ahead(u) == IF Over(u) THEN 0 ELSE Len(u.queue) + 1 - u.index
<1>1. a \in Nat /\ b \in Nat /\ a = n + n /\ b = n + 1
  OBVIOUS
<1>2. ASSUME NEW u \in LoopState, Len(u.queue) <= n
      PROVE  /\ Len(u.queue) \in Nat /\ Len(u.outer) \in Nat /\ u.index \in Nat \ {0}
             /\ ahead(u) \in 0 .. Len(u.queue) /\ (~Over(u) => ahead(u) # 0)
             /\ Work(u, n) = a * Len(u.queue) + b * Len(u.outer) + ahead(u)
             /\ Work(u, n) \in Nat
  <2>1. /\ Len(u.queue) \in Nat /\ Len(u.outer) \in Nat /\ u.index \in Nat \ {0}
    BY DEF LoopState
  <2>2. ahead(u) \in 0 .. Len(u.queue) /\ (~Over(u) => ahead(u) # 0)
    BY <2>1 DEF Over
  <2>3. Work(u, n) = a * Len(u.queue) + b * Len(u.outer) + ahead(u)
    BY DEF Work
  <2> HIDE DEF a, b, ahead
  <2>4. a * Len(u.queue) \in Nat /\ b * Len(u.outer) \in Nat
    BY <1>1, <2>1, Times
  <2> QED  BY <2>1, <2>2, <2>3, <2>4
<1>3. /\ t \in LoopState
      /\ \/ Ended(s) /\ t = s
         \/ /\ Over(s) /\ Len(t.outer) = Len(s.outer) - 1 /\ s.outer # <<>>
            /\ t.queue = s.queue
         \/ /\ ~Over(s) /\ s.index \in 1 .. Len(s.queue)
            /\ t.queue = RemoveAt(s.queue, s.index)
            /\ t.index = 1 /\ Len(t.outer) = Len(s.outer) + 1
         \/ /\ ~Over(s) /\ s.index \in 1 .. Len(s.queue)
            /\ t.queue = s.queue /\ t.index = s.index + 1 /\ t.outer = s.outer
         \/ /\ ~Over(s) /\ s.index \in 1 .. Len(s.queue)
            /\ t.queue = RemoveAt(s.queue, s.index)
            /\ t.index = s.index /\ t.outer = s.outer
  <2> HIDE DEF a, b, ahead
  <2> QED  BY IterateCases
<1>4. s.index \in 1 .. Len(s.queue) => Len(RemoveAt(s.queue, s.index)) = Len(s.queue) - 1
  <2>1. s.queue \in Seq(Call)
    BY DEF LoopState
  <2> HIDE DEF a, b, ahead
  <2> QED  BY <2>1, SpliceEffect
<1>5. Len(t.queue) <= n
  <2>1. Len(s.queue) \in Nat
    BY <1>2
  <2> HIDE DEF a, b, ahead
  <2> QED  BY <1>3, <1>4, <2>1
<1>6. /\ Len(s.queue) \in Nat /\ Len(s.outer) \in Nat /\ s.index \in Nat \ {0}
      /\ ahead(s) \in 0 .. Len(s.queue) /\ (~Over(s) => ahead(s) # 0)
      /\ Work(s, n) = a * Len(s.queue) + b * Len(s.outer) + ahead(s)
      /\ Work(s, n) \in Nat
  BY <1>2
<1>7. /\ Len(t.queue) \in Nat /\ Len(t.outer) \in Nat /\ t.index \in Nat \ {0}
      /\ ahead(t) \in 0 .. Len(t.queue) /\ (~Over(t) => ahead(t) # 0)
      /\ Work(t, n) = a * Len(t.queue) + b * Len(t.outer) + ahead(t)
      /\ Work(t, n) \in Nat
  BY <1>2, <1>3, <1>5
<1>8. /\ \A m \in Nat : a * m \in Nat /\ a * (m + 1) = a * m + a
      /\ \A m \in Nat : b * m \in Nat /\ b * (m + 1) = b * m + b
  <2> HIDE DEF a, b
  <2> QED  BY <1>1, Times
<1>9. CASE Over(s) /\ Len(t.outer) = Len(s.outer) - 1 /\ t.queue = s.queue
  <2>1. b * Len(s.outer) = b * Len(t.outer) + b
    <3>1. Len(s.outer) = Len(t.outer) + 1
      BY <1>6, <1>7, <1>9
    <3> HIDE DEF a, b, ahead
    <3> QED  BY <1>7, <1>8, <3>1
  <2>2. PICK x \in Nat, y \in Nat : x = a * Len(s.queue) /\ y = b * Len(t.outer)
    <3> HIDE DEF a, b, ahead
    <3> QED  BY <1>6, <1>7, <1>8
  <2>3. Work(s, n) = x + (y + b) + ahead(s) /\ Work(t, n) = x + y + ahead(t)
    <3> HIDE DEF a, b, ahead
    <3> QED  BY <1>6, <1>7, <1>9, <2>1, <2>2
  <2>4. ahead(t) <= n /\ ahead(t) \in Nat /\ ahead(s) \in Nat
    <3> HIDE DEF a, b, ahead
    <3> QED  BY <1>5, <1>6, <1>7
  <2> HIDE DEF a, b, ahead
  <2>5. Work(t, n) < Work(s, n)
    BY <1>1, <2>3, <2>4
  <2> QED  BY <1>3, <1>5, <1>6, <1>7, <2>5
<1>10. CASE /\ ~Over(s) /\ Len(t.queue) = Len(s.queue) - 1
            /\ t.index = 1 /\ Len(t.outer) = Len(s.outer) + 1
  <2>1. /\ a * Len(s.queue) = a * Len(t.queue) + a
        /\ b * Len(t.outer) = b * Len(s.outer) + b
    <3>1. Len(s.queue) = Len(t.queue) + 1
      BY <1>6, <1>7, <1>10
    <3> HIDE DEF a, b, ahead
    <3> QED  BY <1>6, <1>7, <1>8, <1>10, <3>1
  <2>2. PICK x \in Nat, y \in Nat : x = a * Len(t.queue) /\ y = b * Len(s.outer)
    <3> HIDE DEF a, b, ahead
    <3> QED  BY <1>6, <1>7, <1>8
  <2>3. Work(s, n) = (x + a) + y + ahead(s) /\ Work(t, n) = x + (y + b) + ahead(t)
    <3> HIDE DEF a, b, ahead
    <3> QED  BY <1>6, <1>7, <2>1, <2>2
  <2>4. ahead(t) <= n - 1 /\ ahead(t) \in Nat /\ ahead(s) \in Nat /\ ahead(s) >= 1
    <3> HIDE DEF a, b, ahead
    <3> QED  BY <1>5, <1>6, <1>7, <1>10
  <2> HIDE DEF a, b, ahead
  <2>5. Work(t, n) < Work(s, n)
    BY <1>1, <2>3, <2>4
  <2> QED  BY <1>3, <1>5, <1>6, <1>7, <2>5
<1>11. CASE /\ ~Over(s) /\ t.queue = s.queue /\ t.index = s.index + 1 /\ t.outer = s.outer
  <2>1. ahead(t) < ahead(s)
    BY <1>6, <1>7, <1>11 DEF Over
  <2>2. PICK x \in Nat, y \in Nat : x = a * Len(s.queue) /\ y = b * Len(s.outer)
    <3> HIDE DEF a, b, ahead
    <3> QED  BY <1>6, <1>8
  <2>3. Work(s, n) = x + y + ahead(s) /\ Work(t, n) = x + y + ahead(t)
    <3> HIDE DEF a, b, ahead
    <3> QED  BY <1>6, <1>7, <1>11, <2>2
  <2> HIDE DEF a, b, ahead
  <2> QED  BY <1>3, <1>5, <1>6, <1>7, <2>1, <2>3
<1>12. CASE /\ ~Over(s) /\ Len(t.queue) = Len(s.queue) - 1
            /\ t.index = s.index /\ t.outer = s.outer
  <2>1. a * Len(s.queue) = a * Len(t.queue) + a
    <3>1. Len(s.queue) = Len(t.queue) + 1
      BY <1>6, <1>7, <1>12
    <3> HIDE DEF a, b, ahead
    <3> QED  BY <1>7, <1>8, <3>1
  <2>2. PICK x \in Nat, y \in Nat : x = a * Len(t.queue) /\ y = b * Len(s.outer)
    <3> HIDE DEF a, b, ahead
    <3> QED  BY <1>6, <1>7, <1>8
  <2>3. Work(s, n) = (x + a) + y + ahead(s) /\ Work(t, n) = x + y + ahead(t)
    <3> HIDE DEF a, b, ahead
    <3> QED  BY <1>6, <1>7, <1>12, <2>1, <2>2
  <2>4. ahead(t) <= n - 1 /\ ahead(t) \in Nat /\ ahead(s) \in Nat /\ ahead(s) >= 1
    <3> HIDE DEF a, b, ahead
    <3> QED  BY <1>5, <1>6, <1>7, <1>12
  <2> HIDE DEF a, b, ahead
  <2>5. Work(t, n) < Work(s, n)
    BY <1>1, <2>3, <2>4
  <2> QED  BY <1>3, <1>5, <1>6, <1>7, <2>5
<1> HIDE DEF a, b, ahead
<1> QED  BY <1>3, <1>4, <1>5, <1>6, <1>7, <1>9, <1>10, <1>11, <1>12
-----------------------------------------------------------------------------
\* The drain is the result of its iterations, one by one.
LEMMA DrainedIterates ==
  ASSUME NEW queue, NEW active, NEW ready, NEW stopped,
         NEW last \in Nat, last = MaxIterations(Len(queue))
  PROVE  \E after :
           /\ after[0] = [queue |-> queue, running |-> active, index |-> 1, outer |-> <<>>]
           /\ \A k \in 1 .. last : after[k] = Iterate(after[k - 1], ready, stopped)
           /\ Drained(queue, active, ready, stopped) = after[last]
<1> DEFINE first == [queue |-> queue, running |-> active, index |-> 1, outer |-> <<>>]
           Iterates(k, f) ==
             f = [i \in 0 .. k |-> IF i = 0 THEN first
                                   ELSE Iterate(f[i - 1], ready, stopped)]
<1>1. PICK one : one = first
  OBVIOUS
<1>2. \A k \in Nat : \E f : Iterates(k, f)
  <2> DEFINE G == {k \in Nat : \E f : Iterates(k, f)}
  <2>1. 0 \in G
    <3>1. PICK f : f = [i \in 0 .. 0 |-> first]
      OBVIOUS
    <3>2. \A i \in 0 .. 0 : i = 0
      OBVIOUS
    <3>3. Iterates(0, f)
      BY <3>1, <3>2
    <3> QED  BY <3>3
  <2>2. ASSUME NEW k \in G PROVE k + 1 \in G
    <3>1. PICK f : Iterates(k, f)
      OBVIOUS
    <3>2. PICK g : g = [i \in 0 .. k + 1 |->
                          IF i = k + 1 THEN Iterate(f[k], ready, stopped) ELSE f[i]]
      OBVIOUS
    <3>3. ASSUME NEW i \in 0 .. k + 1
          PROVE  g[i] = IF i = 0 THEN first ELSE Iterate(g[i - 1], ready, stopped)
      <4>1. CASE i = 0
        BY <3>1, <3>2, <4>1
      <4>2. CASE i = k + 1
        <5>1. i - 1 = k /\ k \in 0 .. k + 1 /\ k # k + 1
          BY <4>2
        <5>2. g[i - 1] = f[k]
          BY <3>2, <5>1
        <5> QED  BY <3>2, <4>2, <5>2
      <4>3. CASE i # 0 /\ i # k + 1
        <5>1. i \in 0 .. k /\ i - 1 \in 0 .. k /\ i - 1 \in 0 .. k + 1 /\ i - 1 # k + 1
          BY <4>3
        <5>2. g[i] = f[i] /\ g[i - 1] = f[i - 1]
          BY <3>2, <4>3, <5>1
        <5> QED  BY <3>1, <4>3, <5>1, <5>2
      <4> QED  BY <4>1, <4>2, <4>3
    <3>4. Iterates(k + 1, g)
      BY <3>2, <3>3
    <3> QED  BY <3>4
  <2> HIDE DEF G
  <2>3. \A k \in Nat : k \in G
    BY <2>1, <2>2, NatSet, G \subseteq Nat DEF G
  <2> QED  BY <2>3 DEF G
<1>3. PICK after : /\ Iterates(last, after)
                   /\ Drained(queue, active, ready, stopped) = after[last]
  <2> DEFINE after == CHOOSE f : Iterates(last, f)
  <2>1. Iterates(last, after)
    BY <1>2
  <2>2. Drained(queue, active, ready, stopped) = after[last]
    BY DEF Drained
  <2> QED  BY <2>1, <2>2
<1>4. /\ 0 \in 0 .. last
      /\ \A k \in 1 .. last : k \in 0 .. last /\ k # 0
  OBVIOUS
<1> QED  BY <1>3, <1>4

\* From any queue that occurs the loops end, having started the calls that are to
\* start and cancelled the stopped ones; the others stay, in their order.
LEMMA DrainedEffect ==
  ASSUME Queued, NEW queue \in Seq(Call), Lists(queue, waiting),
         NEW active \in SUBSET Call, NEW ready, NEW stopped,
         NEW s, s = Drained(queue, active, ready, stopped)
  PROVE  /\ Ended(s)
         /\ s.running = active \cup Starts(active, ready, stopped)
         /\ Lists(s.queue, Stays(active, ready, stopped))
<1> DEFINE n == Len(queue)
<1>1. /\ n \in Nat /\ MaxIterations(n) \in Nat
      /\ MaxIterations(n) = (2 * n) * n + n /\ (n + 1) * 0 = 0
  <2>1. n \in Nat
    OBVIOUS
  <2> HIDE DEF n
  <2> QED  BY <2>1 DEF MaxIterations
<1>2. PICK last \in Nat : last = MaxIterations(n) /\ last = (2 * n) * n + n
  BY <1>1
<1>3. PICK after :
        /\ after[0] = [queue |-> queue, running |-> active, index |-> 1, outer |-> <<>>]
        /\ \A k \in 1 .. last : after[k] = Iterate(after[k - 1], ready, stopped)
        /\ s = after[last]
  <2>1. last = MaxIterations(Len(queue))
    BY <1>2
  <2>2. \E after :
          /\ after[0] = [queue |-> queue, running |-> active, index |-> 1, outer |-> <<>>]
          /\ \A k \in 1 .. last : after[k] = Iterate(after[k - 1], ready, stopped)
          /\ Drained(queue, active, ready, stopped) = after[last]
    BY <2>1, DrainedIterates
  <2> QED  BY <2>2
<1> DEFINE Good(u, k) ==
             /\ \E left, begun : LoopInv(u, left, begun, active, ready, stopped)
             /\ u \in LoopState /\ Len(u.queue) <= n
             /\ Ended(u) \/ Work(u, n) + k <= last
<1>4. Good(after[0], 0)
  <2>1. PICK u : u = after[0]
    OBVIOUS
  <2>2. /\ u = [queue |-> queue, running |-> active, index |-> 1, outer |-> <<>>]
        /\ <<>> \in Seq(Nat \ {0}) /\ Len(<<>>) = 0
    BY <1>3, <2>1
  <2>3. u \in LoopState /\ u.queue = queue /\ u.running = active /\ u.index = 1 /\ u.outer = <<>>
    BY <2>2 DEF LoopState
  <2>4. LoopInv(u, waiting, {}, active, ready, stopped)
    <3>1. \A p \in 1 .. Len(u.queue) : ~ (p < u.index)
      BY <2>3
    <3> QED  BY <2>3, <3>1 DEF LoopInv, Unstopped
  <2>5. Work(u, n) = last
    <3>1. (IF Over(u) THEN 0 ELSE Len(u.queue) + 1 - u.index) = n
      BY <1>1, <2>3 DEF Over
    <3>2. Work(u, n) = (2 * n) * n + (n + 1) * 0 + n
      BY <2>2, <2>3, <3>1 DEF Work
    <3> HIDE DEF n
    <3> QED  BY <1>1, <1>2, <3>2
  <2> QED  BY <1>1, <2>1, <2>3, <2>4, <2>5
<1>5. \A k \in Nat : k <= last => Good(after[k], k)
  <2> DEFINE G == {k \in Nat : k <= last => Good(after[k], k)}
  <2>1. 0 \in G
    BY <1>4
  <2>2. ASSUME NEW k \in G PROVE k + 1 \in G
    <3> SUFFICES ASSUME k + 1 <= last PROVE Good(after[k + 1], k + 1)
      OBVIOUS
    <3>1. k + 1 \in 1 .. last /\ k <= last /\ k \in Nat /\ (k + 1) - 1 = k
      OBVIOUS
    <3>2. PICK u, t : u = after[k] /\ t = after[k + 1]
      OBVIOUS
    <3>3. Good(u, k)
      BY <3>1, <3>2
    <3>4. t = Iterate(u, ready, stopped)
      BY <1>3, <3>1, <3>2
    <3>5. \E left, begun : LoopInv(t, left, begun, active, ready, stopped)
      BY <3>3, <3>4, LoopInvStep
    <3> HIDE DEF n
    <3>6. /\ t \in LoopState /\ Len(t.queue) <= n
          /\ Work(u, n) \in Nat /\ Work(t, n) \in Nat
          /\ (Ended(u) /\ t = u) \/ Work(t, n) < Work(u, n)
      BY <1>1, <3>3, <3>4, WorkShrinks
    <3>7. Ended(t) \/ Work(t, n) + (k + 1) <= last
      <4>1. CASE Ended(u) /\ t = u
        BY <4>1
      <4>2. CASE Work(t, n) < Work(u, n) /\ ~Ended(u)
        <5>1. Work(u, n) + k <= last
          BY <3>3, <4>2
        <5> QED  BY <3>1, <3>6, <4>2, <5>1
      <4>3. CASE Work(t, n) < Work(u, n) /\ Ended(u)
        <5>1. t = u
          BY <3>4, <4>3 DEF Iterate, Ended
        <5> QED  BY <4>3, <5>1
      <4> QED  BY <3>6, <4>1, <4>2, <4>3
    <3> QED  BY <3>2, <3>5, <3>6, <3>7
  <2> HIDE DEF G
  <2>3. \A k \in Nat : k \in G
    BY <2>1, <2>2, NatSet, G \subseteq Nat DEF G
  <2> QED  BY <2>3 DEF G
<1>6. Good(s, last)
  BY <1>3, <1>5
<1>7. Ended(s)
  <2>1. PICK t : t = Iterate(s, ready, stopped)
    OBVIOUS
  <2> HIDE DEF n
  <2>2. /\ Work(s, n) \in Nat /\ Work(t, n) \in Nat
        /\ (Ended(s) /\ t = s) \/ Work(t, n) < Work(s, n)
    BY <1>1, <1>6, <2>1, WorkShrinks
  <2>3. Ended(s) \/ Work(s, n) + last <= last
    BY <1>6
  <2> QED  BY <2>2, <2>3
<1>8. PICK left, begun : LoopInv(s, left, begun, active, ready, stopped)
  BY <1>6
<1> HIDE DEF n, Good
<1>9. \A c \in left : c \in Stays(active, ready, stopped)
  <2>1. /\ Range(s.queue) = left /\ s.queue \in Seq(Call) /\ s.index \in Nat
        /\ s.index > Len(s.queue)
    BY <1>7, <1>8 DEF LoopInv, LoopState, Lists, Ended, Over
  <2>2. \A p \in 1 .. Len(s.queue) : s.queue[p] \in Stays(active, ready, stopped)
    <3>1. \A p \in 1 .. Len(s.queue) : p < s.index
      BY <2>1
    <3> QED  BY <1>8, <3>1 DEF LoopInv
  <2>3. DOMAIN s.queue = 1 .. Len(s.queue)
    BY <2>1
  <2> QED  BY <2>1, <2>2, <2>3 DEF Range
<1>10. begun = Starts(active, ready, stopped) /\ left = Stays(active, ready, stopped)
  <2>1. Starts(active, ready, stopped) \subseteq Unstopped(stopped)
    BY DEF Starts, Startable
  <2> QED  BY <1>8, <1>9, <2>1 DEF LoopInv, Stays
<1> QED  BY <1>7, <1>8, <1>10 DEF LoopInv

\* The set of calls that ToolScheduler starts is the one the loops start.
LEMMA QueuedDrains ==
  ASSUME Queued, running \subseteq Call
  PROVE  DrainStartsStartable
<1>1. PICK queue \in Seq(Call) : queue = InOrder /\ Lists(queue, waiting)
  BY InOrderLists
<1>2. ASSUME NEW active \in SUBSET running, NEW ready \in SUBSET waiting,
             NEW stopped \in SUBSET Turn, NEW s, s = Drained(queue, active, ready, stopped)
      PROVE  /\ Ended(s)
             /\ s.running = active \cup Starts(active, ready, stopped)
             /\ Lists(s.queue, Stays(active, ready, stopped))
  BY <1>1, <1>2, DrainedEffect
<1> QED  BY <1>1, <1>2 DEF DrainStartsStartable, Starts, Stays, Unstopped

\* From every queue that occurs the loop of drain, which splices the queue it goes
\* over and calls itself for a cancelled call, ends, and starts and leaves the
\* calls that Startable says, whatever ends, passes and stops before it
\* (tool-execution-scheduler.ts:133).
THEOREM LoopStartsStartable == Spec => []DrainStartsStartable
<1>1. IInv => DrainStartsStartable
  <2> SUFFICES ASSUME IInv PROVE DrainStartsStartable
    OBVIOUS
  <2>1. waiting \subseteq Call /\ running \subseteq Call
    BY DEF IInv, TypeOK
  <2>2. Queued
    BY <2>1 DEF IInv, TypeOK, Ordered, Queued
  <2> QED  BY <2>1, <2>2, QueuedDrains
<1> QED  BY <1>1, SchedulerInvariant, PTL
=============================================================================
