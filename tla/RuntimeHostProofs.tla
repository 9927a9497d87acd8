------------------------- MODULE RuntimeHostProofs -------------------------
(***************************************************************************)
(* The slot of RuntimeHost, for any inputs and any number of retries: who  *)
(* owns the foreground, what a stop has set, and whose driver runs.        *)
(***************************************************************************)
EXTENDS RuntimeHost, FiniteSetTheorems, TLAPS

\* The parts of the state the slot's invariants speak of have their types.
SlotType ==
  /\ gen \in Nat /\ activeRun \in Gen \cup {0}
  /\ processing \in BOOLEAN /\ stop \in BOOLEAN /\ timer \in BOOLEAN
  /\ settled \in {"none", "failed", "done"}
  /\ turn \in [Gen -> {"none", "preparing", "ready", "driving", "detached", "over"}]
  /\ run \in [Gen -> {"none", "open", "left", "closed"}]
  /\ released \in {"no", "closing", "gone"}

\* The run of the slot is the one that is open, it belongs to the current
\* generation, and a current turn that goes on has it.
Owned ==
  /\ activeRun # 0 => activeRun = gen /\ processing /\ released # "gone"
  /\ \A g \in Gen : run[g] = "open" <=> activeRun = g
  /\ \A g \in Gen : turn[g] \in {"ready", "driving"} /\ IsCurrent(g) /\ processing
                      => activeRun = g

\* Nothing has finished a turn that is in the foreground.
Unsettled == processing /\ released # "gone" => settled = "none"

IInv == SlotType /\ Owned /\ Unsettled /\ StopHasDeadline

\* What finish does to the slot of a turn it finishes, and of one it does not.
GivenUp ==
  /\ processing' = FALSE /\ stop' = FALSE /\ activeRun' = 0 /\ timer' = FALSE
  /\ settled' \in {"failed", "done"}
  /\ run' \in [Gen -> {"none", "open", "left", "closed"}]
  /\ \A g \in Gen : run'[g] # "open"

Kept == UNCHANGED <<processing, stop, activeRun, settled, timer, run>>

\* The generations are positive.
LEMMA GenIsPositive == Gen \subseteq Nat \ {0}
  <1>1. Cardinality(Input) \in Nat
    BY HostAssumption, FS_CardinalityType
  <1> QED BY <1>1, HostAssumption DEF Gen

\* finish settles the run of the slot whatever the ledger answers.
LEMMA FinishEffect ==
  ASSUME IInv, NEW g, Finish(g)
  PROVE  (Finishes(g) /\ GivenUp) \/ (~Finishes(g) /\ Kept)
  <1>1. CASE ~Finishes(g)
    BY <1>1 DEF Finish, Kept
  <1>2. CASE Finishes(g) /\ activeRun = 0
    BY <1>2, GenIsPositive DEF Finish, GivenUp, IInv, SlotType, Owned
  <1>3. CASE Finishes(g) /\ activeRun # 0
    <2>1. PICK result \in {<<"closed", "done">>, <<"left", "done">>, <<"left", "failed">>} :
            run' = [run EXCEPT ![activeRun] = result[1]] /\ settled' = result[2]
      BY <1>3 DEF Finish
    <2>2. result[1] \in {"closed", "left"} /\ result[2] \in {"failed", "done"}
      OBVIOUS
    <2> QED BY <1>3, <2>1, <2>2 DEF Finish, GivenUp, IInv, SlotType, Owned
  <1> QED BY <1>1, <1>2, <1>3

\* A slot that is given up keeps the invariant, whatever becomes of the turns.
LEMMA GivingUpStep ==
  ASSUME IInv, GivenUp, gen' = gen, SlotType'
  PROVE  IInv'
  BY GenIsPositive DEF IInv, GivenUp, SlotType, Owned, Unsettled, StopHasDeadline, IsCurrent

\* A handler that leaves the slot alone keeps the invariant when turns only end.
LEMMA KeepingStep ==
  ASSUME IInv, Kept, gen' = gen, released' = released, SlotType',
         \A g \in Gen : turn'[g] = turn[g] \/ turn'[g] \notin {"ready", "driving"}
  PROVE  IInv'
  BY DEF IInv, Kept, SlotType, Owned, Unsettled, StopHasDeadline, IsCurrent

\* The handlers that finish a turn, end it or do neither.
LEMMA FinishStep ==
  ASSUME IInv, NEW g, Finish(g) \/ Kept, gen' = gen, released' = released,
         turn' \in [Gen -> {"none", "preparing", "ready", "driving", "detached", "over"}],
         \A h \in Gen : turn'[h] = turn[h] \/ turn'[h] \notin {"ready", "driving"}
  PROVE  IInv'
  <1>1. CASE GivenUp
    BY <1>1, GivingUpStep, GenIsPositive DEF GivenUp, IInv, SlotType
  <1>2. CASE Kept
    BY <1>2, KeepingStep DEF Kept, IInv, SlotType
  <1> QED BY <1>1, <1>2, FinishEffect
-----------------------------------------------------------------------------
\* Handlers that only touch admissions, the queue or a retry.
LEMMA AsideStep ==
  ASSUME IInv, UNCHANGED <<gen, processing, stop, activeRun, settled, timer, released, turns>>
  PROVE  IInv'
  BY KeepingStep DEF turns, Kept, IInv, SlotType

\* Before a turn begins no run is open, so recovery closes none.
LEMMA BeginStep ==
  ASSUME IInv, NEW e, Begin(e), Recover \/ UNCHANGED run
  PROVE  IInv'
  <1>1. /\ run' \in [Gen -> {"none", "open", "left", "closed"}]
        /\ \A g \in Gen : run'[g] # "open"
    <2>1. \A g \in Gen : run[g] # "open"
      BY GenIsPositive DEF Begin, IInv, Owned
    <2>2. CASE UNCHANGED run
      BY <2>1, <2>2 DEF IInv, SlotType
    <2>3. CASE Recover
      BY <2>1, <2>3 DEF Recover, IInv, SlotType
    <2> QED BY <2>2, <2>3
  <1>2. SlotType'
    <2>1. turn' \in [Gen -> {"none", "preparing", "ready", "driving", "detached", "over"}]
      BY DEF Begin, IInv, SlotType
    <2>2. processing' \in BOOLEAN /\ stop' \in BOOLEAN /\ timer' \in BOOLEAN
      BY Zenon DEF Begin, IInv, SlotType
    <2>3. /\ gen' = gen + 1 /\ activeRun' = 0 /\ settled' = "none"
          /\ released' = released
      BY DEF Begin
    <2>4. gen' \in Nat /\ activeRun' \in (Gen \cup {0})' /\ released' \in {"no", "closing", "gone"}
      BY <2>3 DEF IInv, SlotType, Gen
    <2> QED BY <1>1, <2>1, <2>2, <2>3, <2>4 DEF SlotType
  <1>3. \A g \in Gen : turn'[g] \in {"ready", "driving"} => g # gen'
    BY DEF Begin, IInv, SlotType
  <1>4. Owned'
    BY <1>1, <1>3, GenIsPositive DEF Begin, Owned, IsCurrent
  <1> QED BY <1>2, <1>4 DEF Begin, IInv, Unsettled, StopHasDeadline

LEMMA AdmitFreeStep ==
  ASSUME IInv, AdmitFree
  PROVE  IInv'
  <1> DEFINE e == Head(chain)
  <1>1. CASE Begin(e)
    BY <1>1, BeginStep DEF AdmitFree
  <1>2. CASE activeRun' = 0 /\ UNCHANGED <<gen, processing, stop, settled, timer, turn, released>>
    <2>1. \A g \in Gen : run[g] # "open"
      BY GenIsPositive DEF AdmitFree, IInv, Owned
    <2>2. /\ run' \in [Gen -> {"none", "open", "left", "closed"}]
          /\ \A g \in Gen : run'[g] # "open"
      BY <2>1 DEF AdmitFree, Recover, IInv, SlotType
    <2> QED
      BY <1>2, <2>2, GenIsPositive
      DEF AdmitFree, IInv, SlotType, Owned, Unsettled, StopHasDeadline, IsCurrent
  <1> QED BY <1>1, <1>2 DEF AdmitFree, auth, past

LEMMA AdmitBusyStep ==
  ASSUME IInv, AdmitBusy
  PROVE  IInv'
  BY AsideStep DEF AdmitBusy, Recover, slot, turns

LEMMA AdmissionFailsStep ==
  ASSUME IInv, AdmissionFails
  PROVE  IInv'
  <1>1. Finish(Head(chain).of) \/ Kept
    BY DEF AdmissionFails, Kept
  <1> QED BY <1>1, FinishStep DEF AdmissionFails, IInv, SlotType

LEMMA AcceptedStep ==
  ASSUME IInv, NEW g \in Gen, Accepted(g)
  PROVE  IInv'
  BY GenIsPositive
  DEF Accepted, IInv, SlotType, Owned, Unsettled, StopHasDeadline, IsCurrent

LEMMA TurnFailsStep ==
  ASSUME IInv, NEW g \in Gen, TurnFails(g)
  PROVE  IInv'
  BY FinishStep DEF TurnFails, IInv, SlotType

LEMMA DriveStep ==
  ASSUME IInv, NEW g \in Gen, Drive(g)
  PROVE  IInv'
  BY DEF Drive, IInv, SlotType, Owned, Unsettled, StopHasDeadline, IsCurrent

LEMMA LoopEndsStep ==
  ASSUME IInv, NEW g \in Gen, LoopEnds(g)
  PROVE  IInv'
  <1>1. Finish(g) \/ Kept
    BY DEF LoopEnds, Kept
  <1> QED BY <1>1, FinishStep DEF LoopEnds, IInv, SlotType

LEMMA TimerFiresStep ==
  ASSUME IInv, TimerFires
  PROVE  IInv'
  BY FinishStep DEF TimerFires, IInv, SlotType

LEMMA DetachedEndsStep ==
  ASSUME IInv, NEW g \in Gen, DetachedEnds(g)
  PROVE  IInv'
  <1>1. Finish(g) \/ Kept
    BY DEF DetachedEnds, Kept
  <1> QED BY <1>1, FinishStep DEF DetachedEnds, IInv, SlotType

\* A stop sets the deadline of what is in the foreground.
LEMMA StopStep ==
  ASSUME IInv, NEW advanceQueue, RequestStop(advanceQueue),
         UNCHANGED <<gen, processing, activeRun, settled, turns>>,
         released' = released \/ (released = "no" /\ released' = "closing")
  PROVE  IInv'
  BY DEF RequestStop, turns, IInv, SlotType, Owned, Unsettled, StopHasDeadline, IsCurrent

LEMMA RetryStartsStep ==
  ASSUME IInv, NEW g \in Gen, RetryStarts(g)
  PROVE  IInv'
  <1>1. CASE ~IsCurrent(g)
    BY <1>1, AsideStep DEF RetryStarts, slot, turns
  <1>2. CASE IsCurrent(g) /\ driving # 0
    BY <1>2, StopStep DEF RetryStarts
  <1>3. CASE IsCurrent(g) /\ driving = 0 /\ Finishes(g)
    BY <1>3, FinishStep DEF RetryStarts, IInv, SlotType
  <1>4. CASE IsCurrent(g) /\ driving = 0 /\ ~Finishes(g)
    <2>1. ~processing
      BY <1>4 DEF Finishes, IsCurrent, IInv, Unsettled
    <2> QED
      BY <1>4, <2>1
      DEF RetryStarts, IInv, SlotType, Owned, Unsettled, StopHasDeadline, IsCurrent
  <1> QED BY <1>1, <1>2, <1>3, <1>4

LEMMA DisposalFailsStep ==
  ASSUME IInv, NEW g \in Gen, DisposalFails(g)
  PROVE  IInv'
  <1>1. Finish(g) \/ Kept
    BY DEF DisposalFails, Kept
  <1> QED BY <1>1, FinishStep DEF DisposalFails, IInv, SlotType

\* What is in the foreground when the session is released is settled first.
LEMMA ReleasedStep ==
  ASSUME IInv, Released
  PROVE  IInv'
  <1>1. CASE activeRun # 0
    <2>1. Finishes(gen)
      BY <1>1 DEF Released, Finishes, IsCurrent, IInv, Owned, Unsettled
    <2>2. GivenUp
      BY <1>1, <2>1, FinishEffect DEF Released
    <2> QED
      BY <2>2, GivingUpStep DEF GivenUp, Released, IInv, SlotType
  <1>2. CASE activeRun = 0
    BY <1>2
    DEF Released, IInv, SlotType, Owned, Unsettled, StopHasDeadline, IsCurrent
  <1> QED BY <1>1, <1>2
-----------------------------------------------------------------------------
\* The slot's invariant: who owns the foreground and what its stop has set.
THEOREM SlotInvariant == Spec => []IInv
<1>1. Init => IInv
  <2> SUFFICES ASSUME Init PROVE IInv
    OBVIOUS
  <2>1. /\ gen = 0 /\ activeRun = 0 /\ settled = "none" /\ released = "no"
        /\ processing = FALSE /\ stop = FALSE /\ timer = FALSE
    BY DEF Init
  <2>2. turn = [g \in Gen |-> "none"] /\ run = [g \in Gen |-> "none"]
    BY DEF Init
  <2> QED
    BY <2>1, <2>2, GenIsPositive DEF IInv, SlotType, Owned, Unsettled, StopHasDeadline
<1>2. IInv /\ [Next]_vars => IInv'
  <2> SUFFICES ASSUME IInv, [Next]_vars PROVE IInv'
    OBVIOUS
  <2>1. CASE UNCHANGED vars
    BY <2>1, AsideStep DEF vars, slot, turns
  <2>2. CASE Own
    <3>1. CASE AdmitFree
      BY <3>1, AdmitFreeStep
    <3>2. CASE AdmitBusy
      BY <3>2, AdmitBusyStep
    <3>3. CASE Saved
      BY <3>3, BeginStep DEF Saved
    <3>4. CASE Steered \/ Flushed \/ Immediate
      BY <3>4, AsideStep DEF Steered, Flushed, Immediate, slot, turns
    <3>5. CASE AdmissionFails
      BY <3>5, AdmissionFailsStep
    <3>6. CASE TimerFires
      BY <3>6, TimerFiresStep
    <3>7. CASE Released
      BY <3>7, ReleasedStep
    <3>8. ASSUME NEW g \in Gen, Accepted(g) PROVE IInv'
      BY <3>8, AcceptedStep
    <3>9. ASSUME NEW g \in Gen, TurnFails(g) PROVE IInv'
      BY <3>9, TurnFailsStep
    <3>10. ASSUME NEW g \in Gen, Drive(g) PROVE IInv'
      BY <3>10, DriveStep
    <3>11. ASSUME NEW g \in Gen, RetryStarts(g) PROVE IInv'
      BY <3>11, RetryStartsStep
    <3>12. ASSUME NEW g \in Gen, Disposed(g) PROVE IInv'
      BY <3>12, AsideStep DEF Disposed, turns
    <3>13. ASSUME NEW g \in Gen, DisposalFails(g) PROVE IInv'
      BY <3>13, DisposalFailsStep
    <3> QED
      BY <2>2, <3>1, <3>2, <3>3, <3>4, <3>5, <3>6, <3>7, <3>8, <3>9, <3>10, <3>11,
         <3>12, <3>13 DEF Own
  <2>3. CASE Others
    <3>1. ASSUME NEW i \in Input, Arrive(i) PROVE IInv'
      BY <3>1, AsideStep DEF Arrive, slot, turns
    <3>2. ASSUME NEW g \in Gen, AuthError(g) PROVE IInv'
      BY <3>2, AsideStep DEF AuthError, slot, turns
    <3>3. ASSUME NEW g \in Gen, LoopEnds(g) PROVE IInv'
      BY <3>3, LoopEndsStep
    <3>4. ASSUME NEW g \in Gen, DetachedEnds(g) PROVE IInv'
      BY <3>4, DetachedEndsStep
    <3>5. CASE UserStop
      BY <3>5, StopStep DEF UserStop
    <3>6. CASE HandoffStop
      BY <3>6, StopStep DEF HandoffStop
    <3>7. CASE Release
      BY <3>7, StopStep DEF Release
    <3> QED BY <2>3, <3>1, <3>2, <3>3, <3>4, <3>5, <3>6, <3>7 DEF Others
  <2> QED BY <2>1, <2>2, <2>3 DEF Next
<1> QED BY <1>1, <1>2, PTL DEF Spec

\* An open run has the foreground, and a turn that goes on has an open run, however
\* older turns end, fail to commit, are replaced or are released.
THEOREM ForegroundIsOwned == Spec => []ForegroundOwnsItsRun
<1>1. IInv => ForegroundOwnsItsRun
  BY GenIsPositive DEF IInv, SlotType, Owned, ForegroundOwnsItsRun, IsCurrent
<1> QED BY <1>1, SlotInvariant, PTL

\* A stop that was asked for has a deadline for as long as the turn runs.
THEOREM StopsHaveDeadlines == Spec => []StopHasDeadline
<1>1. IInv => StopHasDeadline
  BY DEF IInv
<1> QED BY <1>1, SlotInvariant, PTL
-----------------------------------------------------------------------------
(* Whose driver runs *)

\* Where the retry of a turn stands once the turn is finished to be replaced.
Replacing == {"disposing", "sent", "failed", "dropped"}

DriverInv ==
  /\ turn \in [Gen -> {"none", "preparing", "ready", "driving", "detached", "over"}]
  /\ retry \in [Gen -> {"none", "scheduled", "draining", "disposing",
                        "sent", "failed", "dropped", "superseded"}]
  /\ DriversDoNotOverlap

TurnAndRetryType ==
  /\ turn \in [Gen -> {"none", "preparing", "ready", "driving", "detached", "over"}]
  /\ retry \in [Gen -> {"none", "scheduled", "draining", "disposing",
                        "sent", "failed", "dropped", "superseded"}]

\* A handler that leaves the foreground as it is, and gives no turn a driver.
LEMMA DriverKept ==
  ASSUME DriverInv, TurnAndRetryType', gen' = gen, processing' = processing,
         released = "gone" => released' = "gone",
         \A h \in Gen : turn'[h] = "driving" => turn[h] = "driving",
         \A h \in Gen : retry[h] \in Replacing => retry'[h] \in Replacing
  PROVE  DriverInv'
  BY DEF DriverInv, TurnAndRetryType, DriversDoNotOverlap, Replacing

\* A handler that may finish a turn, if that turn has no driver left or is replaced.
LEMMA DriverEnds ==
  ASSUME DriverInv, TurnAndRetryType', gen' = gen, released' = released,
         NEW g, Kept \/ (Finish(g) /\ (g \in Gen => turn'[g] # "driving" \/ retry'[g] \in Replacing)),
         \A h \in Gen : turn'[h] = "driving" => turn[h] = "driving",
         \A h \in Gen : retry[h] \in Replacing => retry'[h] \in Replacing
  PROVE  DriverInv'
  <1>1. CASE processing' = processing
    BY <1>1, DriverKept
  <1>2. CASE processing' # processing
    <2>1. Finish(g) /\ Finishes(g)
      BY <1>2 DEF Kept, Finish
    <2>2. gen = g
      BY <2>1 DEF Finishes, IsCurrent
    <2>3. ~Kept
      BY <1>2 DEF Kept
    <2> QED
      BY <2>2, <2>3 DEF DriverInv, TurnAndRetryType, DriversDoNotOverlap, Replacing
  <1> QED BY <1>1, <1>2

\* While a driver has the slot nothing begins.
LEMMA DriverBegin ==
  ASSUME DriverInv, NEW e, Begin(e)
  PROVE  DriverInv'
  <1> DEFINE g == gen + 1
  <1>1. /\ ~processing /\ released = "no"
        /\ turn' = [turn EXCEPT ![g] = "preparing"] /\ retry' = retry
    BY DEF Begin
  <1>2. TurnAndRetryType'
    BY <1>1 DEF DriverInv, TurnAndRetryType
  <1>3. \A h \in Gen : turn[h] = "driving" => retry[h] \in Replacing
    BY <1>1 DEF DriverInv, DriversDoNotOverlap, Replacing
  <1>4. \A h \in Gen : turn'[h] = "driving" => retry'[h] \in Replacing
    BY <1>1, <1>3 DEF DriverInv
  <1> QED BY <1>2, <1>4 DEF DriverInv, TurnAndRetryType, DriversDoNotOverlap, Replacing

LEMMA DriverAdmissionFails ==
  ASSUME DriverInv, AdmissionFails
  PROVE  DriverInv'
  <1> DEFINE of == Head(chain).of
  <1>1. \/ Kept /\ retry' = retry
        \/ Finish(of) /\ retry' = [retry EXCEPT ![of] = "failed"]
    BY DEF AdmissionFails, Kept
  <1>2. turn' = turn /\ gen' = gen /\ released' = released
    BY DEF AdmissionFails
  <1>3. TurnAndRetryType'
    BY <1>1, <1>2 DEF DriverInv, TurnAndRetryType
  <1>4. \A h \in Gen : retry[h] \in Replacing => retry'[h] \in Replacing
    BY <1>1 DEF DriverInv, Replacing
  <1>5. Kept \/ (Finish(of) /\ (of \in Gen => turn'[of] # "driving" \/ retry'[of] \in Replacing))
    BY <1>1 DEF DriverInv, Replacing
  <1> QED BY <1>2, <1>3, <1>4, <1>5, DriverEnds

LEMMA DriverTurnFails ==
  ASSUME DriverInv, NEW g \in Gen, TurnFails(g) \/ DetachedEnds(g) \/ LoopEnds(g)
  PROVE  DriverInv'
  <1>1. /\ turn' = [turn EXCEPT ![g] = "over"] /\ gen' = gen /\ released' = released
        /\ Kept \/ Finish(g)
    BY DEF TurnFails, DetachedEnds, LoopEnds, Kept
  <1>2. retry' = retry \/ retry' = [retry EXCEPT ![g] = IF @ = "draining" THEN "disposing" ELSE @]
    BY DEF TurnFails, DetachedEnds, LoopEnds, Drains, auth
  <1>3. TurnAndRetryType'
    BY <1>1, <1>2 DEF DriverInv, TurnAndRetryType
  <1>4. \A h \in Gen : retry[h] \in Replacing => retry'[h] \in Replacing
    BY <1>2 DEF DriverInv, Replacing
  <1> QED BY <1>1, <1>3, <1>4, DriverEnds DEF DriverInv

LEMMA DriverTimerFires ==
  ASSUME DriverInv, TimerFires
  PROVE  DriverInv'
  <1>1. /\ turn' = [turn EXCEPT ![gen] = IF @ = "driving" THEN "detached" ELSE @]
        /\ retry' = [retry EXCEPT ![gen] = IF @ = "draining" THEN "disposing" ELSE @]
        /\ gen' = gen /\ released' = released /\ Finish(gen)
    BY DEF TimerFires, Drains
  <1>2. TurnAndRetryType'
    BY <1>1 DEF DriverInv, TurnAndRetryType
  <1>3. \A h \in Gen : retry[h] \in Replacing => retry'[h] \in Replacing
    BY <1>1 DEF DriverInv, Replacing
  <1> QED BY <1>1, <1>2, <1>3, DriverEnds DEF DriverInv

LEMMA DriverRetryStarts ==
  ASSUME DriverInv, NEW g \in Gen, RetryStarts(g)
  PROVE  DriverInv'
  <1>1. /\ turn' = turn /\ gen' = gen /\ released' = released /\ retry[g] = "scheduled"
        /\ \E where \in {"superseded", "draining", "disposing"} :
             retry' = [retry EXCEPT ![g] = where]
    BY DEF RetryStarts, slot, turns, RequestStop
  <1>2. TurnAndRetryType'
    BY <1>1 DEF DriverInv, TurnAndRetryType
  <1>3. \A h \in Gen : retry[h] \in Replacing => retry'[h] \in Replacing
    BY <1>1 DEF DriverInv, Replacing
  <1>4. CASE processing' = processing
    BY <1>1, <1>2, <1>3, <1>4, DriverKept
  <1>5. CASE processing' # processing
    <2>1. Finish(g) /\ retry' = [retry EXCEPT ![g] = "disposing"]
      BY <1>5 DEF RetryStarts, slot
    <2> QED BY <1>1, <1>2, <1>3, <2>1, DriverEnds DEF DriverInv, Replacing
  <1> QED BY <1>4, <1>5

LEMMA DriverDisposed ==
  ASSUME DriverInv, NEW g \in Gen, Disposed(g) \/ DisposalFails(g)
  PROVE  DriverInv'
  <1>1. /\ turn' = turn /\ gen' = gen /\ released' = released /\ retry[g] = "disposing"
        /\ Kept \/ Finish(g)
        /\ \E where \in {"sent", "failed", "dropped"} : retry' = [retry EXCEPT ![g] = where]
    BY DEF Disposed, DisposalFails, turns, Kept
  <1>2. TurnAndRetryType'
    BY <1>1 DEF DriverInv, TurnAndRetryType
  <1>3. \A h \in Gen : retry[h] \in Replacing => retry'[h] \in Replacing
    BY <1>1 DEF DriverInv, Replacing
  <1>4. retry'[g] \in Replacing
    BY <1>1 DEF DriverInv, Replacing
  <1> QED BY <1>1, <1>2, <1>3, <1>4, DriverEnds

LEMMA DriverReleased ==
  ASSUME DriverInv, Released
  PROVE  DriverInv'
  BY DEF Released, auth, DriverInv, DriversDoNotOverlap

\* The turn that is given a driver, or whose driver reports an error, is the current
\* one and in the foreground.
LEMMA DriverGiven ==
  ASSUME DriverInv, NEW g \in Gen, Drive(g) \/ AuthError(g)
  PROVE  DriverInv'
  <1>1. /\ gen = g /\ gen' = gen /\ processing /\ processing' = processing
        /\ turn' = turn \/ turn' = [turn EXCEPT ![g] = "driving"]
        /\ retry' = retry \/ retry' = [retry EXCEPT ![g] = "scheduled"]
    BY DEF Drive, AuthError, IsCurrent, auth, slot, turns
  <1>2. TurnAndRetryType'
    BY <1>1 DEF DriverInv, TurnAndRetryType
  <1>3. \A h \in Gen \ {g} : turn'[h] = turn[h] /\ retry'[h] = retry[h]
    BY <1>1 DEF DriverInv
  <1>4. \A h \in Gen \ {g} : turn[h] = "driving" => retry[h] \in Replacing
    BY <1>1 DEF DriverInv, DriversDoNotOverlap, Replacing
  <1> QED
    BY <1>1, <1>2, <1>3, <1>4 DEF DriverInv, TurnAndRetryType, DriversDoNotOverlap, Replacing

\* No two turns drive at once, but for turns that are being replaced.
THEOREM DriversAreExclusive == Spec => []DriversDoNotOverlap
<1>1. Init => DriverInv
  BY DEF Init, DriverInv, DriversDoNotOverlap
<1>2. DriverInv /\ [Next]_vars => DriverInv'
  <2> SUFFICES ASSUME DriverInv, [Next]_vars PROVE DriverInv'
    OBVIOUS
  <2>1. CASE UNCHANGED <<gen, processing, turn, retry>> /\ (released = "gone" => released' = "gone")
    BY <2>1, DriverKept DEF DriverInv, TurnAndRetryType
  <2>2. CASE UNCHANGED vars
    BY <2>1, <2>2 DEF vars, slot, turns, auth
  <2>3. CASE Own
    <3>1. CASE AdmitFree \/ AdmitBusy \/ Saved \/ Steered \/ Flushed \/ Immediate
      BY <3>1, <2>1, DriverBegin
      DEF AdmitFree, AdmitBusy, Saved, Steered, Flushed, Immediate, slot, turns, auth
    <3>2. CASE AdmissionFails
      BY <3>2, DriverAdmissionFails
    <3>3. CASE TimerFires
      BY <3>3, DriverTimerFires
    <3>4. CASE Released
      BY <3>4, DriverReleased
    <3>5. ASSUME NEW g \in Gen, Accepted(g) PROVE DriverInv'
      <4>1. /\ turn' = [turn EXCEPT ![g] = "ready"] /\ retry' = retry
            /\ gen' = gen /\ processing' = processing /\ released' = released
        BY <3>5 DEF Accepted, auth
      <4> QED BY <4>1, DriverKept DEF DriverInv, TurnAndRetryType
    <3>6. ASSUME NEW g \in Gen, TurnFails(g) PROVE DriverInv'
      BY <3>6, DriverTurnFails
    <3>7. ASSUME NEW g \in Gen, Drive(g) PROVE DriverInv'
      BY <3>7, DriverGiven
    <3>8. ASSUME NEW g \in Gen, RetryStarts(g) PROVE DriverInv'
      BY <3>8, DriverRetryStarts
    <3>9. ASSUME NEW g \in Gen, Disposed(g) \/ DisposalFails(g) PROVE DriverInv'
      BY <3>9, DriverDisposed
    <3> QED BY <2>3, <3>1, <3>2, <3>3, <3>4, <3>5, <3>6, <3>7, <3>8, <3>9 DEF Own
  <2>4. CASE Others
    <3>1. ASSUME NEW i \in Input, Arrive(i) PROVE DriverInv'
      BY <3>1, <2>1 DEF Arrive, slot, turns, auth
    <3>2. ASSUME NEW g \in Gen, AuthError(g) PROVE DriverInv'
      BY <3>2, DriverGiven
    <3>3. ASSUME NEW g \in Gen, LoopEnds(g) \/ DetachedEnds(g) PROVE DriverInv'
      BY <3>3, DriverTurnFails
    <3>4. CASE UserStop \/ HandoffStop \/ Release
      BY <3>4, <2>1 DEF UserStop, HandoffStop, Release, turns, auth
    <3> QED BY <2>4, <3>1, <3>2, <3>3, <3>4 DEF Others
  <2> QED BY <2>2, <2>3, <2>4 DEF Next
<1>3. DriverInv => DriversDoNotOverlap
  BY DEF DriverInv
<1> QED BY <1>1, <1>2, <1>3, PTL DEF Spec
=============================================================================
