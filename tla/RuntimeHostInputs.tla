------------------------- MODULE RuntimeHostInputs -------------------------
(***************************************************************************)
(* Inputs and ends of turns of RuntimeHost, for any inputs and retries: a  *)
(* busy session has something that ends its turn, an admitted input finds  *)
(* the foreground free, an input has one place, so that one turn gets it:  *)
(* RuntimeHost's queue, an admission, or the turn that runs it; and there  *)
(* are no more turns than inputs and retries.                              *)
(***************************************************************************)
EXTENDS RuntimeHostProofs, SequenceTheorems

RetryState == {"none", "scheduled", "draining", "disposing",
               "sent", "failed", "dropped", "superseded"}

\* The driver the slot waits for is the one of the turn in the foreground.
DriverIsCurrent ==
  driving # 0 => /\ gen \in Gen /\ driving = gen /\ turn[gen] = "driving"
                 /\ processing \/ released = "gone"

\* A retry waits for the driver of the current turn, is dropped when another
\* turn has begun, and has finished its turn before it goes on.
RetriesFollowTurns ==
  \A g \in Gen :
    /\ retry[g] # "none" => g <= gen
    /\ retry[g] = "draining" => /\ g = gen /\ turn[g] = "driving"
                                /\ processing \/ released = "gone"
    /\ retry[g] \in {"superseded", "dropped"} => ~IsCurrent(g)
    /\ retry[g] \in Replacing /\ IsCurrent(g) => ~processing

\* authRetryInProgress is some turn's, though not always the current one's.
RetryingIsOwned ==
  retrying => \E h \in Gen :
    retry[h] \in {"scheduled", "draining", "disposing", "superseded", "dropped"}

\* Admissions: only the head is in progress, a replay is dispatched when there is
\* no other, and a retry that waits belongs to a turn that was finished for it.
ChainOk ==
  /\ chain \in Seq(Admission)
  /\ \A k \in 1 .. Len(chain) :
       /\ k > 1 => chain[k].stage = "waiting" /\ chain[k].kind # "replay"
       /\ chain[k].kind = "retry" /\ chain[k].stage = "waiting"
            => chain[k].of \in Gen /\ retry[chain[k].of] \in {"sent", "failed"}

Contents ==
  /\ queue \in Seq(SUBSET Input) /\ carried \in [Gen -> SUBSET Input]

BusyInv == /\ retry \in [Gen -> RetryState]
           /\ DriverIsCurrent /\ RetriesFollowTurns /\ RetryingIsOwned /\ BusyHasAnOwner

HInv == IInv /\ BusyInv /\ ChainOk /\ Contents /\ AdmittedInputsBegin

\* What handlers do to the admissions.
Gone == chain # <<>> /\ chain' = Tail(chain)
Joins(e) == /\ chain' = Append(chain, e) /\ e \in Admission
            /\ e.stage = "waiting" /\ e.kind # "replay"
Moves(stage, of) == /\ chain # <<>> /\ Move(stage, of)
                    /\ stage \in {"saving", "steering", "flushing", "telling"}
                    /\ of \in Gen \cup {0}
Free == ~processing /\ driving = 0 /\ activeRun = 0
Woken == chain # <<>> /\ chain' = [chain EXCEPT ![Len(chain)].wake = TRUE]

\* All of it; an input is saved, or dispatched from the queue, when the
\* foreground is free.
ChainForm ==
  \/ UNCHANGED chain \/ Gone \/ Woken
  \/ \E stage, of : Moves(stage, of) /\ (stage = "saving" => Free')
  \/ \E e : /\ Joins(e)
            /\ e.kind = "retry" => e.of \in Gen /\ retry'[e.of] \in {"sent", "failed"}
  \/ \E e \in Admission : chain = <<>> /\ chain' = <<e>> /\ e.kind = "replay" /\ Free'

-----------------------------------------------------------------------------
(* The admissions.                                                         *)

LEMMA ChainFacts ==
  ASSUME chain \in Seq(Admission), chain # <<>>
  PROVE  /\ Len(chain) \in Nat /\ Len(chain) > 0 /\ 1 \in 1 .. Len(chain)
         /\ Head(chain) = chain[1] /\ Head(chain) \in Admission
         /\ \A k \in 1 .. Len(chain) : chain[k] \in Admission
  OBVIOUS

\* The head leaves.
LEMMA GoneEffect ==
  ASSUME chain \in Seq(Admission), Gone
  PROVE  /\ chain' \in Seq(Admission) /\ Len(chain') = Len(chain) - 1
         /\ \A k \in 1 .. Len(chain') : k + 1 \in 1 .. Len(chain) /\ chain'[k] = chain[k + 1]
  <1>1. /\ Len(chain) \in Nat /\ Len(chain) > 0
    BY ChainFacts DEF Gone
  <1> QED BY <1>1 DEF Gone

LEMMA JoinsEffect ==
  ASSUME chain \in Seq(Admission), NEW e, Joins(e)
  PROVE  /\ chain' \in Seq(Admission) /\ Len(chain') = Len(chain) + 1
         /\ \A k \in 1 .. Len(chain) : chain'[k] = chain[k]
         /\ chain'[Len(chain) + 1] = e
  BY DEF Joins

LEMMA MovesEffect ==
  ASSUME chain \in Seq(Admission), NEW stage, NEW of, Moves(stage, of)
  PROVE  /\ chain' \in Seq(Admission) /\ Len(chain') = Len(chain)
         /\ chain'[1] = [chain[1] EXCEPT !.stage = stage, !.of = of]
         /\ \A k \in 1 .. Len(chain) : k > 1 => chain'[k] = chain[k]
  <1>1. /\ Len(chain) \in Nat /\ 1 \in 1 .. Len(chain) /\ chain[1] \in Admission
    BY ChainFacts DEF Moves
  <1> DEFINE head == [chain[1] EXCEPT !.stage = stage, !.of = of]
  <1>2. chain' = [chain EXCEPT ![1] = head]
    BY <1>1 DEF Moves, Move, Admission
  <1>3. head \in Admission
    BY <1>1 DEF Moves, Admission
  <1> HIDE DEF head
  <1>4. /\ chain' \in Seq(Admission) /\ Len(chain') = Len(chain) /\ chain'[1] = head
        /\ \A k \in 1 .. Len(chain) : k > 1 => chain'[k] = chain[k]
    BY <1>1, <1>2, <1>3
  <1> QED BY <1>4 DEF head

LEMMA WokenEffect ==
  ASSUME chain \in Seq(Admission), Woken
  PROVE  /\ chain' \in Seq(Admission) /\ Len(chain') = Len(chain)
         /\ \A k \in 1 .. Len(chain) :
              /\ chain'[k].stage = chain[k].stage /\ chain'[k].kind = chain[k].kind
              /\ chain'[k].of = chain[k].of /\ chain'[k].inputs = chain[k].inputs
  <1> DEFINE n == Len(chain)
             last == [chain[n] EXCEPT !.wake = TRUE]
  <1>1. n \in Nat /\ n \in 1 .. n /\ chain[n] \in Admission
    BY ChainFacts DEF Woken
  <1>2. chain' = [chain EXCEPT ![n] = last]
    BY <1>1 DEF Woken
  <1>3. /\ last \in Admission /\ last.stage = chain[n].stage /\ last.kind = chain[n].kind
        /\ last.of = chain[n].of /\ last.inputs = chain[n].inputs
    BY <1>1 DEF Admission
  <1> HIDE DEF last
  <1> QED BY <1>1, <1>2, <1>3

\* Entries of the queue become one admission.
LEMMA ReplayEffect ==
  ASSUME queue \in Seq(SUBSET Input), NEW n \in 1 .. Len(queue)
  PROVE  /\ Replay(n) \in Admission /\ Replay(n).stage = "waiting" /\ Replay(n).kind = "replay"
         /\ \A i : i \in Replay(n).inputs <=> \E k \in 1 .. n : i \in queue[k]
  <1>1. \A k \in 1 .. n : queue[k] \in SUBSET Input
    OBVIOUS
  <1>2. UNION {queue[k] : k \in 1 .. n} \in SUBSET Input
    BY <1>1
  <1> QED BY <1>2 DEF Replay, Admission

\* Whatever becomes of the admissions, they stay in order.
LEMMA ChainStays ==
  ASSUME ChainOk,
         \A g \in Gen : retry[g] \in {"sent", "failed"} => retry'[g] \in {"sent", "failed"},
         ChainForm
  PROVE  ChainOk'
  <1>0. chain \in Seq(Admission) /\ Len(chain) \in Nat
    BY DEF ChainOk
  <1>1. CASE UNCHANGED chain
    BY <1>1 DEF ChainOk
  <1>2. CASE Gone
    <2>1. /\ chain' \in Seq(Admission)
          /\ \A k \in 1 .. Len(chain') : k + 1 \in 1 .. Len(chain) /\ chain'[k] = chain[k + 1]
      BY <1>0, <1>2, GoneEffect
    <2>2. \A k \in 1 .. Len(chain') : k + 1 > 1
      BY <2>1
    <2> QED BY <2>1, <2>2 DEF ChainOk
  <1>3. CASE Woken
    BY <1>0, <1>3, WokenEffect DEF ChainOk
  <1>4. ASSUME NEW stage, NEW of, Moves(stage, of) PROVE ChainOk'
    <2>1. /\ chain' \in Seq(Admission) /\ Len(chain') = Len(chain)
          /\ chain'[1] = [chain[1] EXCEPT !.stage = stage, !.of = of]
          /\ \A k \in 1 .. Len(chain) : k > 1 => chain'[k] = chain[k]
      BY <1>0, <1>4, MovesEffect
    <2>2. chain[1] \in Admission
      BY <1>0, <1>4, ChainFacts DEF Moves
    <2>3. chain'[1].stage # "waiting"
      BY <1>4, <2>1, <2>2 DEF Moves, Admission
    <2> HIDE DEF ChainOk
    <2>4. ASSUME NEW k \in 1 .. Len(chain')
          PROVE  /\ k > 1 => chain'[k].stage = "waiting" /\ chain'[k].kind # "replay"
                 /\ chain'[k].kind = "retry" /\ chain'[k].stage = "waiting"
                      => chain'[k].of \in Gen /\ retry'[chain'[k].of] \in {"sent", "failed"}
      <3>1. CASE k = 1
        BY <2>3, <3>1
      <3>2. CASE k > 1
        BY <2>1, <3>2 DEF ChainOk
      <3> QED BY <1>0, <2>1, <3>1, <3>2
    <2> QED BY <2>1, <2>4 DEF ChainOk
  <1>5. ASSUME NEW e, Joins(e),
               e.kind = "retry" => e.of \in Gen /\ retry'[e.of] \in {"sent", "failed"}
        PROVE  ChainOk'
    <2>1. /\ chain' \in Seq(Admission) /\ Len(chain') = Len(chain) + 1
          /\ \A k \in 1 .. Len(chain) : chain'[k] = chain[k]
          /\ chain'[Len(chain) + 1] = e
      BY <1>0, <1>5, JoinsEffect
    <2>2. \A k \in 1 .. Len(chain') : k \in 1 .. Len(chain) \/ k = Len(chain) + 1
      BY <1>0, <2>1
    <2> QED BY <1>5, <2>1, <2>2 DEF ChainOk, Joins
  <1>6. ASSUME NEW e \in Admission, chain = <<>>, chain' = <<e>>, e.kind = "replay"
        PROVE  ChainOk'
    BY <1>6 DEF ChainOk
  <1> QED BY <1>1, <1>2, <1>3, <1>4, <1>5, <1>6 DEF ChainForm

\* The foreground an admitted input waits for stays free, or the input leaves.
LEMMA AdmittedStays ==
  ASSUME ChainOk, AdmittedInputsBegin, ChainForm, Gone \/ (Free => Free')
  PROVE  AdmittedInputsBegin'
  <1>0. chain \in Seq(Admission) /\ Len(chain) \in Nat
    BY DEF ChainOk
  <1>1. CASE UNCHANGED chain /\ (Free => Free')
    BY <1>1 DEF AdmittedInputsBegin, Free
  <1>2. CASE Gone
    <2>1. /\ chain' \in Seq(Admission)
          /\ \A k \in 1 .. Len(chain') : k + 1 \in 1 .. Len(chain) /\ chain'[k] = chain[k + 1]
      BY <1>0, <1>2, GoneEffect
    <2>2. SUFFICES ASSUME chain' # <<>>
                   PROVE  Head(chain').kind # "replay" /\ Head(chain').stage = "waiting"
      BY DEF AdmittedInputsBegin
    <2>3. 1 \in 1 .. Len(chain') /\ Head(chain') = chain'[1]
      BY <2>1, <2>2
    <2>4. 2 \in 1 .. Len(chain) /\ chain'[1] = chain[2]
      BY <2>1, <2>3
    <2> QED BY <2>3, <2>4 DEF ChainOk
  <1>3. CASE Woken /\ (Free => Free')
    <2>1. chain # <<>> /\ 1 \in 1 .. Len(chain) /\ Head(chain) = chain[1]
      BY <1>0, <1>3, ChainFacts DEF Woken
    <2>2. /\ Head(chain') = chain'[1]
          /\ chain'[1].kind = chain[1].kind
          /\ chain'[1].stage = chain[1].stage
      BY <1>0, <1>3, <2>1, WokenEffect
    <2> QED BY <1>3, <2>1, <2>2 DEF AdmittedInputsBegin, Free
  <1>4. ASSUME NEW stage, NEW of, Moves(stage, of), stage = "saving" => Free', Free => Free'
        PROVE  AdmittedInputsBegin'
    <2>1. /\ chain' \in Seq(Admission) /\ Len(chain') = Len(chain)
          /\ chain'[1] = [chain[1] EXCEPT !.stage = stage, !.of = of]
      BY <1>0, <1>4, MovesEffect
    <2>2. chain[1] \in Admission /\ Head(chain) = chain[1] /\ chain # <<>> /\ Len(chain) > 0
      BY <1>0, <1>4, ChainFacts DEF Moves
    <2>3. Head(chain') = chain'[1]
      BY <2>1, <2>2
    <2>4. chain'[1].kind = chain[1].kind /\ chain'[1].stage = stage
      BY <2>1, <2>2 DEF Admission
    <2> QED BY <1>4, <2>2, <2>3, <2>4 DEF AdmittedInputsBegin, Free
  <1>5. ASSUME NEW e, Joins(e), Free => Free' PROVE AdmittedInputsBegin'
    <2>1. /\ chain' \in Seq(Admission) /\ Len(chain') = Len(chain) + 1
          /\ \A k \in 1 .. Len(chain) : chain'[k] = chain[k]
          /\ chain'[Len(chain) + 1] = e
      BY <1>0, <1>5, JoinsEffect
    <2>2. Head(chain') = chain'[1]
      BY <1>0, <2>1
    <2>3. CASE Len(chain) = 0
      BY <1>5, <2>1, <2>2, <2>3 DEF AdmittedInputsBegin, Joins
    <2>4. CASE Len(chain) > 0
      <3>1. chain # <<>> /\ Head(chain) = chain[1] /\ 1 \in 1 .. Len(chain)
        BY <1>0, <2>4
      <3> QED BY <1>5, <2>1, <2>2, <3>1 DEF AdmittedInputsBegin, Free
    <2> QED BY <1>0, <2>3, <2>4
  <1>6. CASE Free' BY <1>6 DEF AdmittedInputsBegin, Free
  <1> QED BY <1>1, <1>2, <1>3, <1>4, <1>5, <1>6 DEF ChainForm

-----------------------------------------------------------------------------
(* Who ends a turn.                                                        *)

LEMMA GenNumbers ==
  /\ \A g \in Gen : g \in Nat /\ g # 0
  /\ IInv => gen \in Nat
  BY GenIsPositive DEF IInv, SlotType

\* finish leaves nothing in the foreground of the current turn.
LEMMA FinishLeaves ==
  ASSUME IInv, NEW g, Finish(g)
  PROVE  /\ IsCurrent(g) => ~processing' /\ activeRun' = 0
         /\ ~IsCurrent(g) => Kept
         /\ processing' => processing
         /\ activeRun' # 0 => activeRun' = activeRun
  <1>1. (Finishes(g) /\ GivenUp) \/ (~Finishes(g) /\ Kept)
    BY FinishEffect
  <1>2. CASE Finishes(g) /\ GivenUp
    BY <1>2 DEF Finishes, GivenUp
  <1>3. CASE ~Finishes(g) /\ Kept
    <2>1. IsCurrent(g) => ~processing /\ activeRun = 0
      BY <1>3 DEF Finishes, IsCurrent, IInv, Unsettled, Owned
    <2> QED BY <1>3, <2>1 DEF Kept
  <1> QED BY <1>1, <1>2, <1>3

\* Handlers that leave turns, retries and the foreground as they are, or give
\* the foreground up with its driver.
LEMMA BusyAside ==
  ASSUME IInv, BusyInv, UNCHANGED <<gen, processing, driving, turn, retry, retrying>>,
         released' = released \/ (released # "gone" /\ released' \in {"closing", "gone"})
  PROVE  BusyInv'
  <1>1. \A g \in Gen : IsCurrent(g)' => IsCurrent(g)
    BY DEF IsCurrent
  <1>2. released = "gone" => released' = "gone"
    OBVIOUS
  <1>3. DriverIsCurrent'
    BY <1>2 DEF BusyInv, DriverIsCurrent
  <1>4. RetriesFollowTurns'
    BY <1>1, <1>2 DEF BusyInv, RetriesFollowTurns
  <1>5. RetryingIsOwned'
    BY DEF BusyInv, RetryingIsOwned
  <1>6. BusyHasAnOwner'
    BY <1>1 DEF BusyInv, BusyHasAnOwner
  <1> QED BY <1>3, <1>4, <1>5, <1>6 DEF BusyInv

LEMMA BusyBegin ==
  ASSUME IInv, BusyInv, NEW e, Begin(e)
  PROVE  BusyInv'
  <1> DEFINE b == gen + 1
  <1>1. /\ ~processing /\ driving = 0 /\ released = "no" /\ gen' = b /\ processing' = TRUE
        /\ turn' = [turn EXCEPT ![b] = "preparing"]
        /\ retrying' = retrying \/ retrying' = FALSE
        /\ UNCHANGED <<driving, retry, released>>
    BY DEF Begin
  <1>2. /\ gen \in Nat
        /\ turn \in [Gen -> {"none", "preparing", "ready", "driving", "detached", "over"}]
    BY DEF IInv, SlotType
  <1>3. \A g \in Gen : retry[g] # "none" => g <= gen /\ g # b /\ g \in Nat
    BY <1>2, GenNumbers DEF BusyInv, RetriesFollowTurns
  <1>4. \A g \in Gen : retry[g] # "draining"
    BY <1>1 DEF BusyInv, RetriesFollowTurns
  <1>5. RetriesFollowTurns'
    <2> SUFFICES ASSUME NEW g \in Gen, retry[g] # "none"
                 PROVE  /\ g <= b /\ retry[g] # "draining" /\ ~IsCurrent(g)'
      BY <1>1, <1>3 DEF RetriesFollowTurns, Replacing
    <2> QED BY <1>1, <1>2, <1>3, <1>4 DEF IsCurrent
  <1>6. RetryingIsOwned'
    BY <1>1 DEF BusyInv, RetryingIsOwned
  <1>7. BusyHasAnOwner'
    BY <1>1, <1>2 DEF BusyHasAnOwner, IsCurrent
  <1> QED BY <1>1, <1>5, <1>6, <1>7 DEF BusyInv, DriverIsCurrent

LEMMA BusyAdmissionFails ==
  ASSUME IInv, BusyInv, ChainOk, AdmissionFails
  PROVE  BusyInv'
  <1> DEFINE e == Head(chain)
             reported == e.kind = "retry" /\ e.stage = "waiting" /\ IsCurrent(e.of)
  <1>1. UNCHANGED <<gen, driving, turn, released>>
    BY DEF AdmissionFails
  <1>2. CASE ~reported
    <2>1. UNCHANGED <<processing, retry, retrying>>
      BY <1>2 DEF AdmissionFails
    <2> QED BY <1>1, <2>1, BusyAside
  <1>3. CASE reported
    <2>0. /\ e = chain[1] /\ 1 \in 1 .. Len(chain)
          /\ retry[e.of] \in {"sent", "failed"} /\ e.of \in Gen
      <3>1. e = chain[1] /\ 1 \in 1 .. Len(chain)
        BY ChainFacts DEF AdmissionFails, ChainOk
      <3> QED BY <1>3, <3>1 DEF ChainOk
    <2>1. /\ retry' = [retry EXCEPT ![e.of] = "failed"] /\ retrying' = FALSE
          /\ Finish(e.of) /\ gen = e.of /\ IsCurrent(e.of) /\ released # "gone"
      BY <1>3 DEF AdmissionFails, IsCurrent
    <2> HIDE DEF e, reported
    <2>2. ~processing'
      BY <2>1, FinishLeaves
    <2>3. driving' = 0
      BY <1>1, <2>0, <2>1 DEF BusyInv, DriverIsCurrent, RetriesFollowTurns, Replacing
    <2> QED BY <1>1, <2>0, <2>1, <2>2, <2>3
    DEF BusyInv, DriverIsCurrent, RetriesFollowTurns, RetryingIsOwned, BusyHasAnOwner,
        IsCurrent, RetryState
  <1> QED BY <1>2, <1>3

LEMMA BusyAccepted ==
  ASSUME IInv, BusyInv, NEW g \in Gen, Accepted(g) \/ Drive(g)
  PROVE  BusyInv'
  <1>1. /\ IsCurrent(g) /\ gen = g /\ processing /\ released # "gone"
        /\ turn[g] \in {"preparing", "ready"}
        /\ \/ turn' = [turn EXCEPT ![g] = "ready"] /\ driving' = driving /\ turn[g] = "preparing"
           \/ turn' = [turn EXCEPT ![g] = "driving"] /\ driving' = g /\ driving = 0
        /\ UNCHANGED <<gen, processing, retry, retrying, released>>
    BY DEF Accepted, Drive, IsCurrent, auth
  <1>2. turn \in [Gen -> {"none", "preparing", "ready", "driving", "detached", "over"}]
    BY DEF IInv, SlotType
  <1>3. \A h \in Gen : h # g => turn'[h] = turn[h]
    BY <1>1, <1>2
  <1>4. turn'[g] \in {"ready", "driving"} /\ (driving' # 0 => turn'[g] = "driving")
    BY <1>1, <1>2 DEF BusyInv, DriverIsCurrent
  <1>5. DriverIsCurrent'
    BY <1>1, <1>4 DEF BusyInv, DriverIsCurrent
  <1>6. RetriesFollowTurns'
    BY <1>1, <1>3, <1>4 DEF BusyInv, RetriesFollowTurns, IsCurrent
  <1>7. BusyHasAnOwner'
    BY <1>1, <1>4 DEF BusyHasAnOwner, IsCurrent
  <1> QED BY <1>1, <1>5, <1>6, <1>7 DEF BusyInv, RetryingIsOwned

\* A turn or its driver ends and its end is left to a retry, or finish settles it.
LEMMA BusyEnds ==
  ASSUME IInv, BusyInv, NEW g \in Gen, TurnFails(g) \/ DetachedEnds(g) \/ LoopEnds(g)
  PROVE  BusyInv'
  <1>1. /\ turn' = [turn EXCEPT ![g] = "over"] /\ UNCHANGED <<gen, retrying, released>>
        /\ turn[g] \in {"preparing", "ready", "detached", "driving"}
        /\ Finish(g) \/ Kept
        /\ driving' = IF turn[g] = "driving" /\ driving = g THEN 0 ELSE driving
    BY DEF TurnFails, DetachedEnds, LoopEnds, Kept, auth
  <1>2. /\ turn[g] # "driving" => retry' = retry
        /\ turn[g] = "driving" =>
             retry' = [retry EXCEPT ![g] = IF @ = "draining" THEN "disposing" ELSE @]
    BY DEF TurnFails, DetachedEnds, LoopEnds, Drains, auth
  <1>3. \/ Finish(g) \/ turn[g] = "detached"
        \/ turn[g] = "driving" /\ retrying /\ retry[g] # "draining" /\ Kept
    BY DEF TurnFails, DetachedEnds, LoopEnds, Defers, Kept
  <1>4. turn \in [Gen -> {"none", "preparing", "ready", "driving", "detached", "over"}]
    BY DEF IInv, SlotType
  <1>5. turn'[g] = "over" /\ \A h \in Gen : h # g => turn'[h] = turn[h] /\ retry'[h] = retry[h]
    BY <1>1, <1>2, <1>4 DEF BusyInv
  <1>6. retry' \in [Gen -> RetryState]
    BY <1>2 DEF BusyInv, RetryState
  <1>7. retry'[g] = IF retry[g] = "draining" THEN "disposing" ELSE retry[g]
    BY <1>2 DEF BusyInv, RetriesFollowTurns
  <1>8. /\ processing' => processing
        /\ IsCurrent(g) /\ processing' => ~Finish(g)
        /\ ~IsCurrent(g) => processing' = processing
    BY <1>1, FinishLeaves DEF Kept
  <1>9. IsCurrent(g) /\ processing' => retry[g] # "draining"
    BY <1>3, <1>8 DEF BusyInv, BusyHasAnOwner, RetriesFollowTurns
  <1>10. DriverIsCurrent'
    <2> SUFFICES ASSUME driving # 0, driving' = driving
                 PROVE  /\ turn'[gen] = "driving" /\ (processing' \/ released = "gone")
      BY <1>1 DEF BusyInv, DriverIsCurrent
    <2>1. gen # g
      BY <1>1, GenNumbers DEF BusyInv, DriverIsCurrent
    <2> QED BY <1>5, <1>8, <2>1 DEF BusyInv, DriverIsCurrent, IsCurrent
  <1>11. RetriesFollowTurns'
    <2> SUFFICES ASSUME NEW h \in Gen
                 PROVE  /\ retry'[h] # "none" => h <= gen
                        /\ retry'[h] = "draining" => /\ h = gen /\ turn'[h] = "driving"
                                                     /\ processing' \/ released = "gone"
                        /\ retry'[h] \in {"superseded", "dropped"} => ~IsCurrent(h)
                        /\ retry'[h] \in Replacing /\ IsCurrent(h) => ~processing'
      BY <1>1 DEF RetriesFollowTurns, IsCurrent
    <2>1. CASE h = g
      BY <1>7, <1>8, <1>9, <2>1 DEF BusyInv, RetriesFollowTurns, Replacing
    <2>2. CASE h # g
      BY <1>5, <1>8, <2>2 DEF BusyInv, RetriesFollowTurns, IsCurrent
    <2> QED BY <2>1, <2>2
  <1>12. RetryingIsOwned'
    BY <1>1, <1>5, <1>7 DEF BusyInv, RetryingIsOwned
  <1>13. BusyHasAnOwner'
    <2> SUFFICES ASSUME NEW c \in Gen, IsCurrent(c), processing'
                 PROVE  \/ turn'[c] \in {"preparing", "ready", "driving"}
                        \/ retry'[c] = "scheduled"
                        \/ \E h \in Gen :
                                h < c /\ retry'[h] \in {"scheduled", "disposing", "superseded", "dropped"}
      BY <1>1 DEF BusyHasAnOwner, IsCurrent
    <2>1. CASE c # g
      BY <1>5, <1>7, <1>8, <2>1 DEF BusyInv, BusyHasAnOwner
    <2>2. CASE c = g
      <3>1. processing /\ IsCurrent(g) /\ retry'[g] = retry[g]
        BY <1>7, <1>8, <1>9, <2>2
      <3>2. turn[g] = "detached" \/ (turn[g] = "driving" /\ retrying /\ retry[g] # "draining")
        BY <1>3, <1>8, <2>2
      <3>3. CASE turn[g] = "detached"
        BY <1>5, <3>1, <3>3, <2>2, GenNumbers DEF BusyInv, BusyHasAnOwner
      <3>4. CASE turn[g] = "driving" /\ retrying
        <4>1. PICK h \in Gen : retry[h] \in {"scheduled", "draining", "disposing", "superseded", "dropped"}
          BY <3>4 DEF BusyInv, RetryingIsOwned
        <4>2. gen = g /\ h <= g /\ (h = g \/ h < g)
          BY <3>1, <4>1, GenNumbers DEF BusyInv, RetriesFollowTurns, IsCurrent
        <4>3. CASE h = g
          BY <1>9, <3>1, <4>1, <4>3, <2>2 DEF BusyInv, RetriesFollowTurns, Replacing
        <4>4. CASE h < g
          <5>1. retry[h] # "draining" /\ h # g
            BY <4>2, <4>4, GenNumbers DEF BusyInv, RetriesFollowTurns
          <5> QED BY <1>5, <4>1, <4>4, <5>1, <2>2
        <4> QED BY <4>2, <4>3, <4>4
      <3> QED BY <3>2, <3>3, <3>4
    <2> QED BY <2>1, <2>2
  <1> QED BY <1>6, <1>10, <1>11, <1>12, <1>13 DEF BusyInv

LEMMA BusyTimerFires ==
  ASSUME IInv, BusyInv, TimerFires
  PROVE  BusyInv'
  <1>1. /\ turn' = [turn EXCEPT ![gen] = IF @ = "driving" THEN "detached" ELSE @]
        /\ retry' = [retry EXCEPT ![gen] = IF @ = "draining" THEN "disposing" ELSE @]
        /\ driving' = 0 /\ UNCHANGED <<gen, retrying, released>>
        /\ Finish(gen) /\ IsCurrent(gen)
    BY DEF TimerFires, DeadlinePasses, Drains, IsCurrent
  <1>2. ~processing'
    BY <1>1, FinishLeaves
  <1>3. retry' \in [Gen -> RetryState]
    BY <1>1 DEF BusyInv, RetryState
  <1>4. \A h \in Gen : /\ h # gen => retry'[h] = retry[h]
                       /\ h = gen => retry'[h] =
                              IF retry[h] = "draining" THEN "disposing" ELSE retry[h]
    BY <1>1 DEF BusyInv
  <1>5. RetriesFollowTurns'
    BY <1>1, <1>2, <1>4 DEF BusyInv, RetriesFollowTurns, IsCurrent
  <1>6. RetryingIsOwned'
    BY <1>1, <1>4 DEF BusyInv, RetryingIsOwned
  <1> QED BY <1>1, <1>2, <1>3, <1>5, <1>6 DEF BusyInv, DriverIsCurrent, BusyHasAnOwner

LEMMA BusyAuthError ==
  ASSUME IInv, BusyInv, NEW g \in Gen, AuthError(g)
  PROVE  BusyInv'
  <1>1. /\ gen = g /\ IsCurrent(g) /\ processing /\ turn[g] = "driving"
        /\ retry' = [retry EXCEPT ![g] = "scheduled"]
        /\ UNCHANGED <<gen, processing, driving, turn, released>>
    BY DEF AuthError, IsCurrent, slot, turns
  <1>2. retry' \in [Gen -> RetryState] /\ retry'[g] = "scheduled"
    BY <1>1 DEF BusyInv, RetryState
  <1>3. \A h \in Gen : h # g => retry'[h] = retry[h]
    BY <1>1 DEF BusyInv
  <1>4. RetriesFollowTurns'
    BY <1>1, <1>2, <1>3, GenNumbers DEF BusyInv, RetriesFollowTurns, IsCurrent, Replacing
  <1>5. BusyHasAnOwner'
    BY <1>1 DEF BusyHasAnOwner, IsCurrent
  <1> QED BY <1>1, <1>2, <1>4, <1>5 DEF BusyInv, DriverIsCurrent, RetryingIsOwned

LEMMA BusyRetryStarts ==
  ASSUME IInv, BusyInv, NEW g \in Gen, RetryStarts(g)
  PROVE  BusyInv'
  <1>1. /\ retry[g] = "scheduled" /\ UNCHANGED <<gen, turn, driving, retrying, released>>
    BY DEF RetryStarts, slot, turns
  <1>2. CASE ~IsCurrent(g)
    <2>1. /\ retry' = [retry EXCEPT ![g] = "superseded"] /\ processing' = processing
      BY <1>2 DEF RetryStarts, slot
    <2>2. /\ retry' \in [Gen -> RetryState] /\ retry'[g] = "superseded"
          /\ \A h \in Gen : h # g => retry'[h] = retry[h]
      BY <2>1 DEF BusyInv, RetryState
    <2>3. RetriesFollowTurns'
      BY <1>1, <1>2, <2>1, <2>2 DEF BusyInv, RetriesFollowTurns, IsCurrent, Replacing
    <2>4. BusyHasAnOwner'
      <3> SUFFICES ASSUME NEW c \in Gen, IsCurrent(c), processing
                   PROVE  \/ turn[c] \in {"preparing", "ready", "driving"}
                          \/ retry'[c] = "scheduled"
                          \/ \E h \in Gen :
                                  h < c /\ retry'[h] \in {"scheduled", "disposing", "superseded", "dropped"}
        BY <1>1, <2>1 DEF BusyHasAnOwner, IsCurrent
      <3>1. c # g
        BY <1>2
      <3> QED BY <2>2, <3>1 DEF BusyInv, BusyHasAnOwner
    <2> QED BY <1>1, <2>1, <2>2, <2>3, <2>4 DEF BusyInv, DriverIsCurrent, RetryingIsOwned
  <1>3. CASE IsCurrent(g) /\ driving # 0
    <2>1. /\ retry' = [retry EXCEPT ![g] = "draining"] /\ processing' = processing
      BY <1>3 DEF RetryStarts
    <2>2. /\ retry' \in [Gen -> RetryState] /\ retry'[g] = "draining"
          /\ \A h \in Gen : h # g => retry'[h] = retry[h]
      BY <2>1 DEF BusyInv, RetryState
    <2>3. gen = g /\ turn[g] = "driving" /\ (processing \/ released = "gone")
      BY <1>3 DEF BusyInv, DriverIsCurrent, IsCurrent
    <2>4. RetriesFollowTurns'
      BY <1>1, <2>1, <2>2, <2>3, GenNumbers DEF BusyInv, RetriesFollowTurns, IsCurrent, Replacing
    <2>5. BusyHasAnOwner'
      BY <1>1, <2>3 DEF BusyHasAnOwner, IsCurrent
    <2> QED BY <1>1, <2>1, <2>2, <2>4, <2>5 DEF BusyInv, DriverIsCurrent, RetryingIsOwned
  <1>4. CASE IsCurrent(g) /\ driving = 0
    <2>1. retry' = [retry EXCEPT ![g] = "disposing"]
      BY <1>4 DEF RetryStarts
    <2>2. ~processing'
      <3>1. CASE Finishes(g)
        BY <1>4, <3>1, FinishLeaves DEF RetryStarts
      <3>2. CASE ~Finishes(g)
        BY <1>4, <3>2 DEF RetryStarts, Finishes, IsCurrent, IInv, Unsettled
      <3> QED BY <3>1, <3>2
    <2>3. /\ retry' \in [Gen -> RetryState] /\ retry'[g] = "disposing"
          /\ \A h \in Gen : h # g => retry'[h] = retry[h]
      BY <2>1 DEF BusyInv, RetryState
    <2>4. RetriesFollowTurns'
      <3>1. \A h \in Gen : retry[h] # "draining" \/ released = "gone"
        BY <1>1, <1>4 DEF BusyInv, RetriesFollowTurns, IsCurrent
      <3> QED BY <1>1, <1>4, <2>2, <2>3, <3>1, GenNumbers DEF BusyInv, RetriesFollowTurns, IsCurrent
    <2> QED BY <1>1, <1>4, <2>2, <2>3, <2>4
        DEF BusyInv, DriverIsCurrent, RetryingIsOwned, BusyHasAnOwner
  <1> QED BY <1>2, <1>3, <1>4

\* The driver of a replaced turn is disposed of, or could not be.
LEMMA BusyDisposed ==
  ASSUME IInv, BusyInv, NEW g \in Gen, Disposed(g) \/ DisposalFails(g)
  PROVE  BusyInv'
  <1>1. /\ retry[g] = "disposing" /\ UNCHANGED <<gen, turn, released>>
        /\ driving' = driving \/ driving' = 0
        /\ Finish(g) \/ Kept
    BY DEF Disposed, DisposalFails, turns, Kept
  <1>2. \/ /\ IsCurrent(g) /\ retrying' = FALSE
           /\ \E where \in {"sent", "failed"} : retry' = [retry EXCEPT ![g] = where]
        \/ /\ ~IsCurrent(g) /\ UNCHANGED <<retrying, processing>>
           /\ retry' = [retry EXCEPT ![g] = "dropped"]
    BY DEF Disposed, DisposalFails
  <1>3. CASE IsCurrent(g)
    <2>1. ~processing /\ driving = 0
      BY <1>1, <1>3 DEF BusyInv, RetriesFollowTurns, DriverIsCurrent, Replacing, IsCurrent
    <2>2. ~processing'
      BY <1>1, <2>1, FinishLeaves DEF Kept
    <2>3. /\ retry' \in [Gen -> RetryState] /\ retry'[g] \in {"sent", "failed"}
          /\ \A h \in Gen : h # g => retry'[h] = retry[h]
      BY <1>2, <1>3 DEF BusyInv, RetryState
    <2>4. RetriesFollowTurns'
      BY <1>1, <1>3, <2>1, <2>2, <2>3, GenNumbers DEF BusyInv, RetriesFollowTurns, IsCurrent
    <2> QED BY <1>1, <1>2, <1>3, <2>1, <2>2, <2>3, <2>4
        DEF BusyInv, DriverIsCurrent, RetryingIsOwned, BusyHasAnOwner
  <1>4. CASE ~IsCurrent(g)
    <2>1. /\ retry' \in [Gen -> RetryState] /\ retry'[g] = "dropped"
          /\ \A h \in Gen : h # g => retry'[h] = retry[h]
      BY <1>2, <1>4 DEF BusyInv, RetryState
    <2>2. processing' = processing /\ retrying' = retrying
      BY <1>2, <1>4
    <2>3. RetriesFollowTurns'
      BY <1>1, <1>4, <2>1, <2>2 DEF BusyInv, RetriesFollowTurns, IsCurrent
    <2>4. BusyHasAnOwner'
      <3> SUFFICES ASSUME NEW c \in Gen, IsCurrent(c), processing
                   PROVE  \/ turn[c] \in {"preparing", "ready", "driving"}
                          \/ retry'[c] = "scheduled"
                          \/ \E h \in Gen :
                                  h < c /\ retry'[h] \in {"scheduled", "disposing", "superseded", "dropped"}
        BY <1>1, <2>2 DEF BusyHasAnOwner, IsCurrent
      <3>1. c # g
        BY <1>4
      <3> QED BY <2>1, <3>1 DEF BusyInv, BusyHasAnOwner
    <2> QED BY <1>1, <2>1, <2>2, <2>3, <2>4 DEF BusyInv, DriverIsCurrent, RetryingIsOwned
  <1> QED BY <1>3, <1>4

\* A session that is gone has no current turn.
LEMMA BusyReleased ==
  ASSUME IInv, BusyInv, Released
  PROVE  BusyInv'
  <1>1. released' = "gone" /\ UNCHANGED <<gen, driving, turn, retry, retrying>>
    BY DEF Released, auth
  <1>2. \A g \in Gen : ~IsCurrent(g)'
    BY <1>1 DEF IsCurrent
  <1>3. RetriesFollowTurns'
    BY <1>1, <1>2 DEF BusyInv, RetriesFollowTurns
  <1> QED BY <1>1, <1>2, <1>3 DEF BusyInv, DriverIsCurrent, RetryingIsOwned, BusyHasAnOwner

-----------------------------------------------------------------------------
(* What each handler does to admissions, queue and foreground.             *)

\* A turn that was sent again stays so.
LEMMA DoneStays ==
  ASSUME BusyInv, Next
  PROVE  \A g \in Gen : retry[g] \in {"sent", "failed"} => retry'[g] \in {"sent", "failed"}
  <1>1. CASE Own
    <2>1. ASSUME NEW g \in Gen, RetryStarts(g) \/ Disposed(g) \/ DisposalFails(g)
          PROVE  retry[g] \in {"scheduled", "disposing"} /\ \E v : retry' = [retry EXCEPT ![g] = v]
      BY <2>1 DEF RetryStarts, Disposed, DisposalFails
    <2>2. CASE TimerFires
      BY <2>2 DEF TimerFires, Drains, BusyInv
    <2>3. CASE AdmissionFails
      BY <2>3 DEF AdmissionFails, BusyInv
    <2>4. CASE UNCHANGED retry
      BY <2>4
    <2> QED BY <1>1, <2>1, <2>2, <2>3, <2>4
        DEF Own, AdmitFree, AdmitBusy, Saved, Steered, Flushed, Immediate, Released, Accepted,
            TurnFails, Drive, Begin, auth, BusyInv
  <1>2. CASE Others
    <2>1. ASSUME NEW g \in Gen, AuthError(g)
          PROVE  retry[g] \notin {"sent", "failed"} /\ retry' = [retry EXCEPT ![g] = "scheduled"]
      BY <2>1 DEF AuthError, BusyInv, RetriesFollowTurns, Replacing
    <2>2. ASSUME NEW g \in Gen, LoopEnds(g)
          PROVE  retry' = [retry EXCEPT ![g] = IF @ = "draining" THEN "disposing" ELSE @]
      BY <2>2 DEF LoopEnds, Drains
    <2>3. CASE UNCHANGED retry
      BY <2>3
    <2> QED BY <1>2, <2>1, <2>2, <2>3
        DEF Others, Arrive, DetachedEnds, UserStop, HandoffStop, Release, auth, BusyInv
  <1> QED BY <1>1, <1>2 DEF Next

LEMMA MovesOk ==
  ASSUME chain \in Seq(Admission), NEW stage \in {"saving", "steering", "flushing", "telling"},
         NEW of \in Gen \cup {0}, AtStage("waiting") \/ AtStage("steering"), Move(stage, of)
  PROVE  Moves(stage, of)
  BY DEF Moves, AtStage

\* An admission moves on, begins its turn, or ends.
LEMMA AdmissionForm ==
  ASSUME HInv, AdmitFree \/ AdmitBusy \/ Saved \/ Steered \/ Flushed \/ AdmissionFails
  PROVE  /\ ChainForm /\ (Gone \/ (Free => Free')) /\ Contents'
  <1> DEFINE e == Head(chain)
  <1>1. /\ chain \in Seq(Admission) /\ chain # <<>> /\ e \in Admission /\ e.of \in Gen \cup {0}
        /\ e.inputs \in SUBSET Input
    <2>1. chain \in Seq(Admission) /\ chain # <<>>
      BY DEF HInv, ChainOk, AdmitFree, AdmitBusy, Saved, Steered, Flushed, AdmissionFails, AtStage
    <2>2. e \in Admission
      BY <2>1, ChainFacts
    <2> QED BY <2>1, <2>2 DEF Admission
  <1>2. queue \in Seq(SUBSET Input) /\ carried \in [Gen -> SUBSET Input]
    BY DEF HInv, Contents
  <1>3. CASE Begin(e)
    <2>1. Gone /\ carried' = [carried EXCEPT ![gen + 1] = e.inputs] /\ queue' = queue
      BY <1>1, <1>3 DEF Begin, Gone
    <2>2. carried' \in [Gen -> SUBSET Input]
      BY <1>1, <1>2, <2>1
    <2> QED BY <1>2, <2>1, <2>2 DEF ChainForm, Contents
  <1>4. CASE AdmitFree /\ ~Begin(e)
    <2>1. /\ AtStage("waiting") /\ Move("saving", 0) /\ ~processing /\ driving = 0 /\ activeRun' = 0
          /\ UNCHANGED <<processing, driving, queue, carried>>
      BY <1>4 DEF AdmitFree
    <2>2. Moves("saving", 0) /\ Free'
      BY <1>1, <2>1, MovesOk DEF Free
    <2> QED BY <1>2, <2>1, <2>2 DEF ChainForm, Contents
  <1>5. Enqueued(e.inputs) \in Seq(SUBSET Input)
    BY <1>1, <1>2 DEF Enqueued
  <1>6. CASE AdmitBusy
    <2>1. /\ AtStage("waiting") /\ UNCHANGED <<processing, driving, activeRun, carried>>
          /\ \/ Move("steering", activeRun) /\ queue' = queue
             \/ Move("flushing", e.of) /\ queue' = Enqueued(e.inputs)
      BY <1>6 DEF AdmitBusy, slot
    <2>2. activeRun \in Gen \cup {0}
      BY DEF HInv, IInv, SlotType
    <2>3. Moves("steering", activeRun) \/ Moves("flushing", e.of)
      BY <1>1, <2>1, <2>2, MovesOk
    <2> QED BY <1>2, <1>5, <2>1, <2>3 DEF ChainForm, Contents, Free
  <1>7. CASE Steered
    <2>1. /\ AtStage("steering") /\ UNCHANGED <<processing, driving, activeRun, carried>>
          /\ Move("telling", 0) \/ Move("flushing", 0)
          /\ queue' = queue \/ queue' = Enqueued(e.inputs)
      BY <1>7 DEF Steered, slot, turns
    <2>2. Moves("telling", 0) \/ Moves("flushing", 0)
      BY <1>1, <2>1, MovesOk
    <2> QED BY <1>2, <1>5, <2>1, <2>2 DEF ChainForm, Contents, Free
  <1>8. CASE Flushed \/ AdmissionFails
    <2>1. Gone /\ UNCHANGED <<queue, carried>>
      BY <1>1, <1>8 DEF Flushed, AdmissionFails, Gone, turns
    <2> QED BY <1>2, <2>1 DEF ChainForm, Contents
  <1> QED BY <1>3, <1>4, <1>6, <1>7, <1>8 DEF Saved

\* Inputs arrive, leave the queue, or are sent again.
LEMMA IntakeForm ==
  ASSUME HInv, \/ Immediate \/ \E i \in Input : Arrive(i)
               \/ UserStop \/ Release \/ \E g \in Gen : Disposed(g)
  PROVE  /\ ChainForm /\ (Free => Free') /\ Contents'
  <1>1. /\ chain \in Seq(Admission) /\ Len(chain) \in Nat
        /\ queue \in Seq(SUBSET Input) /\ carried \in [Gen -> SUBSET Input]
    BY DEF HInv, ChainOk, Contents
  <1>2. CASE Immediate
    <2>1. UNCHANGED <<processing, driving, activeRun, released, carried>>
      BY <1>2 DEF Immediate, slot, turns
    <2>2. CASE UNCHANGED <<queue, chain>>
      BY <1>1, <2>1, <2>2 DEF ChainForm, Contents, Free
    <2>3. CASE AwaitAdmission
      <3>1. Woken /\ queue' = queue
        BY <2>3 DEF AwaitAdmission, Woken
      <3> QED BY <1>1, <2>1, <3>1 DEF ChainForm, Contents, Free
    <2>4. CASE Dispatch /\ released = "no" /\ ~processing /\ activeRun = 0
      <3>1. driving = 0
        BY <2>4 DEF HInv, BusyInv, DriverIsCurrent
      <3>2. PICK n \in 1 .. Len(queue) :
              queue' = SubSeq(queue, n + 1, Len(queue)) /\ chain' = <<Replay(n)>>
        BY <2>4 DEF Dispatch
      <3>3. Replay(n) \in Admission /\ Replay(n).kind = "replay"
        BY <1>1, ReplayEffect
      <3>4. queue' \in Seq(SUBSET Input)
        BY <1>1, <3>2
      <3> QED BY <1>1, <2>1, <2>4, <3>1, <3>2, <3>3, <3>4 DEF ChainForm, Contents, Free, Dispatch
    <2> QED BY <1>2, <2>2, <2>3, <2>4 DEF Immediate
  <1>3. ASSUME NEW i \in Input, Arrive(i) PROVE ChainForm /\ (Free => Free') /\ Contents'
    <2> DEFINE e == [inputs |-> {i}, kind |-> "fresh", stage |-> "waiting",
                     of |-> 0, wake |-> FALSE]
    <2>1. e \in Admission /\ e.stage = "waiting" /\ e.kind = "fresh"
      BY DEF Admission
    <2>2. chain' = Append(chain, e) /\ UNCHANGED <<processing, driving, activeRun, queue, carried>>
      BY <1>3 DEF Arrive, slot, turns
    <2> HIDE DEF e
    <2>3. Joins(e)
      BY <2>1, <2>2 DEF Joins
    <2> QED BY <1>1, <2>1, <2>2, <2>3 DEF ChainForm, Contents, Free
  <1>4. CASE UserStop \/ Release
    <2>1. queue' = <<>> /\ UNCHANGED <<chain, processing, driving, activeRun, carried>>
      BY <1>4 DEF UserStop, Release, turns
    <2>2. <<>> \in Seq(SUBSET Input)
      OBVIOUS
    <2> QED BY <1>1, <2>1, <2>2 DEF ChainForm, Contents, Free
  <1>5. ASSUME NEW g \in Gen, Disposed(g) PROVE ChainForm /\ (Free => Free') /\ Contents'
    <2> DEFINE e == [inputs |-> carried[g], kind |-> "retry", stage |-> "waiting",
                     of |-> g, wake |-> FALSE]
    <2>1. UNCHANGED <<processing, activeRun, queue, carried>> /\ driving' = 0
      BY <1>5 DEF Disposed, turns
    <2>2. CASE IsCurrent(g)
      <3>1. e \in Admission /\ e.stage = "waiting" /\ e.kind = "retry" /\ e.of = g
        BY <1>1 DEF Admission
      <3>2. chain' = Append(chain, e) /\ retry' = [retry EXCEPT ![g] = "sent"]
        BY <1>5, <2>2 DEF Disposed
      <3>3. retry'[g] = "sent"
        BY <3>2 DEF HInv, BusyInv
      <3> HIDE DEF e
      <3>4. Joins(e)
        BY <3>1, <3>2 DEF Joins
      <3> QED BY <1>1, <2>1, <3>1, <3>3, <3>4 DEF ChainForm, Contents, Free
    <2>3. CASE ~IsCurrent(g)
      BY <1>1, <1>5, <2>1, <2>3 DEF Disposed, ChainForm, Contents, Free
    <2> QED BY <2>2, <2>3
  <1> QED BY <1>2, <1>3, <1>4, <1>5

\* Turns leave admissions and queue alone, and give the foreground up or have it.
LEMMA TurnForm ==
  ASSUME HInv,
         \/ \E g \in Gen : \/ Accepted(g) \/ TurnFails(g) \/ Drive(g) \/ RetryStarts(g)
                           \/ DisposalFails(g) \/ AuthError(g) \/ LoopEnds(g)
                           \/ DetachedEnds(g)
         \/ TimerFires \/ Released \/ HandoffStop
  PROVE  ChainForm /\ (Free => Free') /\ Contents'
  <1>1. UNCHANGED <<chain, queue, carried>>
    BY DEF Accepted, TurnFails, Drive, RetryStarts, DisposalFails, AuthError, LoopEnds,
           DetachedEnds, TimerFires, Released, HandoffStop, intake, turns
  <1>2. \/ processing
        \/ /\ (\E h : Finish(h)) \/ UNCHANGED <<processing, activeRun>>
           /\ driving' \in {driving, 0}
    <2>1. ASSUME NEW g \in Gen, Accepted(g) \/ Drive(g) \/ AuthError(g)
          PROVE  processing
      BY <2>1 DEF Accepted, Drive, AuthError
    <2>2. CASE HandoffStop \/ TimerFires \/ Released
      BY <2>2 DEF HandoffStop, TimerFires, Released
    <2>3. ASSUME NEW g \in Gen, TurnFails(g) \/ DisposalFails(g) \/ LoopEnds(g) \/ DetachedEnds(g)
          PROVE  /\ (\E h : Finish(h)) \/ UNCHANGED <<processing, activeRun>>
                 /\ driving' \in {driving, 0}
      BY <2>3 DEF TurnFails, DisposalFails, LoopEnds, DetachedEnds
    <2>4. ASSUME NEW g \in Gen, RetryStarts(g)
          PROVE  /\ (\E h : Finish(h)) \/ UNCHANGED <<processing, activeRun>>
                 /\ driving' \in {driving, 0}
      <3>1. CASE ~IsCurrent(g)
        BY <2>4, <3>1 DEF RetryStarts, slot
      <3>2. CASE IsCurrent(g)
        BY <2>4, <3>2 DEF RetryStarts
      <3> QED BY <3>1, <3>2
    <2> QED BY <2>1, <2>2, <2>3, <2>4
  <1>3. IInv
    BY DEF HInv
  <1>4. ASSUME NEW h, Finish(h), ~processing, activeRun = 0
        PROVE  ~processing' /\ activeRun' = 0
    BY <1>3, <1>4, FinishLeaves
  <1>5. Free => Free'
    BY <1>2, <1>4 DEF Free
  <1> QED BY <1>1, <1>5 DEF HInv, Contents, ChainForm

LEMMA BusyStep ==
  ASSUME HInv, Next
  PROVE  BusyInv'
  <1>0. IInv /\ BusyInv /\ ChainOk
    BY DEF HInv
  <1>1. CASE Own
    <2>1. CASE AdmitFree \/ Saved
      <3>1. \/ Begin(Head(chain))
            \/ UNCHANGED <<gen, processing, driving, turn, retry, retrying, released>>
        BY <2>1 DEF AdmitFree, Saved, auth
      <3> QED BY <1>0, <3>1, BusyBegin, BusyAside
    <2>2. CASE AdmitBusy \/ Steered \/ Flushed \/ Immediate
      BY <1>0, <2>2, BusyAside DEF AdmitBusy, Steered, Flushed, Immediate, slot, turns, auth
    <2> QED BY <1>0, <1>1, <2>1, <2>2, BusyAdmissionFails, BusyTimerFires, BusyReleased,
               BusyAccepted, BusyEnds, BusyRetryStarts, BusyDisposed DEF Own
  <1>2. CASE Others
    <2>1. CASE UserStop \/ HandoffStop \/ Release \/ \E i \in Input : Arrive(i)
      BY <1>0, <2>1, BusyAside DEF UserStop, HandoffStop, Release, Arrive, slot, turns, auth
    <2> QED BY <1>0, <1>2, <2>1, BusyAuthError, BusyEnds DEF Others
  <1> QED BY <1>1, <1>2 DEF Next

LEMMA HostStep == ASSUME HInv, [Next]_vars, IInv' PROVE HInv'
  <1>1. CASE UNCHANGED vars
    BY <1>1 DEF vars, slot, intake, turns, auth, past, HInv, BusyInv, DriverIsCurrent,
                RetriesFollowTurns, RetryingIsOwned, BusyHasAnOwner, IsCurrent, ChainOk,
                Contents, AdmittedInputsBegin
  <1>2. CASE Next
    <2>1. ChainForm /\ (Gone \/ (Free => Free')) /\ Contents'
      <3>1. \/ AdmitFree \/ AdmitBusy \/ Saved \/ Steered \/ Flushed \/ AdmissionFails
            \/ /\ \/ Immediate \/ UserStop \/ Release
                  \/ \E i \in Input : Arrive(i)
                  \/ \E g \in Gen : Disposed(g)
            \/ \/ \E g \in Gen : \/ Accepted(g) \/ TurnFails(g) \/ Drive(g) \/ RetryStarts(g)
                                 \/ DisposalFails(g) \/ AuthError(g) \/ LoopEnds(g)
                                 \/ DetachedEnds(g)
               \/ TimerFires \/ Released \/ HandoffStop
        BY <1>2 DEF Next, Own, Others
      <3> QED BY <3>1, AdmissionForm, IntakeForm, TurnForm
    <2>2. \A g \in Gen : retry[g] \in {"sent", "failed"} => retry'[g] \in {"sent", "failed"}
      BY <1>2, DoneStays DEF HInv
    <2>3. ChainOk' /\ AdmittedInputsBegin'
      BY <2>1, <2>2, ChainStays, AdmittedStays DEF HInv
    <2> QED BY <1>2, <2>1, <2>3, BusyStep DEF HInv
  <1> QED BY <1>1, <1>2

LEMMA InitHInv == Init => HInv
  <1> SUFFICES ASSUME Init, IInv PROVE HInv
    <2>1. Init => IInv
      <3> SUFFICES ASSUME Init PROVE IInv
        OBVIOUS
      <3>1. /\ gen = 0 /\ activeRun = 0 /\ settled = "none" /\ released = "no"
            /\ processing = FALSE /\ stop = FALSE /\ timer = FALSE
            /\ turn = [g \in Gen |-> "none"] /\ run = [g \in Gen |-> "none"]
        BY DEF Init
      <3> QED BY <3>1, GenIsPositive DEF IInv, SlotType, Owned, Unsettled, StopHasDeadline
    <2> QED BY <2>1
  <1>1. /\ retry = [g \in Gen |-> "none"] /\ carried = [g \in Gen |-> {}]
        /\ queue = <<>> /\ chain = <<>> /\ driving = 0 /\ processing = FALSE /\ retrying = FALSE
    BY DEF Init
  <1>2. BusyInv
    BY <1>1 DEF BusyInv, RetryState, DriverIsCurrent, RetriesFollowTurns, RetryingIsOwned,
                BusyHasAnOwner, Replacing
  <1> QED BY <1>1, <1>2 DEF HInv, ChainOk, Contents, AdmittedInputsBegin

\* The invariant of admissions, retries and ends of turns.
THEOREM HostInvariant == Spec => []HInv
  <1>1. HInv /\ [Next]_vars /\ IInv' => HInv'
    BY HostStep
  <1> QED BY <1>1, InitHInv, SlotInvariant, PTL DEF Spec

\* A session that is busy has a turn in progress or a retry that will end it,
\* but for a retry that overtook an older turn's (SessionManager.ts:8343-8377).
THEOREM BusySessionsEnd == Spec => []BusyHasAnOwner
  <1>1. HInv => BusyHasAnOwner
    BY DEF HInv, BusyInv
  <1> QED BY <1>1, HostInvariant, PTL

\* An input that was saved, or dispatched from the queue, finds the foreground
\* still free when it begins, whatever ends, is stopped or retried meanwhile.
THEOREM AdmittedInputsAreServed == Spec => []AdmittedInputsBegin
  <1>1. HInv => AdmittedInputsBegin
    BY DEF HInv
  <1> QED BY <1>1, HostInvariant, PTL

-----------------------------------------------------------------------------
(* Where an input is.                                                      *)

Done == {"sent", "failed"}

\* Places an input can be in: an entry of the queue, an admission that will
\* begin, steer or queue it, and a turn that was not sent again.
Place == {"queue", "chain", "turn"} \X Nat
At(i, p) ==
  \/ p[1] = "queue" /\ p[2] \in 1 .. Len(queue) /\ i \in queue[p[2]]
  \/ /\ p[1] = "chain" /\ p[2] \in 1 .. Len(chain) /\ i \in chain[p[2]].inputs
     /\ chain[p[2]].stage \in {"waiting", "saving", "steering"}
  \/ p[1] = "turn" /\ p[2] \in Gen /\ i \in carried[p[2]] /\ retry[p[2]] \notin Done

\* An input is in one place at most, and the turns it was given to before were
\* sent again.
OnePlace ==
  \A i \in Input : \A p \in Place : At(i, p) =>
    /\ i \in arrived
    /\ \A q \in Place : At(i, q) => p = q
    /\ \A h \in given[i] : retry[h] \in Done \/ p = <<"turn", h>>

GivenToTurns ==
  /\ given \in [Input -> SUBSET Gen]
  /\ \A i \in Input : \A h \in given[i] : h <= gen /\ i \in arrived

\* An input is steered into a run that is not older than those it was given to.
SteeredForward ==
  \A k \in 1 .. Len(chain) : chain[k].stage = "steering" =>
    /\ chain[k].of \in Gen /\ chain[k].of <= gen
    /\ \A i \in chain[k].inputs : \A h \in given[i] : h <= chain[k].of

RetriesComeLate ==
  \A g \in Gen : turn[g] \in {"none", "preparing", "ready"} => retry[g] = "none"

InputsInv == OnePlace /\ GivenToTurns /\ SteeredForward /\ RetriesComeLate /\ InputsAreGivenOnce

\* Inputs change places together.
LEMMA Relocated ==
  ASSUME OnePlace, GivenToTurns, InputsAreGivenOnce, gen \in Nat, gen' \in Nat, gen <= gen',
         UNCHANGED given, arrived \subseteq arrived',
         \A g \in Gen : retry[g] \in Done => retry'[g] \in Done,
         NEW Moved,
         \A i \in Input : \A p \in Place : At(i, p)' =>
           \E o \in Place : /\ At(i, o) /\ p = Moved[o]
                            /\ \A h \in Gen : o = <<"turn", h>> => p = o \/ retry'[h] \in Done
  PROVE  OnePlace' /\ GivenToTurns' /\ InputsAreGivenOnce'
  <1>1. ASSUME NEW i \in Input, NEW p \in Place, At(i, p)'
        PROVE  /\ i \in arrived'
               /\ \A q \in Place : At(i, q)' => p = q
               /\ \A h \in given'[i] : retry'[h] \in Done \/ p = <<"turn", h>>
    <2>1. PICK o \in Place : /\ At(i, o) /\ p = Moved[o]
                             /\ \A h \in Gen : o = <<"turn", h>> => p = o \/ retry'[h] \in Done
      BY <1>1
    <2>2. /\ i \in arrived
          /\ \A q \in Place : At(i, q) => o = q
          /\ \A h \in given[i] : retry[h] \in Done \/ o = <<"turn", h>>
      BY <2>1 DEF OnePlace
    <2>3. ASSUME NEW q \in Place, At(i, q)' PROVE p = q
      <3>1. PICK r \in Place : At(i, r) /\ q = Moved[r]
        BY <2>3
      <3> QED BY <2>1, <2>2, <3>1
    <2>4. ASSUME NEW h \in given'[i] PROVE retry'[h] \in Done \/ p = <<"turn", h>>
      <3>1. h \in Gen /\ h \in given[i]
        BY DEF GivenToTurns
      <3> QED BY <2>1, <2>2, <3>1
    <2> QED BY <2>2, <2>3, <2>4
  <1>2. OnePlace'
    BY <1>1 DEF OnePlace
  <1>3. GivenToTurns'
    BY GenNumbers DEF GivenToTurns
  <1>4. InputsAreGivenOnce'
    BY DEF InputsAreGivenOnce, GivenToTurns, Done
  <1> QED BY <1>2, <1>3, <1>4

\* Places change only by being given up.
LEMMA NotRelocated ==
  ASSUME OnePlace, GivenToTurns, InputsAreGivenOnce, gen \in Nat, gen' \in Nat, gen <= gen',
         UNCHANGED given, arrived \subseteq arrived',
         \A g \in Gen : retry[g] \in Done => retry'[g] \in Done,
         \A i \in Input : \A p \in Place : At(i, p)' => At(i, p)
  PROVE  OnePlace' /\ GivenToTurns' /\ InputsAreGivenOnce'
  <1> DEFINE Moved == [o \in Place |-> o]
  <1>1. \A p \in Place : Moved[p] = p
    OBVIOUS
  <1> HIDE DEF Moved
  <1>2. ASSUME NEW i \in Input, NEW p \in Place, At(i, p)'
        PROVE  \E o \in Place : /\ At(i, o) /\ p = Moved[o]
                                /\ \A h \in Gen : o = <<"turn", h>> => p = o \/ retry'[h] \in Done
    BY <1>1, <1>2
  <1> QED BY <1>2, Relocated

\* Admissions and turns stay, and the queue too unless it is dropped.
LEMMA PlacesStay ==
  ASSUME HInv, InputsInv, queue' = queue \/ queue' = <<>>,
         UNCHANGED <<gen, carried, given, arrived>>,
         \A g \in Gen : retry[g] \in Done => retry'[g] \in Done,
         UNCHANGED chain \/ Woken
  PROVE  OnePlace' /\ GivenToTurns' /\ InputsAreGivenOnce' /\ SteeredForward'
  <1>1. chain \in Seq(Admission) /\ gen \in Nat
    BY GenNumbers DEF HInv, ChainOk
  <1>2. /\ Len(chain') = Len(chain) /\ Len(chain) \in Nat
        /\ \A k \in 1 .. Len(chain) : /\ chain'[k].stage = chain[k].stage
                                      /\ chain'[k].of = chain[k].of
                                      /\ chain'[k].inputs = chain[k].inputs
    <2>1. CASE UNCHANGED chain
      BY <1>1, <2>1
    <2>2. CASE Woken
      BY <1>1, <2>2, WokenEffect
    <2> QED BY <2>1, <2>2
  <1>3. ASSUME NEW i \in Input, NEW p \in Place, At(i, p)' PROVE At(i, p)
    <2>1. CASE p[1] = "queue"
      BY <1>3, <2>1 DEF At
    <2>2. CASE p[1] = "chain"
      BY <1>2, <1>3, <2>2 DEF At
    <2>3. CASE p[1] = "turn"
      BY <1>3, <2>3 DEF At
    <2> QED BY <2>1, <2>2, <2>3 DEF Place
  <1>4. OnePlace' /\ GivenToTurns' /\ InputsAreGivenOnce'
    BY <1>1, <1>3, NotRelocated DEF InputsInv
  <1>5. SteeredForward'
    BY <1>2 DEF InputsInv, SteeredForward
  <1> QED BY <1>4, <1>5

\* The head of the admissions leaves, and with it its input, or for the turn
\* that begins.
LEMMA PlacesAdvance ==
  ASSUME HInv, InputsInv, Gone, queue' = queue, UNCHANGED <<given, arrived>>,
         \A g \in Gen : retry[g] \in Done => retry'[g] \in Done,
         \/ UNCHANGED <<gen, carried>>
         \/ gen' = gen + 1 /\ Head(chain).stage \in {"waiting", "saving"}
            /\ carried' = [carried EXCEPT ![gen'] = Head(chain).inputs]
  PROVE  OnePlace' /\ GivenToTurns' /\ InputsAreGivenOnce' /\ SteeredForward'
  <1>1. /\ chain \in Seq(Admission) /\ gen \in Nat /\ gen' \in Nat /\ gen <= gen'
        /\ carried \in [Gen -> SUBSET Input]
    BY GenNumbers DEF HInv, ChainOk, Contents
  <1>2. /\ chain' \in Seq(Admission) /\ Len(chain') \in Nat
        /\ \A k \in 1 .. Len(chain') : k + 1 \in 1 .. Len(chain) /\ chain'[k] = chain[k + 1]
    BY <1>1, GoneEffect
  <1>3. chain[1] = Head(chain) /\ 1 \in 1 .. Len(chain)
    BY <1>1, ChainFacts DEF Gone
  <1> DEFINE Moved == [o \in Place |->
               IF o = <<"chain", 1>> THEN <<"turn", gen'>>
               ELSE IF o[1] = "chain" THEN <<"chain", o[2] - 1>> ELSE o]
  <1>4. ASSUME NEW i \in Input, NEW p \in Place, At(i, p)'
        PROVE  \E o \in Place : /\ At(i, o) /\ p = Moved[o]
                                /\ \A h \in Gen : o = <<"turn", h>> => p = o \/ retry'[h] \in Done
    <2>0. p = <<p[1], p[2]>> /\ p[2] \in Nat
      BY DEF Place
    <2>1. CASE p[1] = "queue"
      <3>1. At(i, p) /\ Moved[p] = p
        BY <1>4, <2>1 DEF At
      <3> QED BY <3>1
    <2>2. CASE p[1] = "chain"
      <3> DEFINE o == <<"chain", p[2] + 1>>
      <3>1. p[2] \in 1 .. Len(chain') /\ p[2] + 1 \in 1 .. Len(chain)
        BY <1>2, <1>4, <2>2 DEF At
      <3>2. o \in Place /\ At(i, o)
        BY <1>2, <1>4, <2>2, <3>1 DEF At, Place
      <3>3. Moved[o] = <<"chain", p[2]>>
        BY <2>0, <3>1, <3>2
      <3>4. p = Moved[o] /\ \A h \in Gen : o # <<"turn", h>>
        BY <2>0, <2>2, <3>3
      <3> HIDE DEF o, Moved
      <3> QED BY <3>2, <3>4
    <2>3. CASE p[1] = "turn"
      <3>1. p[2] \in Gen /\ i \in carried'[p[2]] /\ retry'[p[2]] \notin Done
        BY <1>4, <2>3 DEF At
      <3>2. CASE i \in carried[p[2]]
        <4>1. At(i, p) /\ Moved[p] = p
          BY <2>0, <2>3, <3>1, <3>2 DEF At
        <4> QED BY <4>1
      <3>3. CASE i \notin carried[p[2]]
        <4> DEFINE o == <<"chain", 1>>
        <4>1. p[2] = gen' /\ i \in Head(chain).inputs /\ Head(chain).stage \in {"waiting", "saving"}
          BY <1>1, <3>1, <3>3
        <4>2. o \in Place /\ At(i, o)
          BY <1>3, <4>1 DEF At, Place
        <4>3. Moved[o] = p
          BY <2>0, <2>3, <4>1, <4>2
        <4>4. \A h \in Gen : o # <<"turn", h>>
          OBVIOUS
        <4> HIDE DEF o, Moved
        <4> QED BY <4>2, <4>3, <4>4
      <3> QED BY <3>2, <3>3
    <2> QED BY <2>1, <2>2, <2>3 DEF Place
  <1> HIDE DEF Moved
  <1>5. OnePlace' /\ GivenToTurns' /\ InputsAreGivenOnce'
    BY <1>1, <1>4, Relocated DEF InputsInv
  <1>6. SteeredForward'
    BY <1>1, <1>2, GenNumbers DEF InputsInv, SteeredForward
  <1> QED BY <1>5, <1>6


\* The head as an admission that moves on leaves it.
LEMMA MovesHead ==
  ASSUME chain \in Seq(Admission), NEW stage, NEW of, Moves(stage, of)
  PROVE  chain'[1].inputs = chain[1].inputs /\ chain'[1].stage = stage /\ chain'[1].of = of
  <1>1. chain'[1] = [chain[1] EXCEPT !.stage = stage, !.of = of] /\ chain[1] \in Admission
    BY MovesEffect, ChainFacts DEF Moves
  <1> QED BY <1>1 DEF Admission

\* An admission goes on, with its input in place or let go.
LEMMA PlacesMove ==
  ASSUME HInv, InputsInv, NEW stage, NEW of, Moves(stage, of),
         AtStage("waiting") \/ AtStage("steering"),
         stage = "steering" => of = activeRun /\ activeRun # 0,
         UNCHANGED <<gen, queue, carried, retry, given, arrived>>
  PROVE  OnePlace' /\ GivenToTurns' /\ InputsAreGivenOnce' /\ SteeredForward'
  <1>1. /\ chain \in Seq(Admission) /\ gen \in Nat /\ Len(chain) \in Nat
        /\ chain[1] = Head(chain) /\ 1 \in 1 .. Len(chain) /\ chain[1] \in Admission
    BY GenNumbers, ChainFacts DEF HInv, ChainOk, Moves
  <1>2. /\ Len(chain') = Len(chain)
        /\ \A k \in 1 .. Len(chain) : k > 1 => chain'[k] = chain[k]
    BY <1>1, MovesEffect
  <1>3. chain'[1].inputs = chain[1].inputs /\ chain'[1].stage = stage /\ chain'[1].of = of
    BY <1>1, MovesHead
  <1>4. ASSUME NEW i \in Input, NEW p \in Place, At(i, p)' PROVE At(i, p)
    <2>1. CASE p[1] = "queue"
      BY <1>4, <2>1 DEF At
    <2>2. CASE p[1] = "chain"
      <3>1. p[2] = 1 \/ p[2] > 1
        BY <1>2, <1>4, <2>2 DEF At
      <3>2. CASE p[2] = 1
        BY <1>1, <1>3, <1>4, <2>2, <3>2 DEF At, AtStage
      <3>3. CASE p[2] > 1
        BY <1>2, <1>4, <2>2, <3>3 DEF At
      <3> QED BY <3>1, <3>2, <3>3
    <2>3. CASE p[1] = "turn"
      BY <1>4, <2>3 DEF At
    <2> QED BY <2>1, <2>2, <2>3 DEF Place
  <1>5. OnePlace' /\ GivenToTurns' /\ InputsAreGivenOnce'
    BY <1>1, <1>4, NotRelocated DEF InputsInv
  <1>6. SteeredForward'
    <2> SUFFICES ASSUME NEW k \in 1 .. Len(chain), chain'[k].stage = "steering"
                 PROVE  /\ chain'[k].of \in Gen /\ chain'[k].of <= gen
                        /\ \A i \in chain'[k].inputs : \A h \in given[i] : h <= chain'[k].of
      BY <1>2 DEF SteeredForward
    <2>1. CASE k > 1
      BY <1>2, <2>1 DEF InputsInv, SteeredForward
    <2>2. CASE k = 1
      <3>1. of = gen /\ of \in Gen
        BY <1>3, <2>2 DEF HInv, IInv, SlotType, Owned
      <3>2. chain[1].inputs \in SUBSET Input
        BY <1>1 DEF Admission
      <3> QED BY <1>1, <1>3, <2>2, <3>1, <3>2 DEF InputsInv, GivenToTurns
    <2> QED BY <2>1, <2>2
  <1> QED BY <1>5, <1>6

\* An admission that cannot begin or steer leaves its input in the queue.
LEMMA PlacesQueue ==
  ASSUME HInv, InputsInv, NEW of, Moves("flushing", of),
         AtStage("waiting") \/ AtStage("steering"),
         queue' = Enqueued(Head(chain).inputs),
         UNCHANGED <<gen, carried, retry, given, arrived>>
  PROVE  OnePlace' /\ GivenToTurns' /\ InputsAreGivenOnce' /\ SteeredForward'
  <1>1. /\ chain \in Seq(Admission) /\ gen \in Nat /\ Len(chain) \in Nat
        /\ chain[1] = Head(chain) /\ 1 \in 1 .. Len(chain) /\ chain[1] \in Admission
        /\ queue \in Seq(SUBSET Input) /\ Len(queue) \in Nat
    BY GenNumbers, ChainFacts DEF HInv, ChainOk, Moves, Contents
  <1>2. /\ Len(chain') = Len(chain)
        /\ \A k \in 1 .. Len(chain) : k > 1 => chain'[k] = chain[k]
    BY <1>1, MovesEffect
  <1>3. chain'[1].stage = "flushing" /\ chain[1].inputs \in SUBSET Input
    BY <1>1, MovesHead DEF Admission
  <1>4. \/ queue' = queue
        \/ queue' = Append(queue, chain[1].inputs)
    BY <1>1 DEF Enqueued
  <1> DEFINE Moved == [o \in Place |->
               IF o = <<"chain", 1>> THEN <<"queue", Len(queue) + 1>> ELSE o]
  <1>5. ASSUME NEW i \in Input, NEW p \in Place, At(i, p)'
        PROVE  \E o \in Place : /\ At(i, o) /\ p = Moved[o]
                                /\ \A h \in Gen : o = <<"turn", h>> => p = o \/ retry'[h] \in Done
    <2>0. p = <<p[1], p[2]>> /\ p[2] \in Nat
      BY DEF Place
    <2>1. CASE p[1] = "queue"
      <3>1. CASE p[2] \in 1 .. Len(queue) /\ i \in queue[p[2]]
        <4>1. At(i, p) /\ Moved[p] = p
          BY <2>0, <2>1, <3>1 DEF At
        <4> QED BY <4>1
      <3>2. CASE p[2] = Len(queue) + 1 /\ i \in chain[1].inputs
        <4> DEFINE o == <<"chain", 1>>
        <4>1. o \in Place /\ At(i, o)
          BY <1>1, <3>2 DEF At, Place, AtStage
        <4>2. Moved[o] = p
          BY <2>0, <2>1, <3>2, <4>1
        <4>3. \A h \in Gen : o # <<"turn", h>>
          OBVIOUS
        <4> HIDE DEF o, Moved
        <4> QED BY <4>1, <4>2, <4>3
      <3> QED BY <1>1, <1>3, <1>4, <1>5, <2>1, <3>1, <3>2 DEF At
    <2>2. CASE p[1] = "chain"
      <3>1. p[2] > 1
        BY <1>2, <1>3, <1>5, <2>0, <2>2 DEF At
      <3>2. At(i, p) /\ Moved[p] = p
        BY <1>2, <1>5, <2>0, <2>2, <3>1 DEF At
      <3> QED BY <3>2
    <2>3. CASE p[1] = "turn"
      <3>1. At(i, p) /\ Moved[p] = p
        BY <1>5, <2>0, <2>3 DEF At
      <3> QED BY <3>1
    <2> QED BY <2>1, <2>2, <2>3 DEF Place
  <1> HIDE DEF Moved
  <1>6. OnePlace' /\ GivenToTurns' /\ InputsAreGivenOnce'
    BY <1>1, <1>5, Relocated DEF InputsInv
  <1>7. SteeredForward'
    <2> SUFFICES ASSUME NEW k \in 1 .. Len(chain), chain'[k].stage = "steering"
                 PROVE  /\ chain'[k].of \in Gen /\ chain'[k].of <= gen
                        /\ \A i \in chain'[k].inputs : \A h \in given[i] : h <= chain'[k].of
      BY <1>2 DEF SteeredForward
    <2>1. k > 1
      BY <1>1, <1>3
    <2> QED BY <1>2, <2>1 DEF InputsInv, SteeredForward
  <1> QED BY <1>6, <1>7

\* An input that was steered, or may have been, has no place any more.
LEMMA PlacesSteered ==
  ASSUME HInv, InputsInv, AtStage("steering"), Moves("telling", 0),
         given' = [i \in Input |-> IF i \in Head(chain).inputs THEN given[i] \cup {Head(chain).of}
                                   ELSE given[i]],
         UNCHANGED <<gen, queue, carried, retry, arrived>>
  PROVE  OnePlace' /\ GivenToTurns' /\ InputsAreGivenOnce' /\ SteeredForward'
  <1> DEFINE e == Head(chain)
  <1>1. /\ chain \in Seq(Admission) /\ gen \in Nat /\ Len(chain) \in Nat
        /\ chain[1] = e /\ 1 \in 1 .. Len(chain) /\ chain[1] \in Admission
    BY GenNumbers, ChainFacts DEF HInv, ChainOk, Moves
  <1>2. /\ Len(chain') = Len(chain)
        /\ \A k \in 1 .. Len(chain) : k > 1 => chain'[k] = chain[k]
    BY <1>1, MovesEffect
  <1>3. chain'[1].stage = "telling" /\ e.inputs \in SUBSET Input /\ e.stage = "steering"
    BY <1>1, MovesHead DEF Admission, AtStage
  <1>4. /\ e.of \in Gen /\ e.of <= gen /\ e.of \in Nat
        /\ \A i \in e.inputs : \A h \in given[i] : h <= e.of
    BY <1>1, <1>3, GenNumbers DEF InputsInv, SteeredForward
  <1>5. \A i \in e.inputs : At(i, <<"chain", 1>>)
    BY <1>1, <1>3 DEF At
  <1>6. given \in [Input -> SUBSET Gen]
    BY DEF InputsInv, GivenToTurns
  <1> HIDE DEF e
  <1>7. ASSUME NEW i \in Input, NEW p \in Place, At(i, p)' PROVE At(i, p) /\ p # <<"chain", 1>>
    <2>0. p = <<p[1], p[2]>> /\ p[2] \in Nat
      BY DEF Place
    <2>1. CASE p[1] = "queue"
      BY <1>7, <2>1 DEF At
    <2>2. CASE p[1] = "chain"
      <3>1. p[2] > 1
        BY <1>2, <1>3, <1>7, <2>0, <2>2 DEF At
      <3> QED BY <1>2, <1>7, <2>2, <3>1 DEF At
    <2>3. CASE p[1] = "turn"
      BY <1>7, <2>3 DEF At
    <2> QED BY <2>1, <2>2, <2>3 DEF Place
  <1>8. ASSUME NEW i \in Input, NEW p \in Place, At(i, p)' PROVE i \notin e.inputs
    BY <1>5, <1>7, <1>8 DEF InputsInv, OnePlace, Place
  <1>9. OnePlace'
    <2> SUFFICES ASSUME NEW i \in Input, NEW p \in Place, At(i, p)'
                 PROVE  /\ i \in arrived
                        /\ \A q \in Place : At(i, q)' => p = q
                        /\ \A h \in given'[i] : retry[h] \in Done \/ p = <<"turn", h>>
      BY DEF OnePlace
    <2>1. given'[i] = given[i] /\ At(i, p)
      BY <1>6, <1>7, <1>8 DEF e
    <2> QED BY <1>7, <2>1 DEF InputsInv, OnePlace
  <1>10. \A i \in e.inputs : i \in arrived /\ \A h \in given[i] : retry[h] \in Done
    BY <1>3, <1>5 DEF InputsInv, OnePlace, Place
  <1>11. /\ given' \in [Input -> SUBSET Gen]
         /\ \A i \in Input : given'[i] = IF i \in e.inputs THEN given[i] \cup {e.of} ELSE given[i]
    BY <1>4, <1>6 DEF e
  <1>12. GivenToTurns'
    BY <1>4, <1>10, <1>11 DEF InputsInv, GivenToTurns
  <1>13. InputsAreGivenOnce'
    <2> SUFFICES ASSUME NEW i \in Input, NEW g \in given'[i], NEW h \in given'[i], g < h
                 PROVE  retry[g] \in Done
      BY DEF InputsAreGivenOnce, Done
    <2>1. CASE i \in e.inputs
      <3>1. g \in given[i] \/ g = e.of
        BY <1>11, <2>1
      <3>2. h \in given[i] \/ h = e.of
        BY <1>11, <2>1
      <3>3. g \in Gen /\ h \in Gen
        BY <1>11
      <3>4. h <= e.of /\ h \in Nat /\ g \in Nat
        BY <1>4, <2>1, <3>2, <3>3, GenNumbers
      <3> QED BY <1>4, <1>10, <2>1, <3>1, <3>4
    <2>2. CASE i \notin e.inputs
      BY <1>11, <2>2 DEF InputsInv, InputsAreGivenOnce, Done
    <2> QED BY <2>1, <2>2
  <1>14. SteeredForward'
    <2> SUFFICES ASSUME NEW k \in 1 .. Len(chain), chain'[k].stage = "steering"
                 PROVE  FALSE
      BY <1>2 DEF SteeredForward
    <2>1. k > 1
      BY <1>1, <1>3
    <2> QED BY <1>2, <2>1 DEF HInv, ChainOk
  <1> QED BY <1>9, <1>12, <1>13, <1>14


\* The first entries of the queue become an admission.
LEMMA PlacesDispatch ==
  ASSUME HInv, InputsInv, Dispatch, UNCHANGED <<gen, carried, retry, given, arrived>>
  PROVE  OnePlace' /\ GivenToTurns' /\ InputsAreGivenOnce' /\ SteeredForward'
  <1>1. /\ gen \in Nat /\ chain = <<>> /\ Len(chain) = 0
        /\ queue \in Seq(SUBSET Input) /\ Len(queue) \in Nat
    BY GenNumbers DEF HInv, Contents, Dispatch
  <1>2. PICK n \in 1 .. Len(queue) :
          queue' = SubSeq(queue, n + 1, Len(queue)) /\ chain' = <<Replay(n)>>
    BY DEF Dispatch
  <1>3. /\ Len(chain') = 1 /\ chain'[1] = Replay(n) /\ Replay(n).stage = "waiting"
        /\ \A i : i \in Replay(n).inputs <=> \E k \in 1 .. n : i \in queue[k]
    BY <1>1, <1>2, ReplayEffect
  <1>4. /\ n \in Nat /\ n >= 1 /\ n <= Len(queue)
        /\ Len(queue') = Len(queue) - n
        /\ \A k \in 1 .. Len(queue') : queue'[k] = queue[k + n] /\ k + n \in 1 .. Len(queue)
    BY <1>1, <1>2
  <1> DEFINE Moved == [o \in Place |->
               IF o[1] = "queue" THEN IF o[2] <= n THEN <<"chain", 1>>
                                      ELSE <<"queue", o[2] - n>>
               ELSE o]
  <1>5. ASSUME NEW i \in Input, NEW p \in Place, At(i, p)'
        PROVE  \E o \in Place : /\ At(i, o) /\ p = Moved[o]
                                /\ \A h \in Gen : o = <<"turn", h>> => p = o \/ retry'[h] \in Done
    <2>0. p = <<p[1], p[2]>> /\ p[2] \in Nat
      BY DEF Place
    <2>1. CASE p[1] = "queue"
      <3> DEFINE o == <<"queue", p[2] + n>>
      <3>1. /\ p[2] \in 1 .. Len(queue') /\ i \in queue[p[2] + n] /\ p[2] + n \in 1 .. Len(queue)
        BY <1>4, <1>5, <2>1 DEF At
      <3>2. o \in Place /\ At(i, o)
        BY <1>4, <3>1 DEF At, Place
      <3>3. o[1] = "queue" /\ ~(o[2] <= n) /\ o[2] - n = p[2]
        BY <1>4, <3>1
      <3>4. Moved[o] = <<"queue", p[2]>>
        BY <3>2, <3>3
      <3>5. p = Moved[o] /\ \A h \in Gen : o # <<"turn", h>>
        BY <2>0, <2>1, <3>4
      <3> HIDE DEF o, Moved
      <3> QED BY <3>2, <3>5
    <2>2. CASE p[1] = "chain"
      <3>1. p[2] = 1 /\ i \in Replay(n).inputs
        BY <1>3, <1>5, <2>0, <2>2 DEF At
      <3>2. PICK k \in 1 .. n : i \in queue[k]
        BY <1>3, <3>1
      <3> DEFINE o == <<"queue", k>>
      <3>3. o \in Place /\ At(i, o)
        BY <1>4, <3>2 DEF At, Place
      <3>4. Moved[o] = <<"chain", 1>>
        BY <3>2, <3>3
      <3>5. p = Moved[o] /\ \A h \in Gen : o # <<"turn", h>>
        BY <2>0, <2>2, <3>1, <3>4
      <3> HIDE DEF o, Moved
      <3> QED BY <3>3, <3>5
    <2>3. CASE p[1] = "turn"
      <3>1. At(i, p) /\ Moved[p] = p
        BY <1>5, <2>0, <2>3 DEF At
      <3> QED BY <3>1
    <2> QED BY <2>1, <2>2, <2>3 DEF Place
  <1> HIDE DEF Moved
  <1>6. OnePlace' /\ GivenToTurns' /\ InputsAreGivenOnce'
    BY <1>1, <1>5, Relocated DEF InputsInv
  <1>7. SteeredForward'
    BY <1>3 DEF SteeredForward
  <1> QED BY <1>6, <1>7

\* The inputs of a turn are sent again as an admission.
LEMMA PlacesResent ==
  ASSUME HInv, InputsInv, NEW g \in Gen, NEW e, Joins(e), e.inputs = carried[g],
         retry[g] = "disposing", retry' = [retry EXCEPT ![g] = "sent"],
         UNCHANGED <<gen, queue, carried, given, arrived>>
  PROVE  OnePlace' /\ GivenToTurns' /\ InputsAreGivenOnce' /\ SteeredForward'
  <1>1. /\ chain \in Seq(Admission) /\ gen \in Nat /\ Len(chain) \in Nat
        /\ retry \in [Gen -> RetryState] /\ e.stage = "waiting"
    BY GenNumbers DEF HInv, ChainOk, BusyInv, Joins
  <1>2. /\ Len(chain') = Len(chain) + 1 /\ chain'[Len(chain) + 1] = e
        /\ \A k \in 1 .. Len(chain) : chain'[k] = chain[k]
    BY <1>1, JoinsEffect
  <1>3. /\ retry'[g] \in Done /\ retry[g] \notin Done
        /\ \A h \in Gen : h # g => retry'[h] = retry[h]
        /\ \A h \in Gen : retry[h] \in Done => retry'[h] \in Done
    BY <1>1 DEF Done
  <1> DEFINE Moved == [o \in Place |->
               IF o = <<"turn", g>> THEN <<"chain", Len(chain) + 1>> ELSE o]
  <1>4. ASSUME NEW i \in Input, NEW p \in Place, At(i, p)'
        PROVE  \E o \in Place : /\ At(i, o) /\ p = Moved[o]
                                /\ \A h \in Gen : o = <<"turn", h>> => p = o \/ retry'[h] \in Done
    <2>0. p = <<p[1], p[2]>> /\ p[2] \in Nat
      BY DEF Place
    <2>1. CASE p[1] = "queue"
      <3>1. At(i, p) /\ Moved[p] = p
        BY <1>4, <2>0, <2>1 DEF At
      <3> QED BY <3>1
    <2>2. CASE p[1] = "chain"
      <3>1. CASE p[2] \in 1 .. Len(chain)
        <4>1. At(i, p) /\ Moved[p] = p
          BY <1>2, <1>4, <2>0, <2>2, <3>1 DEF At
        <4> QED BY <4>1
      <3>2. CASE p[2] = Len(chain) + 1
        <4> DEFINE o == <<"turn", g>>
        <4>1. i \in carried[g]
          BY <1>2, <1>4, <2>2, <3>2 DEF At
        <4>2. o \in Place /\ At(i, o)
          BY <1>3, <4>1, GenNumbers DEF At, Place
        <4>3. p = Moved[o]
          BY <2>0, <2>2, <3>2, <4>2
        <4>4. \A h \in Gen : o = <<"turn", h>> => retry'[h] \in Done
          BY <1>3
        <4> HIDE DEF o, Moved
        <4> QED BY <4>2, <4>3, <4>4
      <3> QED BY <1>1, <1>2, <1>4, <2>2, <3>1, <3>2 DEF At
    <2>3. CASE p[1] = "turn"
      <3>1. p[2] \in Gen /\ p[2] # g /\ At(i, p)
        BY <1>3, <1>4, <2>3 DEF At
      <3>2. Moved[p] = p
        BY <2>0, <3>1
      <3>3. \A h \in Gen : p = <<"turn", h>> => p = p
        OBVIOUS
      <3> HIDE DEF Moved
      <3> QED BY <3>1, <3>2, <3>3
    <2> QED BY <2>1, <2>2, <2>3 DEF Place
  <1> HIDE DEF Moved
  <1>5. OnePlace' /\ GivenToTurns' /\ InputsAreGivenOnce'
    BY <1>1, <1>3, <1>4, Relocated DEF InputsInv
  <1>6. SteeredForward'
    BY <1>1, <1>2 DEF InputsInv, SteeredForward
  <1> QED BY <1>5, <1>6

\* An input that comes has no place yet.
LEMMA PlacesArrive ==
  ASSUME HInv, InputsInv, NEW i \in Input, Arrive(i)
  PROVE  OnePlace' /\ GivenToTurns' /\ InputsAreGivenOnce' /\ SteeredForward'
  <1> DEFINE e == [inputs |-> {i}, kind |-> "fresh", stage |-> "waiting", of |-> 0, wake |-> FALSE]
  <1>1. /\ i \notin arrived /\ arrived' = arrived \cup {i} /\ chain' = Append(chain, e)
        /\ UNCHANGED <<gen, queue, carried, retry, given>>
    BY DEF Arrive, slot, turns, auth
  <1>2. e \in Admission /\ e.stage = "waiting" /\ e.kind = "fresh" /\ e.inputs = {i}
    BY DEF Admission
  <1> HIDE DEF e
  <1>3. chain \in Seq(Admission) /\ Len(chain) \in Nat /\ gen \in Nat
    BY GenNumbers DEF HInv, ChainOk
  <1>4. /\ Len(chain') = Len(chain) + 1 /\ chain'[Len(chain) + 1] = e
        /\ \A k \in 1 .. Len(chain) : chain'[k] = chain[k]
    BY <1>1, <1>2, <1>3, JoinsEffect DEF Joins
  <1>5. ASSUME NEW j \in Input, NEW p \in Place, At(j, p)'
        PROVE  At(j, p) \/ (j = i /\ p = <<"chain", Len(chain) + 1>>)
    <2>0. p = <<p[1], p[2]>> /\ p[2] \in Nat
      BY DEF Place
    <2>1. CASE p[1] = "queue"
      BY <1>1, <1>5, <2>1 DEF At
    <2>2. CASE p[1] = "chain"
      BY <1>2, <1>3, <1>4, <1>5, <2>0, <2>2 DEF At
    <2>3. CASE p[1] = "turn"
      BY <1>1, <1>5, <2>3 DEF At
    <2> QED BY <2>1, <2>2, <2>3 DEF Place
  <1>6. ~\E p \in Place : At(i, p)
    BY <1>1 DEF InputsInv, OnePlace
  <1>7. given[i] = {}
    BY <1>1 DEF InputsInv, GivenToTurns
  <1>8. OnePlace'
    <2> SUFFICES ASSUME NEW j \in Input, NEW p \in Place, At(j, p)'
                 PROVE  /\ j \in arrived'
                        /\ \A q \in Place : At(j, q)' => p = q
                        /\ \A h \in given[j] : retry[h] \in Done \/ p = <<"turn", h>>
      BY <1>1 DEF OnePlace
    <2>1. CASE j = i
      BY <1>1, <1>5, <1>6, <1>7, <2>1
    <2>2. CASE j # i
      BY <1>1, <1>5, <2>2 DEF InputsInv, OnePlace
    <2> QED BY <2>1, <2>2
  <1>9. GivenToTurns' /\ InputsAreGivenOnce'
    BY <1>1 DEF InputsInv, GivenToTurns, InputsAreGivenOnce
  <1>10. SteeredForward'
    BY <1>1, <1>2, <1>3, <1>4 DEF InputsInv, SteeredForward
  <1> QED BY <1>8, <1>9, <1>10

\* The driver of a turn gets the inputs of the turn.
LEMMA PlacesDrive ==
  ASSUME HInv, InputsInv, NEW g \in Gen, Drive(g)
  PROVE  OnePlace' /\ GivenToTurns' /\ InputsAreGivenOnce' /\ SteeredForward'
  <1>1. /\ turn[g] = "ready" /\ gen = g
        /\ UNCHANGED <<gen, queue, chain, carried, retry, arrived>>
        /\ given' = [i \in Input |-> IF i \in carried[g] THEN given[i] \cup {g} ELSE given[i]]
    BY DEF Drive, IsCurrent, intake, auth
  <1>2. retry[g] \notin Done
    BY <1>1 DEF InputsInv, RetriesComeLate, Done
  <1>3. <<"turn", g>> \in Place /\ g \in Nat
    BY GenNumbers DEF Place
  <1>4. \A i \in carried[g] : At(i, <<"turn", g>>)
    BY <1>2 DEF At
  <1>5. \A i \in Input : \A p : At(i, p)' <=> At(i, p)
    BY <1>1 DEF At
  <1>6. carried[g] \in SUBSET Input /\ given \in [Input -> SUBSET Gen]
    BY DEF HInv, Contents, InputsInv, GivenToTurns
  <1>7. /\ given' \in [Input -> SUBSET Gen]
        /\ \A i \in Input : given'[i] = IF i \in carried[g] THEN given[i] \cup {g} ELSE given[i]
    BY <1>1, <1>6
  <1>8. \A i \in carried[g] :
          /\ i \in arrived
          /\ \A q \in Place : At(i, q) => q = <<"turn", g>>
          /\ \A h \in given[i] : retry[h] \in Done \/ h = g
    BY <1>3, <1>4, <1>6 DEF InputsInv, OnePlace
  <1>9. OnePlace'
    <2> SUFFICES ASSUME NEW i \in Input, NEW p \in Place, At(i, p)
                 PROVE  /\ i \in arrived
                        /\ \A q \in Place : At(i, q) => p = q
                        /\ \A h \in given'[i] : retry[h] \in Done \/ p = <<"turn", h>>
      BY <1>1, <1>5 DEF OnePlace
    <2>1. CASE i \in carried[g]
      BY <1>7, <1>8, <2>1
    <2>2. CASE i \notin carried[g]
      BY <1>7, <2>2 DEF InputsInv, OnePlace
    <2> QED BY <2>1, <2>2
  <1>10. GivenToTurns'
    BY <1>1, <1>3, <1>7, <1>8 DEF InputsInv, GivenToTurns
  <1>11. InputsAreGivenOnce'
    <2> SUFFICES ASSUME NEW i \in Input, NEW a \in given'[i], NEW b \in given'[i], a < b
                 PROVE  retry[a] \in Done
      BY <1>1 DEF InputsAreGivenOnce, Done
    <2>1. CASE i \in carried[g]
      <3>1. b \in given[i] \/ b = g
        BY <1>7, <2>1
      <3>2. a \in Gen /\ b \in Gen /\ b <= g
        BY <1>1, <1>3, <1>7, <3>1 DEF InputsInv, GivenToTurns
      <3>3. a # g
        BY <3>2, GenNumbers
      <3> QED BY <1>7, <1>8, <2>1, <3>3
    <2>2. CASE i \notin carried[g]
      BY <1>7, <2>2 DEF InputsInv, InputsAreGivenOnce, Done
    <2> QED BY <2>1, <2>2
  <1>12. SteeredForward'
    <2> SUFFICES ASSUME NEW k \in 1 .. Len(chain), chain[k].stage = "steering",
                        NEW i \in chain[k].inputs
                 PROVE  /\ chain[k].of \in Gen /\ chain[k].of <= gen
                        /\ \A h \in given'[i] : h <= chain[k].of
      BY <1>1 DEF InputsInv, SteeredForward
    <2>1. chain[k] \in Admission /\ k \in Nat
      BY DEF HInv, ChainOk
    <2>2. i \in Input /\ <<"chain", k>> \in Place /\ At(i, <<"chain", k>>)
      BY <2>1 DEF At, Admission, Place
    <2>3. i \notin carried[g]
      BY <1>8, <2>2
    <2> QED BY <1>7, <2>2, <2>3 DEF InputsInv, SteeredForward
  <1> QED BY <1>9, <1>10, <1>11, <1>12


\* An input moves from one place to another, in one turn at a time.
LEMMA PlacesStep ==
  ASSUME HInv, InputsInv, Next
  PROVE  OnePlace' /\ GivenToTurns' /\ InputsAreGivenOnce' /\ SteeredForward'
  <1> DEFINE Places == OnePlace' /\ GivenToTurns' /\ InputsAreGivenOnce' /\ SteeredForward'
             e == Head(chain)
  <1>1. \A g \in Gen : retry[g] \in Done => retry'[g] \in Done
    BY DoneStays DEF HInv, Done
  <1>2. /\ chain \in Seq(Admission) /\ activeRun \in Gen \cup {0}
        /\ chain # <<>> => e \in Admission /\ e.of \in Gen \cup {0}
    <2>1. chain \in Seq(Admission) /\ activeRun \in Gen \cup {0}
      BY DEF HInv, ChainOk, IInv, SlotType
    <2> QED BY <2>1, ChainFacts DEF Admission
  <1>3. CASE Begin(e) /\ (AtStage("waiting") \/ AtStage("saving"))
    <2>1. /\ Gone /\ queue' = queue /\ UNCHANGED <<given, arrived>> /\ gen' = gen + 1
          /\ carried' = [carried EXCEPT ![gen'] = e.inputs] /\ e.stage \in {"waiting", "saving"}
      BY <1>3 DEF Begin, Gone, AtStage
    <2> QED BY <1>1, <2>1, PlacesAdvance
  <1>4. CASE AdmitFree /\ ~Begin(e)
    <2>1. /\ AtStage("waiting") /\ Move("saving", 0)
          /\ UNCHANGED <<gen, queue, carried, retry, given, arrived>>
      BY <1>4 DEF AdmitFree, auth, past
    <2>2. Moves("saving", 0)
      BY <1>2, <2>1, MovesOk
    <2> QED BY <2>1, <2>2, PlacesMove
  <1>5. CASE AdmitBusy
    <2>1. AtStage("waiting") /\ chain # <<>> /\ UNCHANGED <<gen, carried, retry, given, arrived>>
      BY <1>5 DEF AdmitBusy, slot, auth, past, AtStage
    <2>2. CASE activeRun # 0 /\ Move("steering", activeRun) /\ UNCHANGED queue
      <3>1. Moves("steering", activeRun)
        BY <1>2, <2>1, <2>2, MovesOk
      <3> QED BY <2>1, <2>2, <3>1, PlacesMove
    <2>3. CASE Move("flushing", e.of) /\ queue' = Enqueued(e.inputs)
      <3>1. Moves("flushing", e.of)
        BY <1>2, <2>1, <2>3, MovesOk
      <3> QED BY <2>1, <2>3, <3>1, PlacesQueue
    <2> QED BY <1>5, <2>2, <2>3 DEF AdmitBusy
  <1>6. CASE Steered
    <2> DEFINE got == [i \in Input |-> IF i \in e.inputs THEN given[i] \cup {e.of} ELSE given[i]]
    <2>1. AtStage("steering") /\ UNCHANGED <<gen, carried, retry, arrived>>
      BY <1>6 DEF Steered, slot, turns, auth
    <2>2. CASE given' = got /\ Move("telling", 0) /\ UNCHANGED queue
      <3>1. Moves("telling", 0)
        BY <1>2, <2>1, <2>2, MovesOk
      <3> QED BY <2>1, <2>2, <3>1, PlacesSteered
    <2>3. CASE given' = given /\ Move("telling", 0) /\ UNCHANGED queue
      <3>1. Moves("telling", 0)
        BY <1>2, <2>1, <2>3, MovesOk
      <3> QED BY <2>1, <2>3, <3>1, PlacesMove
    <2>4. CASE queue' = Enqueued(e.inputs) /\ Move("flushing", 0) /\ UNCHANGED given
      <3>1. Moves("flushing", 0)
        BY <1>2, <2>1, <2>4, MovesOk
      <3> QED BY <2>1, <2>4, <3>1, PlacesQueue
    <2> QED BY <1>6, <2>2, <2>3, <2>4 DEF Steered
  <1>7. CASE Flushed \/ AdmissionFails
    <2>1. Gone /\ queue' = queue /\ UNCHANGED <<gen, carried, given, arrived>>
      BY <1>7 DEF Flushed, AdmissionFails, Gone, AtStage, slot, turns, past
    <2> QED BY <1>1, <2>1, PlacesAdvance
  <1>8. CASE Immediate
    <2>1. UNCHANGED <<gen, carried, retry, given, arrived>>
      BY <1>8 DEF Immediate, slot, turns, auth, past
    <2>2. CASE UNCHANGED <<queue, chain>>
      BY <1>1, <2>1, <2>2, PlacesStay
    <2>3. CASE AwaitAdmission
      BY <1>1, <2>1, <2>3, PlacesStay DEF AwaitAdmission, Woken
    <2> QED BY <1>8, <2>1, <2>2, <2>3, PlacesDispatch DEF Immediate
  <1>9. ASSUME NEW g \in Gen, Disposed(g) PROVE Places
    <2>1. /\ retry[g] = "disposing" /\ UNCHANGED <<gen, queue, carried, given, arrived>>
      BY <1>9 DEF Disposed, turns, past
    <2>2. CASE UNCHANGED chain
      BY <1>1, <2>1, <2>2, PlacesStay
    <2>3. CASE IsCurrent(g)
      <3> DEFINE again == [inputs |-> carried[g], kind |-> "retry", stage |-> "waiting",
                           of |-> g, wake |-> FALSE]
      <3>1. carried[g] \in SUBSET Input
        BY DEF HInv, Contents
      <3>2. /\ again \in Admission /\ again.stage = "waiting" /\ again.kind = "retry"
            /\ again.inputs = carried[g]
        BY <3>1 DEF Admission
      <3>3. chain' = Append(chain, again) /\ retry' = [retry EXCEPT ![g] = "sent"]
        BY <1>9, <2>3 DEF Disposed
      <3> HIDE DEF again
      <3>4. Joins(again)
        BY <3>2, <3>3 DEF Joins
      <3> QED BY <2>1, <3>2, <3>3, <3>4, PlacesResent
    <2> QED BY <1>9, <2>2, <2>3 DEF Disposed
  <1>10. CASE \/ TimerFires \/ Released \/ UserStop \/ HandoffStop \/ Release
              \/ \E g \in Gen : \/ Accepted(g) \/ TurnFails(g) \/ RetryStarts(g) \/ DisposalFails(g)
                                \/ AuthError(g) \/ LoopEnds(g) \/ DetachedEnds(g)
    <2>1. /\ queue' = queue \/ queue' = <<>>
          /\ UNCHANGED <<gen, chain, carried, given, arrived>>
      <3>1. CASE TimerFires \/ Released \/ UserStop \/ HandoffStop \/ Release
        BY <3>1 DEF TimerFires, Released, UserStop, HandoffStop, Release, intake, turns, past
      <3>2. ASSUME NEW g \in Gen, \/ Accepted(g) \/ TurnFails(g) \/ DisposalFails(g)
                                  \/ AuthError(g) \/ LoopEnds(g) \/ DetachedEnds(g)
            PROVE  /\ queue' = queue \/ queue' = <<>>
                   /\ UNCHANGED <<gen, chain, carried, given, arrived>>
        BY <3>2 DEF Accepted, TurnFails, DisposalFails, AuthError, LoopEnds, DetachedEnds,
                    slot, intake, turns, past
      <3>3. ASSUME NEW g \in Gen, RetryStarts(g)
            PROVE  /\ queue' = queue \/ queue' = <<>>
                   /\ UNCHANGED <<gen, chain, carried, given, arrived>>
        BY <3>3 DEF RetryStarts, slot, intake, turns, past
      <3> QED BY <1>10, <3>1, <3>2, <3>3
    <2> QED BY <1>1, <2>1, PlacesStay
  <1>11. CASE AdmitFree \/ Saved
    BY <1>3, <1>4, <1>11 DEF AdmitFree, Saved
  <1> HIDE DEF e
  <1>12. CASE Own
    BY <1>5, <1>6, <1>7, <1>8, <1>9, <1>10, <1>11, <1>12, PlacesDrive DEF Own
  <1>13. CASE Others
    BY <1>10, <1>13, PlacesArrive DEF Others
  <1> QED BY <1>12, <1>13 DEF Next

\* A turn is retried after its driver ran.
LEMMA RetriesStep ==
  ASSUME HInv, InputsInv, Next
  PROVE  RetriesComeLate'
  <1>1. /\ turn \in [Gen -> {"none", "preparing", "ready", "driving", "detached", "over"}]
        /\ retry \in [Gen -> RetryState] /\ gen \in Nat
        /\ \A g \in Gen : retry[g] # "none" => g <= gen
    BY DEF HInv, IInv, SlotType, BusyInv, RetriesFollowTurns
  <1>2. \A g \in Gen : turn[g] \in {"none", "preparing", "ready"} => retry[g] = "none"
    BY DEF InputsInv, RetriesComeLate
  <1>3. CASE Begin(Head(chain))
    <2>1. turn' = [turn EXCEPT ![gen + 1] = "preparing"] /\ retry' = retry
      BY <1>3 DEF Begin
    <2>2. gen + 1 \in Gen => retry[gen + 1] = "none"
      BY <1>1
    <2> QED BY <1>1, <1>2, <2>1, <2>2 DEF RetriesComeLate
  <1>4. CASE UNCHANGED turn /\ UNCHANGED retry
    BY <1>2, <1>4 DEF RetriesComeLate
  <1>5. ASSUME NEW g \in Gen, NEW v, UNCHANGED turn, retry' = [retry EXCEPT ![g] = v],
               retry[g] # "none" \/ turn[g] = "driving"
        PROVE  RetriesComeLate'
    BY <1>1, <1>2, <1>5 DEF RetriesComeLate
  <1>6. ASSUME NEW g \in Gen, \A h \in Gen : h # g => turn'[h] = turn[h] /\ retry'[h] = retry[h],
               \/ turn'[g] \notin {"none", "preparing", "ready"}
               \/ turn[g] \in {"none", "preparing", "ready"} /\ retry'[g] = retry[g]
        PROVE  RetriesComeLate'
    BY <1>2, <1>6 DEF RetriesComeLate
  <1>7. CASE AdmissionFails
    <2> DEFINE e == Head(chain)
    <2>1. UNCHANGED turn
      BY <1>7 DEF AdmissionFails
    <2>2. CASE ~UNCHANGED retry
      <3>1. retry' = [retry EXCEPT ![e.of] = "failed"] /\ e.kind = "retry" /\ e.stage = "waiting"
        BY <1>7, <2>2 DEF AdmissionFails
      <3>2. e = chain[1] /\ 1 \in 1 .. Len(chain)
        BY <1>7, ChainFacts DEF AdmissionFails, HInv, ChainOk
      <3>3. e.of \in Gen /\ retry[e.of] \in {"sent", "failed"}
        BY <3>1, <3>2 DEF HInv, ChainOk
      <3> HIDE DEF e
      <3> QED BY <1>5, <2>1, <3>1, <3>3
    <2> QED BY <1>4, <2>1, <2>2
  <1>8. ASSUME NEW g \in Gen, \/ RetryStarts(g) \/ Disposed(g) \/ DisposalFails(g) \/ AuthError(g)
        PROVE  RetriesComeLate'
    <2>1. UNCHANGED turn /\ (retry[g] # "none" \/ turn[g] = "driving")
      BY <1>8 DEF RetryStarts, Disposed, DisposalFails, AuthError, turns
    <2>2. PICK v : retry' = [retry EXCEPT ![g] = v]
      BY <1>8 DEF RetryStarts, Disposed, DisposalFails, AuthError
    <2> QED BY <1>5, <2>1, <2>2
  <1>9. ASSUME NEW g \in Gen, \/ Accepted(g) \/ TurnFails(g) \/ Drive(g)
                              \/ DetachedEnds(g) \/ LoopEnds(g)
        PROVE  RetriesComeLate'
    <2>1. CASE Accepted(g)
      BY <1>1, <1>6, <2>1 DEF Accepted, auth
    <2>2. CASE TurnFails(g) \/ Drive(g) \/ DetachedEnds(g)
      BY <1>1, <1>6, <2>2 DEF TurnFails, Drive, DetachedEnds, auth
    <2>3. CASE LoopEnds(g)
      BY <1>1, <1>6, <2>3 DEF LoopEnds, Drains
    <2> QED BY <1>9, <2>1, <2>2, <2>3
  <1>10. CASE TimerFires
    <2>1. /\ turn' = [turn EXCEPT ![gen] = IF @ = "driving" THEN "detached" ELSE @]
          /\ retry' = [retry EXCEPT ![gen] = IF @ = "draining" THEN "disposing" ELSE @]
      BY <1>10 DEF TimerFires, Drains
    <2> QED BY <1>1, <1>2, <2>1 DEF RetriesComeLate
  <1>11. CASE \/ AdmitBusy \/ Steered \/ Flushed \/ Immediate \/ Released
              \/ UserStop \/ HandoffStop \/ Release \/ \E i \in Input : Arrive(i)
    BY <1>4, <1>11 DEF AdmitBusy, Steered, Flushed, Immediate, Released, UserStop, HandoffStop,
                       Release, Arrive, turns, auth
  <1>12. CASE AdmitFree /\ ~Begin(Head(chain))
    BY <1>4, <1>12 DEF AdmitFree, auth
  <1> QED BY <1>3, <1>7, <1>8, <1>9, <1>10, <1>11, <1>12 DEF Next, Own, Others, Saved

LEMMA InitInputs == Init => InputsInv
  <1> SUFFICES ASSUME Init PROVE InputsInv
    OBVIOUS
  <1>1. /\ retry = [g \in Gen |-> "none"] /\ carried = [g \in Gen |-> {}]
        /\ queue = <<>> /\ chain = <<>> /\ given = [i \in Input |-> {}] /\ gen = 0
    BY DEF Init
  <1>2. \A i \in Input : \A p \in Place : ~At(i, p)
    BY <1>1 DEF At
  <1> QED BY <1>1, <1>2
    DEF InputsInv, OnePlace, GivenToTurns, SteeredForward, RetriesComeLate, InputsAreGivenOnce

LEMMA InputsStep == InputsInv /\ HInv /\ [Next]_vars => InputsInv'
  <1> SUFFICES ASSUME InputsInv, HInv, [Next]_vars PROVE InputsInv'
    OBVIOUS
  <1>1. CASE Next
    BY <1>1, PlacesStep, RetriesStep DEF InputsInv
  <1>2. CASE UNCHANGED vars
    <2>1. UNCHANGED <<gen, queue, chain, turn, carried, retry, arrived, given>>
      BY <1>2 DEF vars, slot, intake, turns, auth, past
    <2>2. \A i, p : At(i, p)' <=> At(i, p)
      BY <2>1 DEF At
    <2>3. OnePlace'
      BY <2>1, <2>2 DEF InputsInv, OnePlace
    <2> QED BY <2>1, <2>3
      DEF InputsInv, GivenToTurns, SteeredForward, RetriesComeLate, InputsAreGivenOnce
  <1> QED BY <1>1, <1>2

\* An input is given to one turn, queued and steered included, and to another
\* only when the first was replaced after an authentication error.
THEOREM InputsHaveOneTurn == Spec => []InputsAreGivenOnce
  <1>1. InputsInv => InputsAreGivenOnce
    BY DEF InputsInv
  <1> QED BY <1>1, InputsStep, InitInputs, HostInvariant, PTL DEF Spec

-----------------------------------------------------------------------------
(* How many turns there can be. A turn is begun with an input that no turn *)
(* has but those that were sent again, so turns are at most as many as     *)
(* inputs and retries together.                                            *)

Retried == {g \in Gen : retry[g] # "none"}

QueueFilled == \A k \in 1 .. Len(queue) : queue[k] # {}
ChainFilled == \A k \in 1 .. Len(chain) : chain[k].inputs # {}
TurnsFilled == \A g \in Gen : turn[g] # "none" => carried[g] # {}

Counted ==
  /\ gen \in Gen \cup {0}
  /\ \A g \in Gen : turn[g] # "none" <=> g <= gen
  /\ Cardinality(Retried) <= Retries

Flags ==
  /\ advance \in BOOLEAN /\ scheduled \in BOOLEAN /\ retrying \in BOOLEAN
  /\ tried \in BOOLEAN /\ refused \in BOOLEAN /\ arrived \subseteq Input

TurnsInv == QueueFilled /\ ChainFilled /\ TurnsFilled /\ Counted /\ Flags

\* The head of the admissions begins, or it waits for the disk first.
Beginning == chain # <<>> /\ Begin(Head(chain)) /\ Head(chain).stage \in {"waiting", "saving"}

LEMMA BeginningOrNot ==
  ASSUME AdmitFree \/ Saved
  PROVE  \/ Beginning
         \/ /\ AtStage("waiting") /\ Move("saving", 0)
            /\ UNCHANGED <<gen, queue, scheduled, advance, turn, carried, auth, past>>
  <1>1. CASE Saved
    BY <1>1 DEF Saved, AtStage, Beginning
  <1>2. CASE AdmitFree
    BY <1>2 DEF AdmitFree, AtStage, Beginning
  <1> QED BY <1>1, <1>2

\* There is a number left for the turn that begins.
LEMMA RoomForTurn ==
  ASSUME HInv, InputsInv, TurnsInv, Beginning
  PROVE  gen + 1 \in Gen
  <1> DEFINE N == Cardinality(Input)
             Keeping == {g \in 1 .. gen : retry[g] \notin Done}
             head == Head(chain)
  <1>1. N \in Nat /\ IsFiniteSet(Input) /\ Retries \in Nat /\ Gen = 1 .. (N + Retries)
    BY HostAssumption, FS_CardinalityType DEF Gen
  <1>2. gen \in Nat /\ gen <= N + Retries /\ 1 .. gen \subseteq Gen
    BY <1>1 DEF TurnsInv, Counted
  <1>3. chain \in Seq(Admission) /\ chain # <<>>
    BY DEF HInv, ChainOk, Beginning
  <1>4. 1 \in 1 .. Len(chain) /\ head = chain[1] /\ head \in Admission
    BY <1>3, ChainFacts
  <1>5. PICK i0 \in Input : i0 \in head.inputs
    <2>1. head.inputs # {}
      BY <1>4 DEF TurnsInv, ChainFilled
    <2> QED BY <1>4, <2>1 DEF Admission
  <1>6. At(i0, <<"chain", 1>>)
    BY <1>4, <1>5 DEF At, Beginning
  <1>7. ASSUME NEW g \in Keeping
        PROVE  /\ carried[g] # {} /\ carried[g] \subseteq Input
               /\ \A i \in carried[g] : At(i, <<"turn", g>>)
    <2>1. g \in Gen /\ turn[g] # "none" /\ retry[g] \notin Done
      BY <1>2 DEF TurnsInv, Counted
    <2>2. carried[g] # {} /\ carried[g] \subseteq Input
      BY <2>1 DEF TurnsInv, TurnsFilled, HInv, Contents
    <2> QED BY <2>1, <2>2 DEF At
  <1> DEFINE f == [g \in Keeping |-> CHOOSE i \in Input : i \in carried[g]]
  <1>8. \A g \in Keeping : f[g] \in Input /\ f[g] \in carried[g]
    BY <1>7
  <1>9. ASSUME NEW i \in Input, NEW p \in Place, NEW q \in Place, At(i, p), At(i, q)
        PROVE  p = q
    BY <1>9 DEF InputsInv, OnePlace
  <1>10. \A g \in Keeping : <<"turn", g>> \in Place
    BY <1>2 DEF Place
  <1> HIDE DEF f
  <1>11. f \in Injection(Keeping, Input \ {i0})
    <2>1. ASSUME NEW g \in Keeping PROVE f[g] # i0
      <3>1. <<"chain", 1>> \in Place /\ <<"chain", 1>> # <<"turn", g>>
        BY DEF Place
      <3>2. f[g] = i0 => At(i0, <<"turn", g>>)
        BY <1>7, <1>8
      <3> QED BY <1>6, <1>9, <1>10, <3>1, <3>2
    <2>2. ASSUME NEW g \in Keeping, NEW h \in Keeping, f[g] = f[h] PROVE g = h
      <3>1. At(f[g], <<"turn", g>>) /\ At(f[g], <<"turn", h>>)
        BY <1>7, <1>8, <2>2
      <3>2. <<"turn", g>> = <<"turn", h>>
        BY <1>8, <1>9, <1>10, <3>1
      <3> QED BY <3>2
    <2>3. f \in [Keeping -> Input \ {i0}]
      BY <1>8, <2>1 DEF f
    <2> QED BY <2>2, <2>3 DEF Injection, IsInjective
  <1>12. IsFiniteSet(Input \ {i0}) /\ Cardinality(Input \ {i0}) = N - 1
    BY <1>1, FS_RemoveElement
  <1>13. IsFiniteSet(Keeping) /\ Cardinality(Keeping) <= N - 1
    BY <1>11, <1>12, FS_Injection
  <1>14. IsFiniteSet(Retried) /\ Cardinality(Retried) <= Retries
    <2>1. IsFiniteSet(Gen)
      BY <1>1, FS_Interval
    <2>2. Retried \subseteq Gen
      BY DEF Retried
    <2> QED BY <2>1, <2>2, FS_Subset DEF TurnsInv, Counted
  <1>15. 1 .. gen \subseteq Keeping \cup Retried
    BY <1>2 DEF Retried, Done
  <1>16. IsFiniteSet(Keeping \cup Retried) /\
         Cardinality(Keeping \cup Retried) <= Cardinality(Keeping) + Cardinality(Retried)
    <2>1. /\ Cardinality(Keeping \cup Retried) =
                Cardinality(Keeping) + Cardinality(Retried) - Cardinality(Keeping \cap Retried)
          /\ IsFiniteSet(Keeping \cup Retried)
      BY <1>13, <1>14, FS_Union
    <2>2. Cardinality(Keeping \cap Retried) \in Nat
      BY <1>13, FS_Subset, FS_CardinalityType
    <2> QED BY <1>13, <1>14, <2>1, <2>2, FS_CardinalityType
  <1>17. Cardinality(1 .. gen) = gen
    BY <1>2, FS_Interval
  <1>18. gen <= Cardinality(Keeping \cup Retried)
    <2> DEFINE U == Keeping \cup Retried
    <2>1. IsFiniteSet(U) /\ 1 .. gen \in SUBSET U
      BY <1>15, <1>16
    <2> HIDE DEF U
    <2>2. Cardinality(1 .. gen) <= Cardinality(U)
      BY <2>1, FS_Subset
    <2> QED BY <1>17, <2>2 DEF U
  <1> HIDE DEF Keeping, N
  <1>19. gen <= N - 1 + Retries
    BY <1>1, <1>2, <1>13, <1>14, <1>16, <1>18, FS_CardinalityType
  <1> QED BY <1>1, <1>2, <1>19

\* A turn begins.
LEMMA BeginsCounted ==
  ASSUME HInv, InputsInv, TurnsInv, Beginning
  PROVE  /\ Gone /\ UNCHANGED queue /\ TurnsFilled' /\ Counted' /\ Flags'
  <1> DEFINE e == Head(chain)
  <1>1. /\ chain' = Tail(chain) /\ queue' = queue /\ gen' = gen + 1
        /\ turn' = [turn EXCEPT ![gen + 1] = "preparing"]
        /\ carried' = [carried EXCEPT ![gen + 1] = e.inputs]
        /\ retry' = retry /\ advance' = TRUE /\ scheduled' = scheduled /\ refused' = FALSE
        /\ arrived' = arrived
        /\ (retrying' = retrying /\ tried' = tried) \/ (retrying' = FALSE /\ tried' = FALSE)
    BY DEF Beginning, Begin
  <1>2. gen + 1 \in Gen
    BY RoomForTurn
  <1>3. e.inputs # {}
    <2>1. 1 \in 1 .. Len(chain) /\ e = chain[1]
      BY ChainFacts DEF Beginning, HInv, ChainOk
    <2> HIDE DEF e
    <2> QED BY <2>1 DEF TurnsInv, ChainFilled
  <1>4. /\ turn \in [Gen -> {"none", "preparing", "ready", "driving", "detached", "over"}]
        /\ carried \in [Gen -> SUBSET Input] /\ gen \in Nat
    BY DEF HInv, IInv, SlotType, Contents
  <1> HIDE DEF e
  <1>5. TurnsFilled'
    BY <1>1, <1>3, <1>4 DEF TurnsInv, TurnsFilled
  <1>6. Counted'
    <2>1. Retried' = Retried
      BY <1>1 DEF Retried
    <2>2. \A g \in Gen : turn'[g] # "none" <=> g <= gen + 1
      <3>1. \A g \in Gen : g \in Nat
        BY GenNumbers
      <3> QED BY <1>1, <1>4, <3>1 DEF TurnsInv, Counted
    <2> QED BY <1>1, <1>2, <2>1, <2>2 DEF TurnsInv, Counted
  <1>7. Flags'
    BY <1>1 DEF TurnsInv, Flags
  <1> QED BY <1>1, <1>5, <1>6, <1>7 DEF Gone, Beginning

\* No other action starts a turn or forgets one.
LEMMA OtherTurns ==
  ASSUME HInv, Next, ~Beginning
  PROVE  /\ UNCHANGED <<gen, carried>>
         /\ \A g \in Gen : turn'[g] = "none" <=> turn[g] = "none"
  <1> DEFINE Same == /\ UNCHANGED <<gen, carried>>
                     /\ \A g \in Gen : turn'[g] = "none" <=> turn[g] = "none"
  <1>1. turn \in [Gen -> {"none", "preparing", "ready", "driving", "detached", "over"}]
    BY DEF HInv, IInv, SlotType
  <1>2. CASE AdmitFree \/ Saved
    BY <1>2, BeginningOrNot
  <1>3. CASE AdmitBusy \/ Steered \/ Flushed \/ AdmissionFails \/ Immediate \/ Released
    BY <1>3 DEF AdmitBusy, Steered, Flushed, AdmissionFails, Immediate, Released, slot, turns
  <1>4. CASE TimerFires
    BY <1>1, <1>4 DEF TimerFires
  <1>5. ASSUME NEW g \in Gen, Accepted(g) \/ TurnFails(g) \/ Drive(g) \/ LoopEnds(g) \/ DetachedEnds(g)
        PROVE  Same
    BY <1>1, <1>5 DEF Accepted, TurnFails, Drive, LoopEnds, DetachedEnds
  <1>6. ASSUME NEW g \in Gen, RetryStarts(g) PROVE Same
    BY <1>6 DEF RetryStarts, slot, turns
  <1>7. ASSUME NEW g \in Gen, Disposed(g) \/ DisposalFails(g) \/ AuthError(g) PROVE Same
    BY <1>7 DEF Disposed, DisposalFails, AuthError, slot, turns
  <1>8. CASE UserStop \/ HandoffStop \/ Release \/ \E i \in Input : Arrive(i)
    BY <1>8 DEF UserStop, HandoffStop, Release, Arrive, slot, turns
  <1>9. CASE Own
    BY <1>2, <1>3, <1>4, <1>5, <1>6, <1>7, <1>9 DEF Own
  <1>10. CASE Others
    BY <1>5, <1>7, <1>8, <1>10 DEF Others
  <1> QED BY <1>9, <1>10 DEF Next

\* A turn is retried for the first time while the bound allows it.
LEMMA RetriesCounted ==
  ASSUME HInv, InputsInv, TurnsInv, Next
  PROVE  Cardinality(Retried') <= Retries
  <1>1. IsFiniteSet(Retried) /\ Cardinality(Retried) \in Nat /\ Cardinality(Retried) <= Retries
    <2>1. IsFiniteSet(Gen)
      BY HostAssumption, FS_CardinalityType, FS_Interval DEF Gen
    <2>2. Retried \in SUBSET Gen
      BY DEF Retried
    <2> QED BY <2>1, <2>2, FS_Subset, FS_CardinalityType DEF TurnsInv, Counted
  <1>2. retry \in [Gen -> RetryState] /\ Retries \in Nat
    BY HostAssumption DEF HInv, BusyInv
  <1>3. ASSUME \A h \in Gen : retry'[h] # "none" => retry[h] # "none"
        PROVE  Cardinality(Retried') <= Retries
    <2>1. Retried' \in SUBSET Retried
      BY <1>3 DEF Retried
    <2>2. Cardinality(Retried') <= Cardinality(Retried) /\ Cardinality(Retried') \in Nat
      BY <1>1, <2>1, FS_Subset, FS_CardinalityType
    <2> QED BY <1>1, <1>2, <2>2
  <1>4. ASSUME NEW g \in Gen, AuthError(g) PROVE Cardinality(Retried') <= Retries
    <2>1. /\ retry' = [retry EXCEPT ![g] = "scheduled"]
          /\ Cardinality(Retried) < Retries
      BY <1>4 DEF AuthError, Retried
    <2>2. Retried' = Retried \cup {g}
      BY <1>2, <2>1 DEF Retried
    <2>3. /\ Cardinality(Retried \cup {g}) \in Nat
          /\ Cardinality(Retried \cup {g}) <= Cardinality(Retried) + 1
      <3>1. Cardinality(Retried \cup {g}) =
              IF g \in Retried THEN Cardinality(Retried) ELSE Cardinality(Retried) + 1
        BY <1>1, FS_AddElement
      <3> QED BY <1>1, <3>1
    <2> QED BY <1>1, <1>2, <2>1, <2>2, <2>3
  <1>5. CASE Begin(Head(chain)) \/ UNCHANGED retry
    BY <1>3, <1>5 DEF Begin
  <1>6. ASSUME NEW g \in Gen, NEW v, retry' = [retry EXCEPT ![g] = v], retry[g] # "none"
        PROVE  Cardinality(Retried') <= Retries
    BY <1>2, <1>3, <1>6
  <1>7. CASE AdmissionFails
    <2> DEFINE e == Head(chain)
    <2>1. CASE ~UNCHANGED retry
      <3>1. retry' = [retry EXCEPT ![e.of] = "failed"] /\ e.kind = "retry" /\ e.stage = "waiting"
        BY <1>7, <2>1 DEF AdmissionFails
      <3>2. e = chain[1] /\ 1 \in 1 .. Len(chain)
        BY <1>7, ChainFacts DEF AdmissionFails, HInv, ChainOk
      <3>3. e.of \in Gen /\ retry[e.of] \in {"sent", "failed"}
        BY <3>1, <3>2 DEF HInv, ChainOk
      <3> HIDE DEF e
      <3> QED BY <1>6, <3>1, <3>3
    <2> QED BY <1>5, <2>1
  <1>8. ASSUME NEW g \in Gen, RetryStarts(g) \/ Disposed(g) \/ DisposalFails(g)
        PROVE  Cardinality(Retried') <= Retries
    <2>1. retry[g] # "none"
      BY <1>8 DEF RetryStarts, Disposed, DisposalFails
    <2>2. PICK v : retry' = [retry EXCEPT ![g] = v]
      BY <1>8 DEF RetryStarts, Disposed, DisposalFails
    <2> QED BY <1>6, <2>1, <2>2
  <1>9. CASE TimerFires \/ \E g \in Gen : LoopEnds(g)
    <2>1. PICK g : retry' = [retry EXCEPT ![g] = IF @ = "draining" THEN "disposing" ELSE @]
      BY <1>9 DEF TimerFires, LoopEnds, Drains
    <2> QED BY <1>2, <1>3, <2>1
  <1>10. CASE \/ AdmitBusy \/ Steered \/ Flushed \/ Immediate \/ Released \/ UserStop
              \/ HandoffStop \/ Release \/ \E i \in Input : Arrive(i)
              \/ \E g \in Gen : Accepted(g) \/ TurnFails(g) \/ Drive(g) \/ DetachedEnds(g)
    BY <1>5, <1>10 DEF AdmitBusy, Steered, Flushed, Immediate, Released, UserStop, HandoffStop,
      Release, Arrive, Accepted, TurnFails, Drive, DetachedEnds, turns, auth
  <1>11. CASE AdmitFree \/ Saved
    BY <1>5, <1>11, BeginningOrNot DEF auth, Beginning
  <1>12. CASE Own
    BY <1>7, <1>8, <1>9, <1>10, <1>11, <1>12 DEF Own
  <1>13. CASE Others
    BY <1>4, <1>9, <1>10, <1>13 DEF Others
  <1> QED BY <1>12, <1>13 DEF Next

\* Admissions with inputs stay so, and only those with inputs join.
LEMMA ChainStaysFilled ==
  ASSUME chain \in Seq(Admission), ChainFilled,
         \/ UNCHANGED chain \/ Gone \/ Woken
         \/ \E stage, of : Moves(stage, of)
         \/ \E e : Joins(e) /\ e.inputs # {}
         \/ \E e \in Admission : chain' = <<e>> /\ e.inputs # {}
  PROVE  ChainFilled'
  <1>1. CASE UNCHANGED chain
    BY <1>1 DEF ChainFilled
  <1>2. CASE Gone
    BY <1>2, GoneEffect DEF ChainFilled
  <1>3. CASE Woken
    BY <1>3, WokenEffect DEF ChainFilled
  <1>4. ASSUME NEW stage, NEW of, Moves(stage, of) PROVE ChainFilled'
    <2>1. /\ Len(chain') = Len(chain)
          /\ chain'[1] = [chain[1] EXCEPT !.stage = stage, !.of = of]
          /\ \A k \in 1 .. Len(chain) : k > 1 => chain'[k] = chain[k]
      BY <1>4, MovesEffect
    <2>2. chain[1] \in Admission /\ 1 \in 1 .. Len(chain) /\ Len(chain) \in Nat
      BY <1>4, ChainFacts DEF Moves
    <2>3. chain'[1].inputs # {}
      <3>1. chain[1].inputs # {}
        BY <2>2 DEF ChainFilled
      <3> QED BY <2>1, <2>2, <3>1 DEF Admission
    <2>4. ASSUME NEW k \in 1 .. Len(chain') PROVE chain'[k].inputs # {}
      <3>1. CASE k = 1
        BY <2>3, <3>1
      <3>2. CASE k > 1
        BY <2>1, <3>2 DEF ChainFilled
      <3> QED BY <2>1, <2>2, <3>1, <3>2
    <2> QED BY <2>4 DEF ChainFilled
  <1>5. ASSUME NEW e, Joins(e), e.inputs # {} PROVE ChainFilled'
    <2>1. /\ Len(chain') = Len(chain) + 1 /\ Len(chain) \in Nat
          /\ \A k \in 1 .. Len(chain) : chain'[k] = chain[k]
          /\ chain'[Len(chain) + 1] = e
      BY <1>5, JoinsEffect
    <2>2. \A k \in 1 .. Len(chain') : k \in 1 .. Len(chain) \/ k = Len(chain) + 1
      BY <2>1
    <2> QED BY <1>5, <2>1, <2>2 DEF ChainFilled
  <1>6. ASSUME NEW e \in Admission, chain' = <<e>>, e.inputs # {} PROVE ChainFilled'
    BY <1>6 DEF ChainFilled
  <1> QED BY <1>1, <1>2, <1>3, <1>4, <1>5, <1>6

\* An admission that is queued brings its inputs.
LEMMA EnqueuedFilled ==
  ASSUME HInv, QueueFilled, ChainFilled, chain # <<>>, queue' = Enqueued(Head(chain).inputs)
  PROVE  QueueFilled'
  <1> DEFINE new == Head(chain).inputs
  <1>1. new # {} /\ new \in SUBSET Input
    <2>1. Head(chain) = chain[1] /\ 1 \in 1 .. Len(chain) /\ Head(chain) \in Admission
      BY ChainFacts DEF HInv, ChainOk
    <2> QED BY <2>1 DEF ChainFilled, Admission
  <1>2. queue \in Seq(SUBSET Input)
    BY DEF HInv, Contents
  <1>3. queue' = queue \/ queue' = Append(queue, new)
    BY DEF Enqueued
  <1> HIDE DEF new
  <1>4. CASE queue' = queue
    BY <1>4 DEF QueueFilled
  <1>5. CASE queue' = Append(queue, new)
    <2>1. /\ Len(queue') = Len(queue) + 1 /\ Len(queue) \in Nat
          /\ \A k \in 1 .. Len(queue) : queue'[k] = queue[k]
          /\ queue'[Len(queue) + 1] = new
      BY <1>1, <1>2, <1>5
    <2>2. \A k \in 1 .. Len(queue') : k \in 1 .. Len(queue) \/ k = Len(queue) + 1
      BY <2>1
    <2> QED BY <1>1, <2>1, <2>2 DEF QueueFilled
  <1> QED BY <1>3, <1>4, <1>5

LEMMA DispatchFilled ==
  ASSUME HInv, QueueFilled, ChainFilled, Dispatch
  PROVE  QueueFilled' /\ ChainFilled'
  <1>1. queue \in Seq(SUBSET Input) /\ chain \in Seq(Admission)
    BY DEF HInv, Contents, ChainOk
  <1>2. PICK n \in 1 .. Len(queue) :
          queue' = SubSeq(queue, n + 1, Len(queue)) /\ chain' = <<Replay(n)>>
    BY DEF Dispatch
  <1>3. Replay(n) \in Admission /\ Replay(n).inputs # {}
    <2>1. queue[1] # {} /\ 1 \in 1 .. n
      BY <1>1 DEF QueueFilled
    <2>2. PICK i : i \in queue[1]
      BY <2>1
    <2>3. /\ Replay(n) \in Admission
          /\ \A j : j \in Replay(n).inputs <=> \E k \in 1 .. n : j \in queue[k]
      BY <1>1, ReplayEffect
    <2>4. i \in Replay(n).inputs
      BY <2>1, <2>2, <2>3
    <2> QED BY <2>3, <2>4
  <1>4. ChainFilled'
    BY <1>1, <1>2, <1>3, ChainStaysFilled
  <1>5. QueueFilled'
    <2>1. n + 1 \in Nat /\ Len(queue) \in Nat /\ n <= Len(queue)
      BY <1>1
    <2>2. /\ Len(queue') = Len(queue) - n
          /\ \A k \in 1 .. Len(queue') : queue'[k] = queue[n + k]
      BY <1>1, <1>2, <2>1
    <2>3. \A k \in 1 .. Len(queue') : n + k \in 1 .. Len(queue)
      BY <2>1, <2>2
    <2> QED BY <2>2, <2>3 DEF QueueFilled
  <1> QED BY <1>4, <1>5

\* What comes into an admission or the queue has inputs.
LEMMA IntakeFilled ==
  ASSUME HInv, InputsInv, TurnsInv, Next, ~Beginning
  PROVE  QueueFilled' /\ ChainFilled'
  <1> DEFINE Filled == QueueFilled' /\ ChainFilled'
  <1>1. /\ chain \in Seq(Admission) /\ activeRun \in Gen \cup {0}
        /\ QueueFilled /\ ChainFilled
        /\ chain # <<>> => Head(chain).of \in Gen \cup {0}
    <2>1. chain \in Seq(Admission)
      BY DEF HInv, ChainOk
    <2> QED BY <2>1, ChainFacts DEF HInv, IInv, SlotType, TurnsInv, Admission
  <1>2. ASSUME UNCHANGED queue, \/ UNCHANGED chain \/ Gone \/ Woken
                               \/ \E stage, of : Moves(stage, of)
                               \/ \E e : Joins(e) /\ e.inputs # {}
        PROVE  Filled
    BY <1>1, <1>2, ChainStaysFilled DEF QueueFilled
  <1>3. CASE AdmitFree \/ Saved
    <2>1. AtStage("waiting") /\ Move("saving", 0) /\ UNCHANGED queue
      BY <1>3, BeginningOrNot
    <2>2. Moves("saving", 0)
      BY <1>1, <2>1, MovesOk
    <2> QED BY <1>2, <2>1, <2>2
  <1>4. CASE AdmitBusy
    <2>1. AtStage("waiting") /\ chain # <<>>
      BY <1>4 DEF AdmitBusy, AtStage
    <2>2. CASE activeRun # 0 /\ Move("steering", activeRun) /\ UNCHANGED queue
      <3>1. Moves("steering", activeRun)
        BY <1>1, <2>1, <2>2, MovesOk
      <3> QED BY <1>2, <2>2, <3>1
    <2>3. CASE Move("flushing", Head(chain).of) /\ queue' = Enqueued(Head(chain).inputs)
      <3>1. Moves("flushing", Head(chain).of)
        BY <1>1, <2>1, <2>3, MovesOk
      <3>2. ChainFilled'
        BY <1>1, <3>1, ChainStaysFilled
      <3> QED BY <1>1, <2>1, <2>3, <3>2, EnqueuedFilled
    <2> QED BY <1>4, <2>2, <2>3 DEF AdmitBusy
  <1>5. CASE Steered
    <2>1. AtStage("steering") /\ chain # <<>>
      BY <1>5 DEF Steered, AtStage
    <2>2. CASE Move("telling", 0) /\ UNCHANGED queue
      <3>1. Moves("telling", 0)
        BY <1>1, <2>1, <2>2, MovesOk
      <3> QED BY <1>2, <2>2, <3>1
    <2>3. CASE queue' = Enqueued(Head(chain).inputs) /\ Move("flushing", 0)
      <3>1. Moves("flushing", 0)
        BY <1>1, <2>1, <2>3, MovesOk
      <3>2. ChainFilled'
        BY <1>1, <3>1, ChainStaysFilled
      <3> QED BY <1>1, <2>1, <2>3, <3>2, EnqueuedFilled
    <2> QED BY <1>5, <2>2, <2>3 DEF Steered
  <1>6. CASE Flushed \/ AdmissionFails
    <2>1. Gone /\ queue' = queue
      BY <1>6 DEF Flushed, AdmissionFails, Gone, AtStage
    <2> QED BY <1>2, <2>1
  <1>7. CASE Immediate
    <2>1. CASE AwaitAdmission
      BY <1>2, <2>1 DEF AwaitAdmission, Woken
    <2>2. CASE UNCHANGED <<queue, chain>>
      BY <1>2, <2>2
    <2> QED BY <1>1, <1>7, <2>1, <2>2, DispatchFilled DEF Immediate
  <1>8. ASSUME NEW g \in Gen, Disposed(g) PROVE Filled
    <2> DEFINE again == [inputs |-> carried[g], kind |-> "retry", stage |-> "waiting",
                         of |-> g, wake |-> FALSE]
    <2>1. UNCHANGED queue /\ (UNCHANGED chain \/ chain' = Append(chain, again))
      BY <1>8 DEF Disposed
    <2>2. carried[g] # {} /\ carried[g] \in SUBSET Input
      <3>1. turn[g] # "none"
        BY <1>8 DEF Disposed, InputsInv, RetriesComeLate
      <3> QED BY <3>1 DEF TurnsInv, TurnsFilled, HInv, Contents
    <2>3. /\ again \in Admission /\ again.inputs # {} /\ again.stage = "waiting"
          /\ again.kind = "retry"
      BY <2>2 DEF Admission
    <2> HIDE DEF again
    <2>4. chain' = Append(chain, again) => Joins(again)
      BY <2>3 DEF Joins
    <2> QED BY <1>2, <2>1, <2>3, <2>4
  <1>9. ASSUME NEW i \in Input, Arrive(i) PROVE Filled
    <2> DEFINE fresh == [inputs |-> {i}, kind |-> "fresh", stage |-> "waiting",
                         of |-> 0, wake |-> FALSE]
    <2>1. UNCHANGED queue /\ chain' = Append(chain, fresh)
      BY <1>9 DEF Arrive
    <2>2. /\ fresh \in Admission /\ fresh.inputs # {} /\ fresh.stage = "waiting"
          /\ fresh.kind = "fresh"
      BY DEF Admission
    <2> HIDE DEF fresh
    <2>3. Joins(fresh)
      BY <2>1, <2>2 DEF Joins
    <2> QED BY <1>2, <2>1, <2>2, <2>3
  <1>10. CASE UserStop \/ Release
    <2>1. UNCHANGED chain /\ queue' = <<>>
      BY <1>10 DEF UserStop, Release
    <2> QED BY <1>1, <2>1 DEF QueueFilled, ChainFilled
  <1>11. CASE \/ TimerFires \/ Released \/ HandoffStop
              \/ \E g \in Gen : \/ Accepted(g) \/ TurnFails(g) \/ Drive(g) \/ RetryStarts(g)
                                \/ DisposalFails(g) \/ AuthError(g) \/ LoopEnds(g) \/ DetachedEnds(g)
    <2>1. UNCHANGED <<queue, chain>>
      BY <1>11 DEF TimerFires, Released, HandoffStop, Accepted, TurnFails, Drive, RetryStarts,
        DisposalFails, AuthError, LoopEnds, DetachedEnds, intake
    <2> QED BY <1>2, <2>1
  <1>12. CASE Own
    BY <1>3, <1>4, <1>5, <1>6, <1>7, <1>8, <1>11, <1>12 DEF Own
  <1>13. CASE Others
    BY <1>9, <1>10, <1>11, <1>13 DEF Others
  <1> QED BY <1>12, <1>13 DEF Next

LEMMA ResumeIsBoolean ==
  ASSUME NEW condition, ResumeIf(condition)
  PROVE  scheduled' \in BOOLEAN
  BY Zenon DEF ResumeIf

LEMMA FlagsStep ==
  ASSUME HInv, TurnsInv, Next, ~Beginning
  PROVE  Flags'
  <1>1. Flags
    BY DEF TurnsInv
  <1>2. /\ advance' \in {advance, TRUE, FALSE}
        /\ retrying' \in {retrying, TRUE, FALSE} /\ tried' \in {tried, TRUE}
    <2>1. CASE AdmitFree \/ Saved
      BY <2>1, BeginningOrNot DEF auth
    <2>2. CASE AdmitBusy \/ Steered \/ Flushed \/ AdmissionFails \/ Immediate \/ TimerFires \/ Released
      BY <2>2 DEF AdmitBusy, Steered, Flushed, AdmissionFails, Immediate, TimerFires, Released,
        slot, auth
    <2>3. ASSUME NEW g \in Gen, \/ Accepted(g) \/ TurnFails(g) \/ Drive(g) \/ RetryStarts(g)
                                \/ Disposed(g) \/ DisposalFails(g) \/ AuthError(g)
                                \/ LoopEnds(g) \/ DetachedEnds(g)
          PROVE  /\ advance' \in {advance, TRUE, FALSE}
                 /\ retrying' \in {retrying, TRUE, FALSE} /\ tried' \in {tried, TRUE}
      BY <2>3 DEF Accepted, TurnFails, Drive, RetryStarts, Disposed, DisposalFails, AuthError,
        LoopEnds, DetachedEnds, RequestStop, slot, auth
    <2>4. CASE UserStop \/ HandoffStop \/ Release \/ \E i \in Input : Arrive(i)
      BY <2>4 DEF UserStop, HandoffStop, Release, Arrive, RequestStop, slot, auth
    <2> QED BY <2>1, <2>2, <2>3, <2>4 DEF Next, Own, Others
  <1>3. /\ scheduled' \in BOOLEAN \/ scheduled' = scheduled
        /\ refused' = refused \/ \E e : refused' = (refused \/ e.kind = "replay")
        /\ arrived' \subseteq arrived \cup Input
    <2> DEFINE Goal == /\ scheduled' \in BOOLEAN \/ scheduled' = scheduled
                       /\ refused' = refused \/ \E e : refused' = (refused \/ e.kind = "replay")
                       /\ arrived' \subseteq arrived \cup Input
    <2>1. CASE AdmitFree \/ Saved
      BY <2>1, BeginningOrNot DEF past
    <2>2. CASE AdmitBusy \/ Steered \/ Released
      BY <2>2 DEF AdmitBusy, Steered, Released, intake, past
    <2>3. CASE Flushed \/ TimerFires
      BY <2>3, ResumeIsBoolean DEF Flushed, TimerFires, past
    <2>4. CASE AdmissionFails
      BY <2>4, ResumeIsBoolean DEF AdmissionFails
    <2>5. CASE Immediate
      BY <2>5 DEF Immediate, past
    <2>6. ASSUME NEW g \in Gen, \/ Accepted(g) \/ Drive(g) \/ RetryStarts(g) \/ Disposed(g) \/ AuthError(g)
          PROVE  Goal
      BY <2>6 DEF Accepted, Drive, RetryStarts, Disposed, AuthError, intake, past
    <2>7. ASSUME NEW g \in Gen, \/ TurnFails(g) \/ DisposalFails(g) \/ LoopEnds(g) \/ DetachedEnds(g)
          PROVE  Goal
      <3>1. UNCHANGED past
        BY <2>7 DEF TurnFails, DisposalFails, LoopEnds, DetachedEnds
      <3>2. UNCHANGED scheduled \/ \E c : ResumeIf(c)
        BY <2>7 DEF TurnFails, DisposalFails, LoopEnds, DetachedEnds
      <3> QED BY <3>1, <3>2, ResumeIsBoolean DEF past
    <2>8. CASE UserStop \/ HandoffStop \/ Release \/ \E i \in Input : Arrive(i)
      BY <2>8 DEF UserStop, HandoffStop, Release, Arrive, intake, past
    <2> QED BY <2>1, <2>2, <2>3, <2>4, <2>5, <2>6, <2>7, <2>8 DEF Next, Own, Others
  <1>4. /\ refused' \in BOOLEAN /\ scheduled' \in BOOLEAN
    BY Zenon, <1>1, <1>3 DEF Flags
  <1>5. advance' \in BOOLEAN /\ retrying' \in BOOLEAN /\ tried' \in BOOLEAN
    BY <1>1, <1>2 DEF Flags
  <1>6. arrived' \subseteq Input
    BY <1>1, <1>3 DEF Flags
  <1> QED BY <1>4, <1>5, <1>6 DEF Flags

LEMMA TurnsStep == HInv /\ InputsInv /\ TurnsInv /\ [Next]_vars => TurnsInv'
  <1> SUFFICES ASSUME HInv, InputsInv, TurnsInv, [Next]_vars PROVE TurnsInv'
    OBVIOUS
  <1>1. CASE UNCHANGED vars
    BY <1>1 DEF vars, slot, intake, turns, auth, past, TurnsInv, QueueFilled, ChainFilled,
      TurnsFilled, Counted, Retried, Flags
  <1>2. CASE Beginning
    <2>1. /\ Gone /\ UNCHANGED queue /\ TurnsFilled' /\ Counted' /\ Flags'
      BY <1>2, BeginsCounted
    <2>2. ChainFilled'
      BY <2>1, ChainStaysFilled DEF TurnsInv, HInv, ChainOk
    <2> QED BY <2>1, <2>2 DEF TurnsInv, QueueFilled
  <1>3. CASE Next /\ ~Beginning
    <2>1. UNCHANGED <<gen, carried>> /\ \A g \in Gen : turn'[g] = "none" <=> turn[g] = "none"
      BY <1>3, OtherTurns
    <2>2. TurnsFilled' /\ Counted'
      BY <1>3, <2>1, RetriesCounted DEF TurnsInv, TurnsFilled, Counted
    <2> QED BY <1>3, <2>2, IntakeFilled, FlagsStep DEF TurnsInv
  <1> QED BY <1>1, <1>2, <1>3

LEMMA InitTurns == Init => TurnsInv
  <1> SUFFICES ASSUME Init PROVE TurnsInv
    OBVIOUS
  <1>1. /\ gen = 0 /\ turn = [g \in Gen |-> "none"] /\ retry = [g \in Gen |-> "none"]
        /\ queue = <<>> /\ chain = <<>>
    BY DEF Init
  <1>2. Retried = {}
    BY <1>1 DEF Retried
  <1>3. Cardinality(Retried) <= Retries
    BY <1>2, HostAssumption, FS_EmptySet
  <1>4. \A g \in Gen : turn[g] # "none" <=> g <= gen
    BY <1>1, GenIsPositive
  <1>5. advance = TRUE /\ scheduled = FALSE /\ retrying = FALSE /\ tried = FALSE
        /\ refused = FALSE /\ arrived = {}
    BY DEF Init
  <1>6. Flags
    BY <1>5 DEF Flags
  <1> QED BY <1>1, <1>3, <1>4, <1>6 DEF TurnsInv, QueueFilled, ChainFilled, TurnsFilled, Counted

\* The type invariant. What it says beyond types is that turns are numbered without a
\* gap and are at most as many as inputs and retries, however inputs are queued,
\* merged, steered and sent again.
THEOREM HostTypeOK == Spec => []TypeOK
  <1>1. HInv /\ InputsInv /\ TurnsInv => TypeOK
    <2> SUFFICES ASSUME HInv, InputsInv, TurnsInv PROVE TypeOK
      OBVIOUS
    <2>1. driving \in Gen \cup {0} /\ retry \in [Gen -> RetryState]
      BY DEF HInv, BusyInv, DriverIsCurrent
    <2>2. /\ activeRun \in Gen \cup {0} /\ processing \in BOOLEAN /\ stop \in BOOLEAN
          /\ timer \in BOOLEAN /\ settled \in {"none", "failed", "done"}
          /\ turn \in [Gen -> {"none", "preparing", "ready", "driving", "detached", "over"}]
          /\ run \in [Gen -> {"none", "open", "left", "closed"}]
          /\ released \in {"no", "closing", "gone"}
      BY DEF HInv, IInv, SlotType
    <2>3. chain \in Seq(Admission) /\ queue \in Seq(SUBSET Input) /\ carried \in [Gen -> SUBSET Input]
      BY DEF HInv, ChainOk, Contents
    <2>4. given \in [Input -> SUBSET Gen]
      BY DEF InputsInv, GivenToTurns
    <2>5. gen \in Gen \cup {0} /\ \A g \in Gen : turn[g] # "none" <=> g <= gen
      BY DEF TurnsInv, Counted
    <2>6. {processing, stop, advance, timer, scheduled} \subseteq BOOLEAN
      BY <2>2 DEF TurnsInv, Flags
    <2>7. {retrying, tried, refused} \subseteq BOOLEAN /\ arrived \subseteq Input
      BY DEF TurnsInv, Flags
    <2> QED BY <2>1, <2>2, <2>3, <2>4, <2>5, <2>6, <2>7 DEF TypeOK, RetryState
  <1> QED BY <1>1, TurnsStep, InitTurns, InputsStep, InitInputs, HostInvariant, PTL DEF Spec
=============================================================================
