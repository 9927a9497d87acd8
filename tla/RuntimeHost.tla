---------------------------- MODULE RuntimeHost ----------------------------
(***************************************************************************)
(* The foreground of one session: RuntimeHost (execution/host.ts) with the *)
(* callers that drive it in SessionManager.ts, which admit inputs, run     *)
(* turns, stop them, replace a driver after an authentication error and    *)
(* delete the session.                                                     *)
(*                                                                         *)
(* Everything runs on one JavaScript thread, so an action is what runs     *)
(* from one event (an arrival, a timer, an immediate, an answer) to the    *)
(* next, promises that are already settled included.  A turn is named by   *)
(* its generation, and so is the run it is accepted as.                    *)
(***************************************************************************)
EXTENDS Naturals, FiniteSets, SequencesExt

CONSTANTS
  Input,    \* messages of the user
  Retries   \* bound: authentication errors that are answered by a retry

ASSUME HostAssumption == IsFiniteSet(Input) /\ Retries \in Nat

\* Every turn runs an input that arrived or was sent again by a retry.
Gen == 1 .. (Cardinality(Input) + Retries)

VARIABLES
  gen,         \* the current generation, 0 before the first
  processing, stop, advance,  \* the slot; advance is advanceQueueOnStop
  activeRun,   \* the generation whose run owns the foreground, 0 for none
  settled,     \* the result of this generation's finish
  timer,       \* the stop timer is set
  driving,     \* the turn whose driver the slot waits for, 0 for none
  queue,       \* entries that wait for the foreground: sets of inputs
  scheduled,   \* an immediate will look at the queue
  chain,       \* admissions, the head in progress and the others behind it
  turn,        \* where runSessionTurn of a generation stands
  carried,     \* the inputs of a turn
  run,         \* the ledger's run of a generation
  retry,       \* where the retry of a turn stands
  retrying, tried, \* authRetryInProgress, authRetryAttempted
  released,    \* how far releaseSession has come
  arrived,     \* history: inputs that have come
  given,       \* history: the turns whose driver got an input
  refused      \* history: the replay that was dispatched last was refused

slot   == <<gen, processing, stop, advance, activeRun, settled, timer, driving>>
intake == <<queue, scheduled, chain>>
turns  == <<turn, carried, run>>
auth   == <<retry, retrying, tried>>
past   == <<arrived, given, refused>>
vars   == <<slot, intake, turns, auth, released, past>>

Admission == [inputs : SUBSET Input, kind : {"fresh", "replay", "retry"},
              stage : {"waiting", "saving", "steering", "flushing", "telling"},
              of : Gen \cup {0},  \* the run that is steered, or the turn that is retried
              wake : BOOLEAN]     \* its end resumes the queue

TypeOK ==
  /\ gen \in Gen \cup {0} /\ activeRun \in Gen \cup {0} /\ driving \in Gen \cup {0}
  /\ {processing, stop, advance, timer, scheduled} \subseteq BOOLEAN
  /\ settled \in {"none", "failed", "done"}
  /\ queue \in Seq(SUBSET Input)
  /\ chain \in Seq(Admission)
  /\ turn \in [Gen -> {"none", "preparing", "ready", "driving", "detached", "over"}]
  /\ carried \in [Gen -> SUBSET Input]
  /\ run \in [Gen -> {"none", "open", "left", "closed"}]
  /\ retry \in [Gen -> {"none", "scheduled", "draining", "disposing",
                        "sent", "failed", "dropped", "superseded"}]
  /\ {retrying, tried, refused} \subseteq BOOLEAN
  /\ released \in {"no", "closing", "gone"}
  /\ arrived \subseteq Input /\ given \in [Input -> SUBSET Gen]
  /\ \A g \in Gen : turn[g] # "none" <=> g <= gen

Init ==
  /\ gen = 0 /\ activeRun = 0 /\ driving = 0
  /\ processing = FALSE /\ stop = FALSE /\ timer = FALSE /\ scheduled = FALSE
  /\ advance = TRUE /\ settled = "none"
  /\ queue = <<>> /\ chain = <<>>
  /\ turn = [g \in Gen |-> "none"] /\ carried = [g \in Gen |-> {}]
  /\ run = [g \in Gen |-> "none"] /\ retry = [g \in Gen |-> "none"]
  /\ retrying = FALSE /\ tried = FALSE /\ refused = FALSE /\ released = "no"
  /\ arrived = {} /\ given = [i \in Input |-> {}]

-----------------------------------------------------------------------------
(* What the handlers share *)

IsCurrent(g) == gen = g /\ released # "gone"

\* Seeded fault: an admission in progress is trusted to look at the queue.
ResumeIfNotAdmitting(condition) ==
  scheduled' = \/ scheduled
               \/ /\ condition /\ released = "no" /\ queue # <<>> /\ chain = <<>>
                  /\ ~processing' /\ activeRun' = 0

\* resumeQueue, on the slot the handler leaves.
ResumeIf(condition) ==
  scheduled' = \/ scheduled
               \/ /\ condition /\ released = "no" /\ queue # <<>>
                  /\ ~processing' /\ activeRun' = 0

\* What finish may still settle: a failed commit is tried again.
Finishes(g) == IsCurrent(g) /\ settled # "done"

\* finish: the run of the foreground is settled as far as the ledger allows,
\* and the foreground is given up whatever the ledger says.  A run that is
\* parked, or whose commit failed, is left to a later recovery.  The queue is
\* advanced by ResumeIf(Finishes(g) /\ advance) beside it.
Finish(g) ==
  IF ~Finishes(g)
  THEN UNCHANGED <<processing, stop, activeRun, settled, timer, run>>
  ELSE /\ processing' = FALSE /\ stop' = FALSE /\ activeRun' = 0 /\ timer' = FALSE
       /\ IF activeRun = 0
          THEN settled' = "done" /\ UNCHANGED run
          ELSE \E result \in {<<"closed", "done">>, <<"left", "done">>, <<"left", "failed">>} :
                 /\ run' = [run EXCEPT ![activeRun] = result[1]]
                 /\ settled' = result[2]

\* requestStop: the deadline starts only when something runs.
RequestStop(advanceQueue) ==
  /\ stop' = TRUE
  /\ advance' = advanceQueue
  /\ timer' = (timer \/ processing)

AtStage(stage) == chain # <<>> /\ Head(chain).stage = stage

Move(stage, of) == chain' = [chain EXCEPT ![1].stage = stage, ![1].of = of]

\* A retry that waits for its driver to drain goes on when the driver has.
Drains(g) ==
  retry' = [retry EXCEPT ![g] = IF @ = "draining" THEN "disposing" ELSE @]

-----------------------------------------------------------------------------
(* Admission of inputs *)

\* sendMessage: admissions of a session follow each other.
Arrive(i) ==
  /\ released # "gone" /\ i \notin arrived
  /\ arrived' = arrived \cup {i}
  /\ chain' = Append(chain, [inputs |-> {i}, kind |-> "fresh", stage |-> "waiting",
                             of |-> 0, wake |-> FALSE])
  /\ UNCHANGED <<slot, queue, scheduled, turns, auth, released, given, refused>>

\* begin, with what runSessionTurn does up to its first await.
Begin(e) ==
  LET g == gen + 1 IN
  /\ ~processing /\ driving = 0 /\ released = "no"
  /\ gen' = g /\ processing' = TRUE /\ stop' = FALSE /\ advance' = TRUE
  /\ settled' = "none" /\ activeRun' = 0
  /\ turn' = [turn EXCEPT ![g] = "preparing"]
  /\ carried' = [carried EXCEPT ![g] = e.inputs]
  /\ IF e.kind = "retry" THEN UNCHANGED <<retrying, tried>>
                         ELSE retrying' = FALSE /\ tried' = FALSE
  /\ refused' = FALSE
  /\ chain' = Tail(chain)
  /\ UNCHANGED <<timer, driving, queue, scheduled, retry, released, arrived, given>>

\* Seeded fault: recovery does not look whether a turn is in progress.
RecoverAlways ==
  \E closed \in {{}, {g \in Gen : run[g] \in {"open", "left"}}} :
    run' = [g \in Gen |-> IF g \in closed THEN "closed" ELSE run[g]]

\* refreshRecovery closes what the ledger lets it close, while nothing runs.
Recover ==
  IF processing THEN UNCHANGED run
  ELSE \E closed \in {{}, {g \in Gen : run[g] \in {"open", "left"}}} :
         run' = [g \in Gen |-> IF g \in closed THEN "closed" ELSE run[g]]

\* admitSessionInput with the foreground free: a new input is saved first, one
\* that was saved before begins at once.
AdmitFree ==
  LET e == Head(chain) IN
  /\ AtStage("waiting") /\ released = "no"
  /\ ~processing /\ driving = 0
  /\ Recover
  /\ \/ /\ e.kind = "fresh"
        /\ activeRun' = 0 /\ Move("saving", 0)
        /\ UNCHANGED <<gen, processing, stop, advance, settled, timer, driving, queue,
                       scheduled, turn, carried, auth, released, past>>
     \/ e.kind # "fresh" /\ Begin(e)

Saved ==
  /\ AtStage("saving") /\ Begin(Head(chain)) /\ UNCHANGED run

Enqueued(entry) ==
  IF entry \in Range(queue) THEN queue ELSE Append(queue, entry)

\* With the foreground taken, the input is steered into the run or queued.
AdmitBusy ==
  LET e == Head(chain) IN
  /\ AtStage("waiting") /\ released = "no"
  /\ processing /\ Recover
  /\ \/ ~stop /\ activeRun # 0 /\ Move("steering", activeRun) /\ UNCHANGED queue
     \/ Move("flushing", e.of) /\ queue' = Enqueued(e.inputs)
  /\ UNCHANGED <<slot, scheduled, turn, carried, auth, released, past>>

\* Seeded fault: an input whose run has gone when the driver answers is queued.
SteeredRequeues ==
  LET e == Head(chain)
      got == [i \in Input |-> IF i \in e.inputs THEN given[i] \cup {e.of} ELSE given[i]]
  IN
  /\ AtStage("steering")
  /\ \/ given' = got /\ Move("telling", 0) /\ UNCHANGED queue
     \/ /\ ~(IsCurrent(e.of) /\ activeRun = e.of)
        /\ queue' = Enqueued(e.inputs) /\ Move("flushing", 0)
        /\ given' \in {got, given}
  /\ UNCHANGED <<slot, scheduled, turns, auth, released, arrived, refused>>

\* steer after its await.  The input was accepted, or whether it was is unknown,
\* as it is whenever another run has the foreground by now; or it was rejected.
Steered ==
  LET e == Head(chain)
      got == [i \in Input |-> IF i \in e.inputs THEN given[i] \cup {e.of} ELSE given[i]]
  IN
  /\ AtStage("steering")
  /\ \/ given' \in {got, given} /\ Move("telling", 0) /\ UNCHANGED queue
     \/ /\ IsCurrent(e.of) /\ activeRun = e.of
        /\ queue' = Enqueued(e.inputs) /\ Move("flushing", 0)
        /\ UNCHANGED given
  /\ UNCHANGED <<slot, scheduled, turns, auth, released, arrived, refused>>

\* The message is on disk: an input that was queued meanwhile is looked at.
Flushed ==
  /\ AtStage("flushing") \/ AtStage("telling")
  /\ UNCHANGED <<slot, queue, turns, auth, released, past>>
  /\ chain' = Tail(chain)
  /\ ResumeIf(AtStage("flushing") \/ Head(chain).wake)

\* An admission rejects: the session is being deleted, or loading or saving
\* failed.  A retry reports it and finishes the turn it was to replace.
AdmissionFails ==
  LET e == Head(chain)
      reported == e.kind = "retry" /\ e.stage = "waiting" /\ IsCurrent(e.of)
  IN
  /\ chain # <<>> /\ e.stage # "steering"
  /\ chain' = Tail(chain)
  /\ refused' = (refused \/ e.kind = "replay")
  /\ IF reported
     THEN retry' = [retry EXCEPT ![e.of] = "failed"] /\ retrying' = FALSE /\ Finish(e.of)
     ELSE UNCHANGED <<processing, stop, activeRun, settled, timer, run, retry, retrying>>
  /\ ResumeIf(e.wake \/ (reported /\ Finishes(e.of) /\ advance))
  /\ UNCHANGED <<gen, advance, driving, queue, turn, carried, tried, released,
                 arrived, given>>

\* An admission in progress goes first, and its end resumes the queue.
AwaitAdmission ==
  /\ chain # <<>>
  /\ chain' = [chain EXCEPT ![Len(chain)].wake = TRUE]
  /\ UNCHANGED queue

Replay(n) == [inputs |-> UNION {queue[k] : k \in 1 .. n}, kind |-> "replay",
              stage |-> "waiting", of |-> 0, wake |-> FALSE]

\* Seeded fault: an admission in progress is not waited for.
DispatchAnyway ==
  \E n \in 1 .. Len(queue) :
    queue' = SubSeq(queue, n + 1, Len(queue)) /\ chain' = Append(chain, Replay(n))

\* Seeded fault: what is dispatched stays in the queue.
DispatchCopies ==
  /\ chain = <<>>
  /\ \E n \in 1 .. Len(queue) : chain' = <<Replay(n)>>
  /\ UNCHANGED queue

\* The first entry is dispatched with those that were merged with it.
Dispatch ==
  /\ chain = <<>>
  /\ \E n \in 1 .. Len(queue) :
       queue' = SubSeq(queue, n + 1, Len(queue)) /\ chain' = <<Replay(n)>>

\* The immediate of resumeQueue.
Immediate ==
  LET free == released = "no" /\ ~processing /\ activeRun = 0 /\ queue # <<>> IN
  /\ scheduled /\ scheduled' = FALSE
  /\ \/ ~free /\ UNCHANGED <<queue, chain>>
     \/ free /\ (AwaitAdmission \/ Dispatch)
  /\ UNCHANGED <<slot, turns, auth, released, past>>

-----------------------------------------------------------------------------
(* A turn *)

\* The agent is ready and the run is accepted; else the turn finishes as failed,
\* and finish is a no-op for a turn that lost the foreground meanwhile.
Accepted(g) ==
  /\ turn[g] = "preparing"
  /\ IsCurrent(g) /\ processing /\ ~stop /\ activeRun = 0
  /\ activeRun' = g
  /\ run' = [run EXCEPT ![g] = "open"]
  /\ turn' = [turn EXCEPT ![g] = "ready"]
  /\ UNCHANGED <<gen, processing, stop, advance, settled, timer, driving, intake,
                 carried, auth, released, past>>

TurnFails(g) ==
  /\ turn[g] \in {"preparing", "ready"}
  /\ turn' = [turn EXCEPT ![g] = "over"]
  /\ Finish(g)
  /\ ResumeIf(Finishes(g) /\ advance)
  /\ UNCHANGED <<gen, advance, driving, queue, chain, carried, auth, released, past>>

\* Seeded fault: what happened since the run was accepted is not checked.
DriveUnchecked(g) ==
  /\ turn[g] = "ready"
  /\ driving' = g
  /\ turn' = [turn EXCEPT ![g] = "driving"]
  /\ given' = [i \in Input |-> IF i \in carried[g] THEN given[i] \cup {g} ELSE given[i]]
  /\ UNCHANGED <<gen, processing, stop, advance, activeRun, settled, timer, intake,
                 carried, run, auth, released, arrived, refused>>

\* The last check before the driver gets the input, and drive.
Drive(g) ==
  /\ turn[g] = "ready"
  /\ IsCurrent(g) /\ processing /\ ~stop /\ driving = 0
  /\ driving' = g
  /\ turn' = [turn EXCEPT ![g] = "driving"]
  /\ given' = [i \in Input |-> IF i \in carried[g] THEN given[i] \cup {g} ELSE given[i]]
  /\ UNCHANGED <<gen, processing, stop, advance, activeRun, settled, timer, intake,
                 carried, run, auth, released, arrived, refused>>

\* attemptAuthRetry, once for each message and not again for its retry.
AuthError(g) ==
  /\ turn[g] = "driving" /\ IsCurrent(g) /\ processing
  /\ ~tried /\ Cardinality({h \in Gen : retry[h] # "none"}) < Retries
  /\ tried' = TRUE /\ retrying' = TRUE
  /\ retry' = [retry EXCEPT ![g] = "scheduled"]
  /\ UNCHANGED <<slot, intake, turns, released, past>>

\* Seeded fault: nobody finishes a turn that is to be replaced.
DefersAlways(g) == retrying

\* A turn that is to be retried leaves its end to the retry, which finishes it when
\* it waited for the driver.
Defers(g) == retrying /\ retry[g] # "draining"

\* The driver's events end.  A retry that waited does not advance the queue.
LoopEnds(g) ==
  /\ turn[g] = "driving"
  /\ turn' = [turn EXCEPT ![g] = "over"]
  /\ driving' = IF driving = g THEN 0 ELSE driving
  /\ Drains(g)
  /\ \/ /\ Defers(g)
        /\ UNCHANGED <<processing, stop, activeRun, settled, timer, run, scheduled>>
     \/ /\ ~Defers(g)
        /\ Finish(g)
        /\ ResumeIf(Finishes(g) /\ advance /\ retry[g] # "draining")
     \/ /\ retrying  \* the driver breaks off before its complete event
        /\ Finish(g)
        /\ ResumeIf(Finishes(g) /\ advance)
  /\ UNCHANGED <<gen, advance, queue, chain, carried, retrying, tried, released, past>>

\* Seeded fault: a driver that runs is waited for.
DeadlinePassesIdle ==
  timer /\ stop /\ processing /\ released # "gone" /\ turn[gen] # "driving"

DeadlinePasses == timer /\ stop /\ processing /\ released # "gone"

\* The stop deadline: the driver loses the slot, its events end some time later.
TimerFires ==
  /\ DeadlinePasses
  /\ driving' = 0
  /\ turn' = [turn EXCEPT ![gen] = IF @ = "driving" THEN "detached" ELSE @]
  /\ Drains(gen)
  /\ Finish(gen)
  /\ ResumeIf(Finishes(gen) /\ advance)
  /\ UNCHANGED <<gen, advance, queue, chain, carried, retrying, tried, released, past>>

\* A driver that lost its slot ends: quietly, or with an error that is finished
\* again if the commit had failed.
DetachedEnds(g) ==
  /\ turn[g] = "detached"
  /\ turn' = [turn EXCEPT ![g] = "over"]
  /\ \/ UNCHANGED <<processing, stop, activeRun, settled, timer, run, scheduled>>
     \/ Finish(g) /\ ResumeIf(Finishes(g) /\ advance)
  /\ UNCHANGED <<gen, advance, driving, queue, chain, carried, auth, released, past>>

-----------------------------------------------------------------------------
(* Stops, retries and deletion *)

\* cancelProcessing: what waits in the queue is dropped.
UserStop ==
  /\ processing /\ released # "gone"
  /\ queue' = <<>>
  /\ RequestStop(TRUE)
  /\ UNCHANGED <<gen, processing, activeRun, settled, driving, scheduled, chain,
                 turns, auth, released, past>>

\* A submitted plan or a request for credentials: the user is to answer first,
\* so the queue stays.
HandoffStop ==
  /\ processing /\ turn[gen] = "driving" /\ released # "gone"
  /\ RequestStop(FALSE)
  /\ UNCHANGED <<gen, processing, activeRun, settled, driving, intake, turns, auth,
                 released, past>>

\* The immediate of attemptAuthRetry up to the wait for the driver.  If there is
\* none to wait for, the turn is finished and its driver disposed of at once.
RetryStarts(g) ==
  /\ retry[g] = "scheduled"
  /\ IF ~IsCurrent(g)
     THEN /\ retry' = [retry EXCEPT ![g] = "superseded"]
          /\ UNCHANGED <<slot, turns>>
     ELSE IF driving # 0
     THEN /\ RequestStop(FALSE)
          /\ retry' = [retry EXCEPT ![g] = "draining"]
          /\ UNCHANGED <<gen, processing, activeRun, settled, driving, turns>>
     ELSE /\ advance' = FALSE
          /\ retry' = [retry EXCEPT ![g] = "disposing"]
          /\ IF Finishes(g) THEN Finish(g)
             ELSE stop' = TRUE
                  /\ UNCHANGED <<processing, activeRun, settled, timer, run>>
          /\ UNCHANGED <<gen, driving, turn, carried>>
  /\ UNCHANGED <<intake, retrying, tried, released, past>>

\* The old driver is disposed of: the inputs are admitted again, unless another
\* turn has begun.
Disposed(g) ==
  /\ retry[g] = "disposing"
  /\ driving' = 0
  /\ IF IsCurrent(g)
     THEN /\ retry' = [retry EXCEPT ![g] = "sent"] /\ retrying' = FALSE
          /\ chain' = Append(chain, [inputs |-> carried[g], kind |-> "retry",
                                     stage |-> "waiting", of |-> g, wake |-> FALSE])
     ELSE retry' = [retry EXCEPT ![g] = "dropped"] /\ UNCHANGED <<retrying, chain>>
  /\ UNCHANGED <<gen, processing, stop, advance, activeRun, settled, timer, queue,
                 scheduled, turns, tried, released, past>>

\* Disposing fails: the failure is reported and the turn finished, if it is the
\* current one.
DisposalFails(g) ==
  /\ retry[g] = "disposing"
  /\ IF IsCurrent(g)
     THEN /\ retry' = [retry EXCEPT ![g] = "failed"] /\ retrying' = FALSE
          /\ Finish(g)
     ELSE /\ retry' = [retry EXCEPT ![g] = "dropped"] /\ UNCHANGED retrying
          /\ UNCHANGED <<processing, stop, activeRun, settled, timer, run>>
  /\ ResumeIf(Finishes(g) /\ advance)
  /\ UNCHANGED <<gen, advance, driving, queue, chain, turn, carried, tried, released, past>>

\* deleteSession and releaseSession up to the wait for what is in progress.
Release ==
  /\ released = "no"
  /\ released' = "closing"
  /\ queue' = <<>>
  /\ RequestStop(TRUE)
  /\ UNCHANGED <<gen, processing, activeRun, settled, driving, scheduled, chain,
                 turns, auth, past>>

\* The wait is over or was given up: a run that is still open is settled.
Released ==
  /\ released = "closing"
  /\ released' = "gone"
  /\ IF activeRun # 0 THEN Finish(gen)
     ELSE timer' = FALSE /\ UNCHANGED <<processing, stop, activeRun, settled, run>>
  /\ UNCHANGED <<gen, advance, driving, intake, turn, carried, auth, past>>

-----------------------------------------------------------------------------
\* What the process does on its own, with answers that are bounded by timeouts.
Own ==
  \/ AdmitFree \/ AdmitBusy \/ Saved \/ Steered \/ Flushed \/ AdmissionFails
  \/ Immediate \/ TimerFires \/ Released
  \/ \E g \in Gen : \/ Accepted(g) \/ TurnFails(g) \/ Drive(g)
                    \/ RetryStarts(g) \/ Disposed(g) \/ DisposalFails(g)

\* What drivers and users do.
Others ==
  \/ \E i \in Input : Arrive(i)
  \/ \E g \in Gen : AuthError(g) \/ LoopEnds(g) \/ DetachedEnds(g)
  \/ UserStop \/ HandoffStop \/ Release

Next == Own \/ Others

Spec == Init /\ [][Next]_vars

\* The event loop of the process does not stall.
FairSpec == Spec /\ WF_vars(Own)

-----------------------------------------------------------------------------
(* Properties *)

\* An open run has the foreground, and a turn that goes on has an open run:
\* neither the end of an older turn, nor the recovery that every admission does, nor
\* a deadline or a deletion closes a run under its turn or forgets one that is open.
ForegroundOwnsItsRun ==
  \A g \in Gen :
    /\ run[g] = "open" => IsCurrent(g) /\ processing /\ activeRun = g
    /\ turn[g] \in {"ready", "driving"} /\ IsCurrent(g) /\ processing => run[g] = "open"

\* A driver that still has the slot belongs to the turn in the foreground, unless
\* that turn is being replaced: no two turns drive at once.
DriversDoNotOverlap ==
  \A g \in Gen : turn[g] = "driving" /\ retry[g] \notin {"disposing", "sent", "failed", "dropped"}
                   => gen = g /\ (processing \/ released = "gone")

\* An input that was dispatched from the queue, or saved, begins: the foreground
\* that was free stays free for it whatever ends, is stopped or retried meanwhile.
AdmittedInputsBegin ==
  chain # <<>> /\ (Head(chain).kind = "replay" \/ Head(chain).stage = "saving")
    => ~processing /\ driving = 0 /\ activeRun = 0

\* No two turns are given an input, steering included, but for a retry of the
\* turn that was given it first: a late answer to a steer queues nothing again.
InputsAreGivenOnce ==
  \A i \in Input : \A g, h \in given[i] :
    g < h => retry[g] \in {"sent", "failed"}

\* What the code lets hold a queue while nothing runs: a stop after which the user
\* is to answer, a turn that is being replaced or could not be, or a refused replay.
Held ==
  ~advance \/ refused \/ \E g \in Gen : g = gen /\ retry[g] \in {"disposing", "failed"}

\* A stop that was asked for has a deadline for as long as the turn runs.
StopHasDeadline == processing /\ stop /\ released # "gone" => timer

\* A session that is busy has something that will end that: a turn in progress or
\* a retry that is going to finish it.  The exception is a retry that overtook the
\* retry of an older turn: authRetryInProgress, which a retry does not reset, is
\* that turn's, and defers the end of this one.
BusyHasAnOwner ==
  \A g \in Gen : IsCurrent(g) /\ processing
    => \/ turn[g] \in {"preparing", "ready", "driving"}
       \/ retry[g] = "scheduled"
       \/ \E h \in Gen : h < g /\ retry[h] \in {"scheduled", "disposing", "superseded", "dropped"}

\* A stopped turn gives up the foreground although its driver ignores the stop.
StoppedTurnsEnd == stop /\ processing ~> ~processing \/ released = "gone"

\* If every driver ends, a queue is emptied in the end, or held.
QueuesAreServed ==
  []<>(\A g \in Gen : turn[g] # "driving")
    => (queue # <<>> ~> queue = <<>> \/ Held \/ released # "no")

\* "Auth retries preserve the original user inputs" (SessionManager.ts:8373): once a
\* turn is finished to be replaced, its inputs are sent again or the failure is
\* reported, unless the session is deleted.
RetryKeepsInputs == released = "no" => \A g \in Gen : retry[g] # "dropped"
=============================================================================
