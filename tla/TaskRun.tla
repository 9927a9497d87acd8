------------------------------- MODULE TaskRun -------------------------------
(***************************************************************************)
(* One run of a task graph: ActiveRun of tasks/TaskRunner.ts, the leases   *)
(* of tasks/file-scopes.ts, and the child sessions that do the work. A     *)
(* node that is ready is dispatched in steps with an await between them;   *)
(* meanwhile children end, the user pauses, resumes or stops the run or    *)
(* types into a child, the orchestrator gives its verdict, the process     *)
(* dies and a new one rebuilds the run from its log.                       *)
(*                                                                         *)
(* A child is known by the node and the attempt it was created for. The    *)
(* log is kept as what hydrate makes of its lines. Left out: token and     *)
(* no-progress budgets (a breach pauses or fails the run as the user or a  *)
(* verdict does), runs without an orchestrator, a scope path that changes  *)
(* under a run, a cancellation that fails (the node keeps its scopes on    *)
(* purpose), and a crash between two lines of one synchronous step.        *)
(***************************************************************************)
EXTENDS Naturals, Sequences, FiniteSets

CONSTANTS
  Order,        \* the nodes, in the order of the spec
  Deps,         \* node -> the nodes it depends on
  Overlaps,     \* the pairs of lease holders whose file scopes conflict
  Other,        \* a node of another run, which competes for file scopes
  RetryLimit,   \* node -> failures after which it is tried again
  MaxParallel, MaxRepairs, MaxReAsks,
  MaxAttempt,   \* bound: attempts of a node
  MaxEvents,    \* bound: pauses, turns the user starts in a child, leases of
                \* the other run, crashes
  LateFailures, \* whether a dispatch fails that no longer owns its node
  None

Node == {Order[i] : i \in DOMAIN Order}
Attempt == 1 .. MaxAttempt
Child == Node \X Attempt

ASSUME TaskAssumption ==
  /\ Order \in Seq(Node)
  /\ Deps \in [Node -> SUBSET Node] /\ Other \notin Node /\ None \notin Child
  /\ MaxParallel \in Nat \ {0} /\ MaxRepairs \in Nat /\ MaxReAsks \in Nat
  /\ LateFailures \in BOOLEAN
  /\ RetryLimit \in [Node -> Nat]
  /\ MaxAttempt \in Nat /\ MaxEvents \in Nat
  /\ \A n \in Node : MaxAttempt > RetryLimit[n] + MaxRepairs + MaxEvents

VARIABLES
  run,       \* the ActiveRun, its leases and its dispatches (see Fresh)
  child,     \* child -> what its session is doing
  checking,  \* children whose outcome is being classified
  given,     \* history: child -> the replies its last prompt was built from
  events     \* what MaxEvents bounds, so far

vars == <<run, child, checking, given, events>>

\* What hydrate makes of the log: node states, attempts, sessions, counters.
EmptyLog == [st |-> [n \in Node |-> "pending"], att |-> [n \in Node |-> 0],
             sess |-> [n \in Node |-> None], repairs |-> 0, reasks |-> 0]

\* status: runStatus, and "gone" when no process holds the run.
\* judge: what the verdict waits for. sending: a message to the orchestrator
\* may still be refused (that it is admitted changes nothing). held: file scopes
\* taken. wake: a released scope is about to tell its listeners. out: node -> the
\* attempt whose child's reply is its output; the log keeps it too. History:
\* overtaken, the nodes that were done before a dispatch of theirs was through,
\* or after it was dropped; adopted, those whose last dispatch took over the
\* child of an older attempt without a prompt.
Fresh == [status |-> "running", st |-> EmptyLog.st, att |-> EmptyLog.att,
          sess |-> EmptyLog.sess, recov |-> {}, inFlight |-> 0, repairs |-> 0,
          reasks |-> 0, judge |-> "off", sending |-> FALSE, held |-> {},
          wake |-> FALSE, disp |-> {}, out |-> [n \in Node |-> 0],
          overtaken |-> {}, adopted |-> {}, log |-> EmptyLog]

Live(r) == r.status \in {"running", "paused", "verifying"}

-----------------------------------------------------------------------------
(* The synchronous operations of a run.                                    *)

Release(r, h) == [r EXCEPT !.held = @ \ {h}, !.wake = @ \/ h \in r.held]

Conflict(a, b) == <<a, b>> \in Overlaps \/ <<b, a>> \in Overlaps
Free(r, h) == \A o \in r.held \ {h} : ~Conflict(o, h)

Settle(r, n, state) == [r EXCEPT !.st[n] = state, !.log.st[n] = state]

Leave(r, n) == IF r.st[n] = "running" /\ r.inFlight > 0
               THEN [r EXCEPT !.inFlight = @ - 1] ELSE r

IsReady(r, n) == /\ r.st[n] = "pending"
                 /\ \A d \in Deps[n] : r.st[d] = "done"

\* A node that goes on after an interruption keeps its attempt.
MarkRunning(r, n) ==
  LET again == n \in r.recov
      att == IF again THEN r.att[n] ELSE r.att[n] + 1
      s == [r EXCEPT !.st[n] = "running", !.att[n] = att, !.inFlight = @ + 1,
                     !.held = @ \cup {n}, !.adopted = @ \ {n},
                     !.disp = @ \cup {[n |-> n, att |-> att, pc |-> "prompt",
                                       child |-> None, snap |-> "none", got |-> None]}]
  IN IF again THEN s ELSE [s EXCEPT !.log.st[n] = "running", !.log.att[n] = att]

DispatchIfReady(r, n) ==
  IF r.inFlight < MaxParallel /\ IsReady(r, n) /\ Free(r, n)
  THEN MarkRunning(r, n) ELSE r

Finish(r, status) == [r EXCEPT !.status = status, !.judge = "off"]

Ask(r) == [r EXCEPT !.judge = "asked", !.sending = TRUE]

MaybeFinish(r) ==
  IF r.inFlight > 0 \/ \E n \in Node : IsReady(r, n) THEN r
  ELSE IF \A n \in Node : r.st[n] = "done"
       THEN Ask([r EXCEPT !.status = "verifying"])
       ELSE Finish(r, "failed")

ScheduleReady(r) ==
  IF r.status # "running" THEN r
  ELSE LET after[i \in 0 .. Len(Order)] ==
             IF i = 0 THEN r ELSE DispatchIfReady(after[i - 1], Order[i])
       IN MaybeFinish(after[Len(Order)])

\* A dispatch of the node is still under way, or was dropped before its prompt.
Unfinished(r, n) == n \in r.recov \/ n \notin r.held \/ \E d \in r.disp : d.n = n

MarkNodeDone(r, n, c) ==
  LET early == IF Unfinished(r, n) THEN {n} ELSE {} IN
  ScheduleReady([Settle(Leave(Release(r, n), n), n, "done")
                   EXCEPT !.out[n] = c[2], !.overtaken = @ \cup early])

\* Seeded fault: a node that failed keeps its files.
FailNodeKeepsLease(r, n, allowRetry) ==
  ScheduleReady(Settle(Leave(r, n), n,
    IF allowRetry /\ r.att[n] <= RetryLimit[n] THEN "pending" ELSE "failed"))

\* Seeded fault: a node is tried again however often it failed.
FailNodeAlways(r, n, allowRetry) ==
  ScheduleReady(Settle(Leave(Release(r, n), n), n,
    IF allowRetry THEN "pending" ELSE "failed"))

FailNode(r, n, allowRetry) ==
  ScheduleReady(Settle(Leave(Release(r, n), n), n,
    IF allowRetry /\ r.att[n] <= RetryLimit[n] THEN "pending" ELSE "failed"))

\* Seeded fault: the slot of an interrupted node is not given back.
InterruptedKeepsSlot(r, n) == ScheduleReady(Settle(Release(r, n), n, "cancelled"))

Interrupted(r, n) == ScheduleReady(Settle(Leave(Release(r, n), n), n, "cancelled"))

\* stop and failOnTimeout: what is running is cancelled.
CancelAll(r, status) ==
  LET cancelled == {n \in Node : r.st[n] = "running"}
      cut(f) == [n \in Node |-> IF n \in cancelled THEN "cancelled" ELSE f[n]]
      freed == {n \in cancelled : r.sess[n] # None}
  IN Finish([r EXCEPT !.st = cut(r.st), !.log.st = cut(r.log.st), !.inFlight = 0,
                      !.held = @ \ freed, !.wake = @ \/ freed \cap r.held # {}], status)

\* Seeded fault: the named nodes alone run again.
FrontierNamed == [named \in SUBSET Node |-> IF named = {} THEN Node ELSE named]

Downstream(S) == \A n \in Node : Deps[n] \cap S # {} => n \in S

\* The nodes a repair runs again: those named and all that depends on them.
Frontier ==
  [named \in SUBSET Node |->
     IF named = {} THEN Node
     ELSE CHOOSE S \in SUBSET Node : /\ named \subseteq S /\ Downstream(S)
            /\ \A T \in SUBSET Node : named \subseteq T /\ Downstream(T) => S \subseteq T]

RepairForVerdict(r, named) ==
  LET again == {n \in Frontier[named] : r.st[n] = "done"}
      reset(f) == [n \in Node |-> IF n \in again THEN "pending" ELSE f[n]]
  IN IF again = {} THEN Finish(r, "failed")
     ELSE ScheduleReady([r EXCEPT !.st = reset(r.st), !.log.st = reset(r.log.st),
                                  !.status = "running", !.judge = "off"])

-----------------------------------------------------------------------------
(* Dispatch, await by await.                                               *)

Known(d) == d.n \in run.recov /\ run.sess[d.n] # None

Replies(r, n) == [d \in Node |-> IF d \in Deps[n] THEN r.out[d] ELSE 0]

\* buildPrompt has returned, with the replies it read (got); a run that stopped
\* meanwhile sends nothing.
Prompt(d) ==
  /\ d.pc = "prompt"
  /\ LET r == [run EXCEPT !.disp = @ \ {d}] IN
       run' = IF run.status # "running" THEN Release(r, d.n)
              ELSE [r EXCEPT !.disp = @ \cup {[d EXCEPT !.pc = "spawn",
                                                        !.got = Replies(run, d.n)]}]
  /\ UNCHANGED <<child, checking, given, events>>

\* The child of this attempt is found or created; a node that recovers goes on
\* in the session it had.
Spawn(d) ==
  LET c == IF Known(d) THEN run.sess[d.n] ELSE <<d.n, d.att>>
      r == [run EXCEPT !.disp = @ \ {d}, !.recov = @ \ {d.n}, !.sess[d.n] = c,
                       !.log.sess[d.n] = c]
      off == run.status # "running" \/ run.st[d.n] # "running"
  IN /\ d.pc = "spawn"
     /\ child' = [child EXCEPT ![c] = IF @ = "none" THEN "fresh" ELSE @]
     /\ run' = IF off THEN Release(r, d.n)
               ELSE [r EXCEPT !.disp = @ \cup {[d EXCEPT !.pc = "board", !.child = c,
                                                         !.snap = child[c]]}]
     /\ UNCHANGED <<checking, given, events>>

\* What a completion event of a child means for the run. A clean end may be
\* held until its outcome is classified.
OnSessionComplete(r, c, reason) ==
  LET n == c[1]
      mine == Live(r) /\ r.st[n] = "running" /\ r.sess[n] = c
  IN IF ~mine THEN run' = r /\ UNCHANGED checking
     ELSE \/ /\ reason = "complete"
             /\ \/ run' = MarkNodeDone(r, n, c) /\ UNCHANGED checking
                \/ run' = r /\ checking' = checking \cup {c}
          \/ reason = "interrupted" /\ run' = Interrupted(r, n) /\ UNCHANGED checking
          \/ reason = "error" /\ run' = FailNode(r, n, TRUE) /\ UNCHANGED checking

\* The board is updated; a child that had replied before is taken at its word,
\* whichever attempt it replied to, and one at work is waited for.
Board(d) ==
  LET takenOver == d.snap \in {"replied", "busy"} /\ d.child # <<d.n, run.att[d.n]>>
      r == [run EXCEPT !.disp = @ \ {d}, !.adopted = IF takenOver THEN @ \cup {d.n} ELSE @] IN
  /\ d.pc = "board"
  /\ \/ d.snap = "replied" /\ OnSessionComplete(r, d.child, "complete")
     \/ d.snap = "busy" /\ run' = r /\ UNCHANGED checking
     \/ /\ d.snap \notin {"replied", "busy"}
        /\ run' = [r EXCEPT !.disp = @ \cup {[d EXCEPT !.pc = "send"]}]
        /\ UNCHANGED checking
  /\ UNCHANGED <<child, given, events>>

\* The child takes the prompt.
Send(d) ==
  /\ d.pc = "send"
  /\ child' = [child EXCEPT ![d.child] = "busy"]
  /\ given' = [given EXCEPT ![d.child] = d.got]
  /\ run' = [run EXCEPT !.disp = @ \ {d}]
  /\ UNCHANGED <<checking, events>>

\* The node is still running for the attempt and the child of this dispatch.
Owns(d) == /\ run.st[d.n] = "running" /\ run.att[d.n] = d.att
           /\ d.child # None => run.sess[d.n] = d.child

\* Creating the child, moving it on the board or sending to it throws. There
\* is no retry if the dispatch is on the ledger without its outcome.
DispatchFails(d) ==
  LET r == [run EXCEPT !.disp = @ \ {d}]
  IN /\ d.pc # "prompt" /\ (Owns(d) \/ LateFailures)
     /\ \E retry \in BOOLEAN : run' = FailNode(r, d.n, retry)
     /\ UNCHANGED <<child, checking, given, events>>

-----------------------------------------------------------------------------
(* Children.                                                               *)

\* A turn of a child ends; the listeners hear of it at once.
ChildEnds(c, reason) ==
  /\ child[c] = "busy"
  /\ child' = [child EXCEPT ![c] = IF reason = "complete" THEN "replied" ELSE "quiet"]
  /\ OnSessionComplete(run, c, reason)
  /\ UNCHANGED <<given, events>>

\* The outcome of a clean end is classified, or is not.
OutcomeChecked(c) ==
  /\ c \in checking
  /\ checking' = checking \ {c}
  /\ LET n == c[1] IN
       IF Live(run) /\ run.st[n] = "running" /\ run.sess[n] = c
       THEN run' = MarkNodeDone(run, n, c) \/ run' = FailNode(run, n, TRUE)
       ELSE UNCHANGED run
  /\ UNCHANGED <<child, given, events>>

\* The user types into a child that is idle, whatever the run makes of it.
UserTurn(c) ==
  /\ events < MaxEvents /\ child[c] \in {"quiet", "replied"}
  /\ events' = events + 1
  /\ child' = [child EXCEPT ![c] = "busy"]
  /\ UNCHANGED <<run, checking, given>>

-----------------------------------------------------------------------------
(* The verdict.                                                            *)

\* Whatever became of the run while the message waited.
OrchestratorRefuses ==
  /\ run.sending
  /\ run' = Finish([run EXCEPT !.sending = FALSE], "failed")
  /\ UNCHANGED <<child, checking, given, events>>

\* FAIL: the named nodes are repaired while there is a repair left; without
\* names the decision model may be asked for some first.
ApplyVerdict(r, v, named) ==
  IF v = "pass" THEN {Finish([r EXCEPT !.log.reasks = 0], "completed")}
  ELSE IF v = "unparsed" THEN
    LET s == [r EXCEPT !.log.reasks = @ + 1] IN
    {IF r.reasks < MaxReAsks THEN Ask([s EXCEPT !.reasks = @ + 1]) ELSE Finish(s, "failed")}
  ELSE LET s == [r EXCEPT !.log.repairs = @ + 1] IN
    IF r.repairs >= MaxRepairs THEN {Finish(s, "failed")}
    ELSE LET t == [s EXCEPT !.repairs = @ + 1] IN
         {RepairForVerdict(t, named)} \cup
         (IF named = {} /\ t.repairs = 1 THEN {[t EXCEPT !.judge = "scope"]} ELSE {})

Verdict == {<<"pass", {}>>, <<"unparsed", {}>>} \cup ({"fail"} \X SUBSET Node)

\* A turn of the orchestrator ends, be it the one that was asked for or an
\* earlier one that ends while the message waits or is queued; a reply without a verdict
\* line may be classified.
OrchestratorReplies ==
  /\ run.judge = "asked" /\ run.status = "verifying"
  /\ \/ \E v \in Verdict : run' \in ApplyVerdict(run, v[1], v[2])
     \/ run' = [run EXCEPT !.judge = "classify"]
  /\ UNCHANGED <<child, checking, given, events>>

VerdictClassified ==
  /\ run.judge = "classify"
  /\ \E v \in Verdict : run' \in ApplyVerdict([run EXCEPT !.judge = "off"], v[1], v[2])
  /\ UNCHANGED <<child, checking, given, events>>

RepairScoped ==
  /\ run.judge = "scope"
  /\ \E named \in SUBSET Node : run' = RepairForVerdict(run, named)
  /\ UNCHANGED <<child, checking, given, events>>

-----------------------------------------------------------------------------
(* The user, the clock, other runs, the process.                           *)

Pause ==
  /\ run.status = "running" /\ events < MaxEvents
  /\ run' = [run EXCEPT !.status = "paused"]
  /\ events' = events + 1
  /\ UNCHANGED <<child, checking, given>>

Resume ==
  /\ run.status = "paused"
  /\ LET back == {n \in Node : run.st[n] = "cancelled"} IN
       run' = ScheduleReady([run EXCEPT !.status = "running", !.recov = @ \cup back,
                !.st = [n \in Node |-> IF n \in back THEN "pending" ELSE @[n]]])
  /\ UNCHANGED <<child, checking, given, events>>

Stopped(status) ==
  /\ Live(run)
  /\ run' = CancelAll(run, status)
  /\ UNCHANGED <<child, checking, given, events>>

Stop == Stopped("stopped")
Timeout == Stopped("failed")

\* Seeded fault: a released scope tells nobody.
ScopesReleasedUnheard ==
  /\ run.wake
  /\ run' = [run EXCEPT !.wake = FALSE]
  /\ UNCHANGED <<child, checking, given, events>>

\* The microtask of releaseFileScopes.
ScopesReleased ==
  /\ run.wake
  /\ run' = ScheduleReady([run EXCEPT !.wake = FALSE])
  /\ UNCHANGED <<child, checking, given, events>>

OtherAcquires ==
  /\ Other \notin run.held /\ Free(run, Other) /\ events < MaxEvents
  /\ run' = [run EXCEPT !.held = @ \cup {Other}]
  /\ events' = events + 1
  /\ UNCHANGED <<child, checking, given>>

OtherReleases ==
  /\ Other \in run.held
  /\ run' = Release(run, Other)
  /\ UNCHANGED <<child, checking, given, events>>

\* The process dies; the log, the outputs and the sessions stay.
Crash ==
  /\ run.status # "gone" /\ events < MaxEvents
  /\ events' = events + 1
  /\ run' = [Fresh EXCEPT !.status = "gone", !.log = run.log, !.out = run.out,
                       !.overtaken = run.overtaken, !.adopted = run.adopted]
  /\ child' = [c \in Child |-> IF child[c] = "busy" THEN "quiet" ELSE child[c]]
  /\ checking' = {}
  /\ UNCHANGED <<given>>

\* The user resumes the run in a new process.
Rehydrate ==
  /\ run.status = "gone"
  /\ LET broken == {n \in Node : run.log.st[n] \in {"running", "cancelled"}} IN
       run' = ScheduleReady([run EXCEPT !.status = "running",
                !.st = [n \in Node |-> IF n \in broken THEN "pending" ELSE run.log.st[n]],
                !.att = run.log.att, !.sess = run.log.sess, !.recov = broken,
                !.repairs = run.log.repairs, !.reasks = run.log.reasks])
  /\ UNCHANGED <<child, checking, given, events>>

Init ==
  /\ run = ScheduleReady(Fresh)
  /\ child = [c \in Child |-> "none"]
  /\ checking = {}
  /\ given = [c \in Child |-> [n \in Node |-> 0]]
  /\ events = 0

Reason == {"complete", "interrupted", "error"}

Next ==
  \/ \E d \in run.disp : Prompt(d) \/ Spawn(d) \/ Board(d) \/ Send(d) \/ DispatchFails(d)
  \/ \E c \in Child : \/ \E reason \in Reason : ChildEnds(c, reason)
                      \/ OutcomeChecked(c) \/ UserTurn(c)
  \/ OrchestratorRefuses \/ OrchestratorReplies \/ VerdictClassified \/ RepairScoped
  \/ Pause \/ Resume \/ Stop \/ Timeout \/ ScopesReleased
  \/ OtherAcquires \/ OtherReleases \/ Crash \/ Rehydrate

Spec == Init /\ [][Next]_vars

\* Awaited calls return, turns end, decisions are made, microtasks run and the
\* other run ends; a child that is tried again and again is created in the
\* end. The user and the clock owe nothing.
DispatchStep == \E d \in run.disp : Prompt(d) \/ Spawn(d) \/ Board(d) \/ Send(d)
Fairness ==
  /\ SF_vars(\E d \in run.disp : Spawn(d))
  /\ WF_vars(\/ DispatchStep \/ ScopesReleased \/ OtherReleases
             \/ \E c \in Child : OutcomeChecked(c) \/ \E reason \in Reason : ChildEnds(c, reason))

FairSpec == Spec /\ Fairness

-----------------------------------------------------------------------------
(* Properties.                                                             *)

\* Type invariant.
TypeOK ==
  /\ run.status \in {"running", "paused", "verifying", "completed", "failed",
                     "stopped", "gone"}
  /\ run.st \in [Node -> {"pending", "running", "done", "failed", "cancelled"}]
  /\ run.att \in [Node -> 0 .. MaxAttempt]
  /\ run.sess \in [Node -> Child \cup {None}]
  /\ run.recov \subseteq Node /\ run.held \subseteq Node \cup {Other}
  /\ run.inFlight \in 0 .. MaxParallel
  /\ run.judge \in {"off", "asked", "classify", "scope"}
  /\ run.out \in [Node -> 0 .. MaxAttempt]
  /\ child \in [Child -> {"none", "fresh", "busy", "quiet", "replied"}]
  /\ checking \subseteq Child

\* The slots of a live run are those of its running nodes, in whatever order
\* turns, classifications, retries and repairs settle them, and a run that asks
\* for a verdict has no node left to settle (TaskRunner.ts:568, 763, 779, 797).
SlotsAreTrue ==
  Live(run) => /\ run.inFlight = Cardinality({n \in Node : run.st[n] = "running"})
               /\ run.status = "verifying" => \A n \in Node : run.st[n] = "done"

\* The refusal of an earlier question ended the run while the node ran again:
\* nothing of it is heard any more (TaskRunner.ts:945).
Abandoned(n) == run.status = "failed" /\ run.st[n] = "running"

\* No file scope is held for nothing: a dispatch, a turn or a classification
\* that is to give it back is under way, unless the node was abandoned
\* (TaskRunner.ts:599, 642, 665).
LeaseHasWorker ==
  \A n \in run.held \cap Node :
    \/ \E d \in run.disp : d.n = n
    \/ run.sess[n] # None /\ (child[run.sess[n]] = "busy" \/ run.sess[n] \in checking)
    \/ Abandoned(n)

\* What a verdict judges fits together: the child whose reply a node stands for
\* was given, at its last prompt, the very replies the node's dependencies now
\* stand for, in its own attempt or an older one that it went on in. Excepted
\* are nodes that a turn of the user settled ahead of their dispatch or after
\* it was dropped (overtaken), and nodes that after a restart took over the
\* child of an older attempt, reply or turn, unasked (adopted), against
\* TaskRunner.ts:1012-1016, which has a repair run again all that consumes what
\* it renews.
VerdictSeesFreshReplies ==
  run.status \in {"verifying", "completed"} =>
    \A n \in Node \ (run.overtaken \cup run.adopted) : \A d \in Deps[n] :
      given[<<n, run.out[n]>>][d] = run.out[d]

\* A node whose dispatch was dropped: it counts as running and nobody works.
Dropped == \E n \in Node : run.st[n] = "running" /\ n \notin run.held

\* A running run comes to its verdict, its end or a pause without the help of
\* its clock, whoever held a scope it waits for, unless a dispatch was dropped
\* (TaskRunner.ts:334, file-scopes.ts releaseFileScopes).
RunGetsOn == []<>(run.status # "running" \/ Dropped)

\* TaskRunner.ts:799: retry is bounded; a node tried again after a failure is
\* on a new attempt, which its limit counts.
RetryIsANewAttempt ==
  [][\A d \in run'.disp \ run.disp :
       d.pc = "prompt" /\ run.st[d.n] = "running" => d.att > run.att[d.n]]_vars
=============================================================================
