---------------------------- MODULE TaskRunProofs ----------------------------
(***************************************************************************)
(* What TaskRun keeps, for any graph and any limits: slots and leases are  *)
(* those of the work under way, and what a verdict judges fits together.   *)
(* The invariant speaks of a run as a record, so that what the synchronous *)
(* operations do to it is proved once and used by every action. A dispatch *)
(* that fails without owning its node (LateFailures) is excluded.          *)
(***************************************************************************)
EXTENDS TaskRun, FiniteSetTheorems, WellFoundedInduction, TLAPS

Status == {"running", "paused", "verifying", "completed", "failed", "stopped", "gone"}
NodeState == {"pending", "running", "done", "failed", "cancelled"}
ChildState == {"none", "fresh", "busy", "quiet", "replied"}
Judge == {"off", "asked", "classify", "scope"}
Attempts == [Node -> 0 .. MaxAttempt]
Sessions == [Node -> Child \cup {None}]

DispatchRec == [n : Node, att : Attempt, pc : {"prompt", "spawn", "board", "send"},
                child : Child \cup {None}, snap : ChildState, got : Attempts \cup {None}]
LogRec == [st : [Node -> NodeState], att : Attempts, sess : Sessions,
           repairs : Nat, reasks : Nat]
RunRec == [status : Status, st : [Node -> NodeState], att : Attempts, sess : Sessions,
           recov : SUBSET Node, inFlight : Nat, repairs : Nat, reasks : Nat,
           judge : Judge, sending : BOOLEAN, held : SUBSET (Node \cup {Other}),
           wake : BOOLEAN, disp : SUBSET DispatchRec, out : Attempts,
           overtaken : SUBSET Node, adopted : SUBSET Node, log : LogRec]

Types(r, ch, ck, gv, ev) ==
  /\ r \in RunRec
  /\ ch \in [Child -> ChildState]
  /\ ck \in SUBSET Child
  /\ gv \in [Child -> Attempts]
  /\ ev \in 0 .. MaxEvents

-----------------------------------------------------------------------------
(* The invariant.                                                          *)

Running(r) == {n \in Node : r.st[n] = "running"}
AllDone(r) == \A n \in Node : r.st[n] = "done"

\* A slot for each running node, none of which is left when a verdict is asked.
Slots(r) ==
  /\ r.inFlight = Cardinality(Running(r))
  /\ r.inFlight <= MaxParallel
  /\ r.status \in {"verifying", "completed"} => AllDone(r)

\* How the status, the verdict and the process go together.
Stages(r) ==
  /\ r.judge # "off" => r.status = "verifying"
  /\ r.status = "gone" => /\ r.disp = {} /\ r.held \cap Node = {}
                          /\ r.recov = {} /\ ~r.sending
                          /\ \A n \in Node : r.st[n] = "pending"

\* What the log knows of a run that lives.
Logged(r) ==
  /\ Live(r) => r.repairs = r.log.repairs
  /\ r.status # "gone" => \A n \in Node : /\ r.att[n] = r.log.att[n]
                                          /\ r.st[n] = "done" <=> r.log.st[n] = "done"

\* A node that has run, and need not run again on a new attempt.
Begun(r, n) == r.st[n] # "pending" \/ r.log.st[n] # "pending" \/ n \in r.recov

\* A node that may be started before anything more is counted for it.
MayRestart(r, n) == r.status \in {"paused", "gone"} \/ r.judge = "scope" \/ r.st[n] = "pending"

\* The attempts a node has had are those its limit, the repairs and what
\* came from outside allow; one more only while it is not to run again.
Rounds(r) == IF r.log.repairs <= MaxRepairs THEN r.log.repairs ELSE MaxRepairs
Bounded(r, ev) ==
  \A n \in Node :
    /\ r.log.att[n] <= RetryLimit[n] + Rounds(r) + ev + 1
    /\ MayRestart(r, n) => r.log.att[n] <= RetryLimit[n] + Rounds(r) + ev
    /\ Begun(r, n) => r.log.att[n] > 0

\* A session of a node is that of an attempt it has had.
SessionOf(r, n, c) == \E a \in Attempt : a <= r.log.att[n] /\ c = <<n, a>>

Started == {"busy", "quiet", "replied"}

Children(r, ch, ck) ==
  /\ \A n \in Node : /\ r.sess[n] = None \/ SessionOf(r, n, r.sess[n])
                     /\ r.log.sess[n] = None \/ SessionOf(r, n, r.log.sess[n])
  /\ \A n \in Node : \A a \in Attempt : a > r.log.att[n] => ch[<<n, a>>] = "none"
  /\ \A n \in Node : /\ r.log.st[n] = "done" => r.out[n] > 0
                     /\ r.out[n] > 0 => ch[<<n, r.out[n]>>] \in Started
  /\ \A c \in ck : ch[c] \in Started

\* What a dispatch has read and found, by the await it stands at.
DispatchOk(r, ch, d) ==
  /\ d.att <= r.log.att[d.n]
  /\ d.pc # "prompt" => d.got \in Attempts
  /\ d.pc \in {"board", "send"} => d.child # None /\ SessionOf(r, d.n, d.child)
  /\ d.pc = "board" /\ d.snap \in {"replied", "busy"} => ch[d.child] \in Started
Dispatches(r, ch) == \A d \in r.disp : DispatchOk(r, ch, d)

\* Who is to give back the file scopes of a node: a dispatch on its way to a
\* child, or, while the node runs, the turn, its classification, or the
\* dispatch that is about to start the turn. Nobody does when a refused
\* question has ended the run in the meantime.
AtWork(r, ch, ck, n) ==
  /\ Live(r) /\ r.st[n] = "running" /\ r.sess[n] # None
  /\ \/ ch[r.sess[n]] = "busy"
     \/ r.sess[n] \in ck
     \/ \E d \in r.disp : /\ d.n = n /\ d.child = r.sess[n] /\ d.pc \in {"board", "send"}
                          /\ d.pc = "board" => d.snap # "busy"
OnItsWay(r, n) == \E d \in r.disp : d.n = n /\ d.pc \in {"prompt", "spawn"}
Lost(r, n) == r.status = "failed" /\ r.st[n] = "running"
Served(r, ch, ck, n) == OnItsWay(r, n) \/ AtWork(r, ch, ck, n) \/ Lost(r, n)
Leases(r, ch, ck) == \A n \in r.held \cap Node : Served(r, ch, ck, n)

\* The same of all nodes but one, whose dispatch or turn has just ended.
LeasesBut(r, ch, ck, n) == \A m \in (r.held \cap Node) \ {n} : Served(r, ch, ck, m)

\* A node that was not overtaken: once it has begun, its upstream nodes are
\* done, and what its child or a dispatch was given are their replies.
DepsDone(r, n) == \A d \in Deps[n] : r.log.st[d] = "done"
FreshNode(r, ch, gv, n) ==
  /\ n \in r.recov => r.log.st[n] # "done"
  /\ Begun(r, n) => DepsDone(r, n)
  /\ Begun(r, n) /\ r.log.att[n] > 0 /\ ch[<<n, r.log.att[n]>>] \in Started
       => gv[<<n, r.log.att[n]>>] = Replies(r, n)
  /\ \A d \in r.disp : d.n = n =>
       /\ r.log.st[n] # "done" /\ DepsDone(r, n)
       /\ d.pc # "prompt" => d.got = Replies(r, n)
Freshness(r, ch, gv) == \A n \in Node \ r.overtaken : FreshNode(r, ch, gv, n)

\* The child a running node waits for is asked with the replies its upstream
\* nodes stand for, or is about to be.
Asked(r, gv, n) ==
  \/ \E d \in r.disp : /\ d.n = n
                       /\ d.pc \in {"prompt", "spawn"} \/ d.child = r.sess[n]
  \/ r.sess[n] # None /\ gv[r.sess[n]] = Replies(r, n)

\* The reply a node stands for, or is to stand for, whichever attempt gives it.
Answered(r, gv, n) ==
  /\ r.log.st[n] = "done" => gv[<<n, r.out[n]>>] = Replies(r, n)
  /\ r.st[n] = "running" /\ n \in r.held => Asked(r, gv, n)
Answers(r, gv) == \A n \in Node \ (r.overtaken \cup r.adopted) : Answered(r, gv, n)

\* The same of all nodes but one, whose dispatch or turn has just ended.
AnswersBut(r, gv, n) ==
  \A m \in Node \ (r.overtaken \cup r.adopted \cup {n}) : Answered(r, gv, m)

Core(r, ch, ck, gv, ev) ==
  /\ Types(r, ch, ck, gv, ev)
  /\ Slots(r) /\ Stages(r) /\ Logged(r) /\ Bounded(r, ev)
  /\ Children(r, ch, ck) /\ Dispatches(r, ch) /\ Freshness(r, ch, gv)

Inv(r, ch, ck, gv, ev) ==
  Core(r, ch, ck, gv, ev) /\ Leases(r, ch, ck) /\ Answers(r, gv)

IInv == Inv(run, child, checking, given, events)

-----------------------------------------------------------------------------
(* Induction over the positions of the nodes, as a fact about sets.        *)

\* A set of numbers that has zero and the successor of each of its members
\* has them all.
LEMMA NatSet ==
  ASSUME NEW G \in SUBSET Nat, 0 \in G, \A k \in G : k + 1 \in G
  PROVE  \A k \in Nat : k \in G
<1> DEFINE T == Nat \ G
<1> SUFFICES ASSUME T # {} PROVE FALSE  OBVIOUS
<1>1. PICK m \in T : \A y \in T : ~ (<<y, m>> \in OpToRel(<, Nat))
  BY NatLessThanWellFounded, WFMin, T \subseteq Nat
<1>2. m # 0 /\ m \in Nat  OBVIOUS
<1>3. m - 1 \in Nat /\ m - 1 < m /\ (m - 1) + 1 = m  BY <1>2
<1>4. m - 1 \notin T  BY <1>1, <1>2, <1>3 DEF OpToRel
<1>5. QED  BY <1>3, <1>4

LEMMA NodesAreFinite == IsFiniteSet(Node)
<1> DEFINE f == [i \in 1 .. Len(Order) |-> Order[i]]
<1>1. Order \in Seq(Node)  BY TaskAssumption
<1>2. DOMAIN Order = 1 .. Len(Order) /\ Len(Order) \in Nat  BY <1>1
<1>3. IsFiniteSet(1 .. Len(Order))  BY <1>2, FS_Interval
<1>4. f \in Surjection(1 .. Len(Order), Node)  BY <1>2 DEF Surjection, Node
<1>5. QED  BY <1>3, <1>4, FS_Surjection

LEMMA RunningIsFinite ==
  ASSUME NEW r
  PROVE  IsFiniteSet(Running(r)) /\ Cardinality(Running(r)) \in Nat
BY NodesAreFinite, FS_Subset, FS_CardinalityType DEF Running

\* What a step may change without touching what a node is or was asked.
LEMMA AnsweredStays ==
  ASSUME NEW r, NEW s, NEW gv, NEW n \in Node, Answered(r, gv, n),
         s.out[n] = r.out[n], Replies(s, n) = Replies(r, n),
         s.log.st[n] = "done" => r.log.st[n] = "done",
         s.st[n] = "running" /\ n \in s.held =>
           /\ r.st[n] = "running" /\ n \in r.held /\ s.sess[n] = r.sess[n]
           /\ \A d \in r.disp : d.n = n => d \in s.disp
  PROVE  Answered(s, gv, n)
<1>1. s.log.st[n] = "done" => gv[<<n, s.out[n]>>] = Replies(s, n)  BY DEF Answered
<1>2. ASSUME s.st[n] = "running", n \in s.held PROVE Asked(s, gv, n)
  <2>1. Asked(r, gv, n)  BY <1>2 DEF Answered
  <2>2. QED  BY <1>2, <2>1 DEF Asked
<1>3. QED  BY <1>1, <1>2 DEF Answered

LEMMA AnswersStay ==
  ASSUME NEW r, NEW s, NEW gv, Answers(r, gv),
         s.out = r.out, s.overtaken = r.overtaken, s.adopted = r.adopted,
         \A n \in Node :
           /\ s.log.st[n] = "done" => r.log.st[n] = "done"
           /\ s.st[n] = "running" /\ n \in s.held =>
                /\ r.st[n] = "running" /\ n \in r.held /\ s.sess[n] = r.sess[n]
                /\ \A d \in r.disp : d.n = n => d \in s.disp
  PROVE  Answers(s, gv)
<1>1. SUFFICES ASSUME NEW n \in Node \ (s.overtaken \cup s.adopted) PROVE Answered(s, gv, n)
  BY DEF Answers
<1>2. Answered(r, gv, n)  BY DEF Answers
<1>3. Replies(s, n) = Replies(r, n)  BY DEF Replies
<1>4. QED  BY <1>2, <1>3, AnsweredStays

\* A node that is settled after its dispatch is through has the answer it was
\* asked for.
LEMMA ReplyIsTheAnswer ==
  ASSUME NEW r, NEW gv, Answers(r, gv), NEW n \in Node, r.st[n] = "running",
         n \notin r.overtaken \cup r.adopted, ~Unfinished(r, n)
  PROVE  gv[r.sess[n]] = Replies(r, n)
BY DEF Answers, Answered, Asked, Unfinished

-----------------------------------------------------------------------------
(* Starting a node.                                                        *)

\* The attempt a node is started for: the one it had when it goes on after an
\* interruption, a new one otherwise.
NextAttempt(r, n) == IF n \in r.recov THEN r.att[n] ELSE r.att[n] + 1

\* What markRunning changes, field by field.
LEMMA MarkedRun ==
  ASSUME NEW r \in RunRec, NEW n \in Node, NextAttempt(r, n) \in Attempt
  PROVE  \E s \in RunRec : \E d \in DispatchRec :
           /\ MarkRunning(r, n) = s
           /\ d.n = n /\ d.att = NextAttempt(r, n) /\ d.pc = "prompt" /\ d.child = None
           /\ s.status = r.status /\ s.sess = r.sess /\ s.recov = r.recov
           /\ s.repairs = r.repairs /\ s.judge = r.judge /\ s.sending = r.sending
           /\ s.out = r.out /\ s.overtaken = r.overtaken /\ s.adopted = r.adopted \ {n}
           /\ s.st = [r.st EXCEPT ![n] = "running"]
           /\ s.att = [r.att EXCEPT ![n] = NextAttempt(r, n)]
           /\ s.inFlight = r.inFlight + 1
           /\ s.held = r.held \cup {n}
           /\ s.disp = r.disp \cup {d}
           /\ s.log.sess = r.log.sess /\ s.log.repairs = r.log.repairs
           /\ s.log.st = IF n \in r.recov THEN r.log.st ELSE [r.log.st EXCEPT ![n] = "running"]
           /\ s.log.att = IF n \in r.recov THEN r.log.att
                          ELSE [r.log.att EXCEPT ![n] = NextAttempt(r, n)]
<1>1. PICK att \in Attempt : att = NextAttempt(r, n)  OBVIOUS
<1>2. PICK d : d = [n |-> n, att |-> att, pc |-> "prompt", child |-> None,
                    snap |-> "none", got |-> None]
  OBVIOUS
<1>3. d \in DispatchRec  BY <1>2 DEF DispatchRec, ChildState
<1>4. PICK s : s = [r EXCEPT !.st[n] = "running", !.att[n] = att, !.inFlight = @ + 1,
                             !.held = @ \cup {n}, !.adopted = @ \ {n},
                             !.disp = @ \cup {d}]
  OBVIOUS
<1>a. /\ r.st \in [Node -> NodeState] /\ r.att \in Attempts /\ r.inFlight \in Nat
      /\ r.held \in SUBSET (Node \cup {Other}) /\ r.disp \in SUBSET DispatchRec
  BY DEF RunRec
<1>b. /\ [r.st EXCEPT ![n] = "running"] \in [Node -> NodeState]
      /\ [r.att EXCEPT ![n] = att] \in Attempts
      /\ r.inFlight + 1 \in Nat
      /\ r.held \cup {n} \in SUBSET (Node \cup {Other})
      /\ r.disp \cup {d} \in SUBSET DispatchRec
  BY <1>3, <1>a DEF NodeState, Attempts, Attempt
<1>5. /\ s \in RunRec
      /\ s.status = r.status /\ s.sess = r.sess /\ s.recov = r.recov
      /\ s.repairs = r.repairs /\ s.judge = r.judge /\ s.sending = r.sending
      /\ s.out = r.out /\ s.overtaken = r.overtaken /\ s.adopted = r.adopted \ {n}
      /\ s.st = [r.st EXCEPT ![n] = "running"]
      /\ s.att = [r.att EXCEPT ![n] = att]
      /\ s.inFlight = r.inFlight + 1
      /\ s.held = r.held \cup {n}
      /\ s.disp = r.disp \cup {d}
      /\ s.log = r.log
  BY <1>4, <1>b DEF RunRec
<1>6. CASE n \in r.recov
  <2>1. MarkRunning(r, n) = s  BY <1>1, <1>2, <1>4, <1>6 DEF MarkRunning, NextAttempt
  <2>2. QED  BY <1>1, <1>2, <1>3, <1>5, <1>6, <2>1
<1>7. CASE n \notin r.recov
  <2>1. PICK u : u = [s EXCEPT !.log.st[n] = "running", !.log.att[n] = att]  OBVIOUS
  <2>2. MarkRunning(r, n) = u
    BY <1>1, <1>2, <1>4, <1>7, <2>1 DEF MarkRunning, NextAttempt
  <2>3. r.log \in LogRec  BY DEF RunRec
  <2>4. PICK l : l = [r.log EXCEPT !.st[n] = "running", !.att[n] = att]  OBVIOUS
  <2>a. /\ [r.log.st EXCEPT ![n] = "running"] \in [Node -> NodeState]
        /\ [r.log.att EXCEPT ![n] = att] \in Attempts
    BY <2>3 DEF LogRec, NodeState, Attempts, Attempt
  <2>5. l \in LogRec /\ l.sess = r.log.sess /\ l.repairs = r.log.repairs
        /\ l.st = [r.log.st EXCEPT ![n] = "running"] /\ l.att = [r.log.att EXCEPT ![n] = att]
    BY <2>3, <2>4, <2>a DEF LogRec
  <2>6. u = [s EXCEPT !.log = l]  BY <1>5, <2>1, <2>3, <2>4 DEF RunRec, LogRec
  <2>7. /\ u \in RunRec /\ u.log = l
        /\ u.status = s.status /\ u.sess = s.sess /\ u.recov = s.recov
        /\ u.repairs = s.repairs /\ u.judge = s.judge /\ u.sending = s.sending
        /\ u.out = s.out /\ u.overtaken = s.overtaken /\ u.adopted = s.adopted
        /\ u.st = s.st /\ u.att = s.att /\ u.inFlight = s.inFlight /\ u.held = s.held
        /\ u.disp = s.disp
    BY <1>5, <2>5, <2>6 DEF RunRec
  <2>8. QED  BY <1>1, <1>2, <1>3, <1>5, <1>7, <2>2, <2>5, <2>7
<1>8. QED  BY <1>6, <1>7

\* What the assumption says of the constants.
LEMMA Limits ==
  /\ MaxAttempt \in Nat /\ MaxRepairs \in Nat /\ MaxEvents \in Nat /\ MaxParallel \in Nat
  /\ RetryLimit \in [Node -> Nat]
  /\ \A n \in Node : MaxAttempt > RetryLimit[n] + MaxRepairs + MaxEvents
  /\ Deps \in [Node -> SUBSET Node] /\ Other \notin Node /\ None \notin Child
BY TaskAssumption

\* There is room for one attempt more than the budget of a node.
LEMMA RoomForAttempts ==
  ASSUME NEW r \in RunRec, NEW ev \in 0 .. MaxEvents, NEW n \in Node
  PROVE  /\ Rounds(r) \in Nat
         /\ RetryLimit[n] + Rounds(r) + ev \in Nat
         /\ RetryLimit[n] + Rounds(r) + ev + 1 <= MaxAttempt
<1>1. r.log.repairs \in Nat  BY DEF RunRec, LogRec
<1>2. Rounds(r) \in Nat /\ Rounds(r) <= MaxRepairs  BY <1>1, Limits DEF Rounds
<1>3. RetryLimit[n] \in Nat /\ MaxAttempt > RetryLimit[n] + MaxRepairs + MaxEvents  BY Limits
<1>4. QED  BY <1>2, <1>3, Limits

\* Starting a ready node, while there is a slot, keeps the invariant.
LEMMA MarkKeeps ==
  ASSUME NEW r, NEW ch, NEW ck, NEW gv, NEW ev, Inv(r, ch, ck, gv, ev),
         NEW n \in Node, r.status = "running", r.inFlight < MaxParallel, IsReady(r, n)
  PROVE  /\ Inv(MarkRunning(r, n), ch, ck, gv, ev)
         /\ MarkRunning(r, n).status = "running"
<1>1. /\ r \in RunRec /\ Types(r, ch, ck, gv, ev) /\ ev \in 0 .. MaxEvents
      /\ r.st[n] = "pending" /\ \A d \in Deps[n] : r.st[d] = "done"
  BY DEF Inv, Core, Types, IsReady
<1>2. /\ \A m \in Node : r.att[m] = r.log.att[m] /\ (r.st[m] = "done" <=> r.log.st[m] = "done")
      /\ r.repairs = r.log.repairs
  BY DEF Inv, Core, Logged, Live
<1>3. /\ \A m \in Node : r.att[m] \in 0 .. MaxAttempt /\ r.log.att[m] \in 0 .. MaxAttempt
      /\ r.st \in [Node -> NodeState] /\ r.log.st \in [Node -> NodeState]
      /\ r.att \in [Node -> 0 .. MaxAttempt] /\ r.log.att \in [Node -> 0 .. MaxAttempt]
      /\ r.inFlight \in Nat
  BY <1>1 DEF RunRec, LogRec, Attempts
<1>4. NextAttempt(r, n) \in Attempt /\ r.att[n] <= NextAttempt(r, n)
      /\ NextAttempt(r, n) <= RetryLimit[n] + Rounds(r) + ev + 1
  <2>1. r.log.att[n] <= RetryLimit[n] + Rounds(r) + ev /\ (Begun(r, n) => r.log.att[n] > 0)
    BY <1>1 DEF Inv, Core, Bounded, MayRestart
  <2>2. CASE n \in r.recov
    BY <1>1, <1>2, <1>3, <2>1, <2>2, RoomForAttempts, Limits DEF NextAttempt, Begun, Attempt
  <2>3. CASE n \notin r.recov
    BY <1>1, <1>2, <1>3, <2>1, <2>3, RoomForAttempts, Limits DEF NextAttempt, Attempt
  <2>4. QED  BY <2>2, <2>3
<1>5. PICK s \in RunRec, d \in DispatchRec :
        /\ MarkRunning(r, n) = s
        /\ d.n = n /\ d.att = NextAttempt(r, n) /\ d.pc = "prompt" /\ d.child = None
        /\ s.status = r.status /\ s.sess = r.sess /\ s.recov = r.recov
        /\ s.repairs = r.repairs /\ s.judge = r.judge /\ s.sending = r.sending
        /\ s.out = r.out /\ s.overtaken = r.overtaken /\ s.adopted = r.adopted \ {n}
        /\ s.st = [r.st EXCEPT ![n] = "running"]
        /\ s.att = [r.att EXCEPT ![n] = NextAttempt(r, n)]
        /\ s.inFlight = r.inFlight + 1
        /\ s.held = r.held \cup {n}
        /\ s.disp = r.disp \cup {d}
        /\ s.log.sess = r.log.sess /\ s.log.repairs = r.log.repairs
        /\ s.log.st = IF n \in r.recov THEN r.log.st ELSE [r.log.st EXCEPT ![n] = "running"]
        /\ s.log.att = IF n \in r.recov THEN r.log.att
                       ELSE [r.log.att EXCEPT ![n] = NextAttempt(r, n)]
  BY <1>1, <1>4, MarkedRun, ZenonT(30)
<1>6. Types(s, ch, ck, gv, ev)  BY <1>1 DEF Types
<1>7. /\ \A m \in Node : r.log.att[m] <= s.log.att[m]
      /\ \A m \in Node \ {n} : s.log.att[m] = r.log.att[m] /\ s.att[m] = r.att[m]
                               /\ s.st[m] = r.st[m] /\ s.log.st[m] = r.log.st[m]
      /\ s.log.att[n] = NextAttempt(r, n) /\ s.att[n] = NextAttempt(r, n)
      /\ s.st[n] = "running"
      /\ n \in r.recov => s.log.st[n] = r.log.st[n] /\ s.log.att[n] = r.log.att[n]
      /\ n \notin r.recov => s.log.st[n] = "running" /\ s.log.att[n] = r.log.att[n] + 1
  BY <1>2, <1>3, <1>4, <1>5 DEF NextAttempt, Attempt
<1>8. \A m \in Node : s.log.st[m] = "done" <=> r.log.st[m] = "done"
  BY <1>1, <1>2, <1>7
<1>9. Slots(s)
  <2>1. Running(s) = Running(r) \cup {n} /\ n \notin Running(r)
    BY <1>1, <1>7 DEF Running
  <2>2. Cardinality(Running(s)) = Cardinality(Running(r)) + 1
    BY <2>1, RunningIsFinite, FS_AddElement
  <2>3. r.inFlight = Cardinality(Running(r))  BY DEF Inv, Core, Slots
  <2>4. QED  BY <1>3, <1>5, <2>2, <2>3, Limits DEF Slots
<1>10. Stages(s) /\ Logged(s)
  <2>1. Stages(s)  BY <1>5 DEF Inv, Core, Stages
  <2>2. s.att[n] = s.log.att[n]  BY <1>7
  <2>3. \A m \in Node : s.att[m] = s.log.att[m]  BY <1>2, <1>7, <2>2
  <2>4. \A m \in Node : s.st[m] = "done" <=> s.log.st[m] = "done"
    BY <1>1, <1>2, <1>7, <1>8
  <2>5. Logged(s)  BY <1>2, <1>5, <2>3, <2>4 DEF Logged
  <2>6. QED  BY <2>1, <2>5
<1>11. Bounded(s, ev)
  <2>1. Rounds(s) = Rounds(r)  BY <1>5 DEF Rounds
  <2>2. ASSUME NEW m \in Node, m # n
        PROVE  /\ s.log.att[m] <= RetryLimit[m] + Rounds(s) + ev + 1
               /\ MayRestart(s, m) => s.log.att[m] <= RetryLimit[m] + Rounds(s) + ev
               /\ Begun(s, m) => s.log.att[m] > 0
    BY <1>1, <1>5, <1>7, <2>1, <2>2 DEF Inv, Core, Stages, Bounded, MayRestart, Begun
  <2>3. s.log.att[n] > 0 /\ s.log.att[n] <= RetryLimit[n] + Rounds(s) + ev + 1
    BY <1>4, <1>7, <2>1, Limits DEF Attempt
  <2>4. ~MayRestart(s, n)  BY <1>5, <1>7 DEF MayRestart, Inv, Core, Stages
  <2>5. QED  BY <2>2, <2>3, <2>4 DEF Bounded
<1>12. ASSUME NEW m \in Node, NEW c, SessionOf(r, m, c) PROVE SessionOf(s, m, c)
  <2>1. PICK a \in Attempt : a <= r.log.att[m] /\ c = <<m, a>>  BY <1>12 DEF SessionOf
  <2>2. r.log.att[m] \in Nat /\ s.log.att[m] \in Nat /\ a \in Nat
    BY <1>3, <1>5, Limits DEF RunRec, LogRec, Attempts, Attempt
  <2>3. a <= s.log.att[m]  BY <1>7, <2>1, <2>2
  <2>4. QED  BY <2>1, <2>3 DEF SessionOf
<1>13. Children(s, ch, ck)
  <2>1. \A m \in Node : /\ s.sess[m] = None \/ SessionOf(s, m, s.sess[m])
                        /\ s.log.sess[m] = None \/ SessionOf(s, m, s.log.sess[m])
    BY <1>5, <1>12 DEF Inv, Core, Children
  <2>2. ASSUME NEW m \in Node, NEW a \in Attempt, a > s.log.att[m] PROVE ch[<<m, a>>] = "none"
    <3>1. r.log.att[m] \in Nat /\ s.log.att[m] \in Nat /\ a \in Nat
      BY <1>3, <1>5, Limits DEF RunRec, LogRec, Attempts, Attempt
    <3>2. a > r.log.att[m]  BY <1>7, <2>2, <3>1
    <3>3. QED  BY <3>2 DEF Inv, Core, Children
  <2>3. QED  BY <1>5, <1>8, <2>1, <2>2 DEF Inv, Core, Children
<1>14. Dispatches(s, ch)
  <2>1. ASSUME NEW e \in r.disp PROVE DispatchOk(s, ch, e)
    <3>1. DispatchOk(r, ch, e) /\ e.n \in Node /\ e.att \in Nat
      BY <1>1, Limits DEF Inv, Core, Dispatches, RunRec, DispatchRec, Attempt
    <3>2. e.att <= s.log.att[e.n]
      BY <1>3, <1>5, <1>7, <3>1, Limits DEF DispatchOk, RunRec, LogRec, Attempts
    <3>3. QED  BY <1>12, <3>1, <3>2 DEF DispatchOk
  <2>2. DispatchOk(s, ch, d)
    BY <1>4, <1>5, <1>7, Limits DEF DispatchOk, Attempt
  <2>3. QED  BY <1>5, <2>1, <2>2 DEF Dispatches
<1>15. Leases(s, ch, ck)
  <2>1. ASSUME NEW m \in s.held \cap Node PROVE Served(s, ch, ck, m)
    <3>1. CASE m = n  BY <1>5, <3>1 DEF Served, OnItsWay
    <3>2. CASE m # n
      <4>1. OnItsWay(r, m) \/ AtWork(r, ch, ck, m)
        BY <1>5, <2>1, <3>2 DEF Inv, Leases, Served, Lost
      <4>2. OnItsWay(r, m) => OnItsWay(s, m)  BY <1>5 DEF OnItsWay
      <4>3. AtWork(r, ch, ck, m) => AtWork(s, ch, ck, m)
        BY <1>5, <1>7, <3>2 DEF AtWork, Live
      <4>4. QED  BY <4>1, <4>2, <4>3 DEF Served
    <3>3. QED  BY <3>1, <3>2
  <2>2. QED  BY <2>1 DEF Leases
<1>16. Freshness(s, ch, gv)
  <2>1. SUFFICES ASSUME NEW m \in Node \ s.overtaken PROVE FreshNode(s, ch, gv, m)
    BY DEF Freshness
  <2>2. FreshNode(r, ch, gv, m)  BY <1>5 DEF Inv, Core, Freshness
  <2>3. Replies(s, m) = Replies(r, m)  BY <1>5 DEF Replies
  <2>4. DepsDone(s, m) <=> DepsDone(r, m)  BY <1>8, Limits DEF DepsDone
  <2>5. CASE m # n
    <3>1. Begun(s, m) <=> Begun(r, m)  BY <1>5, <1>7, <2>5 DEF Begun
    <3>2. QED  BY <1>5, <1>7, <1>8, <2>2, <2>3, <2>4, <2>5, <3>1 DEF FreshNode
  <2>6. CASE m = n
    <3>1. DepsDone(s, n) /\ s.log.st[n] # "done"
      BY <1>1, <1>2, <1>8, Limits DEF DepsDone
    <3>2. CASE n \in r.recov
      <4>1. Begun(r, n) /\ s.log.att[n] = r.log.att[n]  BY <1>7, <3>2 DEF Begun
      <4>2. QED  BY <1>5, <1>7, <1>8, <2>2, <2>3, <2>4, <2>6, <3>1, <4>1 DEF FreshNode
    <3>3. CASE n \notin r.recov
      <4>1. s.log.att[n] \in Attempt /\ s.log.att[n] > r.log.att[n]
        BY <1>3, <1>4, <1>7, <3>3
      <4>2. ch[<<n, s.log.att[n]>>] = "none"  BY <4>1 DEF Inv, Core, Children
      <4>3. QED  BY <1>5, <2>2, <2>3, <2>6, <3>1, <3>3, <4>2 DEF FreshNode, Started
    <3>4. QED  BY <3>2, <3>3
  <2>7. QED  BY <2>5, <2>6
<1>17. Answers(s, gv)
  <2>1. SUFFICES ASSUME NEW m \in Node \ (s.overtaken \cup s.adopted) PROVE Answered(s, gv, m)
    BY DEF Answers
  <2>2. CASE m # n
    <3>1. Answered(r, gv, m)  BY <1>5, <2>2 DEF Inv, Answers
    <3>2. Replies(s, m) = Replies(r, m)  BY <1>5 DEF Replies
    <3>3. s.out = r.out /\ s.sess = r.sess /\ \A e \in r.disp : e \in s.disp  BY <1>5
    <3>4. m \in s.held => m \in r.held  BY <1>5, <2>2
    <3>5. s.st[m] = r.st[m] /\ s.log.st[m] = r.log.st[m]  BY <1>7, <2>2
    <3>6. QED  BY <3>1, <3>2, <3>3, <3>4, <3>5, AnsweredStays
  <2>3. CASE m = n
    <3>1. s.log.st[n] # "done"  BY <1>1, <1>2, <1>8
    <3>2. Asked(s, gv, n)  BY <1>5 DEF Asked
    <3>3. QED  BY <2>3, <3>1, <3>2 DEF Answered
  <2>4. QED  BY <2>2, <2>3
<1>18. QED
  BY <1>5, <1>6, <1>9, <1>10, <1>11, <1>13, <1>14, <1>15, <1>16, <1>17 DEF Inv, Core

-----------------------------------------------------------------------------
(* What follows when nothing more can be started.                          *)

\* Ending a run, and asking for its verdict, change these fields only.
LEMMA FinishedRun ==
  ASSUME NEW r \in RunRec, NEW status \in Status
  PROVE  \E s \in RunRec :
           /\ Finish(r, status) = s /\ s.status = status /\ s.judge = "off"
           /\ s.st = r.st /\ s.att = r.att /\ s.sess = r.sess /\ s.recov = r.recov
           /\ s.inFlight = r.inFlight /\ s.repairs = r.repairs /\ s.sending = r.sending
           /\ s.held = r.held /\ s.disp = r.disp /\ s.out = r.out
           /\ s.overtaken = r.overtaken /\ s.adopted = r.adopted /\ s.log = r.log
<1>1. PICK s : s = [r EXCEPT !.status = status, !.judge = "off"]  OBVIOUS
<1>2. s \in RunRec /\ s.status = status /\ s.judge = "off"
  BY <1>1 DEF RunRec, Judge
<1>3. /\ s.st = r.st /\ s.att = r.att /\ s.sess = r.sess /\ s.recov = r.recov
      /\ s.inFlight = r.inFlight /\ s.repairs = r.repairs /\ s.sending = r.sending
      /\ s.held = r.held /\ s.disp = r.disp /\ s.out = r.out
      /\ s.overtaken = r.overtaken /\ s.adopted = r.adopted /\ s.log = r.log
  BY <1>1 DEF RunRec
<1>4. QED  BY <1>1, <1>2, <1>3 DEF Finish

LEMMA AskedRun ==
  ASSUME NEW r \in RunRec
  PROVE  \E s \in RunRec :
           /\ Ask(r) = s /\ s.judge = "asked" /\ s.sending
           /\ s.status = r.status /\ s.reasks = r.reasks
           /\ s.st = r.st /\ s.att = r.att /\ s.sess = r.sess /\ s.recov = r.recov
           /\ s.inFlight = r.inFlight /\ s.repairs = r.repairs
           /\ s.held = r.held /\ s.disp = r.disp /\ s.out = r.out
           /\ s.overtaken = r.overtaken /\ s.adopted = r.adopted /\ s.log = r.log
<1> DEFINE yes == TRUE
<1>1. yes \in BOOLEAN /\ yes  OBVIOUS
<1>2. Ask(r) = [r EXCEPT !.judge = "asked", !.sending = yes]  BY DEF Ask
<1> HIDE DEF yes
<1>3. PICK s : s = [r EXCEPT !.judge = "asked", !.sending = yes]  OBVIOUS
<1>4. s \in RunRec /\ s.sending = yes /\ s.judge = "asked"  BY <1>1, <1>3 DEF RunRec, Judge
<1>5. /\ s.status = r.status /\ s.reasks = r.reasks
      /\ s.st = r.st /\ s.att = r.att /\ s.sess = r.sess /\ s.recov = r.recov
      /\ s.inFlight = r.inFlight /\ s.repairs = r.repairs
      /\ s.held = r.held /\ s.disp = r.disp /\ s.out = r.out
      /\ s.overtaken = r.overtaken /\ s.adopted = r.adopted /\ s.log = r.log
  BY <1>3 DEF RunRec
<1>6. QED  BY <1>1, <1>2, <1>3, <1>4, <1>5

\* A step that changes only the status and what the verdict waits for, and
\* leaves no node running unless the run lives on or has failed.
LEMMA StatusKeeps ==
  ASSUME NEW r, NEW s, NEW ch, NEW ck, NEW gv, NEW ev, NEW ev2,
         Inv(r, ch, ck, gv, ev), s \in RunRec, ev2 \in 0 .. MaxEvents, ev <= ev2,
         s.st = r.st, s.att = r.att, s.sess = r.sess, s.recov = r.recov,
         s.inFlight = r.inFlight, s.held = r.held, s.disp = r.disp, s.out = r.out,
         s.overtaken = r.overtaken, s.adopted = r.adopted,
         s.log.st = r.log.st, s.log.att = r.log.att, s.log.sess = r.log.sess,
         Stages(s), Logged(s),
         Rounds(r) <= Rounds(s),
         s.status = "paused" => r.status = "paused" \/ ev < ev2,
         s.judge = "scope" => Rounds(r) < Rounds(s),
         s.status # "gone" /\ r.status # "gone",
         s.status \in {"verifying", "completed"} => AllDone(s),
         (Live(r) /\ Live(s)) \/ Running(s) = {} \/ s.status = "failed"
  PROVE  Inv(s, ch, ck, gv, ev2)
<1>1. Types(s, ch, ck, gv, ev2) /\ ev \in 0 .. MaxEvents /\ r \in RunRec
  BY DEF Inv, Core, Types
<1>2. Slots(s)  BY DEF Inv, Core, Slots, Running
<1>3. Bounded(s, ev2)
  <2>1. SUFFICES ASSUME NEW n \in Node
                 PROVE  /\ s.log.att[n] <= RetryLimit[n] + Rounds(s) + ev2 + 1
                        /\ MayRestart(s, n) => s.log.att[n] <= RetryLimit[n] + Rounds(s) + ev2
                        /\ Begun(s, n) => s.log.att[n] > 0
    BY DEF Bounded
  <2>2. /\ r.log.att[n] <= RetryLimit[n] + Rounds(r) + ev + 1
        /\ r.status = "paused" \/ r.st[n] = "pending" => r.log.att[n] <= RetryLimit[n] + Rounds(r) + ev
        /\ Begun(r, n) => r.log.att[n] > 0
    BY DEF Inv, Core, Bounded, MayRestart
  <2>3. /\ RetryLimit[n] \in Nat /\ Rounds(r) \in Nat /\ Rounds(s) \in Nat
        /\ ev \in Nat /\ ev2 \in Nat /\ r.log.att[n] \in Nat
    <3>1. r.log.repairs \in Nat /\ s.log.repairs \in Nat /\ r.log.att \in Attempts
      BY <1>1 DEF RunRec, LogRec
    <3>2. Rounds(r) \in Nat /\ Rounds(s) \in Nat  BY <3>1, Limits DEF Rounds
    <3>3. QED  BY <1>1, <3>1, <3>2, Limits DEF Attempts
  <2>4. s.log.att[n] = r.log.att[n] /\ s.st[n] = r.st[n] /\ (Begun(s, n) <=> Begun(r, n))
    BY DEF Begun
  <2>5. PICK R \in Nat, S \in Nat : R = Rounds(r) /\ S = Rounds(s) /\ R <= S  BY <2>3
  <2>6. s.log.att[n] <= RetryLimit[n] + S + ev2 + 1  BY <2>2, <2>3, <2>4, <2>5
  <2>7. ev < ev2 => s.log.att[n] <= RetryLimit[n] + S + ev2
    BY <2>2, <2>3, <2>4, <2>5
  <2>8. r.status = "paused" \/ r.st[n] = "pending" => s.log.att[n] <= RetryLimit[n] + S + ev2
    BY <2>2, <2>3, <2>4, <2>5
  <2>9. R < S => s.log.att[n] <= RetryLimit[n] + S + ev2
    BY <2>2, <2>3, <2>4, <2>5
  <2>10. MayRestart(s, n) => ev < ev2 \/ R < S \/ r.status = "paused" \/ r.st[n] = "pending"
    BY <2>4, <2>5 DEF MayRestart
  <2>11. QED  BY <2>2, <2>4, <2>5, <2>6, <2>7, <2>8, <2>9, <2>10
<1>4. Children(s, ch, ck)  BY DEF Inv, Core, Children, SessionOf
<1>5. Dispatches(s, ch)  BY DEF Inv, Core, Dispatches, DispatchOk, SessionOf
<1>6. Leases(s, ch, ck)
  <2>1. ASSUME NEW n \in s.held \cap Node PROVE Served(s, ch, ck, n)
    <3>1. OnItsWay(r, n) \/ AtWork(r, ch, ck, n) \/ Lost(r, n)  BY DEF Inv, Leases, Served
    <3>2. OnItsWay(r, n) => OnItsWay(s, n)  BY DEF OnItsWay
    <3>3. AtWork(r, ch, ck, n) \/ Lost(r, n) => n \in Running(s)
      BY DEF AtWork, Lost, Running
    <3>4. n \in Running(s) /\ s.status = "failed" => Lost(s, n)  BY DEF Lost, Running
    <3>5. Lost(r, n) => ~Live(r)  BY DEF Lost, Live
    <3>6. Live(s) /\ AtWork(r, ch, ck, n) => AtWork(s, ch, ck, n)  BY DEF AtWork
    <3>7. QED  BY <3>1, <3>2, <3>3, <3>4, <3>5, <3>6 DEF Served
  <2>2. QED  BY <2>1 DEF Leases
<1>7. Freshness(s, ch, gv)
  <2>1. \A n \in Node : Replies(s, n) = Replies(r, n)  BY DEF Replies
  <2>2. QED  BY <2>1 DEF Inv, Core, Freshness, FreshNode, Begun, DepsDone
<1>8. Answers(s, gv)  BY AnswersStay DEF Inv
<1>9. QED  BY <1>1, <1>2, <1>3, <1>4, <1>5, <1>6, <1>7, <1>8 DEF Inv, Core

\* The run asks for its verdict, fails, or goes on.
LEMMA MaybeFinishKeeps ==
  ASSUME NEW r, NEW ch, NEW ck, NEW gv, NEW ev, Inv(r, ch, ck, gv, ev),
         r.status = "running"
  PROVE  Inv(MaybeFinish(r), ch, ck, gv, ev)
<1>1. r \in RunRec /\ ev \in 0 .. MaxEvents /\ ev <= ev  BY DEF Inv, Core, Types
<1>2. CASE r.inFlight > 0 \/ \E n \in Node : IsReady(r, n)
  BY <1>2 DEF MaybeFinish
<1>3. CASE ~(r.inFlight > 0 \/ \E n \in Node : IsReady(r, n))
  <2>1. Running(r) = {}
    <3>1. r.inFlight \in Nat  BY <1>1 DEF RunRec
    <3>2. Cardinality(Running(r)) = 0  BY <1>3, <3>1 DEF Inv, Core, Slots
    <3>3. QED  BY <3>2, RunningIsFinite, FS_EmptySet
  <2>2. r.judge = "off"  BY DEF Inv, Core, Stages
  <2>3. CASE AllDone(r)
    <3>1. PICK u : u = [r EXCEPT !.status = "verifying"]  OBVIOUS
    <3>2. /\ u \in RunRec /\ u.status = "verifying"
          /\ u.st = r.st /\ u.att = r.att /\ u.sess = r.sess /\ u.recov = r.recov
          /\ u.inFlight = r.inFlight /\ u.repairs = r.repairs
          /\ u.held = r.held /\ u.disp = r.disp /\ u.out = r.out
          /\ u.overtaken = r.overtaken /\ u.adopted = r.adopted /\ u.log = r.log
      BY <1>1, <3>1 DEF RunRec, Status
    <3>3. MaybeFinish(r) = Ask(u)  BY <1>3, <2>3, <3>1 DEF MaybeFinish, AllDone
    <3>4. PICK s \in RunRec :
            /\ Ask(u) = s /\ s.judge = "asked" /\ s.sending /\ s.status = u.status
            /\ s.st = u.st /\ s.att = u.att /\ s.sess = u.sess /\ s.recov = u.recov
            /\ s.inFlight = u.inFlight /\ s.repairs = u.repairs
            /\ s.held = u.held /\ s.disp = u.disp /\ s.out = u.out
            /\ s.overtaken = u.overtaken /\ s.adopted = u.adopted /\ s.log = u.log
      BY <3>2, AskedRun
    <3>5. Stages(s)  BY <3>2, <3>4 DEF Stages
    <3>6. Logged(s)  BY <3>2, <3>4 DEF Inv, Core, Logged, Live
    <3>7. Rounds(r) <= Rounds(s)
      BY <1>1, <3>2, <3>4, RoomForAttempts, Limits DEF Rounds, RunRec, LogRec
    <3>8. AllDone(s) /\ Live(s) /\ Live(r)  BY <2>3, <3>2, <3>4 DEF AllDone, Live
    <3>9. QED  BY <1>1, <3>2, <3>3, <3>4, <3>5, <3>6, <3>7, <3>8, StatusKeeps
  <2>4. CASE ~AllDone(r)
    <3>1. MaybeFinish(r) = Finish(r, "failed")  BY <1>3, <2>4 DEF MaybeFinish, AllDone
    <3>2. PICK s \in RunRec :
            /\ Finish(r, "failed") = s /\ s.status = "failed" /\ s.judge = "off"
            /\ s.st = r.st /\ s.att = r.att /\ s.sess = r.sess /\ s.recov = r.recov
            /\ s.inFlight = r.inFlight /\ s.repairs = r.repairs /\ s.sending = r.sending
            /\ s.held = r.held /\ s.disp = r.disp /\ s.out = r.out
            /\ s.overtaken = r.overtaken /\ s.adopted = r.adopted /\ s.log = r.log
      BY <1>1, FinishedRun DEF Status
    <3>3. Stages(s)  BY <2>2, <3>2 DEF Stages
    <3>4. Logged(s)  BY <3>2 DEF Inv, Core, Logged, Live
    <3>5. Rounds(r) <= Rounds(s)
      BY <1>1, <3>2, Limits DEF Rounds, RunRec, LogRec
    <3>6. Running(s) = {}  BY <2>1, <3>2 DEF Running
    <3>7. QED  BY <1>1, <3>1, <3>2, <3>3, <3>4, <3>5, <3>6, StatusKeeps
  <2>5. QED  BY <2>3, <2>4
<1>4. QED  BY <1>2, <1>3

\* Going through the nodes in order and starting what can be started keeps
\* the invariant: the loop of scheduleReady.
LEMMA ScheduleKeeps ==
  ASSUME NEW r, NEW ch, NEW ck, NEW gv, NEW ev, Inv(r, ch, ck, gv, ev)
  PROVE  Inv(ScheduleReady(r), ch, ck, gv, ev)
<1>1. CASE r.status # "running"  BY <1>1 DEF ScheduleReady
<1>2. CASE r.status = "running"
  <2>1. Order \in Seq(Node) /\ Len(Order) \in Nat /\ DOMAIN Order = 1 .. Len(Order)
    BY TaskAssumption
  <2> DEFINE Pass(k, f) ==
        f = [i \in 0 .. k |-> IF i = 0 THEN r ELSE DispatchIfReady(f[i - 1], Order[i])]
  <2>2. \A k \in Nat : \E f : Pass(k, f)
    <3> DEFINE G == {k \in Nat : \E f : Pass(k, f)}
    <3>1. 0 \in G
      <4>1. PICK f : f = [i \in 0 .. 0 |-> r]  OBVIOUS
      <4>2. \A i \in 0 .. 0 : i = 0  OBVIOUS
      <4>3. Pass(0, f)  BY <4>1, <4>2
      <4>4. QED  BY <4>3
    <3>2. ASSUME NEW k \in G PROVE k + 1 \in G
      <4>1. PICK f : Pass(k, f)  OBVIOUS
      <4>2. PICK g : g = [i \in 0 .. k + 1 |-> IF i = k + 1 THEN DispatchIfReady(f[k], Order[k + 1])
                                               ELSE f[i]]
        OBVIOUS
      <4>3. ASSUME NEW i \in 0 .. k + 1
            PROVE  g[i] = IF i = 0 THEN r ELSE DispatchIfReady(g[i - 1], Order[i])
        <5>1. CASE i = 0  BY <4>1, <4>2, <5>1
        <5>2. CASE i = k + 1
          <6>1. i - 1 = k /\ k \in 0 .. k + 1 /\ k # k + 1  BY <5>2
          <6>2. g[i - 1] = f[k]  BY <4>2, <6>1
          <6>3. QED  BY <4>2, <5>2, <6>2
        <5>3. CASE i # 0 /\ i # k + 1
          <6>1. i \in 0 .. k /\ i - 1 \in 0 .. k /\ i - 1 \in 0 .. k + 1 /\ i - 1 # k + 1
            BY <5>3
          <6>2. g[i] = f[i] /\ g[i - 1] = f[i - 1]  BY <4>2, <5>3, <6>1
          <6>3. QED  BY <4>1, <5>3, <6>1, <6>2
        <5>4. QED  BY <5>1, <5>2, <5>3
      <4>4. Pass(k + 1, g)  BY <4>2, <4>3
      <4>5. QED  BY <4>4
    <3> HIDE DEF G
    <3>3. \A k \in Nat : k \in G  BY <3>1, <3>2, NatSet, G \subseteq Nat DEF G
    <3>4. QED  BY <3>3 DEF G
  <2>3. PICK after : /\ Pass(Len(Order), after)
                     /\ ScheduleReady(r) = MaybeFinish(after[Len(Order)])
    <3> DEFINE after == CHOOSE f : Pass(Len(Order), f)
    <3>1. Pass(Len(Order), after)  BY <2>1, <2>2
    <3>2. ScheduleReady(r) = MaybeFinish(after[Len(Order)])  BY <1>2 DEF ScheduleReady
    <3>3. QED  BY <3>1, <3>2
  <2>4. \A k \in Nat : k <= Len(Order) =>
          Inv(after[k], ch, ck, gv, ev) /\ after[k].status = "running"
    <3> DEFINE G == {k \in Nat : k <= Len(Order) =>
                       Inv(after[k], ch, ck, gv, ev) /\ after[k].status = "running"}
    <3>1. 0 \in G
      <4>1. after[0] = r  BY <2>1, <2>3
      <4>2. QED  BY <1>2, <4>1
    <3>2. ASSUME NEW k \in G PROVE k + 1 \in G
      <4>1. SUFFICES ASSUME k + 1 <= Len(Order)
                     PROVE  Inv(after[k + 1], ch, ck, gv, ev) /\ after[k + 1].status = "running"
        BY <3>2
      <4>2. k + 1 \in 0 .. Len(Order) /\ k <= Len(Order) /\ k + 1 # 0 /\ (k + 1) - 1 = k
            /\ k + 1 \in DOMAIN Order
        BY <2>1, <4>1
      <4>3. after[k + 1] = DispatchIfReady(after[k], Order[k + 1])  BY <2>3, <4>2
      <4>4. Inv(after[k], ch, ck, gv, ev) /\ after[k].status = "running"  BY <3>2, <4>2
      <4>a. PICK u : u = after[k]  OBVIOUS
      <4>b. PICK n \in Node : n = Order[k + 1]  BY <4>2 DEF Node
      <4>5. u = after[k] /\ n = Order[k + 1]  BY <4>a, <4>b
      <4>6. Inv(DispatchIfReady(u, n), ch, ck, gv, ev) /\ DispatchIfReady(u, n).status = "running"
        <5>1. CASE u.inFlight < MaxParallel /\ IsReady(u, n) /\ Free(u, n)
          BY <4>4, <4>5, <5>1, MarkKeeps DEF DispatchIfReady
        <5>2. CASE ~(u.inFlight < MaxParallel /\ IsReady(u, n) /\ Free(u, n))
          BY <4>4, <4>5, <5>2 DEF DispatchIfReady
        <5>3. QED  BY <5>1, <5>2
      <4>7. QED  BY <4>3, <4>5, <4>6
    <3> HIDE DEF G
    <3>3. \A k \in Nat : k \in G  BY <3>1, <3>2, NatSet, G \subseteq Nat DEF G
    <3>4. QED  BY <3>3 DEF G
  <2>5. Inv(after[Len(Order)], ch, ck, gv, ev) /\ after[Len(Order)].status = "running"
    BY <2>1, <2>4
  <2>6. QED  BY <2>3, <2>5, MaybeFinishKeeps
<1>3. QED  BY <1>1, <1>2

-----------------------------------------------------------------------------
(* Giving back scopes and slots.                                           *)

LEMMA ReleasedRun ==
  ASSUME NEW r \in RunRec, NEW h
  PROVE  \E s \in RunRec :
           /\ Release(r, h) = s /\ s.held = r.held \ {h}
           /\ s.status = r.status /\ s.judge = r.judge /\ s.sending = r.sending
           /\ s.st = r.st /\ s.att = r.att /\ s.sess = r.sess /\ s.recov = r.recov
           /\ s.inFlight = r.inFlight /\ s.repairs = r.repairs
           /\ s.disp = r.disp /\ s.out = r.out
           /\ s.overtaken = r.overtaken /\ s.adopted = r.adopted /\ s.log = r.log
<1>1. PICK w \in BOOLEAN : w = (r.wake \/ h \in r.held)  OBVIOUS
<1>2. PICK s : s = [r EXCEPT !.held = r.held \ {h}, !.wake = w]  OBVIOUS
<1>3. Release(r, h) = s  BY <1>1, <1>2, Zenon DEF Release
<1>4. s \in RunRec /\ s.held = r.held \ {h}  BY <1>2 DEF RunRec
<1>5. /\ s.status = r.status /\ s.judge = r.judge /\ s.sending = r.sending
      /\ s.st = r.st /\ s.att = r.att /\ s.sess = r.sess /\ s.recov = r.recov
      /\ s.inFlight = r.inFlight /\ s.repairs = r.repairs
      /\ s.disp = r.disp /\ s.out = r.out
      /\ s.overtaken = r.overtaken /\ s.adopted = r.adopted /\ s.log = r.log
  BY <1>2 DEF RunRec
<1>6. QED  BY <1>3, <1>4, <1>5

LEMMA SettleRun ==
  ASSUME NEW r \in RunRec, NEW n \in Node, NEW state \in NodeState
  PROVE  \E s \in RunRec :
           /\ Settle(r, n, state) = s
           /\ s.st = [r.st EXCEPT ![n] = state]
           /\ s.log.st = [r.log.st EXCEPT ![n] = state]
           /\ s.log.att = r.log.att /\ s.log.sess = r.log.sess
           /\ s.log.repairs = r.log.repairs
           /\ s.status = r.status /\ s.judge = r.judge /\ s.sending = r.sending
           /\ s.att = r.att /\ s.sess = r.sess /\ s.recov = r.recov
           /\ s.inFlight = r.inFlight /\ s.repairs = r.repairs /\ s.held = r.held
           /\ s.disp = r.disp /\ s.out = r.out /\ s.overtaken = r.overtaken /\ s.adopted = r.adopted
<1>1. r.st \in [Node -> NodeState] /\ r.log \in LogRec  BY DEF RunRec
<1>2. PICK l : l = [r.log EXCEPT !.st[n] = state]  OBVIOUS
<1>3. l \in LogRec /\ l.st = [r.log.st EXCEPT ![n] = state] /\ l.att = r.log.att
      /\ l.sess = r.log.sess /\ l.repairs = r.log.repairs
  BY <1>1, <1>2 DEF LogRec
<1>4. PICK f : f = [r.st EXCEPT ![n] = state]  OBVIOUS
<1>5. f \in [Node -> NodeState]  BY <1>1, <1>4
<1>6. PICK s : s = [r EXCEPT !.st = f, !.log = l]  OBVIOUS
<1>7. Settle(r, n, state) = s
  BY <1>1, <1>2, <1>4, <1>6 DEF Settle, RunRec, LogRec
<1>8. s \in RunRec /\ s.st = f /\ s.log = l  BY <1>3, <1>5, <1>6 DEF RunRec
<1>9. /\ s.status = r.status /\ s.judge = r.judge /\ s.sending = r.sending
      /\ s.att = r.att /\ s.sess = r.sess /\ s.recov = r.recov
      /\ s.inFlight = r.inFlight /\ s.repairs = r.repairs /\ s.held = r.held
      /\ s.disp = r.disp /\ s.out = r.out /\ s.overtaken = r.overtaken /\ s.adopted = r.adopted
  BY <1>6 DEF RunRec
<1>10. QED  BY <1>3, <1>4, <1>7, <1>8, <1>9

\* What settling a running node changes: its slot, its scopes, its state.
LEMMA SettledRun ==
  ASSUME NEW r \in RunRec, NEW n \in Node, NEW state \in NodeState,
         r.st[n] = "running", r.inFlight > 0
  PROVE  \E s \in RunRec :
           /\ Settle(Leave(Release(r, n), n), n, state) = s
           /\ s.st = [r.st EXCEPT ![n] = state]
           /\ s.log.st = [r.log.st EXCEPT ![n] = state]
           /\ s.log.att = r.log.att /\ s.log.sess = r.log.sess
           /\ s.log.repairs = r.log.repairs
           /\ s.status = r.status /\ s.judge = r.judge /\ s.sending = r.sending
           /\ s.att = r.att /\ s.sess = r.sess /\ s.recov = r.recov
           /\ s.inFlight = r.inFlight - 1 /\ s.repairs = r.repairs
           /\ s.held = r.held \ {n}
           /\ s.disp = r.disp /\ s.out = r.out /\ s.overtaken = r.overtaken /\ s.adopted = r.adopted
<1>1. PICK p \in RunRec :
        /\ Release(r, n) = p /\ p.held = r.held \ {n}
        /\ p.status = r.status /\ p.judge = r.judge /\ p.sending = r.sending
        /\ p.st = r.st /\ p.att = r.att /\ p.sess = r.sess /\ p.recov = r.recov
        /\ p.inFlight = r.inFlight /\ p.repairs = r.repairs
        /\ p.disp = r.disp /\ p.out = r.out
        /\ p.overtaken = r.overtaken /\ p.adopted = r.adopted /\ p.log = r.log
  BY ReleasedRun
<1>2. PICK q : q = [p EXCEPT !.inFlight = @ - 1]  OBVIOUS
<1>3. Leave(p, n) = q  BY <1>1, <1>2 DEF Leave
<1>4. r.inFlight \in Nat /\ r.inFlight - 1 \in Nat  BY DEF RunRec
<1>5. /\ q \in RunRec /\ q.held = p.held /\ q.inFlight = r.inFlight - 1
      /\ q.status = p.status /\ q.judge = p.judge /\ q.sending = p.sending
      /\ q.st = p.st /\ q.att = p.att /\ q.sess = p.sess /\ q.recov = p.recov
      /\ q.repairs = p.repairs /\ q.disp = p.disp /\ q.out = p.out
      /\ q.overtaken = p.overtaken /\ q.adopted = p.adopted /\ q.log = p.log
  BY <1>1, <1>2, <1>4 DEF RunRec
<1>6. PICK s \in RunRec :
        /\ Settle(q, n, state) = s
        /\ s.st = [q.st EXCEPT ![n] = state]
        /\ s.log.st = [q.log.st EXCEPT ![n] = state]
        /\ s.log.att = q.log.att /\ s.log.sess = q.log.sess
        /\ s.log.repairs = q.log.repairs
        /\ s.status = q.status /\ s.judge = q.judge /\ s.sending = q.sending
        /\ s.att = q.att /\ s.sess = q.sess /\ s.recov = q.recov
        /\ s.inFlight = q.inFlight /\ s.repairs = q.repairs /\ s.held = q.held
        /\ s.disp = q.disp /\ s.out = q.out /\ s.overtaken = q.overtaken /\ s.adopted = q.adopted
  BY <1>5, SettleRun
<1>7. QED  BY <1>1, <1>3, <1>5, <1>6

\* A running node has a slot, and its run is not being judged.
LEMMA RunningHasSlot ==
  ASSUME NEW r, NEW ch, NEW ck, NEW gv, NEW ev, Core(r, ch, ck, gv, ev),
         NEW n \in Node, r.st[n] = "running"
  PROVE  /\ r \in RunRec /\ r.inFlight > 0 /\ r.inFlight \in Nat
         /\ r.status \notin {"verifying", "completed", "gone"}
<1>1. r \in RunRec  BY DEF Inv, Core, Types
<1>2. r.inFlight \in Nat  BY <1>1 DEF RunRec
<1>3. n \in Running(r)  BY DEF Running
<1>4. Cardinality(Running(r)) # 0  BY <1>3, RunningIsFinite, FS_EmptySet
<1>5. r.status \notin {"verifying", "completed", "gone"}
  BY DEF Inv, Core, Slots, Stages, AllDone
<1>6. QED  BY <1>1, <1>2, <1>4, <1>5 DEF Inv, Core, Slots

\* A running node that is settled keeps the invariant, whatever it becomes: it
\* is tried again within its limit, or it has a reply its child has given, to
\* what it was to be asked unless it was overtaken or adopted. Its own scopes
\* need nobody any more.
LEMMA SettledKeeps ==
  ASSUME NEW r, NEW ch, NEW ck, NEW gv, NEW ev, Core(r, ch, ck, gv, ev),
         NEW n \in Node, LeasesBut(r, ch, ck, n), AnswersBut(r, gv, n), r.st[n] = "running",
         NEW state \in NodeState, NEW s \in RunRec,
         s.st = [r.st EXCEPT ![n] = state], s.log.st = [r.log.st EXCEPT ![n] = state],
         s.log.att = r.log.att, s.log.sess = r.log.sess, s.log.repairs = r.log.repairs,
         s.status = r.status, s.judge = r.judge, s.sending = r.sending,
         s.att = r.att, s.sess = r.sess, s.recov = r.recov,
         s.inFlight = r.inFlight - 1, s.repairs = r.repairs, s.held = r.held \ {n},
         s.disp = r.disp, s.adopted = r.adopted,
         state # "running",
         state = "pending" => r.att[n] <= RetryLimit[n],
         \/ state # "done" /\ s.out = r.out /\ s.overtaken = r.overtaken
         \/ /\ state = "done"
            /\ \E a \in Attempt :
                 /\ s.out = [r.out EXCEPT ![n] = a] /\ ch[<<n, a>>] \in Started
                 /\ n \notin r.overtaken \cup r.adopted /\ ~Unfinished(r, n)
                      => gv[<<n, a>>] = Replies(r, n)
            /\ s.overtaken = r.overtaken \cup (IF Unfinished(r, n) THEN {n} ELSE {})
  PROVE  Inv(s, ch, ck, gv, ev)
<1>1. /\ Types(r, ch, ck, gv, ev) /\ Types(s, ch, ck, gv, ev) /\ ev \in 0 .. MaxEvents
      /\ r \in RunRec /\ r.inFlight \in Nat /\ r.inFlight > 0
      /\ r.status \notin {"verifying", "completed", "gone"}
  BY RunningHasSlot DEF Inv, Core, Types
<1>2. /\ r.st \in [Node -> NodeState] /\ r.log.st \in [Node -> NodeState]
      /\ r.out \in [Node -> 0 .. MaxAttempt] /\ s.out \in [Node -> 0 .. MaxAttempt]
      /\ \A m \in Node : r.log.att[m] \in Nat
  BY <1>1, Limits DEF RunRec, LogRec, Attempts
<1>3. /\ s.st[n] = state /\ s.log.st[n] = state
      /\ \A m \in Node \ {n} : s.st[m] = r.st[m] /\ s.log.st[m] = r.log.st[m]
                               /\ s.out[m] = r.out[m]
  BY <1>2
<1>4. /\ \A m \in Node : r.att[m] = r.log.att[m] /\ (r.st[m] = "done" <=> r.log.st[m] = "done")
      /\ Live(r) => r.repairs = r.log.repairs
  BY <1>1 DEF Inv, Core, Logged
<1>5. Slots(s)
  <2>1. Running(s) = Running(r) \ {n} /\ n \in Running(r)  BY <1>3 DEF Running
  <2>2. Cardinality(Running(s)) = Cardinality(Running(r)) - 1
    BY <2>1, RunningIsFinite, FS_RemoveElement, ZenonT(30)
  <2>3. r.inFlight = Cardinality(Running(r)) /\ r.inFlight <= MaxParallel  BY DEF Inv, Core, Slots
  <2>4. s.status \notin {"verifying", "completed"}  BY <1>1
  <2>5. QED  BY <1>1, <2>2, <2>3, <2>4, Limits DEF Slots
<1>6. Stages(s)  BY <1>1 DEF Inv, Core, Stages
<1>7. Logged(s)
  <2>1. \A m \in Node : s.st[m] = "done" <=> s.log.st[m] = "done"  BY <1>3, <1>4
  <2>2. QED  BY <1>4, <2>1 DEF Logged, Live
<1>8. Bounded(s, ev)
  <2>1. Rounds(s) = Rounds(r)  BY DEF Rounds
  <2>2. SUFFICES ASSUME NEW m \in Node
                 PROVE  /\ s.log.att[m] <= RetryLimit[m] + Rounds(s) + ev + 1
                        /\ MayRestart(s, m) => s.log.att[m] <= RetryLimit[m] + Rounds(s) + ev
                        /\ Begun(s, m) => s.log.att[m] > 0
    BY DEF Bounded
  <2>3. CASE m # n  BY <1>3, <2>1, <2>3 DEF Inv, Core, Bounded, MayRestart, Begun
  <2>4. CASE m = n
    <3>1. /\ r.log.att[n] <= RetryLimit[n] + Rounds(r) + ev + 1 /\ r.log.att[n] > 0
          /\ r.status \in {"paused", "gone"} \/ r.judge = "scope"
               => r.log.att[n] <= RetryLimit[n] + Rounds(r) + ev
      BY DEF Inv, Core, Bounded, MayRestart, Begun
    <3>2. state = "pending" => r.log.att[n] <= RetryLimit[n] + Rounds(r) + ev
      BY <1>1, <1>2, <1>4, RoomForAttempts, Limits
    <3>3. QED  BY <1>3, <2>1, <2>4, <3>1, <3>2 DEF MayRestart
  <2>5. QED  BY <2>3, <2>4
<1>9. Children(s, ch, ck)
  <2>1. \A m \in Node : /\ s.sess[m] = None \/ SessionOf(s, m, s.sess[m])
                        /\ s.log.sess[m] = None \/ SessionOf(s, m, s.log.sess[m])
    BY DEF Inv, Core, Children, SessionOf
  <2>2. \A m \in Node : \A a \in Attempt : a > s.log.att[m] => ch[<<m, a>>] = "none"
    BY DEF Inv, Core, Children
  <2>3. ASSUME NEW m \in Node
        PROVE  /\ s.log.st[m] = "done" => s.out[m] > 0
               /\ s.out[m] > 0 => ch[<<m, s.out[m]>>] \in Started
    <3>1. CASE m # n  BY <1>3, <3>1 DEF Inv, Core, Children
    <3>2. CASE m = n /\ state = "done"
      <4>1. PICK a \in Attempt : s.out = [r.out EXCEPT ![n] = a] /\ ch[<<n, a>>] \in Started
        BY <3>2
      <4>2. s.out[n] = a /\ a > 0  BY <1>2, <4>1, Limits DEF Attempt
      <4>3. QED  BY <3>2, <4>1, <4>2
    <3>3. CASE m = n /\ state # "done"  BY <1>3, <3>3 DEF Inv, Core, Children
    <3>4. QED  BY <3>1, <3>2, <3>3
  <2>4. QED  BY <2>1, <2>2, <2>3 DEF Inv, Core, Children
<1>10. Dispatches(s, ch)  BY DEF Inv, Core, Dispatches, DispatchOk, SessionOf
<1>11. Leases(s, ch, ck)
  <2>1. ASSUME NEW m \in s.held \cap Node PROVE Served(s, ch, ck, m)
    <3>1. m # n /\ m \in r.held \cap Node  BY <2>1
    <3>2. Served(r, ch, ck, m)  BY <3>1 DEF LeasesBut
    <3>3. QED  BY <1>3, <3>1, <3>2 DEF Served, Lost, OnItsWay, AtWork, Live
  <2>2. QED  BY <2>1 DEF Leases
<1>12. r.log.st[n] # "done"  BY <1>4
<1>13. ASSUME NEW m \in Node, DepsDone(r, m)
       PROVE  DepsDone(s, m) /\ Replies(s, m) = Replies(r, m)
  <2>1. n \notin Deps[m] /\ Deps[m] \subseteq Node  BY <1>12, <1>13, Limits DEF DepsDone
  <2>2. DepsDone(s, m)  BY <1>3, <1>13, <2>1 DEF DepsDone
  <2>3. Replies(s, m) = Replies(r, m)  BY <1>3, <2>1 DEF Replies
  <2>4. QED  BY <2>2, <2>3
<1>14. Freshness(s, ch, gv)
  <2>1. SUFFICES ASSUME NEW m \in Node \ s.overtaken PROVE FreshNode(s, ch, gv, m)
    BY DEF Freshness
  <2>2. m \in Node \ r.overtaken /\ FreshNode(r, ch, gv, m)  BY <2>1 DEF Inv, Core, Freshness
  <2>3. DepsDone(r, m) => DepsDone(s, m) /\ Replies(s, m) = Replies(r, m)  BY <1>13
  <2>4. CASE m # n
    <3>1. s.log.st[m] = r.log.st[m] /\ (Begun(s, m) <=> Begun(r, m))
      BY <1>3, <2>4 DEF Begun
    <3>2. QED  BY <2>2, <2>3, <3>1 DEF FreshNode
  <2>5. CASE m = n
    <3>1. Begun(r, n)  BY DEF Begun
    <3>2. DepsDone(r, n)  BY <2>2, <2>5, <3>1 DEF FreshNode
    <3>3. state = "done" => n \notin s.recov /\ \A d \in s.disp : d.n # n
      BY <2>1, <2>5 DEF Unfinished
    <3>4. QED  BY <1>3, <2>2, <2>3, <2>5, <3>1, <3>2, <3>3 DEF FreshNode
  <2>6. QED  BY <2>4, <2>5
<1>15. Answers(s, gv)
  <2>1. SUFFICES ASSUME NEW m \in Node \ (s.overtaken \cup s.adopted) PROVE Answered(s, gv, m)
    BY DEF Answers
  <2>2. m \notin r.overtaken \cup r.adopted  BY <2>1
  <2>3. Begun(r, m) => Replies(s, m) = Replies(r, m)
    BY <1>13, <2>2 DEF Core, Freshness, FreshNode
  <2>4. CASE m # n /\ Begun(r, m)
    <3>1. Answered(r, gv, m)  BY <2>2, <2>4 DEF AnswersBut
    <3>2. QED  BY <1>3, <2>3, <2>4, <3>1, AnsweredStays
  <2>5. CASE m # n /\ ~Begun(r, m)  BY <1>3, <2>5 DEF Begun, Answered
  <2>6. CASE m = n /\ state # "done"  BY <1>3, <2>6 DEF Answered
  <2>7. CASE m = n /\ state = "done"
    <3>1. ~Unfinished(r, n)  BY <2>1, <2>7
    <3>2. PICK a \in Attempt : s.out = [r.out EXCEPT ![n] = a] /\ gv[<<n, a>>] = Replies(r, n)
      BY <2>2, <2>7, <3>1
    <3>3. s.out[n] = a  BY <1>2, <3>2
    <3>4. Begun(r, n)  BY DEF Begun
    <3>5. QED  BY <1>3, <2>3, <2>7, <3>2, <3>3, <3>4 DEF Answered
  <2>8. QED  BY <2>4, <2>5, <2>6, <2>7
<1>16. QED
  BY <1>1, <1>5, <1>6, <1>7, <1>8, <1>9, <1>10, <1>11, <1>14, <1>15 DEF Inv, Core

\* A node that fails is tried again within its limit.
LEMMA FailNodeKeeps ==
  ASSUME NEW r, NEW ch, NEW ck, NEW gv, NEW ev, Core(r, ch, ck, gv, ev),
         NEW n \in Node, LeasesBut(r, ch, ck, n), AnswersBut(r, gv, n), r.st[n] = "running",
         NEW allowRetry
  PROVE  Inv(FailNode(r, n, allowRetry), ch, ck, gv, ev)
<1>1. r \in RunRec /\ r.inFlight > 0  BY RunningHasSlot
<1>2. PICK state : state = IF allowRetry /\ r.att[n] <= RetryLimit[n] THEN "pending" ELSE "failed"
  OBVIOUS
<1>3. /\ state \in NodeState /\ state \notin {"running", "done"}
      /\ state = "pending" => r.att[n] <= RetryLimit[n]
  BY <1>2 DEF NodeState
<1>4. PICK s \in RunRec :
        /\ Settle(Leave(Release(r, n), n), n, state) = s
        /\ s.st = [r.st EXCEPT ![n] = state]
        /\ s.log.st = [r.log.st EXCEPT ![n] = state]
        /\ s.log.att = r.log.att /\ s.log.sess = r.log.sess
        /\ s.log.repairs = r.log.repairs
        /\ s.status = r.status /\ s.judge = r.judge /\ s.sending = r.sending
        /\ s.att = r.att /\ s.sess = r.sess /\ s.recov = r.recov
        /\ s.inFlight = r.inFlight - 1 /\ s.repairs = r.repairs
        /\ s.held = r.held \ {n}
        /\ s.disp = r.disp /\ s.out = r.out /\ s.overtaken = r.overtaken /\ s.adopted = r.adopted
  BY <1>1, <1>3, SettledRun
<1>5. Inv(s, ch, ck, gv, ev)  BY <1>3, <1>4, SettledKeeps
<1>6. FailNode(r, n, allowRetry) = ScheduleReady(s)  BY <1>2, <1>4 DEF FailNode
<1>7. QED  BY <1>5, <1>6, ScheduleKeeps

\* So does a node whose child is interrupted.
LEMMA InterruptedKeeps ==
  ASSUME NEW r, NEW ch, NEW ck, NEW gv, NEW ev, Core(r, ch, ck, gv, ev),
         NEW n \in Node, LeasesBut(r, ch, ck, n), AnswersBut(r, gv, n), r.st[n] = "running"
  PROVE  Inv(Interrupted(r, n), ch, ck, gv, ev)
<1>1. r \in RunRec /\ r.inFlight > 0  BY RunningHasSlot
<1>2. PICK state \in NodeState : state = "cancelled"  BY DEF NodeState
<1>3. PICK s \in RunRec :
        /\ Settle(Leave(Release(r, n), n), n, state) = s
        /\ s.st = [r.st EXCEPT ![n] = state]
        /\ s.log.st = [r.log.st EXCEPT ![n] = state]
        /\ s.log.att = r.log.att /\ s.log.sess = r.log.sess
        /\ s.log.repairs = r.log.repairs
        /\ s.status = r.status /\ s.judge = r.judge /\ s.sending = r.sending
        /\ s.att = r.att /\ s.sess = r.sess /\ s.recov = r.recov
        /\ s.inFlight = r.inFlight - 1 /\ s.repairs = r.repairs
        /\ s.held = r.held \ {n}
        /\ s.disp = r.disp /\ s.out = r.out /\ s.overtaken = r.overtaken /\ s.adopted = r.adopted
  BY <1>1, SettledRun
<1>4. Inv(s, ch, ck, gv, ev)  BY <1>2, <1>3, SettledKeeps
<1>5. Interrupted(r, n) = ScheduleReady(s)  BY <1>2, <1>3 DEF Interrupted
<1>6. QED  BY <1>4, <1>5, ScheduleKeeps

\* So does a node whose child has given its reply.
LEMMA DoneKeeps ==
  ASSUME NEW r, NEW ch, NEW ck, NEW gv, NEW ev, Core(r, ch, ck, gv, ev),
         NEW n \in Node, LeasesBut(r, ch, ck, n), AnswersBut(r, gv, n), r.st[n] = "running",
         NEW a \in Attempt, ch[<<n, a>>] \in Started,
         n \notin r.overtaken \cup r.adopted /\ ~Unfinished(r, n) => gv[<<n, a>>] = Replies(r, n)
  PROVE  Inv(MarkNodeDone(r, n, <<n, a>>), ch, ck, gv, ev)
<1>1. r \in RunRec /\ r.inFlight > 0  BY RunningHasSlot
<1>2. PICK state \in NodeState : state = "done"  BY DEF NodeState
<1>3. PICK s \in RunRec :
        /\ Settle(Leave(Release(r, n), n), n, state) = s
        /\ s.st = [r.st EXCEPT ![n] = state]
        /\ s.log.st = [r.log.st EXCEPT ![n] = state]
        /\ s.log.att = r.log.att /\ s.log.sess = r.log.sess
        /\ s.log.repairs = r.log.repairs
        /\ s.status = r.status /\ s.judge = r.judge /\ s.sending = r.sending
        /\ s.att = r.att /\ s.sess = r.sess /\ s.recov = r.recov
        /\ s.inFlight = r.inFlight - 1 /\ s.repairs = r.repairs
        /\ s.held = r.held \ {n}
        /\ s.disp = r.disp /\ s.out = r.out /\ s.overtaken = r.overtaken /\ s.adopted = r.adopted
  BY <1>1, SettledRun
<1>4. PICK early : early = IF Unfinished(r, n) THEN {n} ELSE {}  OBVIOUS
<1>5. PICK u : u = [s EXCEPT !.out[n] = a, !.overtaken = @ \cup early]  OBVIOUS
<1>6. MarkNodeDone(r, n, <<n, a>>) = ScheduleReady(u)
  BY <1>2, <1>3, <1>4, <1>5 DEF MarkNodeDone
<1>7. s.out \in Attempts /\ [s.out EXCEPT ![n] = a] \in Attempts
  BY Limits DEF RunRec, Attempts, Attempt
<1>8. u \in RunRec /\ u.out = [s.out EXCEPT ![n] = a] /\ u.overtaken = s.overtaken \cup early
  BY <1>4, <1>5, <1>7 DEF RunRec
<1>9. /\ u.st = s.st /\ u.log = s.log
      /\ u.status = s.status /\ u.judge = s.judge /\ u.sending = s.sending
      /\ u.att = s.att /\ u.sess = s.sess /\ u.recov = s.recov
      /\ u.inFlight = s.inFlight /\ u.repairs = s.repairs
      /\ u.held = s.held /\ u.disp = s.disp /\ u.adopted = s.adopted
  BY <1>5 DEF RunRec
<1>10. u.out = [r.out EXCEPT ![n] = a]
       /\ u.overtaken = r.overtaken \cup (IF Unfinished(r, n) THEN {n} ELSE {})
  BY <1>3, <1>4, <1>8
<1>11. Inv(u, ch, ck, gv, ev)
  BY <1>2, <1>3, <1>8, <1>9, <1>10, SettledKeeps, SMTT(30)
<1>12. QED  BY <1>6, <1>11, ScheduleKeeps

-----------------------------------------------------------------------------
(* What a child's end means for the run.                                   *)

\* The child is the one its node runs in.
Mine(r, c) == Live(r) /\ r.st[c[1]] = "running" /\ r.sess[c[1]] = c

\* Whatever a child that has begun tells the run at its end, the invariant
\* holds again: only its own node had lost who is to give back its scopes.
LEMMA CompletionKeeps ==
  ASSUME NEW r, NEW ch, NEW gv, NEW ev, Core(r, ch, checking, gv, ev),
         NEW c \in Child, LeasesBut(r, ch, checking, c[1]), ch[c] \in Started,
         ~Mine(r, c) => Leases(r, ch, checking), Answers(r, gv), NEW reason,
         OnSessionComplete(r, c, reason)
  PROVE  Inv(run', ch, checking', gv, ev)
<1>1. PICK n \in Node, a \in Attempt : c = <<n, a>> /\ n = c[1]  BY DEF Child
<1>2. PICK ck : ck = checking  OBVIOUS
<1>3. Core(r, ch, ck, gv, ev) /\ LeasesBut(r, ch, ck, n) /\ (~Mine(r, c) => Leases(r, ch, ck))
  BY <1>1, <1>2
<1>4. CASE ~Mine(r, c)
  <2>1. run' = r /\ checking' = ck  BY <1>2, <1>4 DEF OnSessionComplete, Mine
  <2>2. QED  BY <1>3, <1>4, <2>1 DEF Inv
<1>5. CASE Mine(r, c)
  <2>1. r.st[n] = "running" /\ r.sess[n] = <<n, a>>  BY <1>1, <1>5 DEF Mine
  <2>a. AnswersBut(r, gv, n)  BY DEF Answers, AnswersBut
  <2>b. n \notin r.overtaken \cup r.adopted /\ ~Unfinished(r, n) => gv[<<n, a>>] = Replies(r, n)
    BY <2>1, ReplyIsTheAnswer
  <2>2. CASE run' = MarkNodeDone(r, n, c) /\ checking' = ck
    <3>1. Inv(MarkNodeDone(r, n, <<n, a>>), ch, ck, gv, ev)
      BY <1>1, <1>3, <2>1, <2>a, <2>b, DoneKeeps
    <3>2. QED  BY <1>1, <2>2, <3>1
  <2>3. CASE run' = r /\ checking' = ck \cup {c}
    <3>1. PICK k : k = ck \cup {c}  OBVIOUS
    <3>2. Core(r, ch, k, gv, ev)  BY <1>3, <3>1 DEF Core, Types, Children
    <3>3. Served(r, ch, k, n)  BY <1>1, <1>5, <3>1, Limits DEF Served, AtWork, Mine
    <3>4. \A m \in Node : Served(r, ch, ck, m) => Served(r, ch, k, m)
      BY <3>1 DEF Served, AtWork
    <3>5. Leases(r, ch, k)  BY <1>3, <3>3, <3>4 DEF Leases, LeasesBut
    <3>6. QED  BY <2>3, <3>1, <3>2, <3>5 DEF Inv
  <2>4. CASE run' = Interrupted(r, n) /\ checking' = ck
    <3>1. Inv(Interrupted(r, n), ch, ck, gv, ev)  BY <1>3, <2>1, <2>a, InterruptedKeeps
    <3>2. QED  BY <2>4, <3>1
  <2>5. CASE run' = FailNode(r, n, TRUE) /\ checking' = ck
    <3>1. Inv(FailNode(r, n, TRUE), ch, ck, gv, ev)  BY <1>3, <2>1, <2>a, FailNodeKeeps
    <3>2. QED  BY <2>5, <3>1
  <2>6. QED
    BY <1>1, <1>2, <1>5, <2>2, <2>3, <2>4, <2>5, Zenon DEF OnSessionComplete, Mine
<1>6. QED  BY <1>4, <1>5

-----------------------------------------------------------------------------
(* Steps of dispatches and children that settle no node.                   *)

\* A step that moves dispatches, scopes and sessions, and lets no child begin.
LEMMA FrameCore ==
  ASSUME NEW r, NEW s, NEW ch, NEW ch2, NEW ck, NEW ck2, NEW gv, NEW ev,
         Core(r, ch, ck, gv, ev), s \in RunRec,
         s.status = r.status, s.st = r.st, s.att = r.att, s.inFlight = r.inFlight,
         s.repairs = r.repairs, s.judge = r.judge, s.sending = r.sending, s.out = r.out,
         s.overtaken = r.overtaken, s.log.st = r.log.st, s.log.att = r.log.att,
         s.log.repairs = r.log.repairs, s.recov \subseteq r.recov,
         r.status = "gone" => s.disp = {} /\ s.held \cap Node = {},
         \A n \in Node : s.sess[n] = r.sess[n] \/ SessionOf(r, n, s.sess[n]),
         \A n \in Node : s.log.sess[n] = r.log.sess[n] \/ SessionOf(r, n, s.log.sess[n]),
         \A d \in s.disp : d \in r.disp \/
           /\ DispatchOk(s, ch2, d)
           /\ d.n \notin r.overtaken => /\ r.log.st[d.n] # "done" /\ DepsDone(r, d.n)
                                        /\ d.pc # "prompt" => d.got = Replies(r, d.n),
         ch2 \in [Child -> ChildState], ck2 \subseteq ck,
         \A c \in Child : ch2[c] \in Started <=> ch[c] \in Started,
         \A n \in Node : \A a \in Attempt : a > r.log.att[n] => ch2[<<n, a>>] = "none"
  PROVE  Core(s, ch2, ck2, gv, ev)
<1>1. Types(s, ch2, ck2, gv, ev) /\ r \in RunRec /\ ck \subseteq Child
  BY DEF Core, Types
<1>2. Slots(s)  BY DEF Core, Slots, Running, AllDone
<1>3. Stages(s)  BY DEF Core, Stages
<1>4. Logged(s)  BY DEF Core, Logged, Live
<1>5. Bounded(s, ev)
  <2>1. Rounds(s) = Rounds(r)  BY DEF Rounds
  <2>2. \A n \in Node : Begun(s, n) => Begun(r, n)  BY DEF Begun
  <2>3. QED  BY <2>1, <2>2 DEF Core, Bounded, MayRestart
<1>6. \A n, c : SessionOf(s, n, c) <=> SessionOf(r, n, c)  BY DEF SessionOf
<1>7. Children(s, ch2, ck2)
  <2>1. \A n \in Node : /\ s.sess[n] = None \/ SessionOf(s, n, s.sess[n])
                        /\ s.log.sess[n] = None \/ SessionOf(s, n, s.log.sess[n])
    BY <1>6 DEF Core, Children
  <2>2. ASSUME NEW n \in Node, s.out[n] > 0 PROVE ch2[<<n, s.out[n]>>] \in Started
    <3>1. ch[<<n, r.out[n]>>] \in Started  BY <2>2 DEF Core, Children
    <3>2. r.out[n] \in 0 .. MaxAttempt  BY <1>1 DEF RunRec, Attempts
    <3>3. <<n, r.out[n]>> \in Child  BY <2>2, <3>2, Limits DEF Child, Attempt
    <3>4. QED  BY <3>1, <3>3
  <2>3. \A n \in Node : s.log.st[n] = "done" => s.out[n] > 0  BY DEF Core, Children
  <2>4. \A c \in ck2 : ch2[c] \in Started  BY <1>1 DEF Core, Children
  <2>5. \A n \in Node : \A a \in Attempt : a > s.log.att[n] => ch2[<<n, a>>] = "none"
    OBVIOUS
  <2>6. QED  BY <2>1, <2>2, <2>3, <2>4, <2>5 DEF Children
<1>8. Dispatches(s, ch2)
  <2>1. ASSUME NEW d \in s.disp, d \in r.disp PROVE DispatchOk(s, ch2, d)
    <3>1. DispatchOk(r, ch, d)  BY <2>1 DEF Core, Dispatches
    <3>2. d.child \in Child \cup {None}  BY <1>1, <2>1 DEF RunRec, DispatchRec
    <3>3. QED  BY <1>6, <3>1, <3>2 DEF DispatchOk
  <2>2. QED  BY <2>1 DEF Dispatches
<1>9. Freshness(s, ch2, gv)
  <2>1. SUFFICES ASSUME NEW n \in Node \ s.overtaken PROVE FreshNode(s, ch2, gv, n)
    BY DEF Freshness
  <2>2. FreshNode(r, ch, gv, n)  BY DEF Core, Freshness
  <2>3. /\ Begun(s, n) => Begun(r, n)
        /\ DepsDone(s, n) <=> DepsDone(r, n)
        /\ Replies(s, n) = Replies(r, n)
    BY DEF Begun, DepsDone, Replies
  <2>4. s.log.att[n] > 0 /\ ch2[<<n, s.log.att[n]>>] \in Started
          => ch[<<n, r.log.att[n]>>] \in Started
    <3>1. r.log.att[n] \in 0 .. MaxAttempt  BY <1>1 DEF RunRec, LogRec, Attempts
    <3>2. r.log.att[n] > 0 => <<n, r.log.att[n]>> \in Child  BY <3>1, Limits DEF Child, Attempt
    <3>3. QED  BY <3>2
  <2>5. n \in s.recov => s.log.st[n] # "done"  BY <2>2 DEF FreshNode
  <2>6. Begun(s, n) => DepsDone(s, n)  BY <2>2, <2>3 DEF FreshNode
  <2>7. Begun(s, n) /\ s.log.att[n] > 0 /\ ch2[<<n, s.log.att[n]>>] \in Started
          => gv[<<n, s.log.att[n]>>] = Replies(s, n)
    BY <2>2, <2>3, <2>4 DEF FreshNode
  <2>8. \A d \in s.disp : d.n = n =>
          /\ s.log.st[n] # "done" /\ DepsDone(s, n)
          /\ d.pc # "prompt" => d.got = Replies(s, n)
    BY <2>1, <2>2, <2>3 DEF FreshNode
  <2>9. QED  BY <2>5, <2>6, <2>7, <2>8 DEF FreshNode
<1>10. QED  BY <1>1, <1>2, <1>3, <1>4, <1>5, <1>7, <1>8, <1>9 DEF Core

\* The same where children, sessions and the log stay as they are.
LEMMA MovesCore ==
  ASSUME NEW r, NEW s, NEW ch, NEW ck, NEW gv, NEW ev,
         Core(r, ch, ck, gv, ev), s \in RunRec,
         s.status = r.status, s.st = r.st, s.att = r.att, s.sess = r.sess,
         s.recov = r.recov, s.inFlight = r.inFlight,
         s.repairs = r.repairs, s.judge = r.judge, s.sending = r.sending, s.out = r.out,
         s.overtaken = r.overtaken, s.log = r.log,
         r.status = "gone" => s.disp = {} /\ s.held \cap Node = {},
         \A d \in s.disp : d \in r.disp \/
           /\ DispatchOk(s, ch, d)
           /\ d.n \notin r.overtaken => /\ r.log.st[d.n] # "done" /\ DepsDone(r, d.n)
                                        /\ d.pc # "prompt" => d.got = Replies(r, d.n)
  PROVE  Core(s, ch, ck, gv, ev)
<1>1. ck \subseteq ck /\ s.recov \subseteq r.recov  OBVIOUS
<1>2. ch \in [Child -> ChildState]  BY DEF Core, Types
<1>3. \A n \in Node : \A a \in Attempt : a > r.log.att[n] => ch[<<n, a>>] = "none"
  BY DEF Core, Children
<1>4. QED  BY <1>1, <1>2, <1>3, FrameCore

\* A dispatch that has gone leaves at most its own node without a worker and
\* without an answer.
LEMMA DroppedDispatch ==
  ASSUME NEW r, NEW ch, NEW ck, NEW gv, NEW ev, Inv(r, ch, ck, gv, ev), NEW d \in r.disp
  PROVE  \E s \in RunRec :
           /\ s = [r EXCEPT !.disp = @ \ {d}]
           /\ s.disp = r.disp \ {d} /\ s.held = r.held
           /\ s.status = r.status /\ s.judge = r.judge /\ s.sending = r.sending
           /\ s.st = r.st /\ s.att = r.att /\ s.sess = r.sess /\ s.recov = r.recov
           /\ s.inFlight = r.inFlight /\ s.repairs = r.repairs /\ s.out = r.out
           /\ s.overtaken = r.overtaken /\ s.adopted = r.adopted /\ s.log = r.log
           /\ Core(s, ch, ck, gv, ev) /\ LeasesBut(s, ch, ck, d.n) /\ AnswersBut(s, gv, d.n)
<1>1. r \in RunRec /\ Types(r, ch, ck, gv, ev)  BY DEF Inv, Core, Types
<1>2. PICK s : s = [r EXCEPT !.disp = @ \ {d}]  OBVIOUS
<1>3. /\ s \in RunRec /\ s.disp = r.disp \ {d} /\ s.held = r.held
      /\ s.status = r.status /\ s.judge = r.judge /\ s.sending = r.sending
      /\ s.st = r.st /\ s.att = r.att /\ s.sess = r.sess /\ s.recov = r.recov
      /\ s.inFlight = r.inFlight /\ s.repairs = r.repairs /\ s.out = r.out
      /\ s.overtaken = r.overtaken /\ s.adopted = r.adopted /\ s.log = r.log
  BY <1>1, <1>2 DEF RunRec
<1>4. Core(s, ch, ck, gv, ev)
  <2>1. r.status = "gone" => s.disp = {} /\ s.held \cap Node = {}
    BY <1>3 DEF Inv, Core, Stages
  <2>2. QED  BY <1>3, <2>1, MovesCore DEF Inv
<1>5. LeasesBut(s, ch, ck, d.n)
  BY <1>3 DEF Inv, Leases, LeasesBut, Served, Lost, OnItsWay, AtWork, Live
<1>6. AnswersBut(s, gv, d.n)
  <2>1. SUFFICES ASSUME NEW m \in Node \ (s.overtaken \cup s.adopted \cup {d.n})
                 PROVE  Answered(s, gv, m)
    BY DEF AnswersBut
  <2>2. Answered(r, gv, m)  BY <1>3 DEF Inv, Answers
  <2>3. Replies(s, m) = Replies(r, m)  BY <1>3 DEF Replies
  <2>4. \A e \in r.disp : e.n = m => e \in s.disp  BY <1>3, <2>1
  <2>5. QED  BY <1>3, <2>2, <2>3, <2>4, AnsweredStays
<1>7. QED  BY <1>2, <1>3, <1>4, <1>5, <1>6

\* The node whose dispatch moved on has its answer again, or gave up its scopes.
LEMMA AnswersAgain ==
  ASSUME NEW s, NEW u, NEW gv, NEW n \in Node, AnswersBut(s, gv, n),
         n \notin s.overtaken => s.log.st[n] # "done",
         n \notin u.held \/ Asked(u, gv, n),
         u.st = s.st, u.log.st = s.log.st, u.out = s.out,
         u.overtaken = s.overtaken, u.adopted = s.adopted,
         \A m \in Node \ {n} : u.sess[m] = s.sess[m],
         u.held \subseteq s.held, s.disp \subseteq u.disp
  PROVE  Answers(u, gv)
<1>1. SUFFICES ASSUME NEW m \in Node \ (u.overtaken \cup u.adopted) PROVE Answered(u, gv, m)
  BY DEF Answers
<1>2. CASE m = n  BY <1>1, <1>2 DEF Answered
<1>3. CASE m # n
  <2>1. Answered(s, gv, m)  BY <1>1, <1>3 DEF AnswersBut
  <2>2. Replies(u, m) = Replies(s, m)  BY DEF Replies
  <2>3. QED  BY <1>3, <2>1, <2>2, AnsweredStays
<1>4. QED  BY <1>2, <1>3

LEMMA PromptKeeps ==
  ASSUME IInv, NEW d \in run.disp, Prompt(d)
  PROVE  IInv'
<1>1. PICK r, ch, ck, gv, ev : r = run /\ ch = child /\ ck = checking /\ gv = given /\ ev = events
  OBVIOUS
<1>2. Inv(r, ch, ck, gv, ev) /\ d \in r.disp  BY <1>1 DEF IInv
<1>3. child' = ch /\ checking' = ck /\ given' = gv /\ events' = ev  BY <1>1 DEF Prompt
<1>4. r \in RunRec /\ d \in DispatchRec /\ d.pc = "prompt"
      /\ ch \in [Child -> ChildState] /\ r.status # "gone"
  BY <1>1, <1>2 DEF Inv, Core, Types, RunRec, Prompt, Stages
<1>5. PICK s \in RunRec :
        /\ s = [r EXCEPT !.disp = @ \ {d}]
        /\ s.disp = r.disp \ {d} /\ s.held = r.held
        /\ s.status = r.status /\ s.judge = r.judge /\ s.sending = r.sending
        /\ s.st = r.st /\ s.att = r.att /\ s.sess = r.sess /\ s.recov = r.recov
        /\ s.inFlight = r.inFlight /\ s.repairs = r.repairs /\ s.out = r.out
        /\ s.overtaken = r.overtaken /\ s.adopted = r.adopted /\ s.log = r.log
        /\ Core(s, ch, ck, gv, ev) /\ LeasesBut(s, ch, ck, d.n) /\ AnswersBut(s, gv, d.n)
  BY <1>2, DroppedDispatch
<1>6. d.n \in Node /\ (d.n \notin s.overtaken => s.log.st[d.n] # "done")
  <2>1. d.n \in Node  BY <1>4 DEF DispatchRec
  <2>2. d.n \notin r.overtaken => FreshNode(r, ch, gv, d.n)
    BY <1>2, <2>1 DEF Inv, Core, Freshness
  <2>3. d.n \notin r.overtaken => r.log.st[d.n] # "done"  BY <1>2, <2>2 DEF FreshNode
  <2>4. QED  BY <1>5, <2>1, <2>3
<1>7. CASE r.status # "running"
  <2>1. run' = Release(s, d.n)  BY <1>1, <1>5, <1>7 DEF Prompt
  <2>2. PICK u \in RunRec :
          /\ Release(s, d.n) = u /\ u.held = s.held \ {d.n}
          /\ u.status = s.status /\ u.judge = s.judge /\ u.sending = s.sending
          /\ u.st = s.st /\ u.att = s.att /\ u.sess = s.sess /\ u.recov = s.recov
          /\ u.inFlight = s.inFlight /\ u.repairs = s.repairs
          /\ u.disp = s.disp /\ u.out = s.out
          /\ u.overtaken = s.overtaken /\ u.adopted = s.adopted /\ u.log = s.log
    BY ReleasedRun
  <2>3. Core(u, ch, ck, gv, ev)  BY <1>4, <1>5, <2>2, MovesCore
  <2>4. Leases(u, ch, ck)
    BY <1>5, <2>2 DEF Leases, LeasesBut, Served, Lost, OnItsWay, AtWork, Live
  <2>5. Answers(u, gv)
    <3>1. u.log.st = s.log.st /\ d.n \notin u.held /\ u.held \subseteq s.held  BY <2>2
    <3>2. AnswersBut(s, gv, d.n)  BY <1>5
    <3>3. QED  BY <1>6, <2>2, <3>1, <3>2, AnswersAgain
  <2>6. QED  BY <1>3, <2>1, <2>2, <2>3, <2>4, <2>5 DEF IInv, Inv
<1>8. CASE r.status = "running"
  <2>1. PICK e : e = [d EXCEPT !.pc = "spawn", !.got = Replies(r, d.n)]  OBVIOUS
  <2>2. Replies(r, d.n) \in Attempts
    BY <1>4, Limits DEF Replies, RunRec, Attempts
  <2>3. /\ e \in DispatchRec /\ e.n = d.n /\ e.att = d.att /\ e.pc = "spawn"
        /\ e.got = Replies(r, d.n) /\ e.child = d.child
    BY <1>4, <2>1, <2>2 DEF DispatchRec
  <2>4. PICK u : u = [s EXCEPT !.disp = @ \cup {e}]  OBVIOUS
  <2>5. run' = u  BY <1>1, <1>5, <1>8, <2>1, <2>4 DEF Prompt
  <2>6. /\ u \in RunRec /\ u.disp = s.disp \cup {e} /\ u.held = s.held
        /\ u.status = s.status /\ u.judge = s.judge /\ u.sending = s.sending
        /\ u.st = s.st /\ u.att = s.att /\ u.sess = s.sess /\ u.recov = s.recov
        /\ u.inFlight = s.inFlight /\ u.repairs = s.repairs /\ u.out = s.out
        /\ u.overtaken = s.overtaken /\ u.adopted = s.adopted /\ u.log = s.log
    BY <1>5, <2>3, <2>4 DEF RunRec
  <2>7. DispatchOk(r, ch, d) /\ d.n \in Node
    BY <1>2, <1>4 DEF Inv, Core, Dispatches, DispatchRec
  <2>8. DispatchOk(u, ch, e)  BY <1>5, <2>2, <2>3, <2>6, <2>7 DEF DispatchOk
  <2>9. d.n \notin r.overtaken => r.log.st[d.n] # "done" /\ DepsDone(r, d.n)
    BY <1>2, <2>7 DEF Inv, Core, Freshness, FreshNode
  <2>10. Core(u, ch, ck, gv, ev)
    <3>1. \A x \in u.disp : x \in s.disp \/
            /\ DispatchOk(u, ch, x)
            /\ x.n \notin s.overtaken => /\ s.log.st[x.n] # "done" /\ DepsDone(s, x.n)
                                         /\ x.pc # "prompt" => x.got = Replies(s, x.n)
      BY <1>5, <2>3, <2>6, <2>8, <2>9 DEF DepsDone, Replies
    <3>2. QED  BY <1>4, <1>5, <2>6, <3>1, MovesCore
  <2>11. Leases(u, ch, ck)
    <3>1. OnItsWay(u, d.n)  BY <2>3, <2>6 DEF OnItsWay
    <3>2. QED
      BY <1>5, <2>6, <3>1 DEF Leases, LeasesBut, Served, Lost, OnItsWay, AtWork, Live
  <2>12. Answers(u, gv)
    <3>1. Asked(u, gv, d.n)  BY <2>3, <2>6 DEF Asked
    <3>2. QED  BY <1>5, <1>6, <2>6, <3>1, AnswersAgain
  <2>13. QED  BY <1>3, <2>5, <2>10, <2>11, <2>12 DEF IInv, Inv
<1>9. QED  BY <1>7, <1>8


\* What finding or creating a child changes in the run.
Spawned(r, n, c, d) ==
  [r EXCEPT !.disp = @ \ {d}, !.recov = @ \ {n}, !.sess[n] = c, !.log.sess[n] = c]

LEMMA SpawnedRun ==
  ASSUME NEW r \in RunRec, NEW n \in Node, NEW c \in Child, NEW d \in DispatchRec
  PROVE  \E s \in RunRec :
           /\ Spawned(r, n, c, d) = s
           /\ s.disp = r.disp \ {d} /\ s.recov = r.recov \ {n}
           /\ s.sess = [r.sess EXCEPT ![n] = c]
           /\ s.log.sess = [r.log.sess EXCEPT ![n] = c]
           /\ s.log.st = r.log.st /\ s.log.att = r.log.att
           /\ s.log.repairs = r.log.repairs
           /\ s.status = r.status /\ s.judge = r.judge /\ s.sending = r.sending
           /\ s.st = r.st /\ s.att = r.att
           /\ s.inFlight = r.inFlight /\ s.repairs = r.repairs /\ s.held = r.held
           /\ s.out = r.out /\ s.overtaken = r.overtaken /\ s.adopted = r.adopted
<1>1. r.log \in LogRec /\ r.sess \in Sessions  BY DEF RunRec
<1>2. PICK l : l = [r.log EXCEPT !.sess[n] = c]  OBVIOUS
<1>3. r.log.sess \in Sessions /\ [r.log.sess EXCEPT ![n] = c] \in Sessions
  BY <1>1 DEF LogRec, Sessions
<1>4. l \in LogRec /\ l.sess = [r.log.sess EXCEPT ![n] = c] /\ l.st = r.log.st
      /\ l.att = r.log.att /\ l.repairs = r.log.repairs
  BY <1>1, <1>2, <1>3 DEF LogRec
<1>5. PICK f : f = [r.sess EXCEPT ![n] = c]  OBVIOUS
<1>6. f \in Sessions  BY <1>1, <1>5 DEF Sessions
<1>7. PICK s : s = [r EXCEPT !.disp = @ \ {d}, !.recov = @ \ {n}, !.sess = f, !.log = l]
  OBVIOUS
<1>8. Spawned(r, n, c, d) = s
  BY <1>1, <1>2, <1>5, <1>7 DEF Spawned, RunRec, LogRec
<1>9. s \in RunRec /\ s.disp = r.disp \ {d} /\ s.recov = r.recov \ {n} /\ s.sess = f /\ s.log = l
  BY <1>4, <1>6, <1>7 DEF RunRec
<1>10. /\ s.status = r.status /\ s.judge = r.judge /\ s.sending = r.sending
       /\ s.st = r.st /\ s.att = r.att
       /\ s.inFlight = r.inFlight /\ s.repairs = r.repairs /\ s.held = r.held
       /\ s.out = r.out /\ s.overtaken = r.overtaken /\ s.adopted = r.adopted
  BY <1>7 DEF RunRec
<1>11. QED  BY <1>4, <1>5, <1>8, <1>9, <1>10

\* A node that goes on finds the session it had, any other gets that of its
\* attempt; the scopes are those of a dispatch at the board, or given back.
LEMMA SpawnKeeps ==
  ASSUME IInv, NEW d \in run.disp, Spawn(d)
  PROVE  IInv'
<1>1. PICK r, ch, ck, gv, ev : r = run /\ ch = child /\ ck = checking /\ gv = given /\ ev = events
  OBVIOUS
<1>2. Inv(r, ch, ck, gv, ev) /\ d \in r.disp  BY <1>1 DEF IInv
<1>3. checking' = ck /\ given' = gv /\ events' = ev  BY <1>1 DEF Spawn
<1>4. r \in RunRec /\ d \in DispatchRec /\ d.pc = "spawn" /\ ck \subseteq Child
      /\ ch \in [Child -> ChildState] /\ r.status # "gone"
  BY <1>1, <1>2 DEF Inv, Core, Types, RunRec, Spawn, Stages
<1>5. PICK n \in Node : n = d.n  BY <1>4 DEF DispatchRec
<1>6. PICK c : c = IF Known(d) THEN r.sess[n] ELSE <<n, d.att>>  OBVIOUS
<1>7. SessionOf(r, n, c) /\ c \in Child /\ c # None
  <2>1. r.sess[n] # None => SessionOf(r, n, r.sess[n])  BY <1>2 DEF Inv, Core, Children
  <2>2. d.att \in Attempt /\ d.att <= r.log.att[n]
    BY <1>2, <1>4, <1>5 DEF Inv, Core, Dispatches, DispatchOk, DispatchRec
  <2>3. SessionOf(r, n, <<n, d.att>>)  BY <2>2 DEF SessionOf
  <2>4. Known(d) => r.sess[n] # None  BY <1>1, <1>5 DEF Known
  <2>5. SessionOf(r, n, c)  BY <1>6, <2>1, <2>3, <2>4
  <2>6. QED  BY <2>5, Limits DEF SessionOf, Child
<1>8. PICK s \in RunRec :
        /\ Spawned(r, n, c, d) = s
        /\ s.disp = r.disp \ {d} /\ s.recov = r.recov \ {n}
        /\ s.sess = [r.sess EXCEPT ![n] = c]
        /\ s.log.sess = [r.log.sess EXCEPT ![n] = c]
        /\ s.log.st = r.log.st /\ s.log.att = r.log.att
        /\ s.log.repairs = r.log.repairs
        /\ s.status = r.status /\ s.judge = r.judge /\ s.sending = r.sending
        /\ s.st = r.st /\ s.att = r.att
        /\ s.inFlight = r.inFlight /\ s.repairs = r.repairs /\ s.held = r.held
        /\ s.out = r.out /\ s.overtaken = r.overtaken /\ s.adopted = r.adopted
  BY <1>4, <1>5, <1>7, SpawnedRun
<1>9. PICK ch2 : ch2 = [ch EXCEPT ![c] = IF @ = "none" THEN "fresh" ELSE @]  OBVIOUS
<1>10. child' = ch2  BY <1>1, <1>5, <1>6, <1>9 DEF Spawn
<1>11. /\ ch2 \in [Child -> ChildState]
       /\ \A x \in Child : ch2[x] \in Started <=> ch[x] \in Started
       /\ \A x \in Child : ch2[x] = "busy" <=> ch[x] = "busy"
  BY <1>4, <1>7, <1>9 DEF ChildState, Started
<1>12. \A m \in Node : \A a \in Attempt : a > r.log.att[m] => ch2[<<m, a>>] = "none"
  <2>1. SUFFICES ASSUME NEW m \in Node, NEW a \in Attempt, a > r.log.att[m]
                 PROVE  ch2[<<m, a>>] = "none"
    OBVIOUS
  <2>2. ch[<<m, a>>] = "none" /\ <<m, a>> \in Child  BY <1>2, <2>1 DEF Inv, Core, Children, Child
  <2>3. <<m, a>> # c
    <3>1. PICK b \in Attempt : b <= r.log.att[n] /\ c = <<n, b>>  BY <1>7 DEF SessionOf
    <3>2. r.log.att[n] \in Nat /\ a \in Nat /\ b \in Nat
      BY <1>4, Limits DEF RunRec, LogRec, Attempts, Attempt
    <3>3. QED  BY <2>1, <3>1, <3>2
  <2>4. QED  BY <1>4, <1>9, <2>2, <2>3
<1>13. /\ \A m \in Node : s.sess[m] = r.sess[m] \/ SessionOf(r, m, s.sess[m])
       /\ \A m \in Node : s.log.sess[m] = r.log.sess[m] \/ SessionOf(r, m, s.log.sess[m])
       /\ \A m \in Node \ {n} : s.sess[m] = r.sess[m]
       /\ s.sess[n] = c
  BY <1>4, <1>7, <1>8 DEF RunRec, LogRec, Sessions
<1>14. \A m \in (r.held \cap Node) \ {n} : Served(s, ch2, ck, m)
  <2>1. SUFFICES ASSUME NEW m \in (r.held \cap Node) \ {n} PROVE Served(s, ch2, ck, m)
    OBVIOUS
  <2>2. OnItsWay(r, m) \/ AtWork(r, ch, ck, m) \/ Lost(r, m)  BY <1>2 DEF Inv, Leases, Served
  <2>3. OnItsWay(r, m) => OnItsWay(s, m)  BY <1>5, <1>8 DEF OnItsWay
  <2>4. AtWork(r, ch, ck, m) => AtWork(s, ch2, ck, m)
    <3>1. r.sess[m] = s.sess[m]  BY <1>13
    <3>2. AtWork(r, ch, ck, m) => s.sess[m] \in Child  BY <1>4, <3>1 DEF AtWork, RunRec, Sessions
    <3>3. QED  BY <1>5, <1>8, <1>11, <3>1, <3>2 DEF AtWork, Live
  <2>5. Lost(r, m) => Lost(s, m)  BY <1>8 DEF Lost
  <2>6. QED  BY <2>2, <2>3, <2>4, <2>5 DEF Served
<1>15. ck \subseteq ck  OBVIOUS
<1>a. AnswersBut(s, gv, n) /\ (n \notin s.overtaken => s.log.st[n] # "done")
  <2>1. n \notin s.overtaken => s.log.st[n] # "done"
    <3>1. n \notin r.overtaken => FreshNode(r, ch, gv, n)  BY <1>2 DEF Inv, Core, Freshness
    <3>2. n \notin r.overtaken => r.log.st[n] # "done"  BY <1>2, <1>5, <3>1 DEF FreshNode
    <3>3. QED  BY <1>8, <3>2
  <2>2. SUFFICES ASSUME NEW m \in Node \ (s.overtaken \cup s.adopted \cup {n})
                 PROVE  Answered(s, gv, m)
    BY <2>1 DEF AnswersBut
  <2>3. Answered(r, gv, m)  BY <1>2, <1>8 DEF Inv, Answers
  <2>4. Replies(s, m) = Replies(r, m)  BY <1>8 DEF Replies
  <2>5. \A e \in r.disp : e.n = m => e \in s.disp  BY <1>5, <1>8, <2>2
  <2>6. QED  BY <1>8, <1>13, <2>3, <2>4, <2>5, AnsweredStays
<1>16. CASE r.status # "running" \/ r.st[n] # "running"
  <2>1. run' = Release(s, n)  BY <1>1, <1>5, <1>6, <1>8, <1>16 DEF Spawn, Spawned
  <2>2. PICK u \in RunRec :
          /\ Release(s, n) = u /\ u.held = s.held \ {n}
          /\ u.status = s.status /\ u.judge = s.judge /\ u.sending = s.sending
          /\ u.st = s.st /\ u.att = s.att /\ u.sess = s.sess /\ u.recov = s.recov
          /\ u.inFlight = s.inFlight /\ u.repairs = s.repairs
          /\ u.disp = s.disp /\ u.out = s.out
          /\ u.overtaken = s.overtaken /\ u.adopted = s.adopted /\ u.log = s.log
    BY ReleasedRun
  <2>3. Core(u, ch2, ck, gv, ev)
    <3>1. /\ u.status = r.status /\ u.st = r.st /\ u.att = r.att /\ u.inFlight = r.inFlight
          /\ u.repairs = r.repairs /\ u.judge = r.judge /\ u.sending = r.sending
          /\ u.out = r.out /\ u.overtaken = r.overtaken /\ u.log.st = r.log.st
          /\ u.log.att = r.log.att /\ u.log.repairs = r.log.repairs
          /\ u.recov \subseteq r.recov
      BY <1>8, <2>2
    <3>2. r.status = "gone" => u.disp = {} /\ u.held \cap Node = {}  BY <1>4
    <3>3. \A m \in Node : u.sess[m] = r.sess[m] \/ SessionOf(r, m, u.sess[m])
      BY <1>13, <2>2
    <3>4. \A m \in Node : u.log.sess[m] = r.log.sess[m] \/ SessionOf(r, m, u.log.sess[m])
      BY <1>13, <2>2
    <3>5. \A x \in u.disp : x \in r.disp  BY <1>8, <2>2
    <3>6. QED  BY <1>2, <1>11, <1>12, <1>15, <3>1, <3>2, <3>3, <3>4, <3>5, FrameCore DEF Inv
  <2>4. Leases(u, ch2, ck)
    BY <1>8, <1>14, <2>2 DEF Leases, Served, Lost, OnItsWay, AtWork, Live
  <2>5. Answers(u, gv)
    <3>1. n \notin u.held /\ u.held \subseteq s.held  BY <2>2
    <3>2. QED  BY <1>a, <2>2, <3>1, AnswersAgain
  <2>6. QED  BY <1>3, <1>10, <2>1, <2>2, <2>3, <2>4, <2>5 DEF IInv, Inv
<1>17. CASE r.status = "running" /\ r.st[n] = "running"
  <2>1. PICK e : e = [d EXCEPT !.pc = "board", !.child = c, !.snap = ch[c]]  OBVIOUS
  <2>2. ch[c] \in ChildState  BY <1>4, <1>7
  <2>3. /\ e \in DispatchRec /\ e.n = n /\ e.att = d.att /\ e.pc = "board"
        /\ e.got = d.got /\ e.child = c /\ e.snap = ch[c]
    BY <1>4, <1>5, <1>7, <2>1, <2>2 DEF DispatchRec
  <2>4. PICK u : u = [s EXCEPT !.disp = @ \cup {e}]  OBVIOUS
  <2>5. run' = u  BY <1>1, <1>5, <1>6, <1>8, <1>17, <2>1, <2>4 DEF Spawn, Spawned
  <2>6. /\ u \in RunRec /\ u.disp = s.disp \cup {e} /\ u.held = s.held
        /\ u.status = s.status /\ u.judge = s.judge /\ u.sending = s.sending
        /\ u.st = s.st /\ u.att = s.att /\ u.sess = s.sess /\ u.recov = s.recov
        /\ u.inFlight = s.inFlight /\ u.repairs = s.repairs /\ u.out = s.out
        /\ u.overtaken = s.overtaken /\ u.adopted = s.adopted /\ u.log = s.log
    <3>1. s \in RunRec  BY <1>8
    <3>2. u \in RunRec /\ u.disp = s.disp \cup {e}  BY <2>3, <2>4, <3>1 DEF RunRec
    <3>3. QED  BY <2>4, <3>1, <3>2 DEF RunRec
  <2>7. DispatchOk(u, ch2, e)
    <3>1. d.att <= r.log.att[n] /\ d.got \in Attempts
      BY <1>2, <1>4, <1>5 DEF Inv, Core, Dispatches, DispatchOk
    <3>2. SessionOf(u, n, c)  BY <1>7, <1>8, <2>6 DEF SessionOf
    <3>3. ch[c] \in {"replied", "busy"} => ch2[c] \in Started  BY <1>7, <1>11 DEF Started
    <3>4. QED  BY <1>7, <1>8, <2>3, <2>6, <3>1, <3>2, <3>3 DEF DispatchOk
  <2>8. n \notin r.overtaken => /\ r.log.st[n] # "done" /\ DepsDone(r, n)
                                /\ d.got = Replies(r, n)
    BY <1>2, <1>4, <1>5 DEF Inv, Core, Freshness, FreshNode
  <2>9. Core(u, ch2, ck, gv, ev)
    <3>1. /\ u.status = r.status /\ u.st = r.st /\ u.att = r.att /\ u.inFlight = r.inFlight
          /\ u.repairs = r.repairs /\ u.judge = r.judge /\ u.sending = r.sending
          /\ u.out = r.out /\ u.overtaken = r.overtaken /\ u.log.st = r.log.st
          /\ u.log.att = r.log.att /\ u.log.repairs = r.log.repairs
          /\ u.recov \subseteq r.recov
      BY <1>8, <2>6
    <3>2. r.status = "gone" => u.disp = {} /\ u.held \cap Node = {}  BY <1>4
    <3>3. \A m \in Node : u.sess[m] = r.sess[m] \/ SessionOf(r, m, u.sess[m])
      BY <1>13, <2>6
    <3>4. \A m \in Node : u.log.sess[m] = r.log.sess[m] \/ SessionOf(r, m, u.log.sess[m])
      BY <1>13, <2>6
    <3>5. \A x \in u.disp : x \in r.disp \/
            /\ DispatchOk(u, ch2, x)
            /\ x.n \notin r.overtaken => /\ r.log.st[x.n] # "done" /\ DepsDone(r, x.n)
                                         /\ x.pc # "prompt" => x.got = Replies(r, x.n)
      BY <1>8, <2>3, <2>6, <2>7, <2>8
    <3>6. QED  BY <1>2, <1>11, <1>12, <1>15, <2>6, <3>1, <3>2, <3>3, <3>4, <3>5, FrameCore DEF Inv
  <2>10. Leases(u, ch2, ck)
    <3>1. AtWork(u, ch2, ck, n)
      BY <1>7, <1>8, <1>11, <1>13, <1>17, <2>3, <2>6 DEF AtWork, Live
    <3>2. \A m \in Node : OnItsWay(s, m) => OnItsWay(u, m)  BY <2>6 DEF OnItsWay
    <3>3. \A m \in Node : AtWork(s, ch2, ck, m) => AtWork(u, ch2, ck, m)
      BY <2>6 DEF AtWork, Live
    <3>4. \A m \in Node : Lost(s, m) => Lost(u, m)  BY <2>6 DEF Lost
    <3>5. QED  BY <1>8, <1>14, <2>6, <3>1, <3>2, <3>3, <3>4 DEF Leases, Served
  <2>11. Answers(u, gv)
    <3>1. Asked(u, gv, n)  BY <1>13, <2>3, <2>6 DEF Asked
    <3>2. QED  BY <1>a, <2>6, <3>1, AnswersAgain
  <2>12. QED  BY <1>3, <1>10, <2>5, <2>9, <2>10, <2>11 DEF IInv, Inv
<1>18. QED  BY <1>16, <1>17

\* A dispatch past its child that goes without having to start a turn leaves
\* no scope without a worker.
LEMMA LeasesWithout ==
  ASSUME NEW r, NEW s, NEW ch, NEW ck, Leases(r, ch, ck), NEW d \in r.disp,
         s.disp = r.disp \ {d}, s.held = r.held, s.status = r.status,
         s.st = r.st, s.sess = r.sess,
         d.pc = "board" \/ d.pc = "send",
         \/ d.pc = "board" /\ d.snap = "busy"
         \/ ~(Live(r) /\ r.st[d.n] = "running" /\ r.sess[d.n] = d.child)
  PROVE  Leases(s, ch, ck)
<1>1. SUFFICES ASSUME NEW n \in s.held \cap Node PROVE Served(s, ch, ck, n)
  BY DEF Leases
<1>2. OnItsWay(r, n) \/ AtWork(r, ch, ck, n) \/ Lost(r, n)  BY DEF Leases, Served
<1>3. OnItsWay(r, n) => OnItsWay(s, n)  BY DEF OnItsWay
<1>4. AtWork(r, ch, ck, n) => AtWork(s, ch, ck, n)  BY DEF AtWork, Live
<1>5. Lost(r, n) => Lost(s, n)  BY DEF Lost
<1>6. QED  BY <1>2, <1>3, <1>4, <1>5 DEF Served

\* The board: a child that had replied completes its node, a busy one goes on
\* with its turn, any other is sent the prompt.
LEMMA BoardKeeps ==
  ASSUME IInv, NEW d \in run.disp, Board(d)
  PROVE  IInv'
<1>1. PICK r, ch, gv, ev : r = run /\ ch = child /\ gv = given /\ ev = events
  OBVIOUS
<1>2. Inv(r, ch, checking, gv, ev) /\ d \in r.disp  BY <1>1 DEF IInv
<1>3. child' = ch /\ given' = gv /\ events' = ev  BY <1>1 DEF Board
<1>4. r \in RunRec /\ d \in DispatchRec /\ d.pc = "board" /\ r.status # "gone"
      /\ ch \in [Child -> ChildState]
  BY <1>1, <1>2 DEF Inv, Core, Types, RunRec, Board, Stages
<1>5. PICK s \in RunRec :
        /\ s = [r EXCEPT !.disp = @ \ {d}]
        /\ s.disp = r.disp \ {d} /\ s.held = r.held
        /\ s.status = r.status /\ s.judge = r.judge /\ s.sending = r.sending
        /\ s.st = r.st /\ s.att = r.att /\ s.sess = r.sess /\ s.recov = r.recov
        /\ s.inFlight = r.inFlight /\ s.repairs = r.repairs /\ s.out = r.out
        /\ s.overtaken = r.overtaken /\ s.adopted = r.adopted /\ s.log = r.log
        /\ Core(s, ch, checking, gv, ev) /\ LeasesBut(s, ch, checking, d.n)
        /\ AnswersBut(s, gv, d.n)
  BY <1>2, DroppedDispatch
<1>6. DispatchOk(r, ch, d) /\ d.n \in Node
  BY <1>2, <1>4 DEF Inv, Core, Dispatches, DispatchRec
<1>7. d.child \in Child /\ d.child[1] = d.n
  <2>1. SessionOf(r, d.n, d.child)  BY <1>4, <1>6 DEF DispatchOk
  <2>2. PICK a \in Attempt : d.child = <<d.n, a>>  BY <2>1 DEF SessionOf
  <2>3. QED  BY <1>6, <2>2 DEF Child
<1>8. PICK A \in SUBSET Node :
        /\ A = IF d.snap \in {"replied", "busy"} /\ d.child # <<d.n, r.att[d.n]>>
               THEN r.adopted \cup {d.n} ELSE r.adopted
        /\ r.adopted \subseteq A
        /\ d.snap \in {"replied", "busy"} /\ d.n \notin A => d.child = <<d.n, r.att[d.n]>>
        /\ d.snap \notin {"replied", "busy"} => A = r.adopted
  <2>1. r.adopted \in SUBSET Node  BY <1>4 DEF RunRec
  <2>2. PICK A : A = IF d.snap \in {"replied", "busy"} /\ d.child # <<d.n, r.att[d.n]>>
                     THEN r.adopted \cup {d.n} ELSE r.adopted
    OBVIOUS
  <2>3. A \in SUBSET Node /\ r.adopted \subseteq A  BY <1>6, <2>1, <2>2
  <2>4. d.snap \in {"replied", "busy"} /\ d.n \notin A => d.child = <<d.n, r.att[d.n]>>
    BY <2>2
  <2>5. d.snap \notin {"replied", "busy"} => A = r.adopted  BY <2>2
  <2>6. QED  BY <2>2, <2>3, <2>4, <2>5
<1>9. PICK w \in RunRec :
        /\ w = [r EXCEPT !.disp = @ \ {d}, !.adopted = A]
        /\ w.disp = s.disp /\ w.held = s.held
        /\ w.status = s.status /\ w.judge = s.judge /\ w.sending = s.sending
        /\ w.st = s.st /\ w.att = s.att /\ w.sess = s.sess /\ w.recov = s.recov
        /\ w.inFlight = s.inFlight /\ w.repairs = s.repairs /\ w.out = s.out
        /\ w.overtaken = s.overtaken /\ w.adopted = A /\ w.log = s.log
  <2>1. PICK w : w = [s EXCEPT !.adopted = A]  OBVIOUS
  <2>2. w = [r EXCEPT !.disp = @ \ {d}, !.adopted = A]  BY <1>4, <1>5, <2>1 DEF RunRec
  <2>3. s \in RunRec  BY <1>5
  <2>4. /\ w \in RunRec /\ w.disp = s.disp /\ w.held = s.held
        /\ w.status = s.status /\ w.judge = s.judge /\ w.sending = s.sending
        /\ w.st = s.st /\ w.att = s.att /\ w.sess = s.sess /\ w.recov = s.recov
        /\ w.inFlight = s.inFlight /\ w.repairs = s.repairs /\ w.out = s.out
        /\ w.overtaken = s.overtaken /\ w.adopted = A /\ w.log = s.log
    BY <2>1, <2>3 DEF RunRec
  <2>5. QED  BY <2>2, <2>4
<1>10. Core(w, ch, checking, gv, ev)
  <2>1. s.status = "gone" => w.disp = {} /\ w.held \cap Node = {}  BY <1>4, <1>5
  <2>2. Core(s, ch, checking, gv, ev) /\ \A x \in w.disp : x \in s.disp  BY <1>5, <1>9
  <2>3. QED  BY <1>9, <2>1, <2>2, MovesCore, ZenonT(30)
<1>11. LeasesBut(w, ch, checking, d.n)
  BY <1>5, <1>9 DEF LeasesBut, Served, Lost, OnItsWay, AtWork, Live
<1>12. \A m \in Node : Replies(w, m) = Replies(r, m)  BY <1>5, <1>9 DEF Replies
<1>13. ASSUME NEW m \in Node \ (w.overtaken \cup w.adopted \cup {d.n}) PROVE Answered(w, gv, m)
  <2>1. Answered(s, gv, m)  BY <1>5, <1>8, <1>9 DEF AnswersBut
  <2>2. Replies(w, m) = Replies(s, m)  BY <1>9 DEF Replies
  <2>3. \A e \in s.disp : e.n = m => e \in w.disp  BY <1>9
  <2>4. w.log = s.log /\ w.st = s.st /\ w.sess = s.sess /\ w.out = s.out /\ w.held = s.held
    BY <1>9
  <2>5. QED  BY <2>1, <2>2, <2>3, <2>4, AnsweredStays
<1>14. d.n \notin r.overtaken =>
         /\ r.log.st[d.n] # "done" /\ DepsDone(r, d.n) /\ d.got = Replies(r, d.n)
  BY <1>2, <1>4, <1>6 DEF Inv, Core, Freshness, FreshNode
<1>15. ASSUME d.snap \in {"replied", "busy"} PROVE Answers(w, gv)
  <2>1. SUFFICES ASSUME d.n \notin w.overtaken \cup w.adopted PROVE Answered(w, gv, d.n)
    BY <1>6, <1>13 DEF Answers
  <2>2. SUFFICES ASSUME r.st[d.n] = "running", d.n \in r.held PROVE Asked(w, gv, d.n)
    BY <1>5, <1>9, <1>14, <2>1 DEF Answered
  <2>3. Asked(r, gv, d.n)
    BY <1>2, <1>5, <1>6, <1>8, <1>9, <2>1, <2>2 DEF Inv, Answers, Answered
  <2>4. d.child = <<d.n, r.att[d.n]>>  BY <1>8, <1>9, <1>15, <2>1
  <2>5. gv[d.child] = Replies(r, d.n)
    <3>1. r.att[d.n] = r.log.att[d.n]  BY <1>2, <1>4, <1>6 DEF Inv, Core, Logged
    <3>2. ch[<<d.n, r.log.att[d.n]>>] \in Started
      BY <1>4, <1>6, <1>15, <2>4, <3>1 DEF DispatchOk
    <3>3. Begun(r, d.n) /\ r.log.att[d.n] > 0
      BY <1>2, <1>6, <2>2 DEF Inv, Core, Bounded, Begun
    <3>4. FreshNode(r, ch, gv, d.n)
      BY <1>2, <1>5, <1>6, <1>9, <2>1 DEF Inv, Core, Freshness
    <3>5. QED  BY <2>4, <3>1, <3>2, <3>3, <3>4 DEF FreshNode
  <2>6. CASE r.sess[d.n] # None /\ gv[r.sess[d.n]] = Replies(r, d.n)
    BY <1>5, <1>6, <1>9, <1>12, <2>6 DEF Asked
  <2>7. CASE \E e \in r.disp : /\ e.n = d.n
                               /\ e.pc \in {"prompt", "spawn"} \/ e.child = r.sess[d.n]
    <3>1. PICK e \in r.disp : /\ e.n = d.n
                              /\ e.pc \in {"prompt", "spawn"} \/ e.child = r.sess[d.n]
      BY <2>7
    <3>2. CASE e = d
      <4>1. r.sess[d.n] = d.child /\ r.sess[d.n] # None
        BY <1>4, <1>7, <3>1, <3>2, Limits
      <4>2. QED  BY <1>5, <1>6, <1>9, <1>12, <2>5, <4>1 DEF Asked
    <3>3. CASE e # d
      <4>1. e \in w.disp /\ w.sess = r.sess  BY <1>5, <1>9, <3>1, <3>3
      <4>2. QED  BY <3>1, <4>1 DEF Asked
    <3>4. QED  BY <3>2, <3>3
  <2>8. QED  BY <2>3, <2>6, <2>7 DEF Asked
<1>16. CASE d.snap = "replied" /\ OnSessionComplete(w, d.child, "complete")
  <2>1. ch[d.child] \in Started  BY <1>4, <1>6, <1>16 DEF DispatchOk
  <2>2. ~Mine(w, d.child) => Leases(w, ch, checking)
    <3>1. SUFFICES ASSUME ~Mine(w, d.child) PROVE Leases(w, ch, checking)  OBVIOUS
    <3>2. ~(Live(r) /\ r.st[d.n] = "running" /\ r.sess[d.n] = d.child)
      BY <1>5, <1>7, <1>9, <3>1 DEF Mine, Live
    <3>3. Leases(r, ch, checking)  BY <1>2 DEF Inv
    <3>4. w.disp = r.disp \ {d} /\ w.held = r.held /\ w.status = r.status
          /\ w.st = r.st /\ w.sess = r.sess
      BY <1>5, <1>9
    <3>5. QED  BY <1>2, <1>4, <3>2, <3>3, <3>4, LeasesWithout
  <2>3. Answers(w, gv)  BY <1>15, <1>16
  <2>4. LeasesBut(w, ch, checking, d.child[1])  BY <1>7, <1>11
  <2>5. Inv(run', ch, checking', gv, ev)
    BY <1>7, <1>10, <1>16, <2>1, <2>2, <2>3, <2>4, CompletionKeeps
  <2>6. QED  BY <1>3, <2>5 DEF IInv
<1>17. CASE d.snap = "busy" /\ run' = w /\ checking' = checking
  <2>1. Leases(r, ch, checking)  BY <1>2 DEF Inv
  <2>2. w.disp = r.disp \ {d} /\ w.held = r.held /\ w.status = r.status
        /\ w.st = r.st /\ w.sess = r.sess
    BY <1>5, <1>9
  <2>3. Leases(w, ch, checking)  BY <1>2, <1>4, <1>17, <2>1, <2>2, LeasesWithout
  <2>4. Answers(w, gv)  BY <1>15, <1>17
  <2>5. QED  BY <1>3, <1>10, <1>17, <2>3, <2>4 DEF IInv, Inv
<1>18. CASE /\ d.snap \notin {"replied", "busy"} /\ checking' = checking
            /\ run' = [w EXCEPT !.disp = @ \cup {[d EXCEPT !.pc = "send"]}]
  <2>1. PICK e : e = [d EXCEPT !.pc = "send"]  OBVIOUS
  <2>2. /\ e \in DispatchRec /\ e.n = d.n /\ e.att = d.att /\ e.pc = "send"
        /\ e.got = d.got /\ e.child = d.child
    BY <1>4, <2>1 DEF DispatchRec
  <2>3. PICK u : u = [w EXCEPT !.disp = @ \cup {e}]  OBVIOUS
  <2>4. run' = u  BY <1>18, <2>1, <2>3
  <2>5. w \in RunRec /\ w.adopted = r.adopted  BY <1>8, <1>9, <1>18
  <2>6. u \in RunRec /\ u.disp = w.disp \cup {e}  BY <2>2, <2>3, <2>5 DEF RunRec
  <2>7. /\ u.held = w.held
        /\ u.status = w.status /\ u.judge = w.judge /\ u.sending = w.sending
        /\ u.st = w.st /\ u.att = w.att /\ u.sess = w.sess /\ u.recov = w.recov
        /\ u.inFlight = w.inFlight /\ u.repairs = w.repairs /\ u.out = w.out
        /\ u.overtaken = w.overtaken /\ u.adopted = w.adopted /\ u.log = w.log
    BY <2>3, <2>5 DEF RunRec
  <2>8. DispatchOk(u, ch, e)
    BY <1>4, <1>5, <1>6, <1>9, <2>2, <2>7 DEF DispatchOk, SessionOf
  <2>9. Core(u, ch, checking, gv, ev)
    <3>1. \A x \in u.disp : x \in w.disp \/
            /\ DispatchOk(u, ch, x)
            /\ x.n \notin w.overtaken => /\ w.log.st[x.n] # "done" /\ DepsDone(w, x.n)
                                         /\ x.pc # "prompt" => x.got = Replies(w, x.n)
      BY <1>5, <1>9, <1>14, <2>2, <2>6, <2>8 DEF DepsDone, Replies
    <3>2. w.status = "gone" => u.disp = {} /\ u.held \cap Node = {}  BY <1>4, <1>5, <1>9
    <3>3. QED  BY <1>10, <2>5, <2>6, <2>7, <3>1, <3>2, MovesCore
  <2>10. Leases(u, ch, checking)
    <3>1. SUFFICES ASSUME NEW n \in u.held \cap Node PROVE Served(u, ch, checking, n)
      BY DEF Leases
    <3>2. OnItsWay(r, n) \/ AtWork(r, ch, checking, n) \/ Lost(r, n)
      BY <1>2, <1>5, <1>9, <2>7 DEF Inv, Leases, Served
    <3>3. OnItsWay(r, n) => OnItsWay(u, n)  BY <1>4, <1>5, <1>9, <2>6 DEF OnItsWay
    <3>4. AtWork(r, ch, checking, n) => AtWork(u, ch, checking, n)
      BY <1>5, <1>9, <2>2, <2>6, <2>7 DEF AtWork, Live
    <3>5. Lost(r, n) => Lost(u, n)  BY <1>5, <1>9, <2>7 DEF Lost
    <3>6. QED  BY <3>2, <3>3, <3>4, <3>5 DEF Served
  <2>11. Answers(u, gv)
    <3>1. SUFFICES ASSUME NEW m \in Node \ (u.overtaken \cup u.adopted) PROVE Answered(u, gv, m)
      BY DEF Answers
    <3>2. Answered(r, gv, m)  BY <1>2, <1>5, <1>9, <2>5, <2>7, <3>1 DEF Inv, Answers
    <3>3. Replies(u, m) = Replies(r, m)  BY <1>5, <1>9, <2>7 DEF Replies
    <3>4. u.st = r.st /\ u.sess = r.sess /\ u.held = r.held /\ u.log = r.log /\ u.out = r.out
      BY <1>5, <1>9, <2>7
    <3>5. Asked(r, gv, m) => Asked(u, gv, m)
      <4>1. \A x \in r.disp : x \in u.disp \/ x = d  BY <1>5, <1>9, <2>6
      <4>2. QED  BY <1>4, <2>2, <2>6, <3>3, <3>4, <4>1 DEF Asked
    <3>6. QED  BY <3>2, <3>3, <3>4, <3>5 DEF Answered
  <2>12. QED  BY <1>3, <1>18, <2>4, <2>9, <2>10, <2>11 DEF IInv, Inv
<1>19. QED  BY <1>1, <1>8, <1>9, <1>16, <1>17, <1>18 DEF Board

\* The child takes the prompt: its turn is the worker now, and what it was
\* given are the replies its upstream nodes still stand for.
LEMMA SendKeeps ==
  ASSUME IInv, NEW d \in run.disp, Send(d)
  PROVE  IInv'
<1>1. PICK r, ch, ck, gv, ev : r = run /\ ch = child /\ ck = checking /\ gv = given /\ ev = events
  OBVIOUS
<1>2. Inv(r, ch, ck, gv, ev) /\ d \in r.disp  BY <1>1 DEF IInv
<1>3. checking' = ck /\ events' = ev  BY <1>1 DEF Send
<1>4. r \in RunRec /\ d \in DispatchRec /\ d.pc = "send" /\ ck \in SUBSET Child
      /\ ch \in [Child -> ChildState] /\ gv \in [Child -> Attempts] /\ ev \in 0 .. MaxEvents
  BY <1>1, <1>2 DEF Inv, Core, Types, RunRec, Send
<1>5. PICK s \in RunRec :
        /\ s = [r EXCEPT !.disp = @ \ {d}]
        /\ s.disp = r.disp \ {d} /\ s.held = r.held
        /\ s.status = r.status /\ s.judge = r.judge /\ s.sending = r.sending
        /\ s.st = r.st /\ s.att = r.att /\ s.sess = r.sess /\ s.recov = r.recov
        /\ s.inFlight = r.inFlight /\ s.repairs = r.repairs /\ s.out = r.out
        /\ s.overtaken = r.overtaken /\ s.adopted = r.adopted /\ s.log = r.log
        /\ Core(s, ch, ck, gv, ev) /\ LeasesBut(s, ch, ck, d.n) /\ AnswersBut(s, gv, d.n)
  BY <1>2, DroppedDispatch
<1>6. run' = s  BY <1>1, <1>5 DEF Send
<1>7. PICK n \in Node : n = d.n  BY <1>4 DEF DispatchRec
<1>8. DispatchOk(r, ch, d)  BY <1>2 DEF Inv, Core, Dispatches
<1>9. PICK a \in Attempt : a <= r.log.att[n] /\ d.child = <<n, a>>
  BY <1>4, <1>7, <1>8 DEF DispatchOk, SessionOf
<1>10. PICK c \in Child : c = <<n, a>> /\ c = d.child  BY <1>7, <1>9 DEF Child
<1>11. d.got \in Attempts  BY <1>4, <1>8 DEF DispatchOk
<1>12. PICK ch2, gv2 : ch2 = [ch EXCEPT ![c] = "busy"] /\ gv2 = [gv EXCEPT ![c] = d.got]
  OBVIOUS
<1>13. child' = ch2 /\ given' = gv2  BY <1>1, <1>10, <1>12 DEF Send
<1>14. /\ ch2 \in [Child -> ChildState] /\ gv2 \in [Child -> Attempts]
       /\ ch2[c] = "busy" /\ gv2[c] = d.got
       /\ \A x \in Child \ {c} : ch2[x] = ch[x] /\ gv2[x] = gv[x]
  BY <1>4, <1>10, <1>11, <1>12 DEF ChildState
<1>15. \A x \in Child : ch[x] \in Started => ch2[x] \in Started
  BY <1>14 DEF Started
<1>16. Children(s, ch2, ck)
  <2>1. \A m \in Node : /\ s.sess[m] = None \/ SessionOf(s, m, s.sess[m])
                        /\ s.log.sess[m] = None \/ SessionOf(s, m, s.log.sess[m])
    BY <1>5 DEF Core, Children
  <2>2. ASSUME NEW m \in Node, NEW b \in Attempt, b > s.log.att[m]
        PROVE  ch2[<<m, b>>] = "none"
    <3>1. ch[<<m, b>>] = "none" /\ <<m, b>> \in Child  BY <1>5, <2>2 DEF Core, Children, Child
    <3>2. r.log.att[n] \in Nat /\ a \in Nat /\ b \in Nat
      BY <1>4, <1>7, <1>9, Limits DEF RunRec, LogRec, Attempts, Attempt
    <3>3. <<m, b>> # c  BY <1>5, <1>9, <1>10, <2>2, <3>2
    <3>4. QED  BY <1>14, <3>1, <3>3
  <2>3. ASSUME NEW m \in Node
        PROVE  /\ s.log.st[m] = "done" => s.out[m] > 0
               /\ s.out[m] > 0 => ch2[<<m, s.out[m]>>] \in Started
    <3>1. s.out[m] \in 0 .. MaxAttempt  BY <1>4, <1>5 DEF RunRec, Attempts
    <3>2. s.out[m] > 0 => <<m, s.out[m]>> \in Child  BY <3>1, Limits DEF Child, Attempt
    <3>3. QED  BY <1>5, <1>15, <3>2 DEF Core, Children
  <2>4. \A x \in ck : ch2[x] \in Started  BY <1>4, <1>5, <1>15 DEF Core, Children
  <2>5. QED  BY <2>1, <2>2, <2>3, <2>4 DEF Children
<1>17. Dispatches(s, ch2)
  <2>1. ASSUME NEW e \in s.disp PROVE DispatchOk(s, ch2, e)
    <3>1. DispatchOk(s, ch, e) /\ e.child \in Child \cup {None}
      BY <1>5, <2>1 DEF Core, Dispatches, RunRec, DispatchRec
    <3>2. QED  BY <1>15, <3>1 DEF DispatchOk
  <2>2. QED  BY <2>1 DEF Dispatches
<1>18. Freshness(s, ch2, gv2)
  <2>1. SUFFICES ASSUME NEW m \in Node \ s.overtaken PROVE FreshNode(s, ch2, gv2, m)
    BY DEF Freshness
  <2>2. FreshNode(s, ch, gv, m)  BY <1>5 DEF Core, Freshness
  <2>3. s.log.att[m] > 0 => <<m, s.log.att[m]>> \in Child
    BY <1>4, <1>5, Limits DEF RunRec, LogRec, Attempts, Child, Attempt
  <2>4. CASE <<m, s.log.att[m]>> = c
    <3>1. m = n  BY <1>10, <2>4
    <3>2. d.got = Replies(r, n)
      BY <1>2, <1>4, <1>5, <1>7, <2>1, <3>1 DEF Inv, Core, Freshness, FreshNode
    <3>3. Replies(s, m) = Replies(r, n)  BY <1>5, <3>1 DEF Replies
    <3>4. gv2[<<m, s.log.att[m]>>] = Replies(s, m)  BY <1>14, <2>4, <3>2, <3>3
    <3>5. QED  BY <2>2, <3>4 DEF FreshNode
  <2>5. CASE <<m, s.log.att[m]>> # c
    <3>1. s.log.att[m] > 0 => /\ ch2[<<m, s.log.att[m]>>] = ch[<<m, s.log.att[m]>>]
                              /\ gv2[<<m, s.log.att[m]>>] = gv[<<m, s.log.att[m]>>]
      BY <1>14, <2>3, <2>5
    <3>2. QED  BY <2>2, <3>1 DEF FreshNode
  <2>6. QED  BY <2>4, <2>5
<1>19. Leases(s, ch2, ck)
  <2>1. SUFFICES ASSUME NEW m \in s.held \cap Node PROVE Served(s, ch2, ck, m)
    BY DEF Leases
  <2>2. OnItsWay(r, m) \/ AtWork(r, ch, ck, m) \/ Lost(r, m)
    BY <1>2, <1>5 DEF Inv, Leases, Served
  <2>3. OnItsWay(r, m) => OnItsWay(s, m)  BY <1>4, <1>5 DEF OnItsWay
  <2>4. AtWork(r, ch, ck, m) => AtWork(s, ch2, ck, m)
    <3>1. SUFFICES ASSUME AtWork(r, ch, ck, m) PROVE AtWork(s, ch2, ck, m)  OBVIOUS
    <3>2. Live(s) /\ s.st[m] = "running" /\ s.sess[m] # None /\ s.sess[m] = r.sess[m]
      BY <1>5, <3>1 DEF AtWork, Live
    <3>3. s.sess[m] \in Child  BY <1>5, <3>2 DEF RunRec, Sessions
    <3>4. CASE s.sess[m] = c  BY <1>14, <3>2, <3>4 DEF AtWork
    <3>5. CASE s.sess[m] # c
      <4>1. ch2[s.sess[m]] = ch[r.sess[m]]  BY <1>14, <3>2, <3>3, <3>5
      <4>2. \A e \in r.disp : e.child = r.sess[m] => e \in s.disp
        BY <1>5, <1>10, <3>2, <3>5
      <4>3. QED  BY <3>1, <3>2, <4>1, <4>2 DEF AtWork
    <3>6. QED  BY <3>4, <3>5
  <2>5. Lost(r, m) => Lost(s, m)  BY <1>5 DEF Lost
  <2>6. QED  BY <2>2, <2>3, <2>4, <2>5 DEF Served
<1>20. Types(s, ch2, ck, gv2, ev)  BY <1>4, <1>5, <1>14 DEF Types
<1>21. Core(s, ch2, ck, gv2, ev)  BY <1>5, <1>16, <1>17, <1>18, <1>20 DEF Core
<1>22. Answers(s, gv2)
  <2>1. SUFFICES ASSUME NEW m \in Node \ (s.overtaken \cup s.adopted) PROVE Answered(s, gv2, m)
    BY DEF Answers
  <2>2. Answered(r, gv, m)  BY <1>2, <1>5, <2>1 DEF Inv, Answers
  <2>3. Replies(s, m) = Replies(r, m)  BY <1>5 DEF Replies
  <2>4. m = n => r.log.st[m] # "done" /\ d.got = Replies(r, m)
    <3>1. FreshNode(r, ch, gv, m)  BY <1>2, <1>5, <2>1 DEF Inv, Core, Freshness
    <3>2. QED  BY <1>2, <1>4, <1>7, <3>1 DEF FreshNode
  <2>5. ASSUME s.log.st[m] = "done" PROVE gv2[<<m, s.out[m]>>] = Replies(s, m)
    <3>1. m # n /\ s.out[m] = r.out[m]  BY <1>5, <2>4, <2>5
    <3>2. gv[<<m, r.out[m]>>] = Replies(r, m)  BY <1>5, <2>2, <2>5 DEF Answered
    <3>3. r.out[m] > 0 /\ r.out[m] \in 0 .. MaxAttempt
      BY <1>2, <1>4, <1>5, <2>5 DEF Inv, Core, Children, RunRec, Attempts
    <3>4. <<m, r.out[m]>> \in Child /\ <<m, r.out[m]>> # c
      BY <1>10, <3>1, <3>3, Limits DEF Child, Attempt
    <3>5. QED  BY <1>14, <2>3, <3>1, <3>2, <3>4
  <2>6. ASSUME s.st[m] = "running", m \in s.held PROVE Asked(s, gv2, m)
    <3>1. Asked(r, gv, m)  BY <1>5, <2>2, <2>6 DEF Answered
    <3>2. s.sess[m] = r.sess[m]  BY <1>5
    <3>3. CASE r.sess[m] = c
      <4>1. r.sess[m] # None  BY <3>3, Limits
      <4>2. SessionOf(r, m, c)  BY <1>2, <3>3, <4>1 DEF Inv, Core, Children
      <4>3. m = n  BY <1>10, <4>2 DEF SessionOf
      <4>4. gv2[s.sess[m]] = Replies(s, m)  BY <1>14, <2>3, <2>4, <3>2, <3>3, <4>3
      <4>5. QED  BY <3>2, <4>1, <4>4 DEF Asked
    <3>4. CASE r.sess[m] # c
      <4>1. r.sess[m] # None => gv2[r.sess[m]] = gv[r.sess[m]]
        BY <1>4, <1>14, <3>4 DEF RunRec, Sessions
      <4>2. \A x \in r.disp : x \in s.disp \/ x = d  BY <1>5
      <4>3. d.pc = "send" /\ d.child # r.sess[m]  BY <1>4, <1>10, <3>4
      <4>4. QED  BY <2>3, <3>1, <3>2, <4>1, <4>2, <4>3 DEF Asked
    <3>5. QED  BY <3>3, <3>4
  <2>7. QED  BY <2>5, <2>6 DEF Answered
<1>23. QED  BY <1>3, <1>6, <1>13, <1>19, <1>21, <1>22 DEF IInv, Inv

\* A dispatch that fails fails a node it still owns.
LEMMA DispatchFailsKeeps ==
  ASSUME ~LateFailures, IInv, NEW d \in run.disp, DispatchFails(d)
  PROVE  IInv'
<1>1. PICK r, ch, ck, gv, ev : r = run /\ ch = child /\ ck = checking /\ gv = given /\ ev = events
  OBVIOUS
<1>2. Inv(r, ch, ck, gv, ev) /\ d \in r.disp  BY <1>1 DEF IInv
<1>3. child' = ch /\ checking' = ck /\ given' = gv /\ events' = ev
  BY <1>1 DEF DispatchFails
<1>4. PICK s \in RunRec :
        /\ s = [r EXCEPT !.disp = @ \ {d}]
        /\ s.disp = r.disp \ {d} /\ s.held = r.held
        /\ s.status = r.status /\ s.judge = r.judge /\ s.sending = r.sending
        /\ s.st = r.st /\ s.att = r.att /\ s.sess = r.sess /\ s.recov = r.recov
        /\ s.inFlight = r.inFlight /\ s.repairs = r.repairs /\ s.out = r.out
        /\ s.overtaken = r.overtaken /\ s.adopted = r.adopted /\ s.log = r.log
        /\ Core(s, ch, ck, gv, ev) /\ LeasesBut(s, ch, ck, d.n) /\ AnswersBut(s, gv, d.n)
  BY <1>2, DroppedDispatch
<1>5. d.n \in Node  BY <1>2 DEF Inv, Core, Types, RunRec, DispatchRec
<1>6. s.st[d.n] = "running"  BY <1>1, <1>4 DEF DispatchFails, Owns
<1>7. PICK retry : run' = FailNode(s, d.n, retry)  BY <1>1, <1>4 DEF DispatchFails
<1>8. Inv(FailNode(s, d.n, retry), ch, ck, gv, ev)  BY <1>4, <1>5, <1>6, FailNodeKeeps
<1>9. QED  BY <1>3, <1>7, <1>8 DEF IInv

-----------------------------------------------------------------------------
(* Children.                                                               *)

\* An event more allows more attempts, and changes nothing else.
LEMMA EventsGrow ==
  ASSUME NEW r, NEW ch, NEW ck, NEW gv, NEW ev, NEW ev2 \in 0 .. MaxEvents,
         Core(r, ch, ck, gv, ev), ev <= ev2
  PROVE  Core(r, ch, ck, gv, ev2)
<1>1. Types(r, ch, ck, gv, ev2) /\ r \in RunRec /\ ev \in 0 .. MaxEvents
  BY DEF Core, Types
<1>2. Bounded(r, ev2)
  <2>1. SUFFICES ASSUME NEW n \in Node
                 PROVE  /\ r.log.att[n] <= RetryLimit[n] + Rounds(r) + ev2 + 1
                        /\ MayRestart(r, n) => r.log.att[n] <= RetryLimit[n] + Rounds(r) + ev2
                        /\ Begun(r, n) => r.log.att[n] > 0
    BY DEF Bounded
  <2>2. RetryLimit[n] \in Nat /\ Rounds(r) \in Nat /\ r.log.att[n] \in Nat
        /\ ev \in Nat /\ ev2 \in Nat
    BY <1>1, RoomForAttempts, Limits DEF RunRec, LogRec, Attempts
  <2>3. PICK R \in Nat, L \in Nat, A \in Nat :
          R = Rounds(r) /\ L = RetryLimit[n] /\ A = r.log.att[n]
    BY <2>2
  <2>4. /\ A <= L + R + ev + 1
        /\ MayRestart(r, n) => A <= L + R + ev
        /\ Begun(r, n) => A > 0
    BY <2>3 DEF Core, Bounded
  <2>5. A <= L + R + ev2 + 1 /\ (A <= L + R + ev => A <= L + R + ev2)
    BY <2>2, <2>4
  <2>6. QED  BY <2>3, <2>4, <2>5
<1>3. QED  BY <1>1, <1>2 DEF Core

\* A child that changes between states it can be in once it has begun.
LEMMA TurnedChild ==
  ASSUME NEW r, NEW ch, NEW ck, NEW gv, NEW ev, Core(r, ch, ck, gv, ev),
         NEW c \in Child, ch[c] \in Started, NEW state \in Started, NEW ch2,
         ch2 = [ch EXCEPT ![c] = state]
  PROVE  Core(r, ch2, ck, gv, ev)
<1>1. r \in RunRec /\ ch \in [Child -> ChildState]  BY DEF Core, Types
<1>2. ch2 \in [Child -> ChildState] /\ ch2[c] = state /\ \A x \in Child \ {c} : ch2[x] = ch[x]
  BY <1>1 DEF ChildState, Started
<1>3. \A x \in Child : ch2[x] \in Started <=> ch[x] \in Started  BY <1>2
<1>4. \A n \in Node : \A a \in Attempt : a > r.log.att[n] => ch2[<<n, a>>] = "none"
  <2>1. SUFFICES ASSUME NEW n \in Node, NEW a \in Attempt, a > r.log.att[n]
                 PROVE  ch2[<<n, a>>] = "none"
    OBVIOUS
  <2>2. ch[<<n, a>>] = "none" /\ <<n, a>> \in Child  BY <2>1 DEF Core, Children, Child
  <2>3. <<n, a>> # c  BY <2>2 DEF Started
  <2>4. QED  BY <1>2, <2>2, <2>3
<1>5. Types(r, ch2, ck, gv, ev)  BY <1>2 DEF Core, Types
<1>6. Children(r, ch2, ck)
  <2>1. ASSUME NEW n \in Node, r.out[n] > 0 PROVE ch2[<<n, r.out[n]>>] \in Started
    <3>1. ch[<<n, r.out[n]>>] \in Started  BY <2>1 DEF Core, Children
    <3>2. r.out[n] \in 0 .. MaxAttempt  BY <1>1 DEF RunRec, Attempts
    <3>3. <<n, r.out[n]>> \in Child  BY <2>1, <3>2, Limits DEF Child, Attempt
    <3>4. QED  BY <1>3, <3>1, <3>3
  <2>2. \A x \in ck : ch2[x] \in Started  BY <1>3 DEF Core, Types, Children
  <2>3. QED  BY <1>4, <2>1, <2>2 DEF Core, Children
<1>7. Dispatches(r, ch2)
  <2>1. ASSUME NEW d \in r.disp PROVE DispatchOk(r, ch2, d)
    <3>1. DispatchOk(r, ch, d) /\ d.child \in Child \cup {None}
      BY <1>1, <2>1 DEF Core, Dispatches, RunRec, DispatchRec
    <3>2. QED  BY <1>3, <3>1 DEF DispatchOk
  <2>2. QED  BY <2>1 DEF Dispatches
<1>8. Freshness(r, ch2, gv)
  <2>1. SUFFICES ASSUME NEW n \in Node \ r.overtaken PROVE FreshNode(r, ch2, gv, n)
    BY DEF Freshness
  <2>2. FreshNode(r, ch, gv, n)  BY DEF Core, Freshness
  <2>3. r.log.att[n] > 0 => <<n, r.log.att[n]>> \in Child
    BY <1>1, Limits DEF RunRec, LogRec, Attempts, Child, Attempt
  <2>4. QED  BY <1>3, <2>2, <2>3 DEF FreshNode
<1>9. QED  BY <1>5, <1>6, <1>7, <1>8 DEF Core

\* A turn ends: its node had it as the worker, and no other had.
LEMMA ChildEndsKeeps ==
  ASSUME IInv, NEW c \in Child, NEW reason, ChildEnds(c, reason)
  PROVE  IInv'
<1>1. PICK r, ch, gv, ev : r = run /\ ch = child /\ gv = given /\ ev = events
  OBVIOUS
<1>2. Inv(r, ch, checking, gv, ev)  BY <1>1 DEF IInv
<1>3. given' = gv /\ events' = ev /\ ch[c] = "busy" /\ OnSessionComplete(r, c, reason)
  BY <1>1 DEF ChildEnds
<1>4. PICK state : state = IF reason = "complete" THEN "replied" ELSE "quiet"  OBVIOUS
<1>5. PICK ch2 : ch2 = [ch EXCEPT ![c] = state]  OBVIOUS
<1>6. child' = ch2  BY <1>1, <1>4, <1>5 DEF ChildEnds
<1>7. ch[c] \in Started /\ state \in Started  BY <1>3, <1>4 DEF Started
<1>8. Core(r, ch2, checking, gv, ev)  BY <1>2, <1>5, <1>7, TurnedChild DEF Inv
<1>9. r \in RunRec /\ ch \in [Child -> ChildState]  BY <1>2 DEF Inv, Core, Types
<1>10. PICK n \in Node : n = c[1]  BY DEF Child
<1>11. ASSUME NEW m \in r.held \cap Node, ~Mine(r, c) \/ m # n
       PROVE  Served(r, ch2, checking, m)
  <2>1. Served(r, ch, checking, m)  BY <1>2, <1>11 DEF Inv, Leases
  <2>2. AtWork(r, ch, checking, m) => AtWork(r, ch2, checking, m)
    <3>1. SUFFICES ASSUME AtWork(r, ch, checking, m) PROVE AtWork(r, ch2, checking, m)
      OBVIOUS
    <3>2. r.sess[m] \in Child  BY <1>9, <3>1 DEF AtWork, RunRec, Sessions
    <3>3. SessionOf(r, m, r.sess[m])  BY <1>2, <1>11, <3>1 DEF Inv, Core, Children, AtWork
    <3>4. r.sess[m][1] = m  BY <3>3 DEF SessionOf
    <3>5. r.sess[m] # c
      BY <1>10, <1>11, <3>1, <3>4 DEF Mine, AtWork
    <3>6. QED  BY <1>5, <1>9, <3>1, <3>2, <3>5 DEF AtWork
  <2>3. QED  BY <2>1, <2>2 DEF Served
<1>12. LeasesBut(r, ch2, checking, c[1])  BY <1>10, <1>11 DEF LeasesBut
<1>13. ~Mine(r, c) => Leases(r, ch2, checking)  BY <1>11 DEF Leases
<1>14. ch2[c] \in Started  BY <1>5, <1>7, <1>9
<1>15. Answers(r, gv)  BY <1>2 DEF Inv
<1>16. Inv(run', ch2, checking', gv, ev)
  BY <1>3, <1>8, <1>12, <1>13, <1>14, <1>15, CompletionKeeps
<1>17. QED  BY <1>3, <1>6, <1>16 DEF IInv

\* The outcome of a clean end settles the node the child still works for.
LEMMA OutcomeCheckedKeeps ==
  ASSUME IInv, NEW c \in Child, OutcomeChecked(c)
  PROVE  IInv'
<1>1. PICK r, ch, ck, gv, ev : r = run /\ ch = child /\ ck = checking /\ gv = given /\ ev = events
  OBVIOUS
<1>2. Inv(r, ch, ck, gv, ev)  BY <1>1 DEF IInv
<1>3. PICK ck2 : ck2 = ck \ {c}  OBVIOUS
<1>4. child' = ch /\ given' = gv /\ events' = ev /\ c \in ck /\ checking' = ck2
  BY <1>1, <1>3 DEF OutcomeChecked
<1>5. r \in RunRec /\ ch \in [Child -> ChildState]  BY <1>2 DEF Inv, Core, Types
<1>6. PICK n \in Node, a \in Attempt : c = <<n, a>> /\ n = c[1]  BY DEF Child
<1>7. ch[c] \in Started  BY <1>2, <1>4 DEF Inv, Core, Children
<1>8. Core(r, ch, ck2, gv, ev)
  BY <1>2, <1>3 DEF Inv, Core, Types, Children
<1>9. ASSUME NEW m \in r.held \cap Node, ~Mine(r, c) \/ m # n
      PROVE  Served(r, ch, ck2, m)
  <2>1. Served(r, ch, ck, m)  BY <1>2, <1>9 DEF Inv, Leases
  <2>2. AtWork(r, ch, ck, m) => AtWork(r, ch, ck2, m)
    <3>1. SUFFICES ASSUME AtWork(r, ch, ck, m) PROVE AtWork(r, ch, ck2, m)
      OBVIOUS
    <3>2. SessionOf(r, m, r.sess[m])  BY <1>2, <1>9, <3>1 DEF Inv, Core, Children, AtWork
    <3>3. r.sess[m][1] = m  BY <3>2 DEF SessionOf
    <3>4. r.sess[m] # c  BY <1>6, <1>9, <3>1, <3>3 DEF Mine, AtWork
    <3>5. QED  BY <1>3, <3>1, <3>4 DEF AtWork
  <2>3. QED  BY <2>1, <2>2 DEF Served
<1>10. CASE ~Mine(r, c)
  <2>1. run' = r  BY <1>1, <1>10 DEF OutcomeChecked, Mine
  <2>2. Leases(r, ch, ck2)  BY <1>9, <1>10 DEF Leases
  <2>3. QED  BY <1>2, <1>4, <1>8, <2>1, <2>2 DEF IInv, Inv
<1>11. CASE Mine(r, c)
  <2>1. LeasesBut(r, ch, ck2, n)  BY <1>9 DEF LeasesBut
  <2>2. r.st[n] = "running" /\ r.sess[n] = <<n, a>>  BY <1>6, <1>11 DEF Mine
  <2>a. AnswersBut(r, gv, n)  BY <1>2 DEF Inv, Answers, AnswersBut
  <2>b. n \notin r.overtaken \cup r.adopted /\ ~Unfinished(r, n) => gv[<<n, a>>] = Replies(r, n)
    BY <1>2, <2>2, ReplyIsTheAnswer DEF Inv
  <2>3. run' = MarkNodeDone(r, n, c) \/ run' = FailNode(r, n, TRUE)
    BY <1>1, <1>6, <1>11, Zenon DEF OutcomeChecked, Mine
  <2>4. Inv(MarkNodeDone(r, n, <<n, a>>), ch, ck2, gv, ev)
    BY <1>6, <1>7, <1>8, <2>1, <2>2, <2>a, <2>b, DoneKeeps
  <2>5. Inv(FailNode(r, n, TRUE), ch, ck2, gv, ev)
    BY <1>8, <2>1, <2>2, <2>a, FailNodeKeeps
  <2>6. QED  BY <1>4, <1>6, <2>3, <2>4, <2>5 DEF IInv
<1>12. QED  BY <1>10, <1>11

\* The user types into a child.
LEMMA UserTurnKeeps ==
  ASSUME IInv, NEW c \in Child, UserTurn(c)
  PROVE  IInv'
<1>1. PICK r, ch, ck, gv, ev : r = run /\ ch = child /\ ck = checking /\ gv = given /\ ev = events
  OBVIOUS
<1>2. Inv(r, ch, ck, gv, ev)  BY <1>1 DEF IInv
<1>3. PICK state \in Started : state = "busy"  BY DEF Started
<1>4. PICK ch2 : ch2 = [ch EXCEPT ![c] = state]  OBVIOUS
<1>5. /\ run' = r /\ checking' = ck /\ given' = gv /\ events' = ev + 1
      /\ child' = ch2 /\ ev < MaxEvents /\ ch[c] \in Started
  BY <1>1, <1>3, <1>4 DEF UserTurn, Started
<1>6. ev \in 0 .. MaxEvents /\ ch \in [Child -> ChildState]  BY <1>2 DEF Inv, Core, Types
<1>7. ev + 1 \in 0 .. MaxEvents /\ ev <= ev + 1  BY <1>5, <1>6, Limits
<1>8. Core(r, ch2, ck, gv, ev)  BY <1>2, <1>4, <1>5, TurnedChild DEF Inv
<1>9. Core(r, ch2, ck, gv, ev + 1)  BY <1>7, <1>8, EventsGrow
<1>10. \A x \in Child : ch[x] = "busy" => ch2[x] = "busy"  BY <1>3, <1>4, <1>6
<1>11. Leases(r, ch2, ck)
  <2>1. SUFFICES ASSUME NEW m \in r.held \cap Node PROVE Served(r, ch2, ck, m)
    BY DEF Leases
  <2>2. Served(r, ch, ck, m)  BY <1>2 DEF Inv, Leases
  <2>3. r.sess[m] # None => r.sess[m] \in Child
    BY <1>2 DEF Inv, Core, Types, RunRec, Sessions
  <2>4. AtWork(r, ch, ck, m) => AtWork(r, ch2, ck, m)  BY <1>10, <2>3 DEF AtWork
  <2>5. QED  BY <2>2, <2>4 DEF Served
<1>12. QED  BY <1>2, <1>5, <1>9, <1>11 DEF IInv, Inv

-----------------------------------------------------------------------------
(* The verdict.                                                            *)

\* What a verdict leaves alone: the nodes, their work and what the log knows.
SameWork(s, r) ==
  /\ s.st = r.st /\ s.att = r.att /\ s.sess = r.sess /\ s.recov = r.recov
  /\ s.inFlight = r.inFlight /\ s.held = r.held /\ s.disp = r.disp /\ s.out = r.out
  /\ s.overtaken = r.overtaken /\ s.adopted = r.adopted
  /\ s.log.st = r.log.st /\ s.log.att = r.log.att
  /\ s.log.sess = r.log.sess

LEMMA SentRun ==
  ASSUME NEW r \in RunRec
  PROVE  \E s \in RunRec :
           /\ [r EXCEPT !.sending = FALSE] = s /\ ~s.sending /\ SameWork(s, r)
           /\ s.status = r.status /\ s.judge = r.judge /\ s.repairs = r.repairs
           /\ s.log = r.log
<1> DEFINE no == FALSE
<1>1. no \in BOOLEAN /\ ~no  OBVIOUS
<1>2. [r EXCEPT !.sending = FALSE] = [r EXCEPT !.sending = no]  OBVIOUS
<1> HIDE DEF no
<1>3. PICK s : s = [r EXCEPT !.sending = no]  OBVIOUS
<1>4. s \in RunRec /\ s.sending = no  BY <1>1, <1>3 DEF RunRec
<1>5. s.status = r.status /\ s.judge = r.judge /\ s.repairs = r.repairs /\ s.log = r.log
  BY <1>3 DEF RunRec
<1>6. SameWork(s, r)  BY <1>3 DEF RunRec, SameWork
<1>7. QED  BY <1>1, <1>2, <1>3, <1>4, <1>5, <1>6

\* The judge is told to wait for something else.
LEMMA JudgedRun ==
  ASSUME NEW r \in RunRec, NEW judge \in Judge
  PROVE  \E s \in RunRec :
           /\ [r EXCEPT !.judge = judge] = s /\ s.judge = judge /\ SameWork(s, r)
           /\ s.status = r.status /\ s.sending = r.sending /\ s.repairs = r.repairs
           /\ s.reasks = r.reasks /\ s.log = r.log
<1>1. PICK s : s = [r EXCEPT !.judge = judge]  OBVIOUS
<1>2. s \in RunRec /\ s.judge = judge  BY <1>1 DEF RunRec
<1>3. /\ s.status = r.status /\ s.sending = r.sending /\ s.repairs = r.repairs
      /\ s.reasks = r.reasks /\ s.log = r.log
  BY <1>1 DEF RunRec
<1>4. SameWork(s, r)  BY <1>1 DEF RunRec, SameWork
<1>5. QED  BY <1>1, <1>2, <1>3, <1>4

\* The counters of the log change.
LEMMA CountedRun ==
  ASSUME NEW r \in RunRec, NEW l \in LogRec,
         l.st = r.log.st, l.att = r.log.att, l.sess = r.log.sess
  PROVE  \E s \in RunRec :
           /\ [r EXCEPT !.log = l] = s /\ SameWork(s, r)
           /\ s.status = r.status /\ s.judge = r.judge /\ s.sending = r.sending
           /\ s.repairs = r.repairs /\ s.reasks = r.reasks /\ s.log = l
<1>1. PICK s : s = [r EXCEPT !.log = l]  OBVIOUS
<1>2. s \in RunRec /\ s.log = l  BY <1>1 DEF RunRec
<1>3. /\ s.status = r.status /\ s.judge = r.judge /\ s.sending = r.sending
      /\ s.repairs = r.repairs /\ s.reasks = r.reasks
      /\ s.st = r.st /\ s.att = r.att /\ s.sess = r.sess /\ s.recov = r.recov
      /\ s.inFlight = r.inFlight /\ s.held = r.held /\ s.disp = r.disp /\ s.out = r.out
      /\ s.overtaken = r.overtaken /\ s.adopted = r.adopted
  BY <1>1 DEF RunRec
<1>4. QED  BY <1>1, <1>2, <1>3 DEF SameWork

\* A run being judged that keeps its work and goes on being judged, completes
\* or fails keeps the invariant.
LEMMA JudgedKeeps ==
  ASSUME NEW r, NEW s, NEW ch, NEW ck, NEW gv, NEW ev, Inv(r, ch, ck, gv, ev),
         r.status = "verifying", s \in RunRec, SameWork(s, r), Stages(s),
         s.status \in {"verifying", "completed", "failed"},
         s.status = "verifying" => s.repairs = s.log.repairs,
         r.log.repairs <= s.log.repairs,
         s.judge = "scope" => Rounds(r) < Rounds(s)
  PROVE  Inv(s, ch, ck, gv, ev)
<1>1. ev \in 0 .. MaxEvents /\ ev <= ev /\ r \in RunRec  BY DEF Inv, Core, Types
<1>2. AllDone(r)  BY DEF Inv, Core, Slots
<1>3. AllDone(s) /\ Running(s) = {}  BY <1>2 DEF AllDone, Running, SameWork
<1>4. Logged(s)  BY DEF Inv, Core, Logged, Live, SameWork
<1>5. Rounds(r) <= Rounds(s)
  BY <1>1, Limits DEF Rounds, RunRec, LogRec
<1>6. /\ s.st = r.st /\ s.att = r.att /\ s.sess = r.sess /\ s.recov = r.recov
      /\ s.inFlight = r.inFlight /\ s.held = r.held /\ s.disp = r.disp /\ s.out = r.out
      /\ s.overtaken = r.overtaken /\ s.adopted = r.adopted
      /\ s.log.st = r.log.st /\ s.log.att = r.log.att
      /\ s.log.sess = r.log.sess
  BY DEF SameWork
<1>7. s.status # "paused" /\ s.status # "gone" /\ r.status # "gone"  OBVIOUS
<1>8. QED  BY <1>1, <1>3, <1>4, <1>5, <1>6, <1>7, StatusKeeps

\* A refused message fails the run, whatever became of it meanwhile: nodes that
\* a repair runs again are lost.
LEMMA OrchestratorRefusesKeeps ==
  ASSUME IInv, OrchestratorRefuses
  PROVE  IInv'
<1>1. PICK r, ch, ck, gv, ev : r = run /\ ch = child /\ ck = checking /\ gv = given /\ ev = events
  OBVIOUS
<1>2. Inv(r, ch, ck, gv, ev)  BY <1>1 DEF IInv
<1>3. child' = ch /\ checking' = ck /\ given' = gv /\ events' = ev /\ r.sending
  BY <1>1 DEF OrchestratorRefuses
<1>4. ev \in 0 .. MaxEvents /\ ev <= ev /\ r \in RunRec  BY <1>2 DEF Inv, Core, Types
<1>5. PICK t \in RunRec :
        /\ [r EXCEPT !.sending = FALSE] = t /\ ~t.sending /\ SameWork(t, r)
        /\ t.status = r.status /\ t.judge = r.judge /\ t.repairs = r.repairs
        /\ t.log = r.log
  BY <1>4, SentRun
<1>6. PICK s \in RunRec :
        /\ Finish(t, "failed") = s /\ s.status = "failed" /\ s.judge = "off"
        /\ s.st = t.st /\ s.att = t.att /\ s.sess = t.sess /\ s.recov = t.recov
        /\ s.inFlight = t.inFlight /\ s.repairs = t.repairs /\ s.sending = t.sending
        /\ s.held = t.held /\ s.disp = t.disp /\ s.out = t.out
        /\ s.overtaken = t.overtaken /\ s.adopted = t.adopted /\ s.log = t.log
  BY <1>5, FinishedRun DEF Status
<1>7. run' = s  BY <1>1, <1>5, <1>6 DEF OrchestratorRefuses
<1>8. Stages(r) /\ Logged(r) /\ Slots(r)  BY <1>2 DEF Inv, Core
<1>9. r.status # "gone"  BY <1>3, <1>8 DEF Stages
<1>10. Stages(s)  BY <1>5, <1>6 DEF Stages
<1>11. SameWork(s, r)  BY <1>5, <1>6 DEF SameWork
<1>12. Logged(s)  BY <1>6, <1>8, <1>9, <1>11 DEF Logged, Live, SameWork
<1>13. Rounds(r) <= Rounds(s)  BY <1>4, <1>5, <1>6, Limits DEF Rounds, RunRec, LogRec
<1>14. /\ s.st = r.st /\ s.att = r.att /\ s.sess = r.sess /\ s.recov = r.recov
       /\ s.inFlight = r.inFlight /\ s.held = r.held /\ s.disp = r.disp /\ s.out = r.out
       /\ s.overtaken = r.overtaken /\ s.adopted = r.adopted
       /\ s.log.st = r.log.st /\ s.log.att = r.log.att
       /\ s.log.sess = r.log.sess
  BY <1>11 DEF SameWork
<1>15. s.status \notin {"paused", "gone", "verifying", "completed"}  BY <1>6
<1>16. Inv(s, ch, ck, gv, ev)
  BY <1>2, <1>4, <1>6, <1>9, <1>10, <1>12, <1>13, <1>14, <1>15, StatusKeeps
<1>17. QED  BY <1>3, <1>7, <1>16 DEF IInv

\* A frontier has with a node all that depends on it.
LEMMA FrontierIsDownstream ==
  ASSUME NEW named \in SUBSET Node
  PROVE  Frontier[named] \in SUBSET Node /\ Downstream(Frontier[named])
<1>1. CASE named = {}
  BY <1>1, Limits DEF Frontier, Downstream
<1>2. CASE named # {}
  <2> DEFINE Least(S) == /\ named \subseteq S /\ Downstream(S)
                         /\ \A T \in SUBSET Node : named \subseteq T /\ Downstream(T) => S \subseteq T
             S == {n \in Node : \A T \in SUBSET Node : named \subseteq T /\ Downstream(T) => n \in T}
  <2>1. named \subseteq S  OBVIOUS
  <2>2. Downstream(S)
    <3>1. SUFFICES ASSUME NEW n \in Node, NEW x \in Deps[n] \cap S,
                          NEW T \in SUBSET Node, named \subseteq T, Downstream(T)
                   PROVE  n \in T
      BY DEF Downstream
    <3>2. x \in T  BY <3>1
    <3>3. QED  BY <3>1, <3>2 DEF Downstream
  <2>3. Least(S)  BY <2>1, <2>2
  <2>4. \E X \in SUBSET Node : Least(X)  BY <2>3
  <2>5. Frontier[named] = CHOOSE X \in SUBSET Node : Least(X)  BY <1>2 DEF Frontier
  <2> HIDE DEF Least
  <2>6. Frontier[named] \in SUBSET Node /\ Least(Frontier[named])  BY <2>4, <2>5
  <2>7. QED  BY <2>6 DEF Least
<1>3. QED  BY <1>1, <1>2

\* What a repair resets.
Reset(r, again) ==
  [r EXCEPT !.st = [n \in Node |-> IF n \in again THEN "pending" ELSE r.st[n]],
            !.log.st = [n \in Node |-> IF n \in again THEN "pending" ELSE r.log.st[n]],
            !.status = "running", !.judge = "off"]

LEMMA ResetRun ==
  ASSUME NEW r \in RunRec, NEW again \in SUBSET Node
  PROVE  \E s \in RunRec :
           /\ Reset(r, again) = s
           /\ s.status = "running" /\ s.judge = "off"
           /\ \A n \in Node : /\ s.st[n] = IF n \in again THEN "pending" ELSE r.st[n]
                              /\ s.log.st[n] = IF n \in again THEN "pending" ELSE r.log.st[n]
           /\ s.log.att = r.log.att /\ s.log.sess = r.log.sess
           /\ s.log.repairs = r.log.repairs
           /\ s.att = r.att /\ s.sess = r.sess /\ s.recov = r.recov
           /\ s.inFlight = r.inFlight /\ s.repairs = r.repairs /\ s.sending = r.sending
           /\ s.held = r.held /\ s.disp = r.disp /\ s.out = r.out
           /\ s.overtaken = r.overtaken /\ s.adopted = r.adopted
<1>1. r.log \in LogRec /\ r.st \in [Node -> NodeState]  BY DEF RunRec
<1>2. PICK f, g : /\ f = [n \in Node |-> IF n \in again THEN "pending" ELSE r.st[n]]
                  /\ g = [n \in Node |-> IF n \in again THEN "pending" ELSE r.log.st[n]]
  OBVIOUS
<1>3. f \in [Node -> NodeState] /\ g \in [Node -> NodeState]
  BY <1>1, <1>2 DEF LogRec, NodeState
<1>4. PICK l : l = [r.log EXCEPT !.st = g]  OBVIOUS
<1>5. l \in LogRec /\ l.st = g /\ l.att = r.log.att /\ l.sess = r.log.sess
      /\ l.repairs = r.log.repairs
  BY <1>1, <1>3, <1>4 DEF LogRec
<1>6. PICK s : s = [r EXCEPT !.st = f, !.log = l, !.status = "running", !.judge = "off"]
  OBVIOUS
<1>7. Reset(r, again) = s
  BY <1>1, <1>2, <1>4, <1>6 DEF Reset, RunRec, LogRec
<1>8. s \in RunRec /\ s.status = "running" /\ s.judge = "off" /\ s.st = f /\ s.log = l
  BY <1>3, <1>5, <1>6 DEF RunRec, Status, Judge
<1>9. /\ s.att = r.att /\ s.sess = r.sess /\ s.recov = r.recov
      /\ s.inFlight = r.inFlight /\ s.repairs = r.repairs /\ s.sending = r.sending
      /\ s.held = r.held /\ s.disp = r.disp /\ s.out = r.out
      /\ s.overtaken = r.overtaken /\ s.adopted = r.adopted
  BY <1>6 DEF RunRec
<1>10. QED  BY <1>2, <1>5, <1>7, <1>8, <1>9

\* A repair runs a frontier again, with an attempt left for each of its nodes.
LEMMA RepairKeeps ==
  ASSUME NEW r, NEW ch, NEW ck, NEW gv, NEW ev, Inv(r, ch, ck, gv, ev),
         r.status = "verifying", NEW named \in SUBSET Node,
         \A n \in Node : r.log.att[n] <= RetryLimit[n] + Rounds(r) + ev
  PROVE  Inv(RepairForVerdict(r, named), ch, ck, gv, ev)
<1>1. r \in RunRec /\ Types(r, ch, ck, gv, ev)  BY DEF Inv, Core, Types
<1>2. Slots(r) /\ Stages(r) /\ Logged(r) /\ Bounded(r, ev) /\ Children(r, ch, ck)
      /\ Dispatches(r, ch) /\ Freshness(r, ch, gv) /\ Leases(r, ch, ck) /\ Answers(r, gv)
  BY DEF Inv, Core
<1>3. \A n \in Node : r.st[n] = "done" /\ r.log.st[n] = "done"
  BY <1>2 DEF Slots, AllDone, Logged
<1>4. PICK F \in SUBSET Node : F = Frontier[named] /\ Downstream(F)  BY FrontierIsDownstream
<1>5. PICK again : again = {n \in Frontier[named] : r.st[n] = "done"}  OBVIOUS
<1>6. again = F  BY <1>3, <1>4, <1>5
<1>7. CASE again = {}
  <2>1. PICK s \in RunRec :
          /\ Finish(r, "failed") = s /\ s.status = "failed" /\ s.judge = "off"
          /\ s.st = r.st /\ s.att = r.att /\ s.sess = r.sess /\ s.recov = r.recov
          /\ s.inFlight = r.inFlight /\ s.repairs = r.repairs /\ s.sending = r.sending
          /\ s.held = r.held /\ s.disp = r.disp /\ s.out = r.out
          /\ s.overtaken = r.overtaken /\ s.adopted = r.adopted /\ s.log = r.log
    BY <1>1, FinishedRun DEF Status
  <2>2. RepairForVerdict(r, named) = s  BY <1>5, <1>7, <2>1 DEF RepairForVerdict
  <2>3. SameWork(s, r) /\ Stages(s)  BY <2>1 DEF SameWork, Stages
  <2>4. r.log.repairs <= s.log.repairs  BY <1>1, <2>1 DEF RunRec, LogRec
  <2>5. QED  BY <2>1, <2>2, <2>3, <2>4, JudgedKeeps
<1>8. CASE again # {}
  <2>1. PICK s \in RunRec :
          /\ Reset(r, again) = s
          /\ s.status = "running" /\ s.judge = "off"
          /\ \A n \in Node : /\ s.st[n] = IF n \in again THEN "pending" ELSE r.st[n]
                             /\ s.log.st[n] = IF n \in again THEN "pending" ELSE r.log.st[n]
          /\ s.log.att = r.log.att /\ s.log.sess = r.log.sess
          /\ s.log.repairs = r.log.repairs
          /\ s.att = r.att /\ s.sess = r.sess /\ s.recov = r.recov
          /\ s.inFlight = r.inFlight /\ s.repairs = r.repairs /\ s.sending = r.sending
          /\ s.held = r.held /\ s.disp = r.disp /\ s.out = r.out
          /\ s.overtaken = r.overtaken /\ s.adopted = r.adopted
    BY <1>1, <1>4, <1>6, ResetRun
  <2>2. RepairForVerdict(r, named) = ScheduleReady(s)
    BY <1>5, <1>8, <2>1 DEF RepairForVerdict, Reset
  <2>3. \A n \in Node : /\ n \in F => s.st[n] = "pending" /\ s.log.st[n] = "pending"
                        /\ n \notin F => s.st[n] = "done" /\ s.log.st[n] = "done"
    BY <1>3, <1>6, <2>1
  <2>4. Types(s, ch, ck, gv, ev)  BY <1>1, <2>1 DEF Types
  <2>5. Slots(s)
    <3>1. Running(s) = Running(r)  BY <1>3, <2>3 DEF Running
    <3>2. QED  BY <1>2, <2>1, <3>1 DEF Slots
  <2>6. Stages(s)  BY <2>1 DEF Stages
  <2>7. Logged(s)
    <3>1. s.repairs = s.log.repairs  BY <1>2, <2>1 DEF Logged, Live
    <3>2. QED  BY <1>2, <2>1, <2>3, <3>1 DEF Logged
  <2>8. Bounded(s, ev)
    <3>1. Rounds(s) = Rounds(r)  BY <2>1 DEF Rounds
    <3>2. \A n \in Node : r.log.att[n] > 0  BY <1>2, <1>3 DEF Bounded, Begun
    <3>3. SUFFICES ASSUME NEW n \in Node
                   PROVE  /\ s.log.att[n] <= RetryLimit[n] + Rounds(s) + ev + 1
                          /\ s.log.att[n] <= RetryLimit[n] + Rounds(s) + ev
      BY <2>1, <3>2 DEF Bounded
    <3>4. r.log.att[n] <= RetryLimit[n] + Rounds(r) + ev + 1  BY <1>2 DEF Bounded
    <3>5. QED  BY <2>1, <3>1, <3>4
  <2>9. Children(s, ch, ck)  BY <1>2, <1>3, <2>1 DEF Children, SessionOf
  <2>10. Dispatches(s, ch)  BY <1>2, <2>1 DEF Dispatches, DispatchOk, SessionOf
  <2>11. Leases(s, ch, ck)
    <3>1. \A n \in Node : ~AtWork(r, ch, ck, n) /\ ~Lost(r, n)  BY <1>3 DEF AtWork, Lost
    <3>2. QED  BY <1>2, <2>1, <3>1 DEF Leases, Served, OnItsWay
  <2>12. Freshness(s, ch, gv)
    <3>1. SUFFICES ASSUME NEW n \in Node \ s.overtaken PROVE FreshNode(s, ch, gv, n)
      BY DEF Freshness
    <3>2. FreshNode(r, ch, gv, n)  BY <1>2, <2>1, <3>1 DEF Freshness
    <3>3. n \notin s.recov /\ \A d \in s.disp : d.n # n
      BY <1>3, <2>1, <3>2 DEF FreshNode
    <3>4. CASE n \in F  BY <2>3, <3>3, <3>4 DEF FreshNode, Begun
    <3>5. CASE n \notin F
      <4>1. DepsDone(s, n)
        <5>1. Deps[n] \cap F = {}  BY <1>4, <3>5 DEF Downstream
        <5>2. QED  BY <2>3, <5>1, Limits DEF DepsDone
      <4>2. Begun(r, n)  BY <1>3 DEF Begun
      <4>3. Replies(s, n) = Replies(r, n)  BY <2>1 DEF Replies
      <4>4. QED  BY <2>1, <3>2, <3>3, <4>1, <4>2, <4>3 DEF FreshNode
    <3>6. QED  BY <3>4, <3>5
  <2>13. Answers(s, gv)
    <3>1. \A n \in Node : s.st[n] # "running" /\ (s.log.st[n] = "done" => r.log.st[n] = "done")
      BY <1>3, <2>3
    <3>2. QED  BY <1>2, <2>1, <3>1, AnswersStay
  <2>14. Inv(s, ch, ck, gv, ev)
    BY <2>4, <2>5, <2>6, <2>7, <2>8, <2>9, <2>10, <2>11, <2>12, <2>13 DEF Inv, Core
  <2>15. QED  BY <2>2, <2>14, ScheduleKeeps
<1>9. QED  BY <1>7, <1>8

\* A verdict on a run that asked for one, or that was taken for one.
LEMMA VerdictKeeps ==
  ASSUME NEW r, NEW ch, NEW ck, NEW gv, NEW ev, Inv(r, ch, ck, gv, ev),
         r.status = "verifying", r.judge \in {"asked", "off"},
         NEW v, NEW named \in SUBSET Node, NEW x \in ApplyVerdict(r, v, named)
  PROVE  Inv(x, ch, ck, gv, ev)
<1>1. r \in RunRec /\ r.log \in LogRec /\ ev \in 0 .. MaxEvents
  BY DEF Inv, Core, Types, RunRec
<1>2. /\ r.repairs \in Nat /\ r.reasks \in Nat /\ r.log.repairs \in Nat /\ r.log.reasks \in Nat
      /\ r.repairs = r.log.repairs
  BY <1>1 DEF RunRec, LogRec, Inv, Core, Logged, Live
<1>3. CASE v = "pass"
  <2>1. PICK l : l = [r.log EXCEPT !.reasks = 0]  OBVIOUS
  <2>a. /\ l \in LogRec /\ l.repairs = r.log.repairs
        /\ l.st = r.log.st /\ l.att = r.log.att /\ l.sess = r.log.sess
    BY <1>1, <1>2, <2>1 DEF LogRec
  <2>2. PICK s \in RunRec :
          /\ [r EXCEPT !.log = l] = s /\ SameWork(s, r)
          /\ s.status = r.status /\ s.judge = r.judge /\ s.sending = r.sending
          /\ s.repairs = r.repairs /\ s.reasks = r.reasks /\ s.log = l
    BY <1>1, <2>a, CountedRun
  <2>3. s = [r EXCEPT !.log.reasks = 0]  BY <1>1, <2>1, <2>2 DEF RunRec, LogRec
  <2>4. PICK u \in RunRec :
          /\ Finish(s, "completed") = u /\ u.status = "completed" /\ u.judge = "off"
          /\ u.st = s.st /\ u.att = s.att /\ u.sess = s.sess /\ u.recov = s.recov
          /\ u.inFlight = s.inFlight /\ u.repairs = s.repairs /\ u.sending = s.sending
          /\ u.held = s.held /\ u.disp = s.disp /\ u.out = s.out
          /\ u.overtaken = s.overtaken /\ u.adopted = s.adopted /\ u.log = s.log
    BY FinishedRun DEF Status
  <2>5. x = u  BY <1>3, <2>3, <2>4 DEF ApplyVerdict
  <2>6. SameWork(u, r) /\ Stages(u)  BY <2>2, <2>4 DEF SameWork, Stages
  <2>7. r.log.repairs <= u.log.repairs  BY <1>2, <2>a, <2>2, <2>4
  <2>8. QED  BY <2>4, <2>5, <2>6, <2>7, JudgedKeeps
<1>4. CASE v = "unparsed"
  <2>1. PICK l : l = [r.log EXCEPT !.reasks = @ + 1]  OBVIOUS
  <2>a. /\ l \in LogRec /\ l.repairs = r.log.repairs
        /\ l.st = r.log.st /\ l.att = r.log.att /\ l.sess = r.log.sess
    BY <1>1, <1>2, <2>1 DEF LogRec
  <2>2. PICK s \in RunRec :
          /\ [r EXCEPT !.log = l] = s /\ SameWork(s, r)
          /\ s.status = r.status /\ s.judge = r.judge /\ s.sending = r.sending
          /\ s.repairs = r.repairs /\ s.reasks = r.reasks /\ s.log = l
    BY <1>1, <2>a, CountedRun
  <2>3. s = [r EXCEPT !.log.reasks = @ + 1]  BY <1>1, <2>1, <2>2 DEF RunRec, LogRec
  <2>4. CASE r.reasks < MaxReAsks
    <3>1. PICK t : t = [s EXCEPT !.reasks = @ + 1]  OBVIOUS
    <3>2. t \in RunRec  BY <1>2, <2>2, <3>1 DEF RunRec
    <3>3. t.status = s.status /\ t.repairs = s.repairs /\ SameWork(t, s) /\ t.log = s.log
      BY <3>1 DEF RunRec, SameWork
    <3>4. PICK u \in RunRec :
            /\ Ask(t) = u /\ u.judge = "asked" /\ u.sending
            /\ u.status = t.status /\ u.reasks = t.reasks
            /\ u.st = t.st /\ u.att = t.att /\ u.sess = t.sess /\ u.recov = t.recov
            /\ u.inFlight = t.inFlight /\ u.repairs = t.repairs
            /\ u.held = t.held /\ u.disp = t.disp /\ u.out = t.out
            /\ u.overtaken = t.overtaken /\ u.adopted = t.adopted /\ u.log = t.log
      BY <3>2, AskedRun
    <3>5. x = u  BY <1>4, <2>3, <2>4, <3>1, <3>4 DEF ApplyVerdict
    <3>6. SameWork(u, r)  BY <2>2, <3>3, <3>4 DEF SameWork
    <3>7. Stages(u)  BY <2>2, <3>3, <3>4 DEF Stages
    <3>8. r.log.repairs <= u.log.repairs /\ u.repairs = u.log.repairs
          /\ u.status = "verifying"
      BY <1>2, <2>a, <2>2, <3>3, <3>4
    <3>9. QED  BY <3>4, <3>5, <3>6, <3>7, <3>8, JudgedKeeps
  <2>5. CASE ~(r.reasks < MaxReAsks)
    <3>1. PICK u \in RunRec :
            /\ Finish(s, "failed") = u /\ u.status = "failed" /\ u.judge = "off"
            /\ u.st = s.st /\ u.att = s.att /\ u.sess = s.sess /\ u.recov = s.recov
            /\ u.inFlight = s.inFlight /\ u.repairs = s.repairs /\ u.sending = s.sending
            /\ u.held = s.held /\ u.disp = s.disp /\ u.out = s.out
            /\ u.overtaken = s.overtaken /\ u.adopted = s.adopted /\ u.log = s.log
      BY FinishedRun DEF Status
    <3>2. x = u  BY <1>4, <2>3, <2>5, <3>1 DEF ApplyVerdict
    <3>3. SameWork(u, r) /\ Stages(u)  BY <2>2, <3>1 DEF SameWork, Stages
    <3>4. r.log.repairs <= u.log.repairs  BY <1>2, <2>a, <2>2, <3>1
    <3>5. QED  BY <3>1, <3>2, <3>3, <3>4, JudgedKeeps
  <2>6. QED  BY <2>4, <2>5
<1>5. CASE v \notin {"pass", "unparsed"}
  <2>1. PICK l : l = [r.log EXCEPT !.repairs = @ + 1]  OBVIOUS
  <2>a. /\ l \in LogRec /\ l.repairs = r.log.repairs + 1
        /\ l.st = r.log.st /\ l.att = r.log.att /\ l.sess = r.log.sess
    BY <1>1, <1>2, <2>1 DEF LogRec
  <2>2. PICK s \in RunRec :
          /\ [r EXCEPT !.log = l] = s /\ SameWork(s, r)
          /\ s.status = r.status /\ s.judge = r.judge /\ s.sending = r.sending
          /\ s.repairs = r.repairs /\ s.reasks = r.reasks /\ s.log = l
    BY <1>1, <2>a, CountedRun
  <2>3. s = [r EXCEPT !.log.repairs = @ + 1]  BY <1>1, <2>1, <2>2 DEF RunRec, LogRec
  <2>4. CASE r.repairs >= MaxRepairs
    <3>1. PICK u \in RunRec :
            /\ Finish(s, "failed") = u /\ u.status = "failed" /\ u.judge = "off"
            /\ u.st = s.st /\ u.att = s.att /\ u.sess = s.sess /\ u.recov = s.recov
            /\ u.inFlight = s.inFlight /\ u.repairs = s.repairs /\ u.sending = s.sending
            /\ u.held = s.held /\ u.disp = s.disp /\ u.out = s.out
            /\ u.overtaken = s.overtaken /\ u.adopted = s.adopted /\ u.log = s.log
      BY FinishedRun DEF Status
    <3>2. x = u  BY <1>5, <2>3, <2>4, <3>1 DEF ApplyVerdict
    <3>3. SameWork(u, r) /\ Stages(u)  BY <2>2, <3>1 DEF SameWork, Stages
    <3>4. r.log.repairs <= u.log.repairs  BY <1>2, <2>a, <2>2, <3>1
    <3>5. QED  BY <3>1, <3>2, <3>3, <3>4, JudgedKeeps
  <2>5. CASE ~(r.repairs >= MaxRepairs)
    <3>1. PICK t : t = [s EXCEPT !.repairs = @ + 1]  OBVIOUS
    <3>2. t \in RunRec /\ t.repairs = r.repairs + 1  BY <1>2, <2>2, <3>1 DEF RunRec
    <3>3. /\ t.status = s.status /\ t.judge = s.judge /\ t.sending = s.sending
          /\ t.log = s.log
      BY <3>1 DEF RunRec
    <3>4. SameWork(t, r)  BY <2>2, <3>1 DEF RunRec, SameWork
    <3>5. /\ t.repairs = t.log.repairs /\ r.log.repairs <= t.log.repairs
          /\ t.log.repairs = r.log.repairs + 1
      BY <1>2, <2>a, <2>2, <3>2, <3>3
    <3>6. Rounds(t) = Rounds(r) + 1 /\ Rounds(r) < Rounds(t) /\ Rounds(r) \in Nat
      BY <1>2, <2>5, <3>5, Limits DEF Rounds
    <3>7. Stages(t)  BY <2>2, <3>3 DEF Stages
    <3>8. Inv(t, ch, ck, gv, ev)
      BY <2>2, <3>2, <3>3, <3>4, <3>5, <3>6, <3>7, JudgedKeeps
    <3>9. CASE x = RepairForVerdict(t, named)
      <4>1. ASSUME NEW n \in Node PROVE t.log.att[n] <= RetryLimit[n] + Rounds(t) + ev
        <5>1. r.log.att[n] <= RetryLimit[n] + Rounds(r) + ev + 1  BY DEF Inv, Core, Bounded
        <5>2. t.log.att = r.log.att  BY <3>4 DEF SameWork
        <5>3. RetryLimit[n] \in Nat /\ ev \in Nat  BY <1>1, Limits
        <5>4. PICK R \in Nat : R = Rounds(r) /\ Rounds(t) = R + 1  BY <3>6
        <5>5. QED  BY <5>1, <5>2, <5>3, <5>4
      <4>2. t.status = "verifying"  BY <2>2, <3>3
      <4>3. QED  BY <3>8, <3>9, <4>1, <4>2, RepairKeeps
    <3>10. CASE x = [t EXCEPT !.judge = "scope"]
      <4>1. PICK judge \in Judge : judge = "scope"  BY DEF Judge
      <4>2. PICK u \in RunRec :
              /\ [t EXCEPT !.judge = judge] = u /\ u.judge = judge /\ SameWork(u, t)
              /\ u.status = t.status /\ u.sending = t.sending /\ u.repairs = t.repairs
              /\ u.reasks = t.reasks /\ u.log = t.log
        BY <3>2, JudgedRun
      <4>3. x = u  BY <3>10, <4>1, <4>2
      <4>4. SameWork(u, r)  BY <3>4, <4>2 DEF SameWork
      <4>5. Stages(u)  BY <2>2, <3>3, <4>1, <4>2 DEF Stages
      <4>6. Rounds(u) = Rounds(t)  BY <4>2 DEF Rounds
      <4>7. QED  BY <2>2, <3>3, <3>5, <3>6, <4>2, <4>3, <4>4, <4>5, <4>6, JudgedKeeps
    <3>11. QED  BY <1>5, <2>3, <2>5, <3>1, <3>9, <3>10 DEF ApplyVerdict
  <2>6. QED  BY <2>4, <2>5
<1>6. QED  BY <1>3, <1>4, <1>5

LEMMA OrchestratorRepliesKeeps ==
  ASSUME IInv, OrchestratorReplies
  PROVE  IInv'
<1>1. PICK r, ch, ck, gv, ev : r = run /\ ch = child /\ ck = checking /\ gv = given /\ ev = events
  OBVIOUS
<1>2. Inv(r, ch, ck, gv, ev)  BY <1>1 DEF IInv
<1>3. /\ child' = ch /\ checking' = ck /\ given' = gv /\ events' = ev
      /\ r.judge = "asked" /\ r.status = "verifying"
  BY <1>1 DEF OrchestratorReplies
<1>4. CASE \E v \in Verdict : run' \in ApplyVerdict(r, v[1], v[2])
  <2>1. PICK v \in Verdict : run' \in ApplyVerdict(r, v[1], v[2])  BY <1>4
  <2>2. v[2] \in SUBSET Node  BY DEF Verdict
  <2>3. QED  BY <1>2, <1>3, <2>1, <2>2, VerdictKeeps DEF IInv
<1>5. CASE run' = [r EXCEPT !.judge = "classify"]
  <2>1. PICK judge \in Judge : judge = "classify"  BY DEF Judge
  <2>2. r \in RunRec /\ r.repairs = r.log.repairs /\ r.log.repairs \in Nat
    BY <1>2, <1>3 DEF Inv, Core, Types, Logged, Live, RunRec, LogRec
  <2>3. PICK u \in RunRec :
          /\ [r EXCEPT !.judge = judge] = u /\ u.judge = judge /\ SameWork(u, r)
          /\ u.status = r.status /\ u.sending = r.sending /\ u.repairs = r.repairs
          /\ u.reasks = r.reasks /\ u.log = r.log
    BY <2>2, JudgedRun
  <2>4. Stages(u)  BY <1>3, <2>1, <2>3 DEF Stages
  <2>5. r.log.repairs <= u.log.repairs  BY <2>2, <2>3
  <2>6. Inv(u, ch, ck, gv, ev)  BY <1>2, <1>3, <2>1, <2>2, <2>3, <2>4, <2>5, JudgedKeeps
  <2>7. QED  BY <1>3, <1>5, <2>1, <2>3, <2>6 DEF IInv
<1>6. QED  BY <1>1, <1>4, <1>5 DEF OrchestratorReplies

LEMMA VerdictClassifiedKeeps ==
  ASSUME IInv, VerdictClassified
  PROVE  IInv'
<1>1. PICK r, ch, ck, gv, ev : r = run /\ ch = child /\ ck = checking /\ gv = given /\ ev = events
  OBVIOUS
<1>2. Inv(r, ch, ck, gv, ev)  BY <1>1 DEF IInv
<1>3. /\ child' = ch /\ checking' = ck /\ given' = gv /\ events' = ev /\ r.judge = "classify"
  BY <1>1 DEF VerdictClassified
<1>4. r.status = "verifying"  BY <1>2, <1>3 DEF Inv, Core, Stages
<1>5. PICK judge \in Judge : judge = "off"  BY DEF Judge
<1>6. r \in RunRec /\ r.repairs = r.log.repairs /\ r.log.repairs \in Nat
  BY <1>2, <1>4 DEF Inv, Core, Types, Logged, Live, RunRec, LogRec
<1>7. PICK u \in RunRec :
        /\ [r EXCEPT !.judge = judge] = u /\ u.judge = judge /\ SameWork(u, r)
        /\ u.status = r.status /\ u.sending = r.sending /\ u.repairs = r.repairs
        /\ u.reasks = r.reasks /\ u.log = r.log
  BY <1>6, JudgedRun
<1>8. Stages(u)  BY <1>4, <1>5, <1>7 DEF Stages
<1>9. r.log.repairs <= u.log.repairs  BY <1>6, <1>7
<1>10. Inv(u, ch, ck, gv, ev)
  BY <1>2, <1>4, <1>5, <1>6, <1>7, <1>8, <1>9, JudgedKeeps
<1>11. PICK v \in Verdict : run' \in ApplyVerdict(u, v[1], v[2])
  BY <1>1, <1>5, <1>7 DEF VerdictClassified
<1>12. v[2] \in SUBSET Node  BY DEF Verdict
<1>13. Inv(run', ch, ck, gv, ev)
  BY <1>4, <1>5, <1>7, <1>10, <1>11, <1>12, VerdictKeeps
<1>14. QED  BY <1>3, <1>13 DEF IInv

LEMMA RepairScopedKeeps ==
  ASSUME IInv, RepairScoped
  PROVE  IInv'
<1>1. PICK r, ch, ck, gv, ev : r = run /\ ch = child /\ ck = checking /\ gv = given /\ ev = events
  OBVIOUS
<1>2. Inv(r, ch, ck, gv, ev)  BY <1>1 DEF IInv
<1>3. /\ child' = ch /\ checking' = ck /\ given' = gv /\ events' = ev /\ r.judge = "scope"
  BY <1>1 DEF RepairScoped
<1>4. r.status = "verifying"  BY <1>2, <1>3 DEF Inv, Core, Stages
<1>5. \A n \in Node : r.log.att[n] <= RetryLimit[n] + Rounds(r) + ev
  BY <1>2, <1>3 DEF Inv, Core, Bounded, MayRestart
<1>6. PICK named \in SUBSET Node : run' = RepairForVerdict(r, named)
  BY <1>1 DEF RepairScoped
<1>7. Inv(RepairForVerdict(r, named), ch, ck, gv, ev)  BY <1>2, <1>4, <1>5, RepairKeeps
<1>8. QED  BY <1>3, <1>6, <1>7 DEF IInv

-----------------------------------------------------------------------------
(* The user, the clock, other runs, the process.                           *)

\* Pausing a run is an event that may cost its nodes an attempt each.
LEMMA PauseKeeps ==
  ASSUME IInv, Pause
  PROVE  IInv'
<1>1. PICK r, ch, ck, gv, ev : r = run /\ ch = child /\ ck = checking /\ gv = given /\ ev = events
  OBVIOUS
<1>2. Inv(r, ch, ck, gv, ev)  BY <1>1 DEF IInv
<1>3. PICK s : s = [r EXCEPT !.status = "paused"]  OBVIOUS
<1>4. /\ child' = ch /\ checking' = ck /\ given' = gv /\ events' = ev + 1
      /\ r.status = "running" /\ ev < MaxEvents /\ run' = s
  BY <1>1, <1>3 DEF Pause
<1>5. r \in RunRec /\ ev \in 0 .. MaxEvents  BY <1>2 DEF Inv, Core, Types
<1>6. ev + 1 \in 0 .. MaxEvents /\ ev <= ev + 1 /\ ev < ev + 1  BY <1>4, <1>5, Limits
<1>7. /\ s \in RunRec /\ s.status = "paused" /\ s.judge = r.judge /\ s.sending = r.sending
      /\ s.repairs = r.repairs /\ s.log = r.log
  BY <1>3, <1>5 DEF RunRec, Status
<1>8. /\ s.st = r.st /\ s.att = r.att /\ s.sess = r.sess /\ s.recov = r.recov
      /\ s.inFlight = r.inFlight /\ s.held = r.held /\ s.disp = r.disp /\ s.out = r.out
      /\ s.overtaken = r.overtaken /\ s.adopted = r.adopted
  BY <1>3, <1>5 DEF RunRec
<1>9. Stages(r) /\ Logged(r)  BY <1>2 DEF Inv, Core
<1>10. r.judge = "off"  BY <1>4, <1>9 DEF Stages
<1>11. Stages(s)  BY <1>7, <1>10 DEF Stages
<1>12. Logged(s)  BY <1>4, <1>7, <1>8, <1>9 DEF Logged, Live
<1>13. Rounds(r) <= Rounds(s)  BY <1>5, <1>7, Limits DEF Rounds, RunRec, LogRec
<1>14. Live(r) /\ Live(s)  BY <1>4, <1>7 DEF Live
<1>15. s.judge # "scope" /\ s.status \notin {"gone", "verifying", "completed"} /\ r.status # "gone"
  BY <1>4, <1>7, <1>10
<1>16. Inv(s, ch, ck, gv, ev + 1)
  BY <1>2, <1>6, <1>7, <1>8, <1>11, <1>12, <1>13, <1>14, <1>15, StatusKeeps
<1>17. QED  BY <1>4, <1>16 DEF IInv

\* What was interrupted goes on on the attempt it had.
LEMMA ResumeKeeps ==
  ASSUME IInv, Resume
  PROVE  IInv'
<1>1. PICK r, ch, ck, gv, ev : r = run /\ ch = child /\ ck = checking /\ gv = given /\ ev = events
  OBVIOUS
<1>2. Inv(r, ch, ck, gv, ev) /\ r \in RunRec  BY <1>1 DEF IInv, Inv, Core, Types
<1>3. PICK back : back = {n \in Node : r.st[n] = "cancelled"}  OBVIOUS
<1>4. PICK f : f = [n \in Node |-> IF n \in back THEN "pending" ELSE r.st[n]]  OBVIOUS
<1>5. PICK s : s = [r EXCEPT !.status = "running", !.recov = @ \cup back, !.st = f]  OBVIOUS
<1>6. /\ child' = ch /\ checking' = ck /\ given' = gv /\ events' = ev /\ r.status = "paused"
      /\ run' = ScheduleReady(s)
  BY <1>1, <1>3, <1>4, <1>5 DEF Resume
<1>7. r.st \in [Node -> NodeState] /\ f \in [Node -> NodeState]
  BY <1>2, <1>4 DEF RunRec, NodeState
<1>8. s \in RunRec /\ s.status = "running" /\ s.recov = r.recov \cup back /\ s.st = f
  BY <1>2, <1>3, <1>5, <1>7 DEF RunRec, Status
<1>9. /\ s.att = r.att /\ s.sess = r.sess /\ s.judge = r.judge /\ s.sending = r.sending
      /\ s.inFlight = r.inFlight /\ s.repairs = r.repairs
      /\ s.held = r.held /\ s.disp = r.disp /\ s.out = r.out
      /\ s.overtaken = r.overtaken /\ s.adopted = r.adopted /\ s.log = r.log
  BY <1>2, <1>5 DEF RunRec
<1>10. Types(r, ch, ck, gv, ev) /\ Slots(r) /\ Stages(r) /\ Logged(r) /\ Bounded(r, ev)
       /\ Children(r, ch, ck) /\ Dispatches(r, ch) /\ Freshness(r, ch, gv) /\ Leases(r, ch, ck)
       /\ Answers(r, gv)
  BY <1>2 DEF Inv, Core
<1>11. \A n \in Node : /\ n \in back => r.st[n] = "cancelled" /\ s.st[n] = "pending"
                       /\ n \notin back => s.st[n] = r.st[n]
  BY <1>3, <1>4, <1>8
<1>12. Types(s, ch, ck, gv, ev)  BY <1>8, <1>10 DEF Types
<1>13. Slots(s)
  <2>1. Running(s) = Running(r)  BY <1>11 DEF Running
  <2>2. QED  BY <1>8, <1>9, <1>10, <2>1 DEF Slots
<1>14. Stages(s)  BY <1>6, <1>8, <1>9, <1>10 DEF Stages
<1>15. Logged(s)  BY <1>6, <1>8, <1>9, <1>10, <1>11 DEF Logged, Live
<1>16. \A n \in Node : Begun(s, n) => Begun(r, n)  BY <1>8, <1>9, <1>11 DEF Begun
<1>17. Bounded(s, ev)
  <2>1. Rounds(s) = Rounds(r)  BY <1>9 DEF Rounds
  <2>2. QED  BY <1>6, <1>9, <1>10, <1>16, <2>1 DEF Bounded, MayRestart
<1>18. Children(s, ch, ck)  BY <1>9, <1>10 DEF Children, SessionOf
<1>19. Dispatches(s, ch)  BY <1>9, <1>10 DEF Dispatches, DispatchOk, SessionOf
<1>20. Leases(s, ch, ck)
  <2>1. SUFFICES ASSUME NEW n \in s.held \cap Node PROVE Served(s, ch, ck, n)
    BY DEF Leases
  <2>2. OnItsWay(r, n) \/ AtWork(r, ch, ck, n)
    BY <1>6, <1>9, <1>10 DEF Leases, Served, Lost
  <2>3. OnItsWay(r, n) => OnItsWay(s, n)  BY <1>9 DEF OnItsWay
  <2>4. AtWork(r, ch, ck, n) => AtWork(s, ch, ck, n)
    BY <1>8, <1>9, <1>11 DEF AtWork, Live
  <2>5. QED  BY <2>2, <2>3, <2>4 DEF Served
<1>21. Freshness(s, ch, gv)
  <2>1. SUFFICES ASSUME NEW n \in Node \ s.overtaken PROVE FreshNode(s, ch, gv, n)
    BY DEF Freshness
  <2>2. FreshNode(r, ch, gv, n)  BY <1>9, <1>10, <2>1 DEF Freshness
  <2>3. n \in s.recov => s.log.st[n] # "done"
    BY <1>6, <1>8, <1>9, <1>10, <1>11, <2>2 DEF FreshNode, Logged
  <2>4. Replies(s, n) = Replies(r, n) /\ (DepsDone(s, n) <=> DepsDone(r, n))
    BY <1>9 DEF Replies, DepsDone
  <2>5. QED  BY <1>9, <1>16, <2>2, <2>3, <2>4 DEF FreshNode
<1>22. Answers(s, gv)
  <2>1. \A n \in Node : s.st[n] = "running" => r.st[n] = "running"  BY <1>11
  <2>2. QED  BY <1>9, <1>10, <2>1, AnswersStay
<1>23. Inv(s, ch, ck, gv, ev)
  BY <1>12, <1>13, <1>14, <1>15, <1>17, <1>18, <1>19, <1>20, <1>21, <1>22 DEF Inv, Core
<1>24. Inv(ScheduleReady(s), ch, ck, gv, ev)  BY <1>23, ScheduleKeeps
<1>25. QED  BY <1>6, <1>24 DEF IInv

\* Stopping a run cancels its nodes; those with a child give back their scopes,
\* the others leave it to the dispatch that is on its way.
LEMMA StoppedKeeps ==
  ASSUME IInv, NEW status \in {"stopped", "failed"}, Stopped(status)
  PROVE  IInv'
<1>1. PICK r, ch, ck, gv, ev : r = run /\ ch = child /\ ck = checking /\ gv = given /\ ev = events
  OBVIOUS
<1>2. Inv(r, ch, ck, gv, ev) /\ r \in RunRec  BY <1>1 DEF IInv, Inv, Core, Types
<1>3. /\ child' = ch /\ checking' = ck /\ given' = gv /\ events' = ev /\ Live(r)
      /\ run' = CancelAll(r, status)
  BY <1>1 DEF Stopped
<1>4. PICK cancelled : cancelled = {n \in Node : r.st[n] = "running"}  OBVIOUS
<1>5. PICK f, g : /\ f = [n \in Node |-> IF n \in cancelled THEN "cancelled" ELSE r.st[n]]
                  /\ g = [n \in Node |-> IF n \in cancelled THEN "cancelled" ELSE r.log.st[n]]
  OBVIOUS
<1>6. PICK freed : freed = {n \in cancelled : r.sess[n] # None}  OBVIOUS
<1>7. PICK w \in BOOLEAN : w = (r.wake \/ freed \cap r.held # {})  OBVIOUS
<1>8. r.st \in [Node -> NodeState] /\ r.log \in LogRec /\ r.log.st \in [Node -> NodeState]
  BY <1>2 DEF RunRec, LogRec
<1>9. f \in [Node -> NodeState] /\ g \in [Node -> NodeState]
  BY <1>5, <1>8 DEF NodeState
<1>10. PICK l : l = [r.log EXCEPT !.st = g]  OBVIOUS
<1>11. l \in LogRec /\ l.st = g /\ l.att = r.log.att /\ l.sess = r.log.sess
       /\ l.repairs = r.log.repairs
  BY <1>8, <1>9, <1>10 DEF LogRec
<1>12. PICK t : t = [r EXCEPT !.st = f, !.log = l, !.inFlight = 0, !.held = @ \ freed, !.wake = w]
  OBVIOUS
<1>13. t \in RunRec /\ t.st = f /\ t.log = l /\ t.inFlight = 0 /\ t.held = r.held \ freed
  BY <1>2, <1>9, <1>11, <1>12 DEF RunRec
<1>14. /\ t.att = r.att /\ t.sess = r.sess /\ t.recov = r.recov /\ t.sending = r.sending
       /\ t.disp = r.disp /\ t.out = r.out
       /\ t.overtaken = r.overtaken /\ t.adopted = r.adopted
  BY <1>2, <1>12 DEF RunRec
<1>15. CancelAll(r, status) = Finish(t, status)
  <2>1. [r EXCEPT !.st = f, !.log.st = g, !.inFlight = 0, !.held = @ \ freed, !.wake = w] = t
    BY <1>8, <1>10, <1>12 DEF RunRec, LogRec
  <2>2. CancelAll(r, status)
          = Finish([r EXCEPT !.st = f, !.log.st = g, !.inFlight = 0, !.held = @ \ freed,
                             !.wake = w], status)
    BY <1>4, <1>5, <1>6, <1>7, Zenon DEF CancelAll
  <2>3. QED  BY <2>1, <2>2
<1>16. PICK s \in RunRec :
         /\ Finish(t, status) = s /\ s.status = status /\ s.judge = "off"
         /\ s.st = t.st /\ s.att = t.att /\ s.sess = t.sess /\ s.recov = t.recov
         /\ s.inFlight = t.inFlight /\ s.repairs = t.repairs /\ s.sending = t.sending
         /\ s.held = t.held /\ s.disp = t.disp /\ s.out = t.out
         /\ s.overtaken = t.overtaken /\ s.adopted = t.adopted /\ s.log = t.log
  BY <1>13, FinishedRun DEF Status
<1>17. Types(r, ch, ck, gv, ev) /\ Slots(r) /\ Stages(r) /\ Logged(r) /\ Bounded(r, ev)
       /\ Children(r, ch, ck) /\ Dispatches(r, ch) /\ Freshness(r, ch, gv) /\ Leases(r, ch, ck)
       /\ Answers(r, gv)
  BY <1>2 DEF Inv, Core
<1>18. \A n \in Node :
         /\ r.st[n] = "running" => s.st[n] = "cancelled" /\ s.log.st[n] = "cancelled"
         /\ r.st[n] # "running" => s.st[n] = r.st[n] /\ s.log.st[n] = r.log.st[n]
  BY <1>4, <1>5, <1>11, <1>13, <1>16
<1>19. \A n \in Node : r.att[n] = r.log.att[n] /\ (r.st[n] = "done" <=> r.log.st[n] = "done")
  BY <1>3, <1>17 DEF Logged, Live
<1>20. \A n \in Node : s.log.st[n] = "done" <=> r.log.st[n] = "done"  BY <1>18, <1>19
<1>21. Types(s, ch, ck, gv, ev)  BY <1>16, <1>17 DEF Types
<1>22. Slots(s)
  <2>1. Running(s) = {}  BY <1>18 DEF Running
  <2>2. QED  BY <1>13, <1>16, <2>1, FS_EmptySet, Limits DEF Slots
<1>23. Stages(s)  BY <1>14, <1>16 DEF Stages
<1>24. Logged(s)
  <2>1. \A n \in Node : s.att[n] = s.log.att[n]  BY <1>11, <1>13, <1>14, <1>16, <1>19
  <2>2. \A n \in Node : s.st[n] = "done" <=> s.log.st[n] = "done"  BY <1>18, <1>19
  <2>3. QED  BY <1>16, <2>1, <2>2 DEF Logged, Live
<1>25. \A n \in Node : Begun(s, n) => Begun(r, n)  BY <1>14, <1>16, <1>18 DEF Begun
<1>26. Bounded(s, ev)
  <2>1. Rounds(s) = Rounds(r)  BY <1>11, <1>13, <1>16 DEF Rounds
  <2>2. \A n \in Node : MayRestart(s, n) => MayRestart(r, n)
    BY <1>16, <1>18 DEF MayRestart
  <2>3. s.log.att = r.log.att  BY <1>11, <1>13, <1>16
  <2>4. QED  BY <1>17, <1>25, <2>1, <2>2, <2>3 DEF Bounded
<1>27. Children(s, ch, ck)
  BY <1>11, <1>13, <1>14, <1>16, <1>17, <1>20 DEF Children, SessionOf
<1>28. Dispatches(s, ch)
  BY <1>11, <1>13, <1>14, <1>16, <1>17 DEF Dispatches, DispatchOk, SessionOf
<1>29. Leases(s, ch, ck)
  <2>1. SUFFICES ASSUME NEW n \in s.held \cap Node PROVE OnItsWay(s, n)
    BY DEF Leases, Served
  <2>2. n \in r.held \cap Node /\ n \notin freed  BY <1>13, <1>16, <2>1
  <2>3. ~AtWork(r, ch, ck, n) /\ ~Lost(r, n)
    BY <1>3, <1>4, <1>6, <2>2 DEF AtWork, Lost, Live
  <2>4. OnItsWay(r, n)  BY <1>17, <2>2, <2>3 DEF Leases, Served
  <2>5. QED  BY <1>14, <1>16, <2>4 DEF OnItsWay
<1>30. Freshness(s, ch, gv)
  <2>1. SUFFICES ASSUME NEW n \in Node \ s.overtaken PROVE FreshNode(s, ch, gv, n)
    BY DEF Freshness
  <2>2. FreshNode(r, ch, gv, n)  BY <1>14, <1>16, <1>17, <2>1 DEF Freshness
  <2>3. Replies(s, n) = Replies(r, n)  BY <1>14, <1>16 DEF Replies
  <2>4. DepsDone(s, n) <=> DepsDone(r, n)  BY <1>20, Limits DEF DepsDone
  <2>5. s.log.att = r.log.att /\ s.recov = r.recov /\ s.disp = r.disp
    BY <1>11, <1>13, <1>14, <1>16
  <2>6. QED  BY <1>20, <1>25, <2>2, <2>3, <2>4, <2>5 DEF FreshNode
<1>31. Answers(s, gv)
  <2>1. \A n \in Node : s.st[n] # "running"  BY <1>18
  <2>2. s.out = r.out /\ s.overtaken = r.overtaken /\ s.adopted = r.adopted  BY <1>14, <1>16
  <2>3. QED  BY <1>17, <1>20, <2>1, <2>2, AnswersStay
<1>32. Inv(s, ch, ck, gv, ev)
  BY <1>21, <1>22, <1>23, <1>24, <1>26, <1>27, <1>28, <1>29, <1>30, <1>31 DEF Inv, Core
<1>33. QED  BY <1>3, <1>15, <1>16, <1>32 DEF IInv

\* A released scope lets the run look at what it can start.
LEMMA ScopesReleasedKeeps ==
  ASSUME IInv, ScopesReleased
  PROVE  IInv'
<1>1. PICK r, ch, ck, gv, ev : r = run /\ ch = child /\ ck = checking /\ gv = given /\ ev = events
  OBVIOUS
<1>2. Inv(r, ch, ck, gv, ev) /\ r \in RunRec  BY <1>1 DEF IInv, Inv, Core, Types
<1> DEFINE no == FALSE
<1>3. no \in BOOLEAN  OBVIOUS
<1>4. /\ child' = ch /\ checking' = ck /\ given' = gv /\ events' = ev
      /\ run' = ScheduleReady([r EXCEPT !.wake = no])
  BY <1>1 DEF ScopesReleased
<1> HIDE DEF no
<1>5. PICK s : s = [r EXCEPT !.wake = no]  OBVIOUS
<1>6. s \in RunRec  BY <1>2, <1>3, <1>5 DEF RunRec
<1>7. /\ s.status = r.status /\ s.judge = r.judge /\ s.sending = r.sending
      /\ s.st = r.st /\ s.att = r.att /\ s.sess = r.sess /\ s.recov = r.recov
      /\ s.inFlight = r.inFlight /\ s.repairs = r.repairs /\ s.held = r.held
      /\ s.disp = r.disp /\ s.out = r.out
      /\ s.overtaken = r.overtaken /\ s.adopted = r.adopted /\ s.log = r.log
  BY <1>2, <1>5 DEF RunRec
<1>8. r.status = "gone" => s.disp = {} /\ s.held \cap Node = {}
  BY <1>2, <1>7 DEF Inv, Core, Stages
<1>9. Core(s, ch, ck, gv, ev)  BY <1>2, <1>6, <1>7, <1>8, MovesCore DEF Inv
<1>10. Leases(s, ch, ck)
  BY <1>2, <1>7 DEF Inv, Leases, Served, Lost, OnItsWay, AtWork, Live
<1>11. Answers(s, gv)  BY <1>2, <1>7, AnswersStay DEF Inv
<1>12. Inv(ScheduleReady(s), ch, ck, gv, ev)  BY <1>9, <1>10, <1>11, ScheduleKeeps DEF Inv
<1>13. QED  BY <1>4, <1>5, <1>12 DEF IInv

\* The other run takes a scope, or gives it back.
LEMMA OtherAcquiresKeeps ==
  ASSUME IInv, OtherAcquires
  PROVE  IInv'
<1>1. PICK r, ch, ck, gv, ev : r = run /\ ch = child /\ ck = checking /\ gv = given /\ ev = events
  OBVIOUS
<1>2. Inv(r, ch, ck, gv, ev) /\ r \in RunRec /\ ev \in 0 .. MaxEvents
  BY <1>1 DEF IInv, Inv, Core, Types
<1>3. PICK s : s = [r EXCEPT !.held = @ \cup {Other}]  OBVIOUS
<1>4. /\ child' = ch /\ checking' = ck /\ given' = gv /\ events' = ev + 1 /\ ev < MaxEvents
      /\ run' = s
  BY <1>1, <1>3 DEF OtherAcquires
<1>5. s \in RunRec /\ s.held = r.held \cup {Other}  BY <1>2, <1>3 DEF RunRec
<1>6. /\ s.status = r.status /\ s.judge = r.judge /\ s.sending = r.sending
      /\ s.st = r.st /\ s.att = r.att /\ s.sess = r.sess /\ s.recov = r.recov
      /\ s.inFlight = r.inFlight /\ s.repairs = r.repairs
      /\ s.disp = r.disp /\ s.out = r.out
      /\ s.overtaken = r.overtaken /\ s.adopted = r.adopted /\ s.log = r.log
  BY <1>2, <1>3 DEF RunRec
<1>7. s.held \cap Node = r.held \cap Node  BY <1>5, Limits
<1>8. r.status = "gone" => s.disp = {} /\ s.held \cap Node = {}
  BY <1>2, <1>6, <1>7 DEF Inv, Core, Stages
<1>9. Core(s, ch, ck, gv, ev)  BY <1>2, <1>5, <1>6, <1>8, MovesCore DEF Inv
<1>10. ev + 1 \in 0 .. MaxEvents /\ ev <= ev + 1  BY <1>2, <1>4, Limits
<1>11. Core(s, ch, ck, gv, ev + 1)  BY <1>9, <1>10, EventsGrow
<1>12. Leases(s, ch, ck)
  BY <1>2, <1>6, <1>7 DEF Inv, Leases, Served, Lost, OnItsWay, AtWork, Live
<1>13. Answers(s, gv)
  <2>1. \A n \in Node : n \in s.held => n \in r.held  BY <1>7
  <2>2. QED  BY <1>2, <1>6, <2>1, AnswersStay DEF Inv
<1>14. QED  BY <1>4, <1>11, <1>12, <1>13 DEF IInv, Inv

LEMMA OtherReleasesKeeps ==
  ASSUME IInv, OtherReleases
  PROVE  IInv'
<1>1. PICK r, ch, ck, gv, ev : r = run /\ ch = child /\ ck = checking /\ gv = given /\ ev = events
  OBVIOUS
<1>2. Inv(r, ch, ck, gv, ev) /\ r \in RunRec  BY <1>1 DEF IInv, Inv, Core, Types
<1>3. PICK s \in RunRec :
        /\ Release(r, Other) = s /\ s.held = r.held \ {Other}
        /\ s.status = r.status /\ s.judge = r.judge /\ s.sending = r.sending
        /\ s.st = r.st /\ s.att = r.att /\ s.sess = r.sess /\ s.recov = r.recov
        /\ s.inFlight = r.inFlight /\ s.repairs = r.repairs
        /\ s.disp = r.disp /\ s.out = r.out
        /\ s.overtaken = r.overtaken /\ s.adopted = r.adopted /\ s.log = r.log
  BY <1>2, ReleasedRun
<1>4. child' = ch /\ checking' = ck /\ given' = gv /\ events' = ev /\ run' = s
  BY <1>1, <1>3 DEF OtherReleases
<1>5. s.held \cap Node = r.held \cap Node  BY <1>3, Limits
<1>6. r.status = "gone" => s.disp = {} /\ s.held \cap Node = {}
  BY <1>2, <1>3, <1>5 DEF Inv, Core, Stages
<1>7. Core(s, ch, ck, gv, ev)  BY <1>2, <1>3, <1>6, MovesCore DEF Inv
<1>8. Leases(s, ch, ck)
  BY <1>2, <1>3, <1>5 DEF Inv, Leases, Served, Lost, OnItsWay, AtWork, Live
<1>9. Answers(s, gv)
  <2>1. \A n \in Node : n \in s.held => n \in r.held  BY <1>5
  <2>2. QED  BY <1>2, <1>3, <2>1, AnswersStay DEF Inv
<1>10. QED  BY <1>4, <1>7, <1>8, <1>9 DEF IInv, Inv

\* What is fresh in a new run: a record of the right kind.
LEMMA FreshRun ==
  /\ EmptyLog \in LogRec /\ Fresh \in RunRec
  /\ Fresh.status = "running" /\ Fresh.judge = "off" /\ ~Fresh.sending
  /\ Fresh.inFlight = 0 /\ Fresh.repairs = 0
  /\ Fresh.recov = {} /\ Fresh.held = {} /\ Fresh.disp = {} /\ Fresh.overtaken = {}
  /\ Fresh.adopted = {}
  /\ Fresh.log = EmptyLog /\ EmptyLog.repairs = 0
  /\ \A n \in Node : /\ Fresh.st[n] = "pending" /\ Fresh.sess[n] = None /\ Fresh.att[n] = 0
                     /\ Fresh.out[n] = 0
                     /\ EmptyLog.st[n] = "pending" /\ EmptyLog.sess[n] = None
                     /\ EmptyLog.att[n] = 0
<1> DEFINE no == FALSE
<1>1. no \in BOOLEAN /\ ~no  OBVIOUS
<1>2. PICK st, zero, sess : /\ st = [n \in Node |-> "pending"] /\ zero = [n \in Node |-> 0]
                            /\ sess = [n \in Node |-> None]
  OBVIOUS
<1>3. st \in [Node -> NodeState] /\ zero \in Attempts /\ sess \in Sessions
  BY <1>2, Limits DEF NodeState, Attempts, Sessions
<1>4. PICK l : l = [st |-> st, att |-> zero, sess |-> sess, repairs |-> 0, reasks |-> 0]
  OBVIOUS
<1>5. l = EmptyLog /\ l \in LogRec  BY <1>2, <1>3, <1>4 DEF EmptyLog, LogRec
<1>6. l.st = st /\ l.att = zero /\ l.sess = sess /\ l.repairs = 0  BY <1>4
<1>7. Fresh = [status |-> "running", st |-> st, att |-> zero,
               sess |-> sess, recov |-> {}, inFlight |-> 0, repairs |-> 0,
               reasks |-> 0, judge |-> "off", sending |-> no, held |-> {},
               wake |-> no, disp |-> {}, out |-> zero, overtaken |-> {}, adopted |-> {},
               log |-> l]
  BY <1>2, <1>5, <1>6 DEF Fresh
<1> HIDE DEF no
<1>8. PICK s : s = [status |-> "running", st |-> st, att |-> zero,
                    sess |-> sess, recov |-> {}, inFlight |-> 0, repairs |-> 0,
                    reasks |-> 0, judge |-> "off", sending |-> no, held |-> {},
                    wake |-> no, disp |-> {}, out |-> zero, overtaken |-> {}, adopted |-> {},
                    log |-> l]
  OBVIOUS
<1>9. s \in RunRec  BY <1>1, <1>3, <1>5, <1>8 DEF RunRec, Status, Judge
<1>10. /\ s.status = "running" /\ s.judge = "off" /\ s.sending = no
       /\ s.inFlight = 0 /\ s.repairs = 0
       /\ s.recov = {} /\ s.held = {} /\ s.disp = {} /\ s.overtaken = {} /\ s.adopted = {}
       /\ s.st = st /\ s.att = zero /\ s.sess = sess /\ s.out = zero /\ s.log = l
  BY <1>8
<1>11. s = Fresh  BY <1>7, <1>8
<1>12. \A n \in Node : st[n] = "pending" /\ zero[n] = 0 /\ sess[n] = None  BY <1>2
<1>13. QED  BY <1>1, <1>5, <1>6, <1>9, <1>10, <1>11, <1>12

\* The process dies: what the log, the outputs and the sessions know stays.
LEMMA CrashKeeps ==
  ASSUME IInv, Crash
  PROVE  IInv'
<1>1. PICK r, ch, ck, gv, ev : r = run /\ ch = child /\ ck = checking /\ gv = given /\ ev = events
  OBVIOUS
<1>2. Inv(r, ch, ck, gv, ev) /\ r \in RunRec /\ ev \in 0 .. MaxEvents
      /\ ch \in [Child -> ChildState] /\ gv \in [Child -> Attempts]
  BY <1>1 DEF IInv, Inv, Core, Types
<1>3. PICK F : F = Fresh  OBVIOUS
<1>4. PICK s : s = [F EXCEPT !.status = "gone", !.log = r.log, !.out = r.out,
                             !.overtaken = r.overtaken, !.adopted = r.adopted]
  OBVIOUS
<1>5. PICK ch2 : ch2 = [c \in Child |-> IF ch[c] = "busy" THEN "quiet" ELSE ch[c]]  OBVIOUS
<1>6. /\ child' = ch2 /\ checking' = {} /\ given' = gv /\ events' = ev + 1 /\ ev < MaxEvents
      /\ run' = s
  BY <1>1, <1>3, <1>4, <1>5 DEF Crash
<1>7. /\ r.log \in LogRec /\ r.out \in Attempts /\ r.overtaken \in SUBSET Node
      /\ r.adopted \in SUBSET Node
  BY <1>2 DEF RunRec
<1>8. /\ F \in RunRec /\ F.judge = "off" /\ ~F.sending /\ F.inFlight = 0
      /\ F.recov = {} /\ F.held = {} /\ F.disp = {}
      /\ \A n \in Node : F.st[n] = "pending" /\ F.sess[n] = None
  BY <1>3, FreshRun
<1>9. s \in RunRec /\ s.status = "gone" /\ s.log = r.log /\ s.out = r.out
      /\ s.overtaken = r.overtaken /\ s.adopted = r.adopted
  BY <1>4, <1>7, <1>8 DEF RunRec, Status
<1>10. /\ s.judge = F.judge /\ s.sending = F.sending /\ s.inFlight = F.inFlight
       /\ s.recov = F.recov /\ s.held = F.held /\ s.disp = F.disp
       /\ s.st = F.st /\ s.sess = F.sess
  BY <1>4, <1>8 DEF RunRec
<1>11. ev + 1 \in 0 .. MaxEvents  BY <1>2, <1>6, Limits
<1>12. ch2 \in [Child -> ChildState]  BY <1>2, <1>5 DEF ChildState
<1>13. \A c \in Child : /\ ch2[c] \in Started <=> ch[c] \in Started
                        /\ ch[c] = "none" => ch2[c] = "none"
  BY <1>5 DEF Started
<1>14. /\ Bounded(r, ev) /\ Children(r, ch, ck) /\ Freshness(r, ch, gv)
  BY <1>2 DEF Inv, Core
<1>15. Types(s, ch2, {}, gv, ev + 1)  BY <1>2, <1>9, <1>11, <1>12 DEF Types
<1>16. Slots(s)
  <2>1. Running(s) = {}  BY <1>8, <1>10 DEF Running
  <2>2. QED  BY <1>8, <1>9, <1>10, <2>1, FS_EmptySet, Limits DEF Slots
<1>17. Stages(s)  BY <1>8, <1>9, <1>10 DEF Stages
<1>18. Logged(s)  BY <1>9 DEF Logged, Live
<1>19. \A n \in Node : Begun(s, n) => Begun(r, n)  BY <1>8, <1>9, <1>10 DEF Begun
<1>20. Bounded(s, ev + 1)
  <2>1. Rounds(s) = Rounds(r)  BY <1>9 DEF Rounds
  <2>2. SUFFICES ASSUME NEW n \in Node
                 PROVE  /\ s.log.att[n] <= RetryLimit[n] + Rounds(s) + (ev + 1) + 1
                        /\ s.log.att[n] <= RetryLimit[n] + Rounds(s) + (ev + 1)
                        /\ Begun(s, n) => s.log.att[n] > 0
    BY DEF Bounded
  <2>3. RetryLimit[n] \in Nat /\ Rounds(r) \in Nat /\ ev \in Nat /\ r.log.att[n] \in Nat
    BY <1>2, <1>7, RoomForAttempts, Limits DEF LogRec, Attempts
  <2>4. /\ r.log.att[n] <= RetryLimit[n] + Rounds(r) + ev + 1
        /\ Begun(s, n) => r.log.att[n] > 0
    BY <1>14, <1>19 DEF Bounded
  <2>5. QED  BY <1>9, <2>1, <2>3, <2>4
<1>21. Children(s, ch2, {})
  <2>1. \A n \in Node : \A a \in Attempt : a > s.log.att[n] => ch2[<<n, a>>] = "none"
    BY <1>9, <1>13, <1>14 DEF Children, Child
  <2>2. ASSUME NEW n \in Node
        PROVE  /\ s.log.st[n] = "done" => s.out[n] > 0
               /\ s.out[n] > 0 => ch2[<<n, s.out[n]>>] \in Started
    <3>1. r.out[n] > 0 => <<n, r.out[n]>> \in Child
      BY <1>7, Limits DEF Attempts, Child, Attempt
    <3>2. QED  BY <1>9, <1>13, <1>14, <3>1 DEF Children
  <2>3. QED  BY <1>8, <1>9, <1>10, <1>14, <2>1, <2>2 DEF Children, SessionOf
<1>22. Dispatches(s, ch2) /\ Leases(s, ch2, {})
  BY <1>8, <1>10 DEF Dispatches, Leases
<1>23. Freshness(s, ch2, gv)
  <2>1. SUFFICES ASSUME NEW n \in Node \ s.overtaken PROVE FreshNode(s, ch2, gv, n)
    BY DEF Freshness
  <2>2. FreshNode(r, ch, gv, n)  BY <1>9, <1>14, <2>1 DEF Freshness
  <2>3. Replies(s, n) = Replies(r, n) /\ (DepsDone(s, n) <=> DepsDone(r, n))
    BY <1>9 DEF Replies, DepsDone
  <2>4. r.log.att[n] > 0 => <<n, r.log.att[n]>> \in Child
    BY <1>7, Limits DEF LogRec, Attempts, Child, Attempt
  <2>5. n \notin s.recov /\ s.disp = {}  BY <1>8, <1>10
  <2>6. s.log.att[n] > 0 /\ ch2[<<n, s.log.att[n]>>] \in Started
          => ch[<<n, r.log.att[n]>>] \in Started
    BY <1>9, <1>13, <2>4
  <2>7. QED  BY <1>9, <1>19, <2>2, <2>3, <2>5, <2>6 DEF FreshNode
<1>24. Answers(s, gv)
  <2>1. \A n \in Node : s.st[n] # "running"  BY <1>8, <1>10
  <2>2. QED  BY <1>2, <1>9, <2>1, AnswersStay DEF Inv
<1>25. Inv(s, ch2, {}, gv, ev + 1)
  BY <1>15, <1>16, <1>17, <1>18, <1>20, <1>21, <1>22, <1>23, <1>24 DEF Inv, Core
<1>26. QED  BY <1>6, <1>25 DEF IInv

\* A new process takes the run from its log; what had begun goes on.
LEMMA RehydrateKeeps ==
  ASSUME IInv, Rehydrate
  PROVE  IInv'
<1>1. PICK r, ch, ck, gv, ev : r = run /\ ch = child /\ ck = checking /\ gv = given /\ ev = events
  OBVIOUS
<1>2. Inv(r, ch, ck, gv, ev) /\ r \in RunRec  BY <1>1 DEF IInv, Inv, Core, Types
<1>3. PICK broken : broken = {n \in Node : r.log.st[n] \in {"running", "cancelled"}}  OBVIOUS
<1>4. PICK f : f = [n \in Node |-> IF n \in broken THEN "pending" ELSE r.log.st[n]]  OBVIOUS
<1>5. PICK s : s = [r EXCEPT !.status = "running", !.st = f, !.att = r.log.att,
                             !.sess = r.log.sess, !.recov = broken,
                             !.repairs = r.log.repairs, !.reasks = r.log.reasks]
  OBVIOUS
<1>6. /\ child' = ch /\ checking' = ck /\ given' = gv /\ events' = ev /\ r.status = "gone"
      /\ run' = ScheduleReady(s)
  BY <1>1, <1>3, <1>4, <1>5 DEF Rehydrate
<1>7. r.log \in LogRec /\ r.log.st \in [Node -> NodeState] /\ f \in [Node -> NodeState]
      /\ r.log.att \in Attempts /\ r.log.sess \in Sessions
      /\ r.log.repairs \in Nat /\ r.log.reasks \in Nat
  BY <1>2, <1>4 DEF RunRec, LogRec, NodeState
<1>8. /\ s \in RunRec /\ s.status = "running" /\ s.st = f /\ s.att = r.log.att
      /\ s.sess = r.log.sess /\ s.recov = broken /\ s.repairs = r.log.repairs
  BY <1>2, <1>3, <1>5, <1>7 DEF RunRec, Status
<1>9. /\ s.judge = r.judge /\ s.sending = r.sending /\ s.inFlight = r.inFlight
      /\ s.held = r.held /\ s.disp = r.disp /\ s.out = r.out
      /\ s.overtaken = r.overtaken /\ s.adopted = r.adopted /\ s.log = r.log
  BY <1>2, <1>5 DEF RunRec
<1>10. Types(r, ch, ck, gv, ev) /\ Slots(r) /\ Stages(r) /\ Bounded(r, ev)
       /\ Children(r, ch, ck) /\ Freshness(r, ch, gv)
  BY <1>2 DEF Inv, Core
<1>11. /\ r.judge = "off" /\ ~r.sending /\ r.disp = {} /\ r.held \cap Node = {}
       /\ \A n \in Node : r.st[n] = "pending"
  BY <1>6, <1>10 DEF Stages
<1>12. \A n \in Node : /\ n \in broken => s.st[n] = "pending" /\ s.log.st[n] # "done"
                                          /\ r.log.st[n] # "pending"
                       /\ n \notin broken => s.st[n] = r.log.st[n] /\ s.st[n] # "running"
  BY <1>3, <1>4, <1>8, <1>9
<1>13. Types(s, ch, ck, gv, ev)  BY <1>8, <1>10 DEF Types
<1>14. Slots(s)
  <2>1. Running(s) = {} /\ Running(r) = {}  BY <1>11, <1>12 DEF Running
  <2>2. QED  BY <1>8, <1>9, <1>10, <2>1 DEF Slots
<1>15. Stages(s)  BY <1>8, <1>9, <1>11 DEF Stages
<1>16. Logged(s)
  <2>1. \A n \in Node : s.st[n] = "done" <=> s.log.st[n] = "done"  BY <1>9, <1>12
  <2>2. QED  BY <1>8, <1>9, <2>1 DEF Logged
<1>17. \A n \in Node : Begun(s, n) => Begun(r, n)  BY <1>8, <1>9, <1>12 DEF Begun
<1>18. Bounded(s, ev)
  <2>1. Rounds(s) = Rounds(r)  BY <1>9 DEF Rounds
  <2>2. QED  BY <1>6, <1>9, <1>10, <1>17, <2>1 DEF Bounded, MayRestart
<1>19. Children(s, ch, ck)  BY <1>8, <1>9, <1>10 DEF Children, SessionOf
<1>20. Dispatches(s, ch) /\ Leases(s, ch, ck)
  BY <1>9, <1>11 DEF Dispatches, Leases
<1>21. Freshness(s, ch, gv)
  <2>1. SUFFICES ASSUME NEW n \in Node \ s.overtaken PROVE FreshNode(s, ch, gv, n)
    BY DEF Freshness
  <2>2. FreshNode(r, ch, gv, n)  BY <1>9, <1>10, <2>1 DEF Freshness
  <2>3. n \in s.recov => s.log.st[n] # "done"  BY <1>8, <1>12
  <2>4. Replies(s, n) = Replies(r, n) /\ (DepsDone(s, n) <=> DepsDone(r, n))
    BY <1>9 DEF Replies, DepsDone
  <2>5. QED  BY <1>9, <1>11, <1>17, <2>2, <2>3, <2>4 DEF FreshNode
<1>22. Answers(s, gv)
  <2>1. \A n \in Node : s.st[n] # "running"  BY <1>12
  <2>2. QED  BY <1>2, <1>9, <2>1, AnswersStay DEF Inv
<1>23. Inv(s, ch, ck, gv, ev)
  BY <1>13, <1>14, <1>15, <1>16, <1>18, <1>19, <1>20, <1>21, <1>22 DEF Inv, Core
<1>24. Inv(ScheduleReady(s), ch, ck, gv, ev)  BY <1>23, ScheduleKeeps
<1>25. QED  BY <1>6, <1>24 DEF IInv

-----------------------------------------------------------------------------
(* The theorems.                                                           *)

LEMMA InitKeeps == Init => IInv
<1>1. SUFFICES ASSUME Init PROVE IInv  OBVIOUS
<1>2. PICK r, ch, gv, ev : r = Fresh /\ ch = child /\ gv = given /\ ev = events  OBVIOUS
<1>3. run = ScheduleReady(r) /\ checking = {}  BY <1>1, <1>2 DEF Init
<1>4. /\ r \in RunRec /\ r.log \in LogRec
      /\ r.status = "running" /\ r.judge = "off" /\ ~r.sending
      /\ r.inFlight = 0 /\ r.repairs = 0
      /\ r.recov = {} /\ r.held = {} /\ r.disp = {} /\ r.overtaken = {}
      /\ r.log.repairs = 0
      /\ \A n \in Node : /\ r.st[n] = "pending" /\ r.sess[n] = None /\ r.att[n] = 0
                         /\ r.out[n] = 0
                         /\ r.log.st[n] = "pending" /\ r.log.sess[n] = None
                         /\ r.log.att[n] = 0
  BY <1>2, FreshRun
<1>5. /\ ch \in [Child -> ChildState] /\ \A c \in Child : ch[c] = "none"
      /\ gv \in [Child -> Attempts] /\ ev = 0 /\ ev \in 0 .. MaxEvents
  BY <1>1, <1>2, Limits DEF Init, ChildState, Attempts
<1>6. Types(r, ch, {}, gv, ev)  BY <1>4, <1>5 DEF Types
<1>7. Slots(r)
  <2>1. Running(r) = {}  BY <1>4 DEF Running
  <2>2. QED  BY <1>4, <2>1, FS_EmptySet, Limits DEF Slots
<1>8. Stages(r) /\ Logged(r)  BY <1>4 DEF Stages, Logged
<1>9. Bounded(r, ev)
  <2>1. SUFFICES ASSUME NEW n \in Node
                 PROVE  /\ r.log.att[n] <= RetryLimit[n] + Rounds(r) + ev + 1
                        /\ r.log.att[n] <= RetryLimit[n] + Rounds(r) + ev
                        /\ ~Begun(r, n)
    BY DEF Bounded
  <2>2. RetryLimit[n] \in Nat /\ Rounds(r) \in Nat  BY <1>4, <1>5, RoomForAttempts, Limits
  <2>3. QED  BY <1>4, <1>5, <2>2 DEF Begun
<1>10. Children(r, ch, {})
  <2>1. \A n \in Node : \A a \in Attempt : ch[<<n, a>>] = "none"  BY <1>5 DEF Child
  <2>2. QED  BY <1>4, <2>1 DEF Children
<1>11. Dispatches(r, ch) /\ Leases(r, ch, {})  BY <1>4 DEF Dispatches, Leases
<1>12. Freshness(r, ch, gv)  BY <1>4 DEF Freshness, FreshNode, Begun
<1>13. Answers(r, gv)  BY <1>4 DEF Answers, Answered
<1>14. Inv(r, ch, {}, gv, ev)
  BY <1>6, <1>7, <1>8, <1>9, <1>10, <1>11, <1>12, <1>13 DEF Inv, Core
<1>15. Inv(ScheduleReady(r), ch, {}, gv, ev)  BY <1>14, ScheduleKeeps
<1>16. QED  BY <1>2, <1>3, <1>15 DEF IInv

LEMMA NextKeeps ==
  ASSUME ~LateFailures, IInv, [Next]_vars
  PROVE  IInv'
<1>1. CASE \E d \in run.disp : Prompt(d) \/ Spawn(d) \/ Board(d) \/ Send(d) \/ DispatchFails(d)
  <2>1. PICK d \in run.disp : Prompt(d) \/ Spawn(d) \/ Board(d) \/ Send(d) \/ DispatchFails(d)
    BY <1>1
  <2>2. CASE Prompt(d)  BY <2>2, PromptKeeps
  <2>3. CASE Spawn(d)  BY <2>3, SpawnKeeps
  <2>4. CASE Board(d)  BY <2>4, BoardKeeps
  <2>5. CASE Send(d)  BY <2>5, SendKeeps
  <2>6. CASE DispatchFails(d)  BY <2>6, DispatchFailsKeeps
  <2>7. QED  BY <2>1, <2>2, <2>3, <2>4, <2>5, <2>6
<1>2. CASE \E c \in Child : \/ \E reason \in Reason : ChildEnds(c, reason)
                            \/ OutcomeChecked(c) \/ UserTurn(c)
  BY <1>2, ChildEndsKeeps, OutcomeCheckedKeeps, UserTurnKeeps
<1>3. CASE \/ OrchestratorRefuses \/ OrchestratorReplies
           \/ VerdictClassified \/ RepairScoped
  BY <1>3, OrchestratorRefusesKeeps, OrchestratorRepliesKeeps, VerdictClassifiedKeeps,
     RepairScopedKeeps
<1>4. CASE Pause \/ Resume  BY <1>4, PauseKeeps, ResumeKeeps
<1>5. CASE Stop \/ Timeout  BY <1>5, StoppedKeeps DEF Stop, Timeout
<1>6. CASE ScopesReleased \/ OtherAcquires \/ OtherReleases
  BY <1>6, ScopesReleasedKeeps, OtherAcquiresKeeps, OtherReleasesKeeps
<1>7. CASE Crash \/ Rehydrate  BY <1>7, CrashKeeps, RehydrateKeeps
<1>8. CASE UNCHANGED vars  BY <1>8 DEF vars, IInv
<1>9. QED  BY <1>1, <1>2, <1>3, <1>4, <1>5, <1>6, <1>7, <1>8 DEF Next

LEMMA TaskInvariant == ~LateFailures => (Spec => []IInv)
<1>1. SUFFICES ASSUME ~LateFailures PROVE Spec => []IInv  OBVIOUS
<1>2. Init => IInv  BY InitKeeps
<1>3. IInv /\ [Next]_vars => IInv'  BY <1>1, NextKeeps
<1>4. QED  BY <1>2, <1>3, PTL DEF Spec

\* The type invariant: in particular attempts and slots stay within their
\* limits, through every retry, repair, pause and restart.
THEOREM TaskTypeOK == ~LateFailures => (Spec => []TypeOK)
<1>1. IInv => TypeOK
  <2>1. SUFFICES ASSUME IInv PROVE TypeOK  OBVIOUS
  <2>2. PICK r, ch, ck : r = run /\ ch = child /\ ck = checking  OBVIOUS
  <2>3. r \in RunRec /\ ch \in [Child -> ChildState] /\ ck \in SUBSET Child /\ Slots(r)
    BY <2>1, <2>2 DEF IInv, Inv, Core, Types
  <2>4. /\ r.status \in Status /\ r.st \in [Node -> NodeState] /\ r.att \in Attempts
        /\ r.sess \in Sessions /\ r.recov \subseteq Node /\ r.held \subseteq Node \cup {Other}
        /\ r.judge \in Judge /\ r.out \in Attempts
    BY <2>3 DEF RunRec
  <2>5. r.inFlight \in 0 .. MaxParallel
    <3>1. r.inFlight \in Nat  BY <2>3 DEF RunRec
    <3>2. QED  BY <2>3, <3>1, Limits DEF Slots
  <2>6. QED
    BY <2>2, <2>3, <2>4, <2>5 DEF TypeOK, Status, NodeState, Attempts, Sessions, Judge, ChildState
<1>2. QED  BY <1>1, TaskInvariant, PTL

\* The slots of a live run are those of its running nodes (TaskRunner.ts:568).
THEOREM TaskSlotsAreTrue == ~LateFailures => (Spec => []SlotsAreTrue)
<1>1. IInv => SlotsAreTrue
  BY DEF IInv, Inv, Core, Slots, SlotsAreTrue, Running, AllDone
<1>2. QED  BY <1>1, TaskInvariant, PTL

\* No file scope is held that nothing is to give back (TaskRunner.ts:642), but
\* those of nodes that the refusal of an earlier question left running.
THEOREM TaskLeaseHasWorker == ~LateFailures => (Spec => []LeaseHasWorker)
<1>1. IInv => LeaseHasWorker
  <2>1. SUFFICES ASSUME IInv, NEW n \in run.held \cap Node
                 PROVE  \/ \E d \in run.disp : d.n = n
                        \/ /\ run.sess[n] # None
                           /\ child[run.sess[n]] = "busy" \/ run.sess[n] \in checking
                        \/ Abandoned(n)
    BY DEF LeaseHasWorker
  <2>2. OnItsWay(run, n) \/ AtWork(run, child, checking, n) \/ Lost(run, n)
    BY <2>1 DEF IInv, Inv, Leases, Served
  <2>3. QED  BY <2>2 DEF OnItsWay, AtWork, Lost, Abandoned
<1>2. QED  BY <1>1, TaskInvariant, PTL

\* What a verdict judges fits together (TaskRunner.ts:1012), for every node that
\* neither a turn of the user settled ahead of its dispatch nor a restart let
\* take over the child of an older attempt unasked.
THEOREM TaskVerdictSeesFreshReplies == ~LateFailures => (Spec => []VerdictSeesFreshReplies)
<1>1. IInv => VerdictSeesFreshReplies
  <2>1. SUFFICES ASSUME IInv, run.status \in {"verifying", "completed"},
                        NEW n \in Node \ (run.overtaken \cup run.adopted),
                        NEW d \in Deps[n]
                 PROVE  given[<<n, run.out[n]>>][d] = run.out[d]
    BY DEF VerdictSeesFreshReplies
  <2>2. PICK r, ch, ck, gv, ev : r = run /\ ch = child /\ ck = checking /\ gv = given /\ ev = events
    OBVIOUS
  <2>3. Inv(r, ch, ck, gv, ev)  BY <2>1, <2>2 DEF IInv
  <2>4. r.st[n] = "done" /\ r.log.st[n] = "done"
    BY <2>1, <2>2, <2>3 DEF Inv, Core, Slots, AllDone, Logged
  <2>5. gv[<<n, r.out[n]>>] = Replies(r, n)
    BY <2>1, <2>2, <2>3, <2>4 DEF Inv, Answers, Answered
  <2>6. d \in Node  BY Limits
  <2>7. Replies(r, n)[d] = r.out[d]  BY <2>6 DEF Replies
  <2>8. QED  BY <2>2, <2>5, <2>7
<1>2. QED  BY <1>1, TaskInvariant, PTL
=============================================================================
