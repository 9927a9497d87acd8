----------------------------- MODULE DrainLoop -----------------------------
(***************************************************************************)
(* The drain of the tool scheduler statement by statement, as a reference  *)
(* for the set of calls ToolScheduler says one drain starts: a loop over   *)
(* the queue that splices it while it runs, and calls itself when it meets *)
(* a cancelled call.                                                       *)
(***************************************************************************)
EXTENDS ToolScheduler, FiniteSets

\* The queue and the running calls as the loop has left them, its variable, and
\* the variables of the loops that wait for it to return.
LoopState == [queue : Seq(Call), running : SUBSET Call,
              index : Nat \ {0}, outer : Seq(Nat \ {0})]

Over(s) == s.index > Len(s.queue)
Ended(s) == Over(s) /\ s.outer = <<>>

Blocked(s, job, ready) ==
  \/ job \notin ready
  \/ \E active \in s.running : Conflict(active, job)
  \/ \E i \in 1 .. s.index - 1 : Conflict(s.queue[i], job)

\* Seeded fault: the loop goes on behind the place of the call it has started,
\* past the one that has moved up.
VisitSkipping(s, ready, stopped) ==
  LET job == s.queue[s.index]
      rest == RemoveAt(s.queue, s.index)
  IN IF TurnOf[job] \in stopped
     THEN [s EXCEPT !.queue = rest, !.index = 1, !.outer = <<s.index>> \o @]
     ELSE IF Blocked(s, job, ready)
     THEN [s EXCEPT !.index = @ + 1]
     ELSE [s EXCEPT !.queue = rest, !.running = @ \cup {job}, !.index = @ + 1]

\* What the loop does with the call it is at.
Visit(s, ready, stopped) ==
  LET job == s.queue[s.index]
      rest == RemoveAt(s.queue, s.index)
  IN IF TurnOf[job] \in stopped
     THEN [s EXCEPT !.queue = rest, !.index = 1, !.outer = <<s.index>> \o @]
     ELSE IF Blocked(s, job, ready)
     THEN [s EXCEPT !.index = @ + 1]
     ELSE [s EXCEPT !.queue = rest, !.running = @ \cup {job}]

\* A loop that is over returns to the one that called it.
Iterate(s, ready, stopped) ==
  IF ~Over(s) THEN Visit(s, ready, stopped)
  ELSE IF s.outer # <<>>
  THEN [s EXCEPT !.index = Head(s.outer), !.outer = Tail(s.outer)]
  ELSE s

\* No queue of n calls takes more iterations.
MaxIterations(n) == n * (2 * n + 1)

Drained(queue, active, ready, stopped) ==
  LET last == MaxIterations(Len(queue))
      after[n \in 0 .. last] ==
        IF n = 0
        THEN [queue |-> queue, running |-> active, index |-> 1, outer |-> <<>>]
        ELSE Iterate(after[n - 1], ready, stopped)
  IN after[last]

\* The calls of S in the order in which they were queued.
Lists(queue, S) ==
  /\ Range(queue) = S
  /\ \A i, j \in DOMAIN queue : i < j => arrival[queue[i]] < arrival[queue[j]]

InOrder == CHOOSE queue \in [1 .. Cardinality(waiting) -> waiting] :
             Lists(queue, waiting)

\* From every queue that occurs, whichever running calls end, preflights pass
\* and turns stop before the drain, the loop ends, has started exactly the calls
\* Startable names and leaves the others in the queue, in their order.
DrainStartsStartable ==
  LET queue == InOrder IN
  \A active \in SUBSET running, ready \in SUBSET waiting, stopped \in SUBSET Turn :
    LET live == {c \in waiting : TurnOf[c] \notin stopped}
        started == Startable(live, active, arrival, ready)
        s == Drained(queue, active, ready, stopped)
    IN
    /\ Ended(s)
    /\ s.running = active \cup started
    /\ Lists(s.queue, live \ started)
=============================================================================
