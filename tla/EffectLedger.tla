---------------------------- MODULE EffectLedger ----------------------------
(***************************************************************************)
(* What the durable runtime promises about effects on the outside world,   *)
(* whatever is lost, repeated, late or restarted:                          *)
(*   - a run is opened once and closed once, and never reopened;           *)
(*   - an effect is dispatched at most once, and only under an open run;   *)
(*   - an effect is answered at most once, after its dispatch, and the     *)
(*     answer never changes;                                               *)
(*   - a run closes only when every bound effect of it has an answer.      *)
(* Tool effects are bound to their run.  A model attempt is not: its       *)
(* answer may be given up, and may still arrive after the run is closed.   *)
(***************************************************************************)
CONSTANTS Run, Effect, Bound, Owner, Answer, None

VARIABLES
  life,    \* per run: fresh, open or closed
  stage,   \* per effect: idle, dispatched or settled
  answer   \* per effect: its answer, None until settled

vars == <<life, stage, answer>>

Init ==
  /\ life = [r \in Run |-> "fresh"]
  /\ stage = [e \in Effect |-> "idle"]
  /\ answer = [e \in Effect |-> None]

OpenRun(r) ==
  /\ life[r] = "fresh"
  /\ life' = [life EXCEPT ![r] = "open"]
  /\ UNCHANGED <<stage, answer>>

CloseRun(r) ==
  /\ life[r] = "open"
  /\ \A e \in Bound : Owner[e] = r => stage[e] # "dispatched"
  /\ life' = [life EXCEPT ![r] = "closed"]
  /\ UNCHANGED <<stage, answer>>

Dispatch(e) ==
  /\ life[Owner[e]] = "open" /\ stage[e] = "idle"
  /\ stage' = [stage EXCEPT ![e] = "dispatched"]
  /\ UNCHANGED <<life, answer>>

Settle(e, a) ==
  /\ stage[e] = "dispatched"
  /\ e \in Bound => life[Owner[e]] = "open"
  /\ stage' = [stage EXCEPT ![e] = "settled"]
  /\ answer' = [answer EXCEPT ![e] = a]
  /\ UNCHANGED life

Next ==
  \/ \E r \in Run : OpenRun(r) \/ CloseRun(r)
  \/ \E e \in Effect : Dispatch(e) \/ \E a \in Answer : Settle(e, a)

Spec == Init /\ [][Next]_vars
=============================================================================
