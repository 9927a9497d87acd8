----------------------------- MODULE PushChannel -----------------------------
(***************************************************************************)
(* What the push transport promises one window: it is given the events of  *)
(* its workspace one after the other, each once, or it is told to reload   *)
(* and is then given the events that follow what the reload covers. It is  *)
(* never given an event twice and misses none without being told.          *)
(***************************************************************************)
EXTENDS Naturals

VARIABLES pushed,  \* events pushed to the workspace so far
          seen,    \* the window's state accounts for events 1 .. seen
          told     \* times the window was told to load its state anew

vars == <<pushed, seen, told>>

Init == pushed = 0 /\ seen = 0 /\ told = 0

Push == pushed' = pushed + 1 /\ UNCHANGED <<seen, told>>

Deliver == seen < pushed /\ seen' = seen + 1 /\ UNCHANGED <<pushed, told>>

Reload == /\ told' = told + 1
          /\ seen' \in seen .. pushed
          /\ UNCHANGED pushed

Next == Push \/ Deliver \/ Reload

Spec == Init /\ [][Next]_vars
=============================================================================
