-------------------------- MODULE MCDurableKernel --------------------------
(***************************************************************************)
(* The constants the runs of DurableKernel take: one run that owns every   *)
(* effect, or two runs of one session that may recover from each other.    *)
(***************************************************************************)
EXTENDS DurableKernel, TLC

CONSTANTS r1, r2,  \* runs
          m1, m2,  \* model attempts
          t1, t2   \* tool operations

\* Every effect belongs to the only run.
OneRunOf == [e \in Model \cup Tool |-> r1]

\* r1 owns the first attempt and the first tool operation, r2 the others.
TwoRunOf == [e \in Model \cup Tool |-> IF e \in {m1, t1} THEN r1 ELSE r2]

\* With one run the tools are interchangeable.
Interchangeable == Permutations({t1, t2})

\* One session: every run recovers from every other.
OneSession == [r \in Run |-> Run]
=============================================================================
