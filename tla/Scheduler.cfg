\* A script with a nested write, a read of the same directory beside it, and a
\* shell command in the next turn.
SPECIFICATION FairSpec
CONSTANTS
  t1 = t1  t2 = t2  c1 = c1  c2 = c2  c3 = c3  c4 = c4
  Call = {c1, c2, c3, c4}
  Turn = {t1, t2}
  Tool <- MixedTools
  TurnOf <- LastTurnApart
  ParentOf <- ScriptParent
  None = None
INVARIANTS
  TypeOK ConflictsAreExclusive WaitsForACause DrainStartsStartable
PROPERTIES
  NoOvertaking StoppedCallsSettle AnsweredCallsSettle
