\* Two runs of one session with the same unsafe action; r2 is hidden and
\* has the only attempt. Restarts at every point.
SPECIFICATION Spec
CONSTANTS
  r1 = r1  r2 = r2  m1 = m1  m2 = m2  t1 = t1  t2 = t2
  Run = {r1, r2}
  Model = {m2}
  Tool = {t1, t2}
  Action = {a1, a2}
  Result = {ok}
  RunOf <- TwoRunOf
  Lineage <- OneSession
  Hidden = {r2}
  AgentTurn = {r1}
  Auxiliary = {}
  Safe = {a2}
  None = None
INVARIANTS
  UnknownEffectKeepsRun NoUnsafeTwins
PROPERTIES
  HiddenReplyNeedsLostRow
