\* One run with two tools, for one statement of the design document.
SPECIFICATION Spec
CONSTANTS
  r1 = r1  r2 = r2  m1 = m1  m2 = m2  t1 = t1  t2 = t2
  Run = {r1}
  Model = {}
  Tool = {t1, t2}
  Action = {a1, a2}
  Result = {ok}
  RunOf <- OneRunOf
  Lineage <- OneSession
  Hidden = {}
  AgentTurn = {r1}
  Auxiliary = {}
  Safe = {a2}
  None = None
PROPERTY
  StartupReducesEveryRun
