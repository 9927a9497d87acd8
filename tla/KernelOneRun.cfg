\* One run: two parallel tools, an ordinary and an auxiliary model attempt, two
\* payloads, every order of T1, T2, reconciliation, settlement and restart.
SPECIFICATION Spec
CONSTANTS
  r1 = r1  r2 = r2  m1 = m1  m2 = m2  t1 = t1  t2 = t2
  Run = {r1}
  Model = {m1, m2}
  Tool = {t1, t2}
  Action = {a1, a2}
  Result = {ok, failed}
  RunOf <- OneRunOf
  Lineage <- OneSession
  Hidden = {}
  AgentTurn = {r1}
  Auxiliary = {m2}
  Safe = {a2}
  None = None
SYMMETRY Interchangeable
INVARIANTS
  TypeOK AggregateMatches ParkedIsDecidable
PROPERTIES
  ImplementsEffectLedger
