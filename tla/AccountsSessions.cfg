SPECIFICATION Spec
CONSTANTS
  op = op  bank = bank  e1 = e1  e2 = e2  adm = adm
  Org = {op}
  User = {e1, e2}
  Token = {t1, t2}
  Request = {r1, r2}
  FirstOrgs <- Operator
  FirstUsers <- EngineersFirst
  MaxEvidence = 0  MaxPasswords = 1  MaxRestarts = 1
SYMMETRY EngineersAlike
INVARIANTS
  TypeOK ShutOut EngineerRemains
CHECK_DEADLOCK FALSE
