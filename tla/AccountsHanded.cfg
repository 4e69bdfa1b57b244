SPECIFICATION Spec
CONSTANTS
  op = op  bank = bank  e1 = e1  e2 = e2  adm = adm
  Org = {op}
  User = {e1, u3}
  Token = {t1, t2}
  Request = {r1, r2}
  FirstOrgs <- Operator
  FirstUsers <- EngineerFirst
  MaxEvidence = 0  MaxPasswords = 2  MaxRestarts = 0
SYMMETRY Interchangeable
INVARIANT
  HandedOutMustChange
CHECK_DEADLOCK FALSE
