SPECIFICATION Spec
CONSTANTS
  op = op  bank = bank  e1 = e1  e2 = e2  adm = adm
  Org = {op, bank}
  User = {e1, u3}
  Token = {t1}
  Request = {r1, r2}
  FirstOrgs <- Operator
  FirstUsers <- EngineerFirst
  MaxEvidence = 1  MaxPasswords = 1  MaxRestarts = 0
SYMMETRY Interchangeable
INVARIANTS
  RolesFit EvidenceKeepsItsOwner
