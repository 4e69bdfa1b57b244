SPECIFICATION Spec
CONSTANTS
  op = op  bank = bank  e1 = e1  e2 = e2  adm = adm
  Org = {op, bank}
  User = {e1, adm, u3}
  Token = {t1, t2}
  Request = {r1}
  FirstOrgs <- BankToo
  FirstUsers <- BankFirst
  MaxEvidence = 0  MaxPasswords = 2  MaxRestarts = 0
SYMMETRY Interchangeable
INVARIANTS
  HandedOutMustChange
PROPERTY
  ProvedClear
