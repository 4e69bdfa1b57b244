SPECIFICATION Spec
CONSTANTS
  a1 = a1  a2 = a2  b1 = b1
  None = None
  Org = {o1, o2}
  Nid = {n1}
  Customer = {c1, c2}
  Enrolment = {e1, e2}
  Request = {r1, r2}
  Crop <- MCCrop
  Photo <- MCPhoto
  Hand = {"alice", "bob"}
  HandOf <- MCHandOf
  MinRefs = 2  MaxRefs = 2  MinAppendRefs = 1
  MaxStagedCrops = 2
  MaxOrgRefs = 2  MaxCustomerRefs = 3
  MaxRestarts = 1  MaxDamaged = 1
SYMMETRY Interchangeable
INVARIANT StoredOnce
