SPECIFICATION Spec
CONSTANTS
  Archive <- ArchiveFiles  Bhsig <- BhsigFiles  Chisig <- ChisigFiles
  ChineseOffset = 2  BengaliOffset = 4  HindiOffset = 6
  Shuffle <- Shuffled  Listing <- TwoOrders
  Loss = {1, 2}  Infinite = 1000000
  ResNetEpochs = 2  ShortEpochs = 1  CnnEpochs = 1  Patience = 1
  MaxChanges = 2  MaxRuns = 2
  o1 = o1  u1 = u1  k1 = k1  s1 = s1  v1 = v1  f1 = f1  c1 = c1  c2 = c2
  bankOrg = bankOrg  bankUser = bankUser
  Record = {o1, u1, c1, c2, k1, s1, v1, f1, bankOrg, bankUser}
  Kind <- RowKind  Parents <- RowParents  Clash <- RowClash
  FirstOrg = bankOrg  FirstUser = bankUser
  MaxWrites = 1
  r1 = r1  r2 = r2  q1 = q1  d1 = d1  d2 = d2
  Reference = {r1, r2}  Query = {q1}  Customer = {d1, d2}
  Owner <- ImageOwner  Bytes <- ImageBytes
  MaxKeys = 3  MaxPrep = 2
  Ceiling = 400  Margin = 50
  Mark <- PageMarks  PageWidth = 1000  PageHeight = 600
  Point = {0, 100, 300}  MaxReferences = 3  MaxRegions = 2
CHECK_DEADLOCK FALSE
INVARIANTS
  TestUnseen BestKept FailureExplained CopyComplete CopyRemains AllRebuilt
  PickStands ScoresAgree OneSelfTestPasses
