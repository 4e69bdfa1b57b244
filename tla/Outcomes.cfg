SPECIFICATION Spec
CONSTANTS
  v1 = v1  v2 = v2  v3 = v3  o1 = o1
  Verif = {v1, v2, v3}
  Report = {f1, f2}
  Org = {o1}
  Client = {t1, t2}
  Outcome = {"accepted"}
  Distance = {200}
  Threshold = {300}
  FirstRows <- TwoRows
  Ceiling = 400  Margin = 50
  PageSize = 1  QueueLimit = 2  BucketWidth = 500  BucketCount = 2
  MaxClock = 4  MaxRestarts = 1
SYMMETRY Symmetry
INVARIANTS
  WalkShowsAll PanelAddsUp ReviewTold
PROPERTIES
  StandsOnce
