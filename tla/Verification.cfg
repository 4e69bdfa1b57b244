SPECIFICATION FairSpec
CONSTANTS
  Customer = {c1}
  Verif = {v1}
  Dek = {d1, d2}
  Thread = {t1, t2}
  Retention = 1  Interval = 2
  MaxDestroyed = 1  MaxRestarts = 1
INVARIANTS
  TypeOK ImagesOpen
PROPERTIES
  VerdictKept ImplementsEvidence EveryVerdictLands RetentionKept
