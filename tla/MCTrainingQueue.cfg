SPECIFICATION FairSpec
CONSTANTS
  Tenants = {t1}
  Workers = {w1, w2}
  NoTenant = NoTenant
  NoWorker = NoWorker
  MaxJobs = 2
  MaxAttempts = 2
  JobLimit = 2
  VersionLimit = 1
  MaxDisruptions = 1
INVARIANTS
  VersionIffSucceeded
  RetainedHasDirectory
  LimitsHold
  OneTrainerWhileGuarded
PROPERTIES
  KeepsContract
  Settles
