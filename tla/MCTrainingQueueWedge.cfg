SPECIFICATION FairSpec
CONSTANTS
  Tenants = {t1}
  Workers = {w1}
  NoTenant = NoTenant
  NoWorker = NoWorker
  MaxJobs = 1
  MaxAttempts = 2
  JobLimit = 1
  VersionLimit = 1
  MaxDisruptions = 1
PROPERTIES
  AcceptedWorkEnds
