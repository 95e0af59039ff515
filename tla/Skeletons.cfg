SPECIFICATION FairSpec
CONSTANTS
  Name = {nas, panel}
  Snapshots = {nas}
  Artifact = {x}
  Download = {d1}
  Key = {k1, k2}
  MaxJobs = 2
  MaxJobHistory = 1
  MaxRestarts = 1
  None = None
INVARIANTS RunningReported ListedIsWhole DoneMeansListed
PROPERTIES EveryTargetTold  JobEnds
CHECK_DEADLOCK FALSE
