SPECIFICATION Spec
CONSTANTS
  i1 = i1  r1 = r1  r2 = r2
  Instances = {i1}
  Runs = {r1, r2}
  InstanceOf <- OwnerOf
  Watched = {r1, r2}
  Parked = {r2}
  Ungradable = {r2}
  Reported = {r1}
  Rings = {"L1"}
  Managers = {m1}
  MaxFaults = 1
INVARIANTS MaturesOnce RowsAreTheFold ResumeFollowsJournal
PROPERTIES EveryWatchMatures
CHECK_DEADLOCK FALSE
