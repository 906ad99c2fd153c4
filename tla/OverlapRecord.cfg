SPECIFICATION Spec
CONSTANTS
  d1 = d1
  d2 = d2
  d3 = d3
  i1 = i1
  i2 = i2
  s1 = s1
  o1 = o1
  Servers = {s1}
  Ported = {s1}
  Images = {i1, i2}
  LocalTags <- AllTags
  Deploys = {d1, d2}
  Observers = {}
  Faults = {}
  Triggers = {"jenkins"}
  MaxRestarts = 0
  NoServer = NoServer
  NoImage = NoImage
  NoDeploy = NoDeploy
CHECK_DEADLOCK FALSE
INVARIANT QuietRecordTruthful
