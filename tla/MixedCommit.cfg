SPECIFICATION Spec
CONSTANTS
  a = a
  b = b
  v1 = v1
  v2 = v2
  Servers = {a, b}
  Versions = {v1, v2}
  Broken = Broken
  Absent = Absent
  Unknown = Unknown
  Trees <- FewTrees
  QueueSize = 1
  MaxCommits = 3
  MaxFailures = 0
  MaxRestarts = 0
CHECK_DEADLOCK FALSE
PROPERTY MixedCommitApplied
