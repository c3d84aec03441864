CONSTANTS
  s1 = s1
  s2 = s2
  s3 = s3
  s4 = s4
  p1 = p1
  p2 = p2
  p3 = p3
  NoLock = NoLock
  Sessions = {s1, s2, s3, s4}
  Pids = {p1, p2, p3}
  Owners = {"merge:a", "merge:b"}
  Pid <- MCPid
  Owner <- MCOwner
  Forced = {s2, s4}
SPECIFICATION MCSpec
INVARIANTS
  ExclusiveUnlessExcused
  NoOrphanLock
