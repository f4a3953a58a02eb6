CONSTANTS
  Null = Null
  Absent = Absent
  None = None
  SessionIds = {1, 2, 3}
  Subjects = {u, v}
  Devices = {d1, d2}
  Stores = {a, b}
  Instants = {1, 2}
  Ttl = 1
  MaxPerSubject = 2
  MaxRevoked = 1
  Keys = {k1, k2, k3}
  Callers = {c1, c2}
  Moments = {1, 2, 3}
  Window = 1
  Limit = 1
  MaxKeys = 2
  Sessions = {s1, s2}
  Approvals = {a1}
  Requests = {1, 2, 3, 4, 5}
  MaxAttempts = 2
  Scripts <- MCScripts
  Flows = {1, 2}
  Device = d1
  MaxPending = 1
  Readings = {1}
  SignInScripts <- MCSignInScripts
SPECIFICATION OperatorsSpec
INVARIANTS
  OneSessionPerDevice
