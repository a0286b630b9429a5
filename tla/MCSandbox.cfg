CONSTANTS
  c1 = c1
  c2 = c2
  c3 = c3
  c4 = c4
  api = api
  worker = worker
  Caller = {c1, c2, c3, c4}
  Process = {api, worker}
  Home <- MCHome
  Redis = {c1, c2}
  Keeper = {c1}
  MaxBorn = 2
  MaxCalls = 2
  MaxFaults = 1
  NoRow = NoRow
  Free = Free
  Lost = Lost
SYMMETRY Symm
SPECIFICATION Spec
INVARIANTS TypeOK OneSandbox Heals LockIsReleased
