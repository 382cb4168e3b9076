SPECIFICATION Spec
CONSTANTS
  a = a
  b = b
  c = c
  Conns = {a, b, c}
  Fds = {3, 4, 5}
  MaxClients = 2
  MaxAccepts = 2
  Units = 2
  Cap = 1
  Window = 1
  MaxReq = 1
  MaxFailures = 1
  CronMin = 5
INVARIANTS
  TypeOK
  NoDanglingReference
  FlagsMatchLists
  EventReachesItsClient
  OverLimitIsRefused
SYMMETRY Symmetry
