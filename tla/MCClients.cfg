SPECIFICATION Spec
CONSTANTS
  a = a
  b = b
  Conns = {a, b}
  Fds = {3}
  MaxClients = 2
  MaxAccepts = 2
  Units = 2
  Cap = 1
  Window = 2
  MaxReq = 3
  MaxFailures = 1
  CronMin = 5
INVARIANTS
  StreamIntegrity
  NoStrandedReply
  NoIdleWriter
SYMMETRY Symmetry
