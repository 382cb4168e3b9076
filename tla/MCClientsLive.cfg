SPECIFICATION FairSpec
CONSTANTS
  a = a
  b = b
  Conns = {a, b}
  Fds = {3}
  MaxClients = 1
  MaxAccepts = 1
  Units = 2
  Cap = 1
  Window = 2
  MaxReq = 2
  MaxFailures = 1
  CronMin = 5
PROPERTIES
  AnsweredOrClosed
  CloseAsapIsFreed
  ConnectionDecided
