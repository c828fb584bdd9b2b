CONSTANTS
  s1 = s1
  s2 = s2
  s3 = s3
  r1 = r1
  r2 = r2
  Senders <- MCSenders
  Receivers <- MCReceivers
  Workload <- MCWorkload
  NElem = 2
  FreeFunc = TRUE
  MaxSent = 5
SPECIFICATION ClientsSpec
INVARIANTS ReceiversOnTheWay SendersOnTheWay
PROPERTIES AllJoin
CHECK_DEADLOCK FALSE
