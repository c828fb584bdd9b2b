SPECIFICATION FifoSpec
CONSTANTS
  user = user
  consumer = consumer
  Senders = {user}
  Receivers = {consumer}
  NElem = 3
  FreeFunc = TRUE
  MaxSent = 99
  Options <- MCOptions
  MaxPackets = 5
  MaxFailures = 3
INVARIANTS WrittenInOrder NothingLost RestartsAtKey TimeshiftKept
PROPERTIES CallsReturn
CHECK_DEADLOCK FALSE
