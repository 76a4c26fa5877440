SPECIFICATION TelSpec
CONSTANTS
  MaxConns = 2
  MaxMsgs = 3
  MaxRecv = 6
  SockBuf = 8
PROPERTIES
  ExitStopsDaq
CHECK_DEADLOCK FALSE
