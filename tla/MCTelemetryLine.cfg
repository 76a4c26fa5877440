SPECIFICATION TelSpec
CONSTANTS
  MaxConns = 2
  MaxMsgs = 3
  MaxRecv = 6
  SockBuf = 8
INVARIANTS
  InputIsLine
CHECK_DEADLOCK FALSE
