SPECIFICATION SocketsFairSpec
CONSTANTS
  Conn = {c1, c2}
  Line = {r1}
  None = None
INVARIANTS MapsAgree
 
CHECK_DEADLOCK FALSE
