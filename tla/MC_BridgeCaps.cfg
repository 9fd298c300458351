SPECIFICATION Spec
CONSTANTS
  c1 = c1
  c2 = c2
  c3 = c3
  Conn <- Caps3
  Ip <- Ip3
  Configs <- Configs3
INVARIANT CapsAlways
CHECK_DEADLOCK FALSE
