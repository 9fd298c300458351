SPECIFICATION Spec
CONSTANTS
  c1 = c1
  c2 = c2
  c3 = c3
  Conn <- MCConn
  Ip <- MCIp
  Configs <- MCConfigs
INVARIANTS
  TypeOK
  CountersExact
  EveryChildCounted
  NoGhostSession
  LimitsHold
  InputCapped
  OnlyCapturesCount
PROPERTIES
  LateTimerHarmless
  SessionsEnd
CHECK_DEADLOCK FALSE
