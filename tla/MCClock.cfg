\* Every mode, two PTP ports, a legacy unit; any number of failures, timeouts, crashes, boots.
CONSTANTS
  portA = portA
  portB = portB
  NtpUnits = {ntp}
  IrigUnits = {irig}
  LegacyUnits = {legacy}
  PtpTemplates = {ptp4l}
  Ports = {portA, portB, lan}
  Interfaces = {portA, portB}
  Servers = {automatic}
  NoServers = automatic
  NoUnit = NoUnit
  NoPort = NoPort
  QueuedStarts = FALSE
SPECIFICATION Spec
SYMMETRY Symmetry
INVARIANTS TypeOK Exclusive ModeHolds
