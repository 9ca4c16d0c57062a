\* A start job that outlives the apply() that submitted it.
CONSTANTS
  portA = portA
  portB = portB
  NtpUnits = {ntp}
  IrigUnits = {}
  LegacyUnits = {}
  PtpTemplates = {ptp4l}
  Ports = {portA, portB}
  Interfaces = {portA, portB}
  Servers = {automatic}
  NoServers = automatic
  NoUnit = NoUnit
  NoPort = NoPort
  QueuedStarts = TRUE
SPECIFICATION Spec
INVARIANT Exclusive
