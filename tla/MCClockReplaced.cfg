\* The custom list after an interrupted change.
CONSTANTS
  portA = portA
  portB = portB
  NtpUnits = {ntp}
  IrigUnits = {}
  LegacyUnits = {}
  PtpTemplates = {ptp4l}
  Ports = {portA}
  Interfaces = {portA}
  Servers = {automatic, pool}
  NoServers = automatic
  NoUnit = NoUnit
  NoPort = NoPort
  QueuedStarts = FALSE
SPECIFICATION Spec
INVARIANT ServersReplaced
