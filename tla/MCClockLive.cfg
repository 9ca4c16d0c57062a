\* Server lists, and does apply() end?  NTP and local time, two custom lists and the
\* automatic one; start jobs may wait in systemd's queue.
CONSTANTS
  portA = portA
  portB = portB
  NtpUnits = {ntp}
  IrigUnits = {}
  LegacyUnits = {}
  PtpTemplates = {}
  Ports = {}
  Interfaces = {}
  Servers = {automatic, lab, pool}
  NoServers = automatic
  NoUnit = NoUnit
  NoPort = NoPort
  QueuedStarts = TRUE
SPECIFICATION FairSpec
INVARIANT ServersInUse
PROPERTY ApplyEnds
