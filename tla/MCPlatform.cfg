\* Two steps of the kernel; texts of nine fields, six-bit addresses; two calls of network();
\* three boots of the storage.
CONSTANTS
  Slots <- MCSlots
  Devices <- MCDevices
  Driver <- MCDriver
  Node <- MCNode
  Nodeless <- MCNodeless
  Selected = {1, 2}
  Bound <- MCBound
  Files <- MCFiles
  Value <- MCValue
  Bad <- MCBad
  MaxMoves = 2
  MaxDevices = 2
  MaxChannels = 5
  MaxFields <- MCMaxFields
  Width = 6
  FirstBits = 3
  Loopback = 3
  Multicast = 7
  Managed <- MCManaged
  Size = 2
  Proposals <- MCProposals
  MaxCalls = 2
  Versions = {1, 2}
  MaxUses = 2
  MaxBoots = 3
SPECIFICATION Spec
INVARIANTS
  PlatformTypeOK HonestSnapshot NeverForeign RulesExact Routed PreferredWins Recoverable CopiesWhole
PROPERTIES Erasure
CHECK_DEADLOCK FALSE
