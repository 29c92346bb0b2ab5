SPECIFICATION StackSpec
CONSTANTS
  Parts = {"nic", "tor", "tcp", "proto"}
  E1000_NUM_TX_DESC = 3
  E1000_NUM_RX_DESC = 3
  MaxSent = 5
  MaxReceived = 4
  WIDTH = 4
  RotateTicks = 4
  PadTicks = 3
  BoostTicks = 1
  CircuitIds = {1, 2}
  MaxTicks = 9
  MaxCells = 2
  MaxRekeys = 2
  MAX_TCP_SOCKETS = 2
  FirstPort = 2
  LastPort = 4
  SEQ = 5
  ISNs = {3}
  Lengths = {0, 2, 3}
  NET_TCP_PAYLOAD_MAX = 2
  Remotes = {"a"}
  MaxCreates = 3
  MaxBuilt = 4
  MaxBytes = 5
  BYTE = 4
  HEADER = 2
  Pseudo <- MCPseudo
  NET_PAYLOAD_MAX = 3
INVARIANTS
  NicInv TorInv TcpInv ChecksumVerifies
PROPERTIES
  RotationSpaced RingDrains
CHECK_DEADLOCK FALSE
