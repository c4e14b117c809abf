SPECIFICATION Spec
CONSTANTS
  DNS_MAX_LEN = 256
  NAME_SIZE = 128
  RX_SIZE = 127
  Queries <- Flagged
  Junk <- NoDatagrams
  SoftApIp <- PortalIp
  WildIp <- StackBytes
  NoQuery = NoQuery
INVARIANT OpcodeDecides
\* Without a socket the task ends.
CHECK_DEADLOCK FALSE
