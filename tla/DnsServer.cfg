SPECIFICATION FairSpec
CONSTANTS
  DNS_MAX_LEN = 256
  NAME_SIZE = 128
  RX_SIZE = 127
  Queries <- Mixed
  Junk <- Datagrams
  SoftApIp <- PortalIp
  WildIp <- StackBytes
  NoQuery = NoQuery
INVARIANTS TypeOK UsualQueryAnswered NoAddressUnasked
PROPERTIES KeepsListening ForeignCloseNeedsRecvError
\* Without a socket the task ends.
CHECK_DEADLOCK FALSE
