SPECIFICATION FairSpec
CONSTANTS
  a = a
  b = b
  c = c
  r0 = r0
  r1 = r1
  Direct = Direct
  ETHERNET_BROADCAST = ETHERNET_BROADCAST
  ARP_CACHE_TIMEOUT = 2
  ARP_REQUEST_TIMEOUT = 1
  AddressBits = 3
  IPs <- MCIPs
  RouterPorts <- MCPorts
  RoutingTable <- MCRoutingTable
  Hosts <- MCHosts
  Links <- MCLinks
  IPOf <- MCIPOf
  NextHop <- MCNextHop
  ReceiverOf <- MCReceiverOf
  MaxTTL = 3
  Scenarios <- MCScenarios
INVARIANTS
  MappingsNameOwners
  OnePeer
  HandedAsSent
PROPERTIES
  ServesDatagrams
  EverythingArrives
  StaleMappingsExpire
CHECK_DEADLOCK FALSE
