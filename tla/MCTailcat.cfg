SPECIFICATION DERPSpec
CONSTANTS
  c1 = c1
  c2 = c2
  Server = Server
  Clients <- MCClients
  Tokens <- MCTokens
  DERPMap <- MCDERPMap
  Region <- MCRegion
  AllowedClients <- MCAllowedClients
  Browsers <- MCBrowsers
  Dests <- MCDests
  ServedPorts <- MCServedPorts
  Forwards = TRUE
  Endpoints <- MCEndpoints
  MaxEvents = 2
  MaxPending = 1
  Procs = {p1, p2}
  MaxVersion = 2
INVARIANTS
  Registered
  NoLostAdvertisement
  RevalidationSound
PROPERTIES
  ComesUp
