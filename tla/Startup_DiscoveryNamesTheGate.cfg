SPECIFICATION StartupSpec
CONSTANTS
  Daemons = {d1, d2}
  Desktops = {desktop}
  Nobody = Nobody
  MaxStarts = 3
CHECK_DEADLOCK FALSE
INVARIANT DiscoveryNamesTheGate
