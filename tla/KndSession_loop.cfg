SPECIFICATION Spec
CONSTANTS
  Ports <- MCPorts
  Hosts <- MCHosts
  DefaultPort = 8888
  MaxGens = 1
  MaxStarts = 1
INVARIANT NoRedirectLoop
CHECK_DEADLOCK FALSE
