SPECIFICATION Spec
CONSTANTS
  Ports <- MCPorts
  Hosts <- MCHosts
  DefaultPort = 8888
  MaxGens = 2
  MaxStarts = 2
VIEW MCView
INVARIANTS TypeOK LiveIsTruthful SystemProxyListens UpstreamIsOrigin RewriteHasPort ChainTrusted
CHECK_DEADLOCK FALSE
