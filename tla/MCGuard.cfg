SPECIFICATION Spec
CONSTANTS
  Hosts = {h1, h2}
  Addrs = {a1, a2}
  Public = {a1}
  Ports = {80, 443, 8080}
  AllowedPorts = {80, 443}
  AllowPrivate = FALSE
  MaxRedirects = 3
  MaxIdle = 2
INVARIANTS
  EveryHopChecked
CHECK_DEADLOCK FALSE
