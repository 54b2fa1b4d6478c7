SPECIFICATION Spec
CONSTANTS
  Pythons = {p1}
  Natives = {m}
  Main = m
  Hosts <- MixedHosts
  MaxFailures = 0
  None = None
INVARIANT NoStandOff
