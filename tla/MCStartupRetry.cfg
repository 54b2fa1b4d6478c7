SPECIFICATION Spec
CONSTANTS
  Pythons = {p1}
  Natives = {m}
  Main = m
  Hosts <- PythonHosts
  MaxFailures = 1
  None = None
INVARIANT DanceDone
