SPECIFICATION FairSpec
CONSTANTS
  Pythons = {p1, p2}
  Natives = {m, n}
  Main = m
  Hosts <- SoundHosts
  MaxFailures = 1
  None = None
INVARIANTS
  TypeOK
  ReadyWhenUsed
  NothingLockedAtRest
  NoStandOff
PROPERTIES
  InitializedOnce
  StartReturns
