SPECIFICATION FairSpec
CONSTANTS
  Threads = {t1, t2}
  Wrappers = {t1}
  Gateways = {g1, g2, g3, g4}
  Weaks = {w1, w2, w3}
  Iids = {i1}
  NSISupports = NSISupports
  Unsupported = Unsupported
  WrapIids = {i1, NSISupports}
  Debug = TRUE
  MaxExt = 2
  None = None
INVARIANT OneIdentity
PROPERTIES
  ImplementsIdentity
  LiveAttributeStays
  CallsReturn
