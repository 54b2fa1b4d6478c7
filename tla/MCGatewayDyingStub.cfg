SPECIFICATION Spec
CONSTANTS
  Threads = {t1, t2}
  Wrappers = {t1}
  Gateways = {g1, g2, g3}
  Weaks = {w1, w2, w3, w4, w5}
  Iids = {i1, i2}
  NSISupports = NSISupports
  Unsupported = Unsupported
  WrapIids = {i1}
  Debug = TRUE
  MaxExt = 2
  None = None
SYMMETRY CellSymmetry
INVARIANT NoTouchOfFreed
