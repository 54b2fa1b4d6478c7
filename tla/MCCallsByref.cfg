SPECIFICATION Spec
CONSTANTS
  Word = 4
  LongWord = 8
  Nesting = 2
  Methods <- ByrefMethods
  Missing = FALSE
INVARIANT ResultsArrive
