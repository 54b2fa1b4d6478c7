SPECIFICATION Spec
CONSTANTS
  Word = 4
  LongWord = 8
  Nesting = 2
  Methods <- AllMethods
  Missing = TRUE
INVARIANTS
  TypeOK
  NoFault
  NothingLeaked
  SizesAgree
  ArgumentsArrive
  ResultsArrive
  InterfacesAsAsked
PROPERTY ExceptionReported
