SPECIFICATION Spec
CONSTANTS
  Threads = {t1, t2}
  t1 = t1
  t2 = t2
  c1 = c1
  c2 = c2
  thing = thing
  extra = extra
  raw = raw
  x = x
  z = z
  klass = klass
  Components <- TheComponents
  Iids <- TheIids
  Names <- TheNames
  Contracts = {klass}
  Handlers = {h1}
  Ours = Ours
  None = None
  Requests <- TheRequests
  MaxFailures = 1
  Answers <- TheAnswers
  Informed <- TheComponents
  Nominated <- TheLists
  Contract <- TheContract
  Scriptable = {thing, extra}
  Members <- TheMembers
  Native <- TheNative
INVARIANTS
  TypeOK
  AnswersTrue
  RightInterface
  NoKeyError
  RefusalsExplained
  
PROPERTIES
  OursComesLast
  NoneForgotten
