--------------------------- MODULE ObjectIdentity ---------------------------
(***************************************************************************)
(* What PyXPCOM promises to the clients of one Python instance             *)
(* (xpcom/src/PyGBase.cpp, comment on object identity): at any time at     *)
(* most one XPCOM object stands for the instance, whatever interfaces it   *)
(* is asked for and by whatever path; it lasts as long as anyone uses it,  *)
(* and once it is gone nobody is ever handed it again.                     *)
(***************************************************************************)
CONSTANT Objects

VARIABLES
  standing,  \* the object that stands for the instance, if there is one
  used       \* the objects that some client or call uses

vars == <<standing, used>>

TypeOK == standing \in SUBSET Objects /\ used \in SUBSET Objects

Init == standing = {} /\ used = {}

\* Only when nothing stands for the instance does it get an object.
Create(o) ==
  /\ standing = {} /\ standing' = {o}
  /\ UNCHANGED used

Use(o) ==
  /\ o \in standing /\ used' = used \cup {o}
  /\ UNCHANGED standing

LeaveAlone(o) ==
  /\ used' = used \ {o}
  /\ UNCHANGED standing

Die(o) ==
  /\ o \notin used /\ standing' = standing \ {o}
  /\ UNCHANGED used

Next == \E o \in Objects : Create(o) \/ Use(o) \/ LeaveAlone(o) \/ Die(o)

Spec == Init /\ [][Next]_vars

-----------------------------------------------------------------------------
\* At most one object, and nobody uses another.
OneObject == used \subseteq standing /\ \A o, p \in standing : o = p
=============================================================================
