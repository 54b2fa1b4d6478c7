------------------------------ MODULE Variants ------------------------------
(***************************************************************************)
(* Python values as far as the conversions of src/VariantUtils.cpp tell    *)
(* them apart, and their way into an nsIVariant and out of it again:       *)
(* BestVariantTypeForPyObject, PyObject_AsVariant, PyObject_FromVariant,   *)
(* and the branch for nsIVariant of _MakeInterfaceParam_ in                *)
(* server/policy.py.                                                       *)
(***************************************************************************)
EXTENDS Integers, Sequences

CONSTANTS
  Word,     \* numbers from 0 to Word - 1 fit in the integers of a call
  LongWord, \* and those below LongWord in a C long
  Nesting   \* how deep lists are nested in lists

ASSUME WidthAssumption ==
  Word \in Nat \ {0, 1} /\ LongWord \in Nat /\ Word <= LongWord
ASSUME NestingAssumption == Nesting \in Nat

-----------------------------------------------------------------------------
(* Python values.  A text of n characters has the contents n; an odd text   *)
(* has characters that the parameter at hand has no encoding for.           *)

Value(kind, n) == [py |-> kind, n |-> n]

None == Value("None", 0)
Bool(n) == Value("bool", n)
Integer(n) == Value("int", n)
Str(n) == Value("str", n)
Unicode(n) == Value("unicode", n)
OddText == Value("odd", 0)
IID(n) == Value("iid", n)

\* An instance that implements the interface n (and nsISupports, of course),
\* and one that none can be made for.
Instance(n) == Value("instance", n)
Alien == Value("alien", 0)

List(s) == [py |-> "list", of |-> s]

\* The str whose characters are the numbers s.
Octets(s) == [py |-> "octets", of |-> s]

\* What a reader of memory that is not there would see.
Garbage == Value("garbage", 0)

\* All of them, lists nested d deep at most.
Simple == [py : {"None", "bool", "int", "str", "unicode", "odd", "iid",
                 "instance", "alien", "garbage"}, n : Nat]

Lists(S) == [py : {"list"}, of : Seq(S)]

ValuesTo[d \in Nat] ==
  IF d = 0 THEN Simple ELSE Simple \cup Lists(ValuesTo[d - 1])

PyValues == ValuesTo[Nesting]

IsText(v) == v.py \in {"str", "unicode", "odd"}
Encodes(v) == v.py \in {"str", "unicode"}
IsSequence(v) == v.py = "list"

\* PyNumber_Int(v), as C sees it: PyInt_AsLong sets an exception when the
\* number does not fit in a long, and gives -1.
IsNumber(v) == v.py \in {"int", "bool"}
FitsLong(v) == v.n < LongWord
AsLong(v) == IF FitsLong(v) THEN v.n ELSE -1
Cut(n) == n % Word

\* One value for all that count as equal in Python or native code: str and
\* unicode of the same text, a number and the truth value.
PlainOf[u \in PyValues] ==
  IF Encodes(u) THEN Str(u.n)
  ELSE IF IsNumber(u) THEN Integer(u.n)
  ELSE IF IsSequence(u) THEN List([j \in DOMAIN u.of |-> PlainOf[u.of[j]]])
  ELSE u

Plain(v) == PlainOf[v]

-----------------------------------------------------------------------------
(* Slips: definitions below as a plausible mistake would have them.         *)
(* Nothing here is part of the specification.                               *)

\* A sequence is looked for before the concrete types: a str is one.
SequencesFirst(v) ==
  CASE v.py = "None" -> "EMPTY"
    [] v.py = "bool" -> "BOOL"
    [] v.py = "int" -> IF FitsLong(v) THEN "INT32" ELSE "INT64"
    [] v.py = "list" -> IF v.of = <<>> THEN "EMPTY_ARRAY" ELSE "ARRAY"
    [] Encodes(v) -> IF v.n = 0 THEN "EMPTY_ARRAY" ELSE "STRING_SIZE_IS"
    [] v.py = "odd" -> "WSTRING_SIZE_IS"
    [] v.py = "instance" -> "INTERFACE_IS"
    [] v.py = "iid" -> "ID"
    [] OTHER -> "none"

-----------------------------------------------------------------------------
(* nsIVariant *)

Variant(dt, v) == [py |-> "variant", type |-> dt, holds |-> v]

VariantTypes == {"EMPTY", "BOOL", "INT32", "INT64", "STRING_SIZE_IS",
                 "WSTRING_SIZE_IS", "EMPTY_ARRAY", "ARRAY", "INTERFACE_IS", "ID"}

\* An array in a variant holds variants.
VariantsTo[d \in Nat] ==
  [py : {"variant"}, type : VariantTypes,
   holds : Simple \cup IF d = 0 THEN {} ELSE Lists(VariantsTo[d - 1])]

VariantValues == VariantsTo[Nesting]

\* "start with some fast concrete checks", then the interfaces, then IIDs.
BestVariantType(v) ==
  CASE v.py = "None" -> "EMPTY"
    [] v.py = "bool" -> "BOOL"
    [] v.py = "int" -> IF FitsLong(v) THEN "INT32" ELSE "INT64"
    [] v.py = "str" -> "STRING_SIZE_IS"
    [] v.py \in {"unicode", "odd"} -> "WSTRING_SIZE_IS"
    [] v.py = "list" -> IF v.of = <<>> THEN "EMPTY_ARRAY" ELSE "ARRAY"
    [] v.py = "instance" -> "INTERFACE_IS"
    [] v.py = "iid" -> "ID"
    [] OTHER -> "none"

\* For what has no type, and for a sequence with such an element,
\* PyObject_AsVariant ends in MOZ_CRASH: its case falls through.
HasVariant(v) ==
  LET Has[u \in PyValues] ==
        IF IsSequence(u) THEN \A j \in DOMAIN u.of : Has[u.of[j]]
                         ELSE BestVariantType(u) # "none"
  IN Has[v]

\* A number is cut to 32 bits, one beyond a long leaves an exception pending
\* and -1 in the variant.  Each element of an array is a variant of its own.
AsVariant(v) ==
  LET Made[u \in PyValues] ==
        LET dt == BestVariantType(u) IN
        CASE dt = "INT32" -> Variant(dt, Integer(Cut(AsLong(u))))
          [] dt = "INT64" -> Variant(dt, Integer(Cut(-1)))
          [] dt = "ARRAY" ->
               Variant(dt, List([j \in DOMAIN u.of |-> Made[u.of[j]]]))
          [] OTHER -> Variant(dt, u)
  IN Made[v]

TooLong(v) ==
  LET Long[u \in PyValues] ==
        \/ u.py = "int" /\ ~FitsLong(u)
        \/ IsSequence(u) /\ \E j \in DOMAIN u.of : Long[u.of[j]]
  IN Long[v]

\* VTYPE_BOOL: the pointer to the variant is tested, not what it holds.
FromVariant(x) ==
  LET Of[y \in VariantValues] ==
        CASE y.type = "EMPTY" -> None
          [] y.type = "BOOL" -> Bool(1)
          [] y.type = "EMPTY_ARRAY" -> List(<<>>)
          [] y.type = "ARRAY" ->
               List([j \in DOMAIN y.holds.of |-> Of[y.holds.of[j]]])
          [] OTHER -> y.holds
  IN Of[x]

\* _MakeInterfaceParam_: the accessors of PyIVariant.cpp for each type.
MakeVariantParam(x) ==
  IF x.type = "BOOL" THEN x.holds ELSE FromVariant(x)
=============================================================================
