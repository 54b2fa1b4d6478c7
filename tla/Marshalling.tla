---------------------------- MODULE Marshalling ----------------------------
(***************************************************************************)
(* What the two directions of a call share: the descriptors of the         *)
(* parameters (PythonTypeDescriptor, ProcessPythonTypeDescriptors), the    *)
(* memory that the two sides hand to each other, and the conversion of     *)
(* arrays (FillSingleArray, UnpackSingleArray, FreeSingleArray).           *)
(*                                                                         *)
(* Types stand for those that the code treats alike:                       *)
(*   num       every integer, float and bool    char    char and wchar     *)
(*   octet     an element of type PRUint8       (one by itself is a num)   *)
(*   iid       nsIID*                           string  char*              *)
(*   wstring   char16_t*                        sized, wsized  the same    *)
(*   astring   AString, DOMString                 with a size_is           *)
(*   cstring   ACString                         utf8    AUTF8String        *)
(*   iface     an interface of a known IID      iface_is  of that in the   *)
(*   variant   nsIVariant                         parameter iid            *)
(*   array     of elements of the type elem     jsval   not supported      *)
(***************************************************************************)
EXTENDS Variants, SequencesExt

Types == {"num", "octet", "char", "iid", "string", "wstring", "sized", "wsized",
          "astring", "cstring", "utf8", "iface", "iface_is", "variant",
          "array", "jsval"}

Flags == {"in", "out", "retval", "shared", "dipper", "optional"}

\* A descriptor: size, length and iid are the parameters that tell those of
\* this one; its own index where there is none.
Descriptors == [type : Types, elem : Types, flags : SUBSET Flags,
                size : Nat, length : Nat, iid : Nat]
Param(type, elem, flags, dep) ==
  [type |-> type, elem |-> elem, flags |-> flags,
   size |-> dep, length |-> dep, iid |-> dep]

IsArithmetic(type) == type \in {"num", "octet", "char"}
IsInterface(type) == type \in {"iface", "iface_is", "variant"}
IsString(type) == type \in {"string", "wstring"}
IsSized(type) == type \in {"sized", "wsized"}

IsIn(p) == "in" \in p.flags
IsOut(p) == "out" \in p.flags
IsDipper(p) == "dipper" \in p.flags
IsRetval(p) == "retval" \in p.flags
IsShared(p) == "shared" \in p.flags
IsOptional(p) == "optional" \in p.flags

-----------------------------------------------------------------------------
(* ProcessPythonTypeDescriptors *)

\* "Dippers should be 'in'."
Repaired(sig) ==
  [i \in DOMAIN sig |->
    IF IsDipper(sig[i]) /\ ~IsIn(sig[i]) /\ ~IsOut(sig[i])
      THEN [sig[i] EXCEPT !.flags = @ \cup {"in"}]
      ELSE sig[i]]

\* "This is an insane interface, we can't call it, sorry": it returns false at
\* such a parameter, and does not look at those after it.
Refused(p) ==
  \/ IsIn(p) /\ IsRetval(p) /\ ~IsDipper(p)
  \/ IsIn(p) /\ IsShared(p)
  \/ p.type = "jsval"

Insane(sig) == \E i \in DOMAIN sig : Refused(sig[i])
Described(sig) == {i \in DOMAIN sig : \A j \in 1..i : ~Refused(sig[j])}

\* Parameter k tells the size of parameter i.
Counts(sig, k, i) ==
  \/ sig[i].type = "array" /\ sig[i].length = k
  \/ IsSized(sig[i].type) /\ sig[i].size = k

\* What the XPIDL compiler sees to: the parameters that another one goes with
\* are there.  And where octets are told from numbers.
WellFormed(sig) ==
  \A i \in DOMAIN sig :
    LET p == sig[i] IN
    /\ p.type # "octet"
    /\ p.type = "array" \/ IsSized(p.type) => p.size \in DOMAIN sig
    /\ p.type = "array" => p.length \in DOMAIN sig
    /\ p.type = "iface_is" => p.iid \in DOMAIN sig

\* It is filled in by an "in" (an "out") parameter that it tells the size of.
AutoIn(sig, k) == \E i \in Described(sig) : Counts(sig, k, i) /\ IsIn(sig[i])
AutoOut(sig, k) == \E i \in Described(sig) : Counts(sig, k, i) /\ IsOut(sig[i])

\* The parameters that Python gives, and those it gets back.
TakesArgument(sig, i) ==
  IsIn(sig[i]) /\ ~AutoIn(sig, i) /\ ~IsDipper(sig[i])
GivesResult(sig, i) ==
  (IsOut(sig[i]) \/ IsDipper(sig[i])) /\ ~AutoOut(sig, i)

InOrder(sig, set) ==
  FoldLeftDomain(LAMBDA s, i : IF i \in set THEN Append(s, i) ELSE s, <<>>, sig)
ArgumentOrder(sig) == InOrder(sig, {i \in DOMAIN sig : TakesArgument(sig, i)})
Results(sig) == InOrder(sig, {i \in DOMAIN sig : GivesResult(sig, i)})

MaxArguments(sig) == Len(ArgumentOrder(sig))
MinArguments(sig) ==
  Len(InOrder(sig, {i \in DOMAIN sig :
                      TakesArgument(sig, i) /\ ~IsOptional(sig[i])}))

-----------------------------------------------------------------------------
(* Memory.  A cell holds a number, a pointer, or a pointer into a Python     *)
(* str.  A block holds a value, or an array its cells; a reference that was *)
(* counted is a block too, and as tells the interface it was asked for.     *)
(*                                                                          *)
(* A frame is what one call works on: the variants passed (slots), the      *)
(* blocks (mem), the faults met so far, the Python exception pending, and   *)
(* ok, the rc of the helpers.                                               *)

Cell(is, n) == [is |-> is, n |-> n]
Null == Cell("null", 0)
Num(n) == Cell("num", n)
Lent(n) == Cell("lent", n)
Ptr(b) == Cell("ptr", b)

Supports == 0 \* nsISupports, and Py_nsIID_NULL: no QueryInterface is made

Block(v) == [of |-> v, cells |-> <<>>, as |-> Supports, live |-> TRUE]
Reference(v, iid) == [Block(v) EXCEPT !.as = iid]
Array(cells) == [Block(None) EXCEPT !.cells = cells]

Fault(w, what) == [w EXCEPT !.faults = @ \cup {what}]
Fail(w) == [w EXCEPT !.ok = FALSE]
Raise(w) == [w EXCEPT !.ok = FALSE, !.err = "error"]

\* n times x, a tuple that TLC updates element by element.
Times(n, x) == SubSeq([j \in 1..n |-> x], 1, n)

Allocate(w, block) == [w EXCEPT !.mem = Append(@, block)]
Newest(w) == Ptr(Len(w.mem))
Put(w, i, cell) == [w EXCEPT !.slots[i].val = cell]
PutNew(w, i, block) == LET a == Allocate(w, block) IN Put(a, i, Newest(a))

Live(w, cell) == cell.is = "ptr" /\ w.mem[cell.n].live
Cells(w, cell) == IF cell.is = "ptr" THEN w.mem[cell.n].cells ELSE <<>>

\* NS_Free, moz_free, delete or Release of what a cell points to.
Free(w, cell) ==
  CASE cell.is # "ptr" -> IF cell = Null THEN w ELSE Fault(w, "not ours")
    [] Live(w, cell) -> [w EXCEPT !.mem[cell.n].live = FALSE]
    [] OTHER -> Fault(w, "freed twice")

\* The value behind a pointer.
Pointee(w, cell) ==
  CASE cell = Null -> None
    [] cell.is = "lent" -> Str(cell.n)
    [] Live(w, cell) -> w.mem[cell.n].of
    [] OTHER -> Garbage

\* The first n characters of a text.
Prefix(v, n) ==
  CASE v = None -> None
    [] Encodes(v) /\ n <= v.n -> Str(n)
    [] OTHER -> Garbage

HasGarbage(v) ==
  v = Garbage \/ (IsSequence(v) /\ \E j \in DOMAIN v.of : v.of[j] = Garbage)

\* A value was read that way.
Read(w, v) == IF HasGarbage(v) THEN Fault(w, "bad read") ELSE w

\* A null pointer was used, or MOZ_CRASH reached: the process is gone.
Crash(w) == Fail(Fault(w, "crash"))
Crashed(w) == "crash" \in w.faults

-----------------------------------------------------------------------------
(* The state of a call *)

VARIABLES
  sig,     \* the descriptors of the method's parameters
  caller,  \* "python" or "native", whoever calls
  callee,  \* and whoever implements the method
  args,    \* the arguments, in the order of ArgumentOrder
  slots,   \* the variants: mDispatchParams, and m_params of the stub
  mem,     \* the blocks
  faults,  \* what should never happen to memory
  err,     \* the Python exception pending: "none", "error", "memory", ...
  rc,      \* the nsresult of the method
  seen,    \* the arguments as they reached the callee
  answers, \* what the callee has to give back, in the Python order
  got,     \* and what of it reached the caller
  pc, at   \* where the call is, and the index of the loop it is in

frame == <<slots, mem, faults, err>>

\* NS_SUCCEEDED(rc): "excused" is a success by the word of an exception handler.
Succeeded == rc \in {"ok", "excused"}

vars == <<sig, caller, callee, args, frame, rc, seen, answers, got, pc, at>>

Now == [slots |-> slots, mem |-> mem, faults |-> faults, err |-> err,
        ok |-> TRUE]
Becomes(w) ==
  /\ slots' = w.slots /\ mem' = w.mem /\ faults' = w.faults /\ err' = w.err

NotMade == [made |-> FALSE, of |-> <<>>]
Arguments(s) == [made |-> TRUE, of |-> s]

Goto(label) == pc' = label /\ at' = 1

\* A variant, and what the two sides keep about it: ns_v.val (of an "out"
\* parameter, what val.p points to), whether it has its type, whether the
\* destructor frees it, IsIndirect, have_set_auto of the caller, whether
\* val.p is there, and have_set_auto of the stub.
NewSlot == [val |-> Null, typed |-> FALSE, cleanup |-> FALSE,
            indirect |-> FALSE, auto |-> FALSE, there |-> TRUE,
            filled |-> FALSE]

-----------------------------------------------------------------------------
(* InterfaceFromPyObject, with bNoneOK *)

\* An instance is asked for the interface, or wrapped.
CanConvert(v, type, iid) ==
  \/ v = None \/ type = "variant"
  \/ v.py = "instance" /\ iid \in {Supports, v.n}

InterfaceBlock(v, type, iid) ==
  IF type = "variant" THEN Reference(AsVariant(v), Supports)
                      ELSE Reference(v, iid)

\* The interface pointer in a cell: <<frame, cell>>, the frame not ok when
\* there is none.  A number too long leaves its exception pending.
InterfaceFromPyObject(w, v, type, iid) ==
  LET a == Allocate(w, InterfaceBlock(v, type, iid)) IN
  IF ~CanConvert(v, type, iid) THEN <<Raise(w), Null>>
  ELSE IF v = None THEN <<w, Null>>
  ELSE IF type = "variant" /\ ~HasVariant(v) THEN <<Crash(w), Null>>
  ELSE IF type = "variant" /\ TooLong(v)
    THEN <<[a EXCEPT !.err = "error"], Newest(a)>>
  ELSE <<a, Newest(a)>>

\* MakeInterfaceResult and MakeInterfaceParam wrap the pointer again.
Wrapped(x) == IF x.py = "variant" THEN FromVariant(x) ELSE x

\* No Python object, and a Python exception.
Nothing == Value("NULL", 0)

\* A text that cannot be decoded has no Python value.
Decoded(w, i, v) ==
  IF v = Nothing \/ (v = OddText /\ sig[i].type = "utf8")
    THEN <<Raise(w), None>>
    ELSE <<Read(w, v), v>>

-----------------------------------------------------------------------------
(* Arrays *)

\* What PySequence_Check takes for an array: a text is the sequence of its
\* characters, or of its octets.  An odd one has a character.
HasItems(v) == IsSequence(v) \/ IsText(v)
Items(v, elem) ==
  IF IsSequence(v) THEN v.of
  ELSE IF v = OddText THEN <<v>>
  ELSE [j \in 1..v.n |-> IF elem = "octet" THEN Integer(1) ELSE Value(v.py, 1)]

\* Of a text only the first character is taken, of "" its terminator.
FirstChar(v) == IF v.n = 0 THEN 0 ELSE 1

\* Frees the elements, not the array.
FreeSingleArray(w, cell, n, elem) ==
  IF n > Len(Cells(w, cell)) THEN Fault(w, "past the end")
  ELSE IF IsArithmetic(elem) THEN w
  ELSE FoldLeft(Free, w, SubSeq(Cells(w, cell), 1, n))

SetElement(w, b, j, cell) == [w EXCEPT !.mem[b].cells[j] = cell]
NewElement(w, b, j, block) ==
  LET a == Allocate(w, block) IN SetElement(a, b, j, Newest(a))

\* One element.  A number is cut without a word, and one too long leaves an
\* exception pending.  Strings and references replace what was there.
FillElement(w, b, j, elem, v) ==
  LET old == w.mem[b].cells[j]
      freed == SetElement(Free(w, old), b, j, Null)
      new == InterfaceFromPyObject(w, v, elem, Supports)
  IN CASE elem \in {"num", "octet"} ->
            IF ~IsNumber(v) THEN Raise(w)
            ELSE IF FitsLong(v) THEN SetElement(w, b, j, Num(Cut(v.n)))
            ELSE [SetElement(w, b, j, Num(Cut(-1))) EXCEPT !.err = "error"]
       [] elem = "char" ->
            IF Encodes(v) THEN SetElement(w, b, j, Num(FirstChar(v)))
                          ELSE Raise(w)
       [] elem = "iid" ->
            IF v.py = "iid" THEN NewElement(freed, b, j, Block(v))
                            ELSE Raise(freed)
       [] IsString(elem) ->
            IF v = None THEN freed
            ELSE IF Encodes(v) THEN NewElement(freed, b, j, Block(Plain(v)))
            ELSE Raise(freed)
       [] IsInterface(elem) ->
            IF new[1].ok THEN SetElement(Free(new[1], old), b, j, new[2])
                         ELSE new[1]
       [] OTHER -> Raise(w)

\* Stops at the first element that fails, with those before it in place.
FillSingleArray(w, b, elem, s) ==
  FoldLeftDomain(
    LAMBDA x, j : IF x.ok THEN FillElement(x, b, j, elem, s[j]) ELSE x, w, s)

\* An IID is read without a look at its pointer.
UnpackElement(w, cell, elem) ==
  CASE elem \in {"num", "octet"} -> Integer(cell.n)
    [] elem = "iid" /\ cell = Null -> Garbage
    [] OTHER -> Wrapped(Pointee(w, cell))

\* The elements that it knows: characters are not among them, although
\* FillSingleArray takes them.
Unpackable(elem) ==
  elem \in {"num", "octet", "iid"} \/ IsString(elem) \/ IsInterface(elem)

\* A null array is None here; one that is shorter than n is read past its end;
\* octets always come out as a str.
UnpackSingleArray(w, cell, n, elem) ==
  LET items == [j \in 1..n |-> UnpackElement(w, Cells(w, cell)[j], elem)]
  IN IF cell = Null THEN None
     ELSE IF ~Unpackable(elem) /\ n > 0 THEN Nothing
     ELSE IF ~Live(w, cell) \/ n > Len(Cells(w, cell)) THEN Garbage
     ELSE IF elem = "octet" THEN Octets(items) ELSE List(items)
=============================================================================
