------------------------------- MODULE Calls -------------------------------
(***************************************************************************)
(* One call of an XPCOM method through pyxpcom: from Python to a native    *)
(* object, from native code to a Python object, and from Python to Python  *)
(* through XPCOM.  The native sides are not in this repository: they keep  *)
(* the rules of XPCOM for who owns what.                                   *)
(***************************************************************************)
EXTENDS InterfaceCall, GatewayCall

CONSTANTS
  Methods, \* [sig, args, answers]: a signature, the arguments a caller may
           \* give, and what the method may answer, as Python values
  Missing  \* whether a native caller may pass null for an "out" parameter

\* A value whose size fits in an integer, and so do those of its elements.
Length(v) == IF IsSequence(v) THEN Len(v.of) ELSE v.n
Fits(v) == IsSequence(v) \/ IsText(v) => Length(v) < Word
Given == {v \in PyValues :
            Fits(v) /\ (IsSequence(v) => \A j \in DOMAIN v.of : Fits(v.of[j]))}

ASSUME MethodsAssumption ==
  \A m \in Methods :
    /\ m.sig \in Seq(Descriptors) /\ WellFormed(m.sig)
    /\ m.args \subseteq Seq(Given)
    /\ m.answers \subseteq {s \in Seq(Given) : Len(s) < Word}

-----------------------------------------------------------------------------
(* A native program *)

\* A value that it can hand over as the type of p.
Representable(p, v) ==
  LET Element(type) == [p EXCEPT !.type = type] IN
  CASE p.type \in {"num", "octet"} -> v.py = "int" /\ v.n < Word
    [] p.type = "char" -> v.py = "str" /\ v.n = 1
    [] p.type = "iid" -> v.py = "iid"
    [] p.type \in {"iface", "iface_is"} -> v.py \in {"None", "instance"}
    [] p.type = "variant" -> HasVariant(v) /\ ~TooLong(v)
    [] p.type = "utf8" -> v = None \/ v.py \in {"str", "odd"}
    [] OTHER -> v = None \/ v.py = "str"

NativeValue(p, v) ==
  IF p.type # "array" THEN Representable(p, v)
  ELSE v = None \/ /\ IsSequence(v)
                   /\ \A j \in DOMAIN v.of :
                        Representable([p EXCEPT !.type = p.elem], v.of[j])

\* Values for the parameters in order that it can hand over together: those
\* that share a size have that size, and all or none of them are null.  Where
\* the size is among the values (the signature has been refused) it agrees.
NativeValues(s, order, values) ==
  /\ Len(order) = Len(values)
  /\ \A j \in DOMAIN order : NativeValue(s[order[j]], values[j])
  /\ \A k \in DOMAIN s, j, l \in DOMAIN order :
       Counts(s, k, order[j]) /\ Counts(s, k, order[l]) =>
         /\ values[j] = None <=> values[l] = None
         /\ values[j] # None => Length(values[j]) = Length(values[l])
  /\ \A j, l \in DOMAIN order :
       Counts(s, order[l], order[j]) => values[l] = Integer(Length(values[j]))

NativeBlock(p, v) ==
  IF IsInterface(p.type)
    THEN InterfaceBlock(v, p.type, IF p.type = "iface" THEN p.iid ELSE Supports)
    ELSE Block(IF v = OddText THEN v ELSE Plain(v))

\* It stores the elements of an array.
StoreElements(w, b, elem, s) ==
  LET Element(x, j) ==
        IF IsArithmetic(elem.type) THEN SetElement(x, b, j, Num(s[j].n))
        ELSE IF s[j] = None THEN x
        ELSE NewElement(x, b, j, NativeBlock(elem, s[j]))
  IN FoldLeftDomain(Element, w, s)

\* It stores a value, with its size where it has one.
NativeStore(w, i, v) ==
  LET p == sig[i]
      array == PutNew(w, i, Array(Times(Len(v.of), Null)))
      filled == StoreElements(array, Newest(array).n,
                              [p EXCEPT !.type = p.elem], v.of)
      Sized(x, k) == [x EXCEPT !.slots[k].val = Num(Length(v))]
  IN IF IsArithmetic(p.type) THEN Put(w, i, Num(v.n))
     ELSE IF IsDipper(p) THEN [w EXCEPT !.mem[w.slots[i].val.n].of = Plain(v)]
     ELSE IF v = None /\ p.type \notin {"astring", "cstring", "utf8"} THEN w
     ELSE IF p.type = "array"
       THEN Sized(filled, p.length)
     ELSE IF IsSized(p.type)
       THEN Sized(PutNew(w, i, NativeBlock(p, v)), p.size)
     ELSE PutNew(w, i, NativeBlock(p, v))

\* It frees a value.
NativeFree(w, i) ==
  LET p == sig[i]
      cell == w.slots[i].val
      n == w.slots[p.length].val.n
      x == IF p.type = "array" /\ cell # Null /\ ~IsArithmetic(p.elem)
             THEN IF n > Len(Cells(w, cell)) THEN Fault(w, "past the end")
                  ELSE FoldLeft(Free, w, SubSeq(Cells(w, cell), 1, n))
             ELSE w
  IN IF IsArithmetic(p.type) THEN w ELSE Put(Free(x, cell), i, Null)

\* What is in a variant, and in those it holds.
Contents(v) ==
  LET Of[x \in VariantValues] ==
        IF x.type = "ARRAY" THEN List([j \in DOMAIN x.holds.of |-> Of[x.holds.of[j]]])
                            ELSE x.holds
  IN IF v.py = "variant" THEN Of[v] ELSE v

\* It reads a value.
NativeRead(w, i) ==
  LET p == sig[i]
      cell == w.slots[i].val
      Told(k) == w.slots[k].val.n
      Item(c) == CASE p.elem \in {"num", "octet"} -> Integer(c.n)
                   [] p.elem = "char" -> Str(c.n)
                   [] OTHER -> Contents(Pointee(w, c))
      v == Pointee(w, cell)
      AsArray == IF cell = Null THEN None
               ELSE IF ~Live(w, cell) \/ Told(p.length) > Len(Cells(w, cell))
                 THEN Garbage
               ELSE List([j \in 1..Told(p.length) |-> Item(Cells(w, cell)[j])])
  IN CASE p.type = "num" -> Integer(cell.n)
       [] p.type = "char" -> Str(cell.n)
       [] IsSized(p.type) -> Prefix(v, Told(p.size))
       [] p.type = "array" -> AsArray
       [] OTHER -> Contents(v)

NativeReadAll(w, order) == [j \in DOMAIN order |-> NativeRead(w, order[j])]

StoreAll(w, order, values) ==
  LET One(x, j) == NativeStore(x, order[j], values[j])
  IN FoldLeftDomain(One, w, order)

\* A size that does not come back has been told by the caller.
SizeTold(i) ==
  {k \in DOMAIN sig : Counts(sig, k, i) /\ ~IsOut(sig[k])}

-----------------------------------------------------------------------------
(* The native caller *)

NativeUnchanged == UNCHANGED <<sig, caller, callee, args>>

\* Variants without a value, with a null pointer for what is missing.
Without(w, missing) ==
  FoldLeftDomain(LAMBDA x, i : [x EXCEPT !.slots[i].there = i \notin missing], w, sig)

\* And with space for what comes back.
WithSpace(w) ==
  LET Space(x, i) ==
        IF IsArithmetic(sig[i].type) THEN Put(x, i, Num(0))
        ELSE IF IsDipper(sig[i]) THEN PutNew(x, i, Block(Str(0)))
        ELSE x
  IN FoldLeftDomain(Space, w, sig)

\* Every "in" and "inout" parameter is filled in, dippers get a string, and
\* some pure "out" pointers may be null (not the size of an array that is
\* asked for).
NativePrepare ==
  /\ pc = "init" /\ caller = "native"
  /\ LET n == Len(sig)
         Outs == {i \in 1..n : IsOut(sig[i]) /\ ~IsIn(sig[i])}
         start == [Now EXCEPT !.slots = Times(n, NewSlot)]
     IN \E missing \in SUBSET (IF Missing THEN Outs ELSE {}) :
          /\ \A i \in Outs \ missing :
               sig[i].type = "array" => sig[i].length \notin missing
          /\ Becomes(StoreAll(WithSpace(Without(start, missing)),
                              ArgumentOrder(sig), args))
  /\ Goto("call")
  /\ UNCHANGED <<rc, seen, answers, got>> /\ NativeUnchanged

\* What the caller owns by now is freed: what it passed in, and what came out
\* if the call went well.
FreeOwned(w) ==
  LET Owned(i) == \/ IsIn(sig[i]) \/ IsDipper(sig[i])
                  \/ IsOut(sig[i]) /\ Succeeded
      One(x, i) == IF Owned(i) THEN NativeFree(x, i) ELSE x
  IN FoldLeftDomain(One, w, sig)

NativeFinish ==
  /\ pc = "returned" /\ caller = "native"
  /\ Becomes(FreeOwned(Now))
  /\ got' = IF Succeeded THEN NativeReadAll(Now, ResultOrder) ELSE <<>>
  /\ Goto("done")
  /\ UNCHANGED <<rc, seen, answers>> /\ NativeUnchanged

-----------------------------------------------------------------------------
(* The native method *)

\* It fails, and leaves the parameters as they are.
NativeFails ==
  /\ pc = "call" /\ callee = "native"
  /\ seen' = Arguments(NativeReadAll(Now, ArgumentOrder(sig)))
  /\ rc' = "failure"
  /\ Goto("returned")
  /\ UNCHANGED <<frame, answers, got>> /\ NativeUnchanged

\* It frees the inout values that it replaces,
FreeReplaced(w) ==
  LET Replaced(i) == IsIn(sig[i]) /\ GivesResult(sig, i) /\ ~IsDipper(sig[i])
      One(x, i) == IF Replaced(i) THEN NativeFree(x, i) ELSE x
  IN FoldLeftDomain(One, w, sig)

\* and sets the sizes that come back to 0.
ResetSizes(w) ==
  LET One(x, k) == IF IsOut(sig[k]) /\ AutoOut(sig, k)
                     THEN Put(x, k, Num(0)) ELSE x
  IN FoldLeftDomain(One, w, sig)

\* Then it stores its answers.
NativeMethod ==
  /\ pc = "call" /\ callee = "native"
  /\ LET order == ResultOrder
         AsTold(j) == \A k \in SizeTold(order[j]) :
                        Length(answers[j]) = slots[k].val.n
     IN /\ NativeValues(sig, order, answers)
        /\ \A j \in DOMAIN order : AsTold(j)
        /\ Becomes(StoreAll(ResetSizes(FreeReplaced(Now)), order, answers))
  /\ seen' = Arguments(NativeReadAll(Now, ArgumentOrder(sig)))
  /\ rc' = "ok"
  /\ Goto("returned")
  /\ UNCHANGED <<answers, got>> /\ NativeUnchanged

-----------------------------------------------------------------------------

Init ==
  /\ \E m \in Methods :
       /\ sig = m.sig
       /\ args \in m.args
       /\ answers \in m.answers
  /\ caller \in {"python", "native"} /\ callee \in {"python", "native"}
  /\ "python" \in {caller, callee}
  /\ caller = "native" => NativeValues(sig, ArgumentOrder(sig), args)
  /\ slots = <<>> /\ mem = <<>> /\ faults = {} /\ err = "none"
  /\ rc = "none" /\ seen = NotMade /\ got = <<>>
  /\ pc = "init" /\ at = 1

Finished == pc \in {"done", "crashed"} /\ UNCHANGED vars

Next ==
  \/ caller = "python" /\ PythonCaller
  \/ Stub
  \/ NativePrepare \/ NativeFinish \/ NativeFails \/ NativeMethod
  \/ Finished

Spec == Init /\ [][Next]_vars

-----------------------------------------------------------------------------
(* Properties *)

\* Every number in a variant fits its parameter, every pointer points to a
\* block that was allocated, and only an exception or an nsresult says that a
\* call went wrong.
TypeOK ==
  /\ slots = <<>> \/ DOMAIN slots = DOMAIN sig
  /\ \A i \in DOMAIN slots :
       LET cell == slots[i].val IN
       CASE cell.is = "num" -> cell.n \in 0..(Word - 1)
         [] cell.is = "ptr" -> cell.n \in DOMAIN mem
         [] OTHER -> cell.is \in {"null", "lent"}
  /\ err \in {"none", "error", "server", "memory", "com"}
  /\ rc \in {"none", "ok", "excused", "failure", "errno", "nomem"}
  /\ faults \subseteq {"not ours", "freed twice", "past the end", "bad read",
                      "crash"}

\* The call is over and the caller knows that it failed.
Failed == IF caller = "python" THEN err # "none" ELSE ~Succeeded

\* A Python method, or the conversion of its results, has stopped half-way and
\* the exception handler calls it a success: what comes out is what was stored.
Excused == rc = "excused"

HasArray == \E i \in DOMAIN sig : sig[i].type = "array"

\* A value that costs the process: PyObject_AsVariant knows no type for it, or
\* it is a result of which BackFillVariant expects that PyObject_Str or
\* PyUnicode_FromObject can take it.
NoVariant(p, v) ==
  "variant" \in {p.type, p.elem} /\ ~HasVariant(v)
Unchecked(p, v) ==
  p.type \in {"cstring", "wstring", "wsized"} /\ v = OddText

DeadlyCall ==
  \/ /\ caller = "python"
     /\ \E j \in DOMAIN args : NoVariant(sig[ArgumentOrder(sig)[j]], args[j])
  \/ /\ callee = "python"
     /\ \E j \in DOMAIN answers :
          LET p == sig[ResultOrder[j]]
          IN NoVariant(p, answers[j]) \/ Unchecked(p, answers[j])

\* Nobody has told the size of the tuple for the arguments (MakePyArgs).
Unsized == caller = "native" /\ Insane(sig)

\* No block is freed twice or by the wrong side, read after it was freed or
\* past its end, and no null pointer is used, wherever the conversion of an
\* argument or a result stops.  Left out are: the values that no conversion
\* survives; a signature that Python cannot describe, called from native code
\* (Unsized); an inout array whose new elements fail in the stub, for it has
\* fewer cells than the size that its caller goes by (BackFillVariant, the break
\* after FillSingleArray); and what a caller reads of results that are not
\* there because the exception was excused.
NoFault ==
  \A what \in faults :
    \/ what = "crash" /\ pc = "crashed" /\ DeadlyCall
    \/ what \in {"crash", "past the end"} /\ pc = "crashed" /\ Unsized
    \/ /\ what = "past the end" /\ pc = "done"
       /\ callee = "python" /\ (Failed \/ Excused) /\ HasArray
    \/ what = "bad read" /\ Excused

\* When the call is over nothing that was allocated for it is left, on success
\* and on failure.  Left out: the elements of an array that was converted in
\* vain, the text that PyUnicode_Aschar16_t made for a size that is not met,
\* and the results that a Python method had stored before it failed: its
\* native caller does not look at them.
NothingLeaked ==
  /\ pc = "done"
  /\ Failed \/ Excused =>
       ~HasArray /\ \A i \in DOMAIN sig : sig[i].type # "wsized"
  /\ Failed => caller = "python"
  => \A b \in DOMAIN mem : ~mem[b].live

\* A method is told the true size of every array and text that Python gives
\* it, also when several share a size parameter.
SizesAgree ==
  pc = "call" /\ caller = "python" =>
    \A i, k \in DOMAIN sig :
      LET cell == slots[i].val IN
      Counts(sig, k, i) /\ IsIn(sig[i]) /\ cell # Null =>
        slots[k].val.n = IF sig[i].type = "array" THEN Len(Cells(Now, cell))
                                                  ELSE Pointee(Now, cell).n

\* The sizes of a signature, as most signatures have them: a number that comes
\* in with its array or text, and an array that comes in and goes out shares
\* its size with no later one that comes in.  The argument for such an array may
\* be None, and the space for its result is then made for the size that is
\* told by that time (PrepareOutVariant).
LastTold(s, k, i) ==
  \A j \in DOMAIN s : Counts(s, k, j) /\ IsIn(s[j]) => j <= i

SizesPlain(s) ==
  \A i, k \in DOMAIN s :
    Counts(s, k, i) =>
      /\ s[k].type = "num" /\ ~IsDipper(s[k]) /\ ~IsDipper(s[i])
      /\ IsIn(s[i]) => IsIn(s[k])
      /\ s[i].type = "array" /\ IsIn(s[i]) /\ IsOut(s[i]) =>
           s[i].size = k /\ LastTold(s, k, i)

PlainSizes == \A m \in Methods : SizesPlain(m.sig)

\* What may become of a value of the type given: it stays the same, but for a
\* number that is cut where nothing checks its width (wide), a truth value out
\* of a variant, and a text for a character, of which the first is taken.
Same(type, u, y, wide) ==
  \/ Plain(y) = Plain(u)
  \/ u.py = "int" /\ wide /\ y = Integer(Cut(u.n))
  \/ u.py = "bool" /\ type = "variant" /\ Plain(y) = Integer(1)
  \/ type = "char" /\ Encodes(u) /\ y = Str(FirstChar(u))

\* Python gets an array of octets as a str, and every other one as a list.
SameArray(elem, v, x, side) ==
  /\ HasItems(v)
  /\ x.py = IF elem = "octet" /\ side = "python" THEN "octets" ELSE "list"
  /\ Len(Items(v, elem)) = Len(x.of)
  /\ \A j \in DOMAIN x.of : Same(elem, Items(v, elem)[j], x.of[j], TRUE)

\* x is what v may become as the parameter p on the side it goes to (checked:
\* where nothing but a number that fits gets through).  None is 0 for a number;
\* for an array it may be no elements or as many as there is room for, and no
\* elements None.
Arrived(p, v, x, checked, side) ==
  CASE p.type # "array" ->
         \/ Same(p.type, v, x, p.type # "num" \/ ~checked)
         \/ p.type = "variant" /\ IsSequence(v) /\ SameArray("variant", v, x, side)
         \/ v = None /\ p.type = "num" /\ x = Integer(0)
    [] p.type = "array" ->
         \/ SameArray(p.elem, v, x, side)
         \/ v = None /\ (x = None \/ IsSequence(x) \/ x.py = "octets")
         \/ HasItems(v) /\ Items(v, p.elem) = <<>> /\ x = None

\* Every argument reaches the method as the value that was given, in its
\* place: through the conversion to XPCOM, and back again if the method is in
\* Python.  (In place of what made Python refuse the signature a native caller's
\* method gets a message.)
ArgumentsArrive ==
  seen.made /\ ~Insane(sig) =>
    LET order == ArgumentOrder(sig) IN
    \A j \in DOMAIN order :
      Arrived(sig[order[j]], args[j], seen.of[j], TRUE, callee)

\* A caller that is told of success has every result it asked for, in the
\* order of the Python pattern, the retval first; unless it is the exception
\* handler that tells it so.
ResultsArrive ==
  pc = "done" /\ ~Failed /\ ~Excused =>
    \A j \in DOMAIN ResultOrder :
      slots[ResultOrder[j]].there =>
        Arrived(sig[ResultOrder[j]], answers[j], got[j], FALSE, caller)

\* An interface that goes with an IID parameter is passed as that interface:
\* the method, or the caller, uses the pointer without asking again.
InterfacesAsAsked ==
  (\/ pc = "call" /\ caller = "python"
   \/ pc = "returned" /\ callee = "python" /\ rc = "ok") =>
    \A i \in DOMAIN sig :
      LET p == sig[i] cell == slots[i].val IN
      /\ p.type = "iface_is" /\ Live(Now, cell)
      /\ IsIn(p) <=> pc = "call"
      => mem[cell.n].as = Pointee(Now, slots[p.iid].val).n

\* The IIDs of a signature, as most signatures have them: what tells the
\* interface of a parameter is an IID that only comes in, and before an
\* interface that comes in with it.  (FillInVariant looks at an IID only if it
\* has been filled in, and results are stored the retval first, so that an IID
\* among them may come after the interface that it is for.)  With that, sizes
\* are numbers, dippers strings, and no array is filled in where it is.
AsksInterface(s) == \E i \in DOMAIN s : s[i].type = "iface_is"

IIDsPlain(s) ==
  AsksInterface(s) =>
    /\ \A i, k \in DOMAIN s :
         Counts(s, k, i) =>
           /\ s[k].type = "num"
           /\ s[i].type = "array" /\ IsIn(s[i]) /\ (IsOut(s[i]) \/ IsRetval(s[i])) =>
                IsOut(s[k])
    /\ \A i \in DOMAIN s :
         /\ IsDipper(s[i]) => s[i].type \in {"astring", "cstring", "utf8"}
         /\ s[i].type = "iface_is" =>
              LET k == s[i].iid
              IN /\ s[k].type = "iid" /\ ~IsOut(s[k]) /\ ~IsRetval(s[k])
                 /\ IsIn(s[i]) => k < i

PlainIIDs == \A m \in Methods : IIDsPlain(m.sig)

\* An exception in a Python method, or in the conversion of its results, is
\* reported as a failure, whether or not the logger works, and is not left for
\* the next call to find.  Only the exception handler itself can make it a
\* success, with the number it returns; one that fails, returns something else
\* or cannot be called for want of arguments does not.
ExceptionReported ==
  [][pc = "excepted" => /\ rc' # "ok" /\ err' = "none"
                        /\ rc' = "excused" => seen.made
                        /\ rc' = "nomem" => err = "memory"]_vars
=============================================================================
