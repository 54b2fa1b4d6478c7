--------------------------- MODULE InterfaceCall ---------------------------
(***************************************************************************)
(* A call from Python to an XPCOM interface: PyXPCOMMethod_NS_InvokeByIndex *)
(* (src/XPCOMFunctions.cpp) and PyXPCOM_InterfaceVariantHelper             *)
(* (src/VariantUtils.cpp), which makes variants of the arguments, gets     *)
(* Python objects back from them and frees what is left.                   *)
(***************************************************************************)
EXTENDS Marshalling

\* Store a pointer to a new block, to be freed by the destructor.
Own(w, i, block) ==
  [PutNew(w, i, block) EXCEPT !.slots[i].cleanup = TRUE]

\* val.u32 of a size parameter.
GetSizeOrLengthIs(w, k) == w.slots[k].val.n

\* The argument for parameter i is the n-th.
ParamIndex(i) ==
  1 + Len(InOrder(sig, {j \in DOMAIN sig : TakesArgument(sig, j) /\ j < i}))

-----------------------------------------------------------------------------
(* Slips: definitions below as a plausible mistake would have them.         *)
(* Nothing here is part of the specification.                               *)

\* A second array sets the size again.
SizeSetAgain(w, i, k, n) ==
  [w EXCEPT !.slots[k] = [@ EXCEPT !.val = Num(n), !.typed = TRUE,
                                   !.auto = TRUE]]

\* The reference taken out of a variant is kept in it.
ReferenceKept(w, i) ==
  LET cell == w.slots[i].val IN <<Free(w, cell), Wrapped(Pointee(w, cell))>>

\* PyInt_AsLong is trusted.
NumberUnchecked(w, i, v) ==
  IF IsNumber(v) THEN Put(w, i, Num(v.n)) ELSE Raise(w)

-----------------------------------------------------------------------------
(* PrepareOutVariant *)

\* Space for the result of a dipper, an empty string.
PrepareDipper(w, i) == Own(w, i, Block(Str(0)))

\* "XPConnect will expect some place to dump the result into": as many cells
\* as the size says at this time.
PrepareArray(w, i) ==
  LET p == sig[i]
      s == w.slots[i]
      zeros == Times(GetSizeOrLengthIs(w, p.size),
                     IF IsArithmetic(p.elem) THEN Num(0) ELSE Null)
  IN IF IsIn(p) /\ ~s.cleanup /\ s.val = Null
       THEN [PutNew(w, i, Array(zeros))
               EXCEPT !.slots[i].cleanup = ~IsArithmetic(p.elem)]
       ELSE w

PrepareOutVariant(w, i) ==
  LET p == sig[i]
      x == [w EXCEPT !.slots[i].indirect = TRUE]
  IN IF IsArithmetic(p.type) /\ ~IsIn(p) THEN Put(x, i, Num(0))
     ELSE IF p.type = "array" THEN PrepareArray(x, i)
     ELSE IF IsDipper(p) THEN PrepareDipper(x, i)
     ELSE x

-----------------------------------------------------------------------------
(* FillInVariant *)

\* The first to tell a size sets it, the others have to agree.
SetSizeOrLengthIs(w, i, k, n) ==
  LET told == [w EXCEPT !.slots[k] =
                 [@ EXCEPT !.val = Num(n), !.typed = TRUE, !.auto = TRUE]]
  IN IF w.slots[k].auto
       THEN IF w.slots[k].val.n # n THEN Raise(w) ELSE w
       ELSE IF IsOut(sig[k]) THEN PrepareOutVariant(told, k) ELSE told

\* OverflowError for what does not fit.
FillNumber(w, i, v) ==
  CASE v = None -> Put(w, i, Num(0))
    [] IsNumber(v) /\ v.n < Word -> Put(w, i, Num(v.n))
    [] OTHER -> Raise(w)

FillChar(w, i, v) ==
  IF Encodes(v) /\ v.n = 1 THEN Put(w, i, Num(1)) ELSE Raise(w)

FillIID(w, i, v) == IF v.py = "iid" THEN Own(w, i, Block(v)) ELSE Raise(w)

\* The string is there before its contents: the destructor frees it.
FillAString(w, i, v) ==
  IF v = None \/ Encodes(v) THEN Own(w, i, Block(Plain(v)))
                            ELSE Raise(Own(w, i, Block(Str(0))))

\* A str is taken as it is, unicode encoded; None makes a void string.
FillCString(w, i, v) ==
  IF v = None \/ Encodes(v) \/ (sig[i].type = "utf8" /\ IsText(v))
    THEN Own(w, i, Block(Plain(v)))
    ELSE Raise(w)

\* A char* that only goes in points into the Python str.
FillString(w, i, v) ==
  IF v = None THEN Put(w, i, Null)
  ELSE IF v.py = "str" /\ sig[i].type = "string" /\ ~IsOut(sig[i])
    THEN Put(w, i, Lent(v.n))
  ELSE IF Encodes(v) THEN Own(w, i, Block(Plain(v)))
  ELSE Raise(w)

FillInterface(w, i, v, iid) ==
  LET x == InterfaceFromPyObject(w, v, sig[i].type, iid)
      Store(y, cell) ==
        IF y.ok THEN [Put(y, i, cell) EXCEPT !.slots[i].cleanup = v # None]
                ELSE y
  IN Store(x[1], x[2])

\* The IID parameter is looked at only if it has been filled in before.
FillInterfaceIs(w, i, v) ==
  LET s == w.slots[sig[i].iid]
      iid == Pointee(w, s.val)
  IN FillInterface(w, i, v, IF s.typed /\ s.val # Null THEN iid.n ELSE Supports)

FillSized(w, i, v) ==
  CASE v = None -> Put(w, i, Null)
    [] Encodes(v) ->
         SetSizeOrLengthIs(Own(w, i, Block(Plain(v))), i, sig[i].size, v.n)
    [] OTHER -> Raise(w)

\* The size is set even if an element has failed.  An array that fails is
\* freed, the elements it already has are not.
KeepArray(w, i, filled) ==
  IF w.ok /\ filled
    THEN [w EXCEPT !.slots[i].cleanup = ~IsArithmetic(sig[i].elem)]
    ELSE Fail(Put(Free(w, w.slots[i].val), i, Null))

SizeArray(w, i, n) ==
  KeepArray(SetSizeOrLengthIs([w EXCEPT !.ok = TRUE], i, sig[i].length, n),
            i, w.ok)

FillArray(w, i, v) ==
  LET elem == sig[i].elem
      items == Items(v, elem)
      empty == PutNew(w, i, Array(Times(Len(items), Null)))
  IN IF v = None THEN Put(w, i, Null)
     ELSE IF elem = "array" \/ ~HasItems(v) THEN Raise(w)
     ELSE SizeArray(FillSingleArray(empty, Newest(empty).n, elem, items),
                    i, Len(items))

Fill(w, i, v) ==
  LET p == sig[i]
  IN CASE p.type = "num" -> FillNumber(w, i, v)
       [] p.type = "char" -> FillChar(w, i, v)
       [] p.type = "iid" -> FillIID(w, i, v)
       [] p.type = "astring" -> FillAString(w, i, v)
       [] p.type \in {"cstring", "utf8"} -> FillCString(w, i, v)
       [] IsString(p.type) -> FillString(w, i, v)
       [] p.type = "iface" -> FillInterface(w, i, v, p.iid)
       [] p.type = "variant" -> FillInterface(w, i, v, Supports)
       [] p.type = "iface_is" -> FillInterfaceIs(w, i, v)
       [] IsSized(p.type) -> FillSized(w, i, v)
       [] p.type = "array" -> FillArray(w, i, v)
       [] OTHER -> Raise(w)

\* An exception that is pending at the end is a failure too.
FillInVariant(w, i, v) ==
  LET Checked(x) == [x EXCEPT !.ok = @ /\ x.err = "none"]
  IN Checked(Fill(w, i, v))

-----------------------------------------------------------------------------
(* MakePythonResult *)

\* An interface is taken out of its variant: the Python object holds a
\* reference of its own.
TakeInterface(w, i) ==
  LET cell == w.slots[i].val
  IN <<Put(Free(w, cell), i, Null), Wrapped(Pointee(w, cell))>>

MakeSinglePythonResult(w, i) ==
  LET p == sig[i]
      cell == w.slots[i].val
  IN CASE p.type = "num" -> <<w, Integer(cell.n)>>
       [] p.type = "char" -> <<w, Str(cell.n)>>
       [] IsInterface(p.type) -> TakeInterface(w, i)
       [] p.type = "array" ->
            Decoded(w, i, UnpackSingleArray(w, cell,
                            GetSizeOrLengthIs(w, p.length), p.elem))
       [] IsSized(p.type) ->
            Decoded(w, i, Prefix(Pointee(w, cell),
                                 GetSizeOrLengthIs(w, p.size)))
       [] OTHER -> Decoded(w, i, Pointee(w, cell))

\* "Stick the retval at the front if we have": it is the last parameter.
ResultOrder ==
  LET n == Len(sig)
      all == Results(sig)
  IN IF Len(all) > 1 /\ \E k \in DOMAIN all : IsRetval(sig[all[k]])
       THEN <<n>> \o InOrder(sig, {i \in 1..(n - 1) : GivesResult(sig, i)})
       ELSE all

\* The results up to the first that fails: <<frame, values>>.
MakePythonResult(w) ==
  LET One(x, i) == LET r == MakeSinglePythonResult(x[1], i)
                   IN IF x[1].ok THEN <<r[1], Append(x[2], r[2])>> ELSE x
  IN FoldLeft(One, <<w, <<>>>>, ResultOrder)

-----------------------------------------------------------------------------
(* The destructor of the helper *)

CleanupParam(w, cell, type) == IF IsArithmetic(type) THEN w ELSE Free(w, cell)

\* What the callee did with an "out" parameter is not known: everything that
\* is not null is freed.
NeedsCleanup(w, i) ==
  LET p == sig[i]
      type == IF p.type = "array" THEN p.elem ELSE p.type
  IN IF IsOut(p) THEN ~(w.slots[i].typed /\ IsArithmetic(type))
                      /\ w.slots[i].val # Null
                 ELSE w.slots[i].cleanup

CleanupArray(w, i) ==
  LET cell == w.slots[i].val
      x == IF NeedsCleanup(w, i)
             THEN FreeSingleArray(w, cell,
                    GetSizeOrLengthIs(w, sig[i].length), sig[i].elem)
             ELSE w
  IN IF cell = Null THEN w ELSE Free(x, cell)

CleanupSlot(w, i) ==
  IF w.slots[i].typed /\ sig[i].type = "array" THEN CleanupArray(w, i)
  ELSE IF NeedsCleanup(w, i) THEN CleanupParam(w, w.slots[i].val, sig[i].type)
  ELSE w

-----------------------------------------------------------------------------
(* Actions *)

Unchanged == UNCHANGED <<caller, callee, args, seen, answers>>

\* Init: the descriptors, and the number of arguments.
InitCall ==
  /\ pc = "init"
  /\ sig' = Repaired(sig)
  /\ LET ok == /\ ~Insane(sig')
               /\ Len(args) \in MinArguments(sig')..MaxArguments(sig')
     IN /\ err' = IF ok THEN "none" ELSE "error"
        /\ slots' = IF ok THEN Times(Len(sig), NewSlot) ELSE <<>>
        /\ Goto(IF ok THEN "prepare" ELSE "destroy")
  /\ UNCHANGED <<mem, faults, rc, got>> /\ Unchanged

\* PrepareCall, one parameter: an argument that is not there is an error,
\* even where it is optional.
PrepareParam ==
  /\ pc = "prepare" /\ at <= Len(sig)
  /\ LET p == sig[at]
         n == ParamIndex(at)
         out == (IsOut(p) /\ ~AutoOut(sig, at)) \/ IsDipper(p)
         Filled(w) == IF ~TakesArgument(sig, at) THEN w
                      ELSE IF n > Len(args) THEN Raise(w)
                      ELSE FillInVariant(w, at, args[n])
         WithSpace(w) == IF w.ok /\ out THEN PrepareOutVariant(w, at) ELSE w
         GoOn(w) == /\ Becomes(w)
                    /\ pc' = IF Crashed(w) THEN "crashed"
                             ELSE IF w.ok THEN "prepare" ELSE "destroy"
                    /\ at' = IF w.ok THEN at + 1 ELSE 1
     IN GoOn(WithSpace(Filled([Now EXCEPT !.slots[at].typed = TRUE])))
  /\ UNCHANGED <<sig, rc, got>> /\ Unchanged

\* "There may be out size_is params we havent touched yet"
TouchSizes(w) ==
  LET Touch(x, i) == IF IsOut(sig[i]) /\ AutoOut(sig, i) /\ ~x.slots[i].auto
                       THEN PrepareOutVariant(x, i) ELSE x
  IN FoldLeftDomain(Touch, w, sig)

PrepareSizes ==
  /\ pc = "prepare" /\ at > Len(sig)
  /\ Becomes(TouchSizes(Now))
  /\ Goto("call")
  /\ UNCHANGED <<sig, rc, got>> /\ Unchanged

\* NS_InvokeByIndex has returned.
BuildResult ==
  /\ pc = "returned" /\ caller = "python"
  /\ IF Succeeded
       THEN LET r == MakePythonResult(Now) IN
            /\ Becomes(r[1])
            /\ got' = IF r[1].ok THEN r[2] ELSE <<>>
       ELSE /\ err' = "com"
            /\ UNCHANGED <<slots, mem, faults, got>>
  /\ Goto("destroy")
  /\ UNCHANGED <<sig, rc>> /\ Unchanged

DestroyHelper ==
  /\ pc = "destroy"
  /\ Becomes(FoldLeftDomain(CleanupSlot, Now, slots))
  /\ Goto("done")
  /\ UNCHANGED <<sig, rc, got>> /\ Unchanged

PythonCaller ==
  \/ InitCall \/ PrepareParam \/ PrepareSizes \/ BuildResult \/ DestroyHelper
=============================================================================
