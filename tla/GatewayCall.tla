---------------------------- MODULE GatewayCall ----------------------------
(***************************************************************************)
(* A call from XPCOM to a Python object: PyXPCOM_XPTStub::CallMethod       *)
(* (src/PyGStub.cpp), PyXPCOM_GatewayVariantHelper (src/VariantUtils.cpp), *)
(* _CallMethod_ and _CallMethodException_ of DefaultPolicy                 *)
(* (server/policy.py), and the error indicator as src/ErrorUtils.cpp       *)
(* treats it.                                                              *)
(***************************************************************************)
EXTENDS Marshalling

-----------------------------------------------------------------------------
(* Slips: definitions below as a plausible mistake would have them.         *)
(* Nothing here is part of the specification.                               *)

\* The pending exception is left to DoLogMessage.
LogUnsaved(e, ready) == IF ready THEN e ELSE "none"

\* What an inout parameter held is overwritten.
NotDropped(w, i) == Put(w, i, Null)

\* The results are filled in as the parameters come.
RetvalInPlace(retval) ==
  InOrder(sig, {i \in DOMAIN sig : IsOut(sig[i]) /\ ~AutoOut(sig, i)})

\* Every interface comes back as nsISupports.
IIDNotAsked(w, k) == Supports

-----------------------------------------------------------------------------
(* ErrorUtils.cpp *)

\* PyXPCOM_LogError: LogMessage saves the exception and restores it.
\* DoLogMessage, which does the work, restores it only when the logger is
\* ready.
LogError(e, ready) == e

\* PyXPCOM_SetCOMErrorFromPyException
SetCOMErrorFromPyException(e) ==
  CASE e = "none" -> "ok" [] e = "memory" -> "nomem" [] OTHER -> "failure"

-----------------------------------------------------------------------------
(* MakePyArgs *)

\* A null pointer for a size that comes back.
SizeMissing(w, k) == IsOut(sig[k]) /\ ~w.slots[k].there

\* JavaScript sends a null array for an empty one.
ArrayParam(w, i) ==
  LET cell == w.slots[i].val IN
  IF cell = Null THEN List(<<>>)
  ELSE UnpackSingleArray(w, cell, w.slots[sig[i].length].val.n, sig[i].elem)

\* _MakeInterfaceParam_ takes what is in a variant by its type.
MakeInterfaceParam(x) == IF x.py = "variant" THEN MakeVariantParam(x) ELSE x

\* "we return _something_ rather than failing before any user code has run!"
Unknown == Str(1)

MakeSingleParam(w, i) ==
  LET p == sig[i]
      cell == w.slots[i].val
  IN CASE p.type = "num" -> <<w, Integer(cell.n)>>
       [] p.type = "char" -> <<w, Str(cell.n)>>
       [] p.type = "iid" -> IF cell = Null THEN <<Crash(w), None>>
                            ELSE Decoded(w, i, Pointee(w, cell))
       [] IsInterface(p.type) ->
            Decoded(w, i, MakeInterfaceParam(Pointee(w, cell)))
       [] p.type = "array" -> Decoded(w, i, ArrayParam(w, i))
       [] IsSized(p.type) ->
            Decoded(w, i, Prefix(Pointee(w, cell), w.slots[p.size].val.n))
       [] p.type = "jsval" -> <<w, Unknown>>
       [] OTHER -> Decoded(w, i, Pointee(w, cell))

\* The arguments up to the first that fails: <<frame, values>>.
MakePyArgs(w) ==
  LET One(x, i) == LET r == MakeSingleParam(x[1], i)
                   IN IF x[1].ok THEN <<r[1], Append(x[2], r[2])>> ELSE x
  IN FoldLeft(One, <<w, <<>>>>, ArgumentOrder(sig))

-----------------------------------------------------------------------------
(* BackFillVariant *)

\* "If there is an existing [in]" value, it is freed.
Dropped(w, i) ==
  IF IsIn(sig[i]) THEN Put(Free(w, w.slots[i].val), i, Null)
                  ELSE Put(w, i, Null)

\* SetSizeOrLengthIs: the first result sets the size, the others must agree.
BackFillSize(w, k, n) ==
  IF SizeMissing(w, k) THEN Raise(w)
  ELSE IF ~w.slots[k].filled
    THEN [w EXCEPT !.slots[k] = [@ EXCEPT !.val = Num(n), !.filled = TRUE]]
  ELSE IF w.slots[k].val.n # n THEN Raise(w)
  ELSE w

\* A number is cut, and one too long for a long leaves its exception pending.
BackFillNumber(w, i, v) ==
  IF ~IsNumber(v) THEN Raise(w)
  ELSE IF FitsLong(v) THEN Put(w, i, Num(Cut(v.n)))
  ELSE [Put(w, i, Num(Cut(-1))) EXCEPT !.err = "error"]

BackFillChar(w, i, v) ==
  IF Encodes(v) THEN Put(w, i, Num(FirstChar(v))) ELSE Raise(w)

BackFillIID(w, i, v) ==
  IF v.py = "iid" THEN PutNew(Dropped(w, i), i, Block(v)) ELSE Raise(w)

\* The string is the caller's. For an ACString the result of PyObject_Str is
\* used without a look at it.
BackFillDipper(w, i, v) ==
  LET type == sig[i].type
      filled == [w EXCEPT !.mem[w.slots[i].val.n].of = Plain(v)]
  IN CASE v = None \/ Encodes(v) -> filled
       [] v = OddText /\ type = "utf8" -> filled
       [] v = OddText /\ type = "cstring" -> Crash(w)
       [] OTHER -> Raise(w)

\* The old string goes first, whatever the new one is. Neither is the result
\* of PyUnicode_FromObject looked at.
BackFillString(w, i, v) ==
  LET x == Dropped(w, i) IN
  CASE v = None -> x
    [] Encodes(v) -> PutNew(x, i, Block(Plain(v)))
    [] v = OddText /\ sig[i].type = "wstring" -> Crash(x)
    [] OTHER -> Raise(x)

\* GetIIDForINTERFACE_ID
IIDFor(w, k) ==
  LET cell == w.slots[k].val IN
  IF cell = Null \/ SizeMissing(w, k) THEN Supports ELSE Pointee(w, cell).n

\* The new reference is there before the old one is released.
BackFillInterface(w, i, v) ==
  LET p == sig[i]
      iid == CASE p.type = "iface" -> p.iid
               [] p.type = "iface_is" -> IIDFor(w, p.iid)
               [] OTHER -> Supports
      new == InterfaceFromPyObject(w, v, p.type, iid)
  IN IF new[1].ok THEN Put(Dropped(new[1], i), i, new[2]) ELSE new[1]

\* A size that does not come back has to be met, and then a buffer that came
\* in is filled where it is.  None leaves the size of a char* alone.
BackFillSized(w, i, v) ==
  LET p == sig[i]
      k == p.size
      n == IF v = None THEN 0 ELSE v.n
      wide == p.type = "wsized"
      x == Dropped(w, i)
      filled == IF v = None THEN x ELSE PutNew(x, i, Block(Plain(v)))
  IN IF v # None /\ ~IsText(v) THEN Raise(w)
     ELSE IF v = OddText THEN IF wide THEN Crash(w) ELSE Raise(w)
     ELSE IF ~IsOut(sig[k]) /\ n # w.slots[k].val.n
       THEN Raise(IF wide /\ v # None THEN Allocate(w, Block(Plain(v))) ELSE w)
     ELSE IF ~IsOut(sig[k]) /\ IsIn(p)
       THEN IF n = 0 THEN w
            ELSE [w EXCEPT !.mem[w.slots[i].val.n].of = Plain(v)]
     ELSE IF ~IsOut(sig[k]) \/ (v = None /\ ~wide) THEN filled
     ELSE BackFillSize(filled, k, n)

\* The same for an array. One whose elements fail is left half filled, and
\* the size as it was.
BackFillArray(w, i, v) ==
  LET p == sig[i]
      k == p.length
      cell == w.slots[i].val
      existing == w.slots[k].val.n
      items == IF v = None THEN <<>> ELSE Items(v, p.elem)
      x == IF IsIn(p) /\ cell # Null
             THEN Dropped(FreeSingleArray(w, cell, existing, p.elem), i)
             ELSE Put(w, i, Null)
      new == PutNew(x, i, Array(Times(Len(items), Null)))
      filled == FillSingleArray(new, Newest(new).n, p.elem, items)
  IN IF v # None /\ ~HasItems(v) THEN Raise(w)
     ELSE IF SizeMissing(w, k) THEN Crash(w)
     ELSE IF ~IsOut(sig[k]) /\ Len(items) # existing THEN Raise(w)
     ELSE IF ~IsOut(sig[k]) /\ IsIn(p)
       THEN FillSingleArray(w, cell.n, p.elem, items)
     ELSE IF v = None THEN x
     ELSE IF filled.ok /\ IsOut(sig[k]) THEN BackFillSize(filled, k, Len(items))
     ELSE filled

\* "Ignore out params backed by a NULL pointer."
BackFillVariant(w, i, v) ==
  LET p == sig[i] IN
  IF IsOut(p) /\ ~w.slots[i].there THEN w ELSE
  CASE p.type = "num" -> BackFillNumber(w, i, v)
    [] p.type = "char" -> BackFillChar(w, i, v)
    [] p.type = "iid" -> BackFillIID(w, i, v)
    [] p.type \in {"astring", "cstring", "utf8"} -> BackFillDipper(w, i, v)
    [] IsString(p.type) -> BackFillString(w, i, v)
    [] IsInterface(p.type) -> BackFillInterface(w, i, v)
    [] IsSized(p.type) -> BackFillSized(w, i, v)
    [] p.type = "array" -> BackFillArray(w, i, v)
    [] OTHER -> w

-----------------------------------------------------------------------------
(* ProcessPythonResult *)

\* The last retval among the results, 0 without one.
IndexRetval ==
  LET all == {i \in DOMAIN sig : IsRetval(sig[i]) /\ ~AutoOut(sig, i)}
  IN IF all = {} THEN 0 ELSE CHOOSE i \in all : \A j \in all : j <= i

\* "We always return the nominated result first!", and then the parameters
\* that are out: a dipper is not.
FillOrder(retval) ==
  LET rest == InOrder(sig, {i \in DOMAIN sig : IsOut(sig[i]) /\ ~AutoOut(sig, i)
                                                  /\ i # retval})
  IN IF retval = 0 THEN rest ELSE <<retval>> \o rest

\* What the method returned: several results come as a sequence.
UserResult == IF Len(answers) = 1 THEN answers[1] ELSE List(answers)

\* Results up to the first that fails; too few are an IndexError.
BackFillAll(w, items) ==
  LET order == FillOrder(IndexRetval)
      One(x, j) == IF ~x.ok THEN x
                   ELSE IF j > Len(items) THEN Raise(x)
                   ELSE BackFillVariant(x, order[j], items[j])
  IN FoldLeftDomain(One, w, order)

ProcessPythonResult(w) ==
  LET n == Len(Results(sig)) IN
  IF n = 0 THEN w
  ELSE IF n = 1 THEN BackFillVariant(w, Results(sig)[1], UserResult)
  ELSE IF ~IsSequence(UserResult) THEN Raise(w)
  ELSE BackFillAll(w, UserResult.of)

-----------------------------------------------------------------------------
(* The error handling of CallMethod *)

\* What _CallMethodException_ does: DefaultPolicy gives the errno of a
\* ServerException, whatever that is, and NS_ERROR_FAILURE for all else; other
\* policies may do as they please.
HandlerAnswers == {"error code", "NS_OK", "None", "other", "raises"}

\* The nresult for the exception e: a number is taken as it is, also one that
\* says that nothing went wrong ("excused").  An answer that is no number has
\* been logged, and the exception is back when it is logged in its turn.
ErrorResult(e, answer, ready) ==
  CASE answer = "NS_OK" -> "excused"
    [] answer = "error code" -> IF e = "server" THEN "errno" ELSE "failure"
    [] OTHER -> SetCOMErrorFromPyException(LogError(e, ready))

-----------------------------------------------------------------------------
(* Actions *)

\* The stub ends in its error handling, or returns.
StubGoesOn(w, result) ==
  /\ Becomes(w)
  /\ rc' = result
  /\ Goto(IF Crashed(w) THEN "crashed"
          ELSE IF w.err # "none" THEN "excepted" ELSE "returned")

StubUnchanged == UNCHANGED <<sig, caller, callee, args, answers, got>>

\* Without arguments rc is the NS_ERROR_FAILURE it starts with.
StubMakeArgs ==
  /\ pc = "call" /\ callee = "python" /\ ~Insane(sig)
  /\ LET r == MakePyArgs(Now) IN
     IF r[1].ok THEN /\ Becomes(r[1]) /\ seen' = Arguments(r[2])
                     /\ Goto("method") /\ UNCHANGED rc
                ELSE StubGoesOn(r[1], "failure") /\ UNCHANGED seen
  /\ StubUnchanged

\* That ProcessPythonTypeDescriptors has refused the signature is not looked at:
\* its ValueError stays pending, and the tuple gets as many items as
\* max_num_params, which was not set, happens to say.  There is none, or it is
\* too short, or null pointers are left in it, or it is right by chance, and
\* then Python code that runs may come upon the exception and lose it.
StubMakeArgsInsane ==
  /\ pc = "call" /\ callee = "python" /\ Insane(sig)
  /\ LET r == MakePyArgs([Now EXCEPT !.err = "error"])
         Stops(w) == StubGoesOn(w, "failure") /\ UNCHANGED seen
     IN \/ \E e \in {"error", "memory"} : Stops([Now EXCEPT !.err = e])
        \/ ArgumentOrder(sig) # <<>> /\ Stops(Crash(Fault(Now, "past the end")))
        \/ ~r[1].ok /\ Stops(r[1])
        \/ r[1].ok /\ Stops(Crash(r[1]))
        \/ /\ r[1].ok
           /\ \E e \in {"error", "none"} : Becomes([r[1] EXCEPT !.err = e])
           /\ seen' = Arguments(r[2])
           /\ Goto("method") /\ UNCHANGED rc
  /\ StubUnchanged

\* _CallMethod_ comes back with (0, result).
MethodReturns ==
  /\ pc = "method"
  /\ LET w == ProcessPythonResult(Now)
     IN StubGoesOn(w, IF w.ok THEN "ok" ELSE "failure")
  /\ UNCHANGED seen /\ StubUnchanged

\* A setter gives the bare 0, and a policy may give any other code.
MethodReturnsCode ==
  /\ pc = "method"
  /\ \E result \in {"ok", "failure"} :
       /\ result = "ok" => Results(sig) = <<>>
       /\ StubGoesOn(Now, result)
  /\ UNCHANGED seen /\ StubUnchanged

\* It raises, or comes back with something else, which is a TypeError.
MethodRaises ==
  /\ pc = "method"
  /\ \E e \in {"server", "memory", "error"} :
       StubGoesOn([Now EXCEPT !.err = e], "failure")
  /\ UNCHANGED seen /\ StubUnchanged

\* The handler cannot be called without the arguments it is to be given.
HandleException ==
  /\ pc = "excepted"
  /\ \E answer \in HandlerAnswers, ready \in BOOLEAN :
       /\ ~seen.made => answer = "raises"
       /\ StubGoesOn([Now EXCEPT !.err = "none"],
                     ErrorResult(err, answer, ready))
  /\ UNCHANGED seen /\ StubUnchanged

Stub ==
  \/ StubMakeArgs \/ StubMakeArgsInsane \/ MethodReturns \/ MethodReturnsCode \/ MethodRaises
  \/ HandleException
=============================================================================
