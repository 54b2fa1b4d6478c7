----------------------------- MODULE CallsProofs ----------------------------
(***************************************************************************)
(* Proofs about Calls, for any methods, any arguments and answers and any  *)
(* width of the numbers: whatever a conversion makes of the memory of a    *)
(* call, the exception it leaves is not lost, unless the handler for it    *)
(* says that nothing went wrong; and the calls keep their types, with      *)
(* every pointer of a parameter leading to a block that was allocated.     *)
(* And for methods whose sizes are plain (PlainSizes), a size that Python  *)
(* code never sees is the size of what it counts; for methods whose IIDs   *)
(* are plain (PlainIIDs), an interface that goes with an IID is what that  *)
(* IID asks for, whichever way it goes.                                    *)
(***************************************************************************)
EXTENDS FrameProofs

-----------------------------------------------------------------------------
(***************************************************************************)
(* The error handling of the stub.                                         *)
(***************************************************************************)

\* Control comes to the handling of exceptions only with one pending.
Pending == pc = "excepted" => err # "none"

\* Where the stub goes on depends on the exception alone, whatever has become
\* of the memory.
LEMMA StubGoesOnPending ==
  ASSUME NEW w, NEW result, StubGoesOn(w, result)
  PROVE  Pending'
BY DEF StubGoesOn, Becomes, Goto, Pending

\* The stub comes to it from the conversions and the method.
LEMMA StubPending ==
  ASSUME Stub
  PROVE  Pending'
<1>1. CASE StubMakeArgs
  <2>1. CASE MakePyArgs(Now)[1].ok
    BY <1>1, <2>1 DEF StubMakeArgs, Goto, Pending
  <2>2. CASE ~MakePyArgs(Now)[1].ok
    BY <1>1, <2>2, StubGoesOnPending DEF StubMakeArgs
  <2> QED
    BY <2>1, <2>2
<1>2. CASE MethodReturns
  BY <1>2, StubGoesOnPending DEF MethodReturns
<1>3. CASE MethodReturnsCode
  BY <1>3, StubGoesOnPending DEF MethodReturnsCode
<1>4. CASE MethodRaises
  BY <1>4, StubGoesOnPending DEF MethodRaises
<1>5. CASE HandleException
  BY <1>5, StubGoesOnPending DEF HandleException
<1>6. CASE StubMakeArgsInsane
  <2>1. CASE pc' = "method"
    BY <2>1 DEF Pending
  <2>2. CASE pc' # "method"
    <3>1. \E w : StubGoesOn(w, "failure")
      BY <1>6, <2>2, Zenon DEF StubMakeArgsInsane, Goto
    <3> QED
      BY <3>1, StubGoesOnPending
  <2> QED
    BY <2>1, <2>2
<1> QED
  BY <1>1, <1>2, <1>3, <1>4, <1>5, <1>6 DEF Stub

\* The other side of a call never does.
LEMMA OthersPending ==
  /\ PythonCaller => pc # "excepted" /\ pc' # "excepted"
  /\ NativePrepare \/ NativeFinish \/ NativeFails \/ NativeMethod
       => pc # "excepted" /\ pc' # "excepted"
<1>1. InitCall => pc # "excepted" /\ pc' # "excepted"
  BY DEF InitCall, Goto
<1>2. PrepareParam => pc # "excepted" /\ pc' # "excepted"
  BY DEF PrepareParam
<1>3. PrepareSizes \/ BuildResult \/ DestroyHelper
        => pc # "excepted" /\ pc' # "excepted"
  BY DEF PrepareSizes, BuildResult, DestroyHelper, Goto
<1>4. NativePrepare \/ NativeFinish \/ NativeFails \/ NativeMethod
        => pc # "excepted" /\ pc' # "excepted"
  BY DEF NativePrepare, NativeFinish, NativeFails, NativeMethod, Goto
<1> QED
  BY <1>1, <1>2, <1>3, <1>4 DEF PythonCaller

\* The nresult for a pending exception.
LEMMA ErrorResultFails ==
  ASSUME NEW e, e # "none", NEW answer, NEW ready
  PROVE  /\ ErrorResult(e, answer, ready) # "ok"
         /\ ErrorResult(e, answer, ready) = "excused" => answer = "NS_OK"
         /\ ErrorResult(e, answer, ready) = "nomem" => e = "memory"
BY DEF ErrorResult, SetCOMErrorFromPyException, LogError

\* Every step of a call leaves it so.
LEMMA PendingKept == Pending /\ [Next]_vars => Pending'
<1> SUFFICES ASSUME Pending, [Next]_vars PROVE Pending'
  OBVIOUS
<1>1. CASE UNCHANGED vars
  BY <1>1 DEF vars, frame, Pending
<1>2. CASE Finished
  BY <1>2 DEF Finished, vars, frame, Pending
<1>3. CASE Stub
  BY <1>3, StubPending
<1>4. CASE PythonCaller \/ NativePrepare \/ NativeFinish \/ NativeFails
           \/ NativeMethod
  BY <1>4, OthersPending DEF Pending
<1> QED
  BY <1>1, <1>2, <1>3, <1>4 DEF Next

\* An exception in a Python method or in the conversion of its arguments or
\* results is never left pending, and only the handler of exceptions can make
\* NS_OK of it, by returning that number: not by failing, by returning something
\* else or None, nor where it cannot be called, and not the logger either,
\* whether it works or not (PyXPCOM_XPTStub::CallMethod,
\* PyXPCOM_SetCOMErrorFromPyException).
THEOREM NoExceptionIsLost == Spec => ExceptionReported
<1>1. Init => Pending
  BY DEF Init, Pending
<1>2. Pending /\ [Next]_vars
        => [pc = "excepted" => /\ rc' # "ok" /\ err' = "none"
                               /\ rc' = "excused" => seen.made
                               /\ rc' = "nomem" => err = "memory"]_vars
  <2> SUFFICES ASSUME Pending, Next, pc = "excepted"
               PROVE  /\ rc' # "ok" /\ err' = "none"
                      /\ rc' = "excused" => seen.made
                      /\ rc' = "nomem" => err = "memory"
    OBVIOUS
  <2>1. HandleException
    <3>1. ~PythonCaller /\ ~NativePrepare /\ ~NativeFinish /\ ~NativeFails
          /\ ~NativeMethod
      BY OthersPending
    <3>2. Stub
      BY <3>1 DEF Next, Finished
    <3> QED
      BY <3>2 DEF Stub, StubMakeArgs, StubMakeArgsInsane, MethodReturns,
                  MethodReturnsCode, MethodRaises
  <2>2. PICK answer \in HandlerAnswers, ready \in BOOLEAN :
          /\ ~seen.made => answer = "raises"
          /\ StubGoesOn([Now EXCEPT !.err = "none"],
                        ErrorResult(err, answer, ready))
    BY <2>1 DEF HandleException
  <2>3. rc' = ErrorResult(err, answer, ready) /\ err' = "none"
    BY <2>2 DEF StubGoesOn, Becomes, Now
  <2>4. err # "none"
    BY DEF Pending
  <2>5. rc' = "excused" => seen.made
    BY <2>2, <2>3, <2>4, ErrorResultFails
  <2> QED
    BY <2>3, <2>4, <2>5, ErrorResultFails
<1> QED
  BY <1>1, <1>2, PendingKept, PTL DEF Spec, ExceptionReported

-----------------------------------------------------------------------------
(***************************************************************************)
(* The type invariant.                                                     *)
(***************************************************************************)

\* An action that stores a well-formed frame leaves the call with one.
LEMMA BecomesFrame ==
  ASSUME NEW N \in Nat, NEW w \in Frames(N), Becomes(w)
  PROVE  Now' \in Frames(N)
<1>1. [w EXCEPT !.ok = TRUE] \in Frames(N)
  BY FlagFrame
<1>2. [w EXCEPT !.ok = TRUE] = [slots |-> w.slots, mem |-> w.mem, faults |-> w.faults,
                                err |-> w.err, ok |-> TRUE]
  BY FrameUpdates
<1> QED
  BY <1>1, <1>2 DEF Becomes, Now

\* The variants of a call before anything is put in.
LEMMA FreshFrame ==
  ASSUME WellTyped(sig), NEW N, N = Len(sig), NEW M \in {0, N}, NEW w \in Frames(M),
         NEW e \in ErrKinds
  PROVE  /\ N \in Nat
         /\ Times(N, NewSlot) \in [1..N -> Slots]
         /\ [slots |-> Times(N, NewSlot), mem |-> w.mem, faults |-> w.faults,
             err |-> e, ok |-> TRUE] \in Frames(N)
         /\ [slots |-> <<>>, mem |-> w.mem, faults |-> w.faults,
             err |-> e, ok |-> TRUE] \in Frames(0)
<1>1. N \in Nat /\ M \in Nat
  BY SigFields
<1>2. w.mem \in Seq(Blocks) /\ w.faults \in SUBSET FaultKinds
  BY <1>1, FrameFields DEF IsFrame
<1>3. /\ Times(N, NewSlot) \in [1..N -> Slots]
      /\ \A i \in 1..N : Times(N, NewSlot)[i] = NewSlot
  BY <1>1, SlotKinds, TimesSeq
<1>4. NewSlot.val.is = "null"
  BY CellKinds DEF NewSlot
<1>5. \A i \in 1..N : Times(N, NewSlot)[i].val.is # "ptr"
  BY <1>3, <1>4
<1>6. [slots |-> Times(N, NewSlot), mem |-> w.mem, faults |-> w.faults,
       err |-> e, ok |-> TRUE] \in Frames(N)
  BY <1>1, <1>2, <1>3, <1>5, FrameBuilt
<1>7. <<>> \in [1..0 -> Slots] /\ 0 \in Nat /\ 1..0 = {}
  OBVIOUS
<1>8. [slots |-> <<>>, mem |-> w.mem, faults |-> w.faults,
       err |-> e, ok |-> TRUE] \in Frames(0)
  BY <1>2, <1>7, FrameBuilt
<1> QED
  BY <1>1, <1>3, <1>6, <1>8

\* ProcessPythonTypeDescriptors leaves a signature as XPIDL lets it be.
LEMMA RepairedKind ==
  ASSUME NEW s, WellTyped(s)
  PROVE  WellTyped(Repaired(s)) /\ Len(Repaired(s)) = Len(s)
<1> DEFINE r == Repaired(s)
<1>1. Len(s) \in Nat /\ DOMAIN s = 1..Len(s) /\ \A i \in 1..Len(s) : s[i] \in Descriptors
  BY SigFields
<1>2. ASSUME NEW i \in 1..Len(s)
      PROVE  /\ r[i] \in Descriptors
             /\ r[i].type = s[i].type /\ r[i].size = s[i].size
             /\ r[i].length = s[i].length /\ r[i].iid = s[i].iid
  <2>1. r[i] = IF IsDipper(s[i]) /\ ~IsIn(s[i]) /\ ~IsOut(s[i])
                 THEN [s[i] EXCEPT !.flags = @ \cup {"in"}] ELSE s[i]
    BY <1>1 DEF Repaired
  <2>2. s[i] \in Descriptors
    BY <1>1
  <2>3. /\ [s[i] EXCEPT !.flags = @ \cup {"in"}] \in Descriptors
        /\ [s[i] EXCEPT !.flags = @ \cup {"in"}].type = s[i].type
        /\ [s[i] EXCEPT !.flags = @ \cup {"in"}].size = s[i].size
        /\ [s[i] EXCEPT !.flags = @ \cup {"in"}].length = s[i].length
        /\ [s[i] EXCEPT !.flags = @ \cup {"in"}].iid = s[i].iid
    BY <2>2 DEF Descriptors, Flags
  <2> HIDE DEF r
  <2> QED
    BY <2>1, <2>2, <2>3
<1>3. r \in [1..Len(s) -> Descriptors]
  <2>1. r = [i \in 1..Len(s) |-> r[i]]
    BY <1>1 DEF Repaired
  <2> HIDE DEF r
  <2> QED
    BY <1>2, <2>1
<1>4. r \in Seq(Descriptors) /\ Len(r) = Len(s) /\ DOMAIN r = 1..Len(s)
  <2> HIDE DEF r
  <2> QED
    BY <1>1, <1>3, SeqDef
<1>5. WellFormed(r)
  <2>1. WellFormed(s)
    BY DEF WellTyped
  <2> HIDE DEF r
  <2> QED
    BY <1>1, <1>2, <1>4, <2>1 DEF WellFormed
<1> QED
  BY <1>4, <1>5 DEF WellTyped

\* The inductive invariant.

\* The signature and the values are as the methods give them.
MethodKind ==
  /\ WellTyped(sig)
  /\ args \in Seq(Given) /\ AnswersGiven
  /\ caller = "native" => NativeValues(sig, ArgumentOrder(sig), args)

\* A call that has not been prepared may have no variants, any other has one
\* for each parameter.
FrameKind ==
  /\ Now \in Frames(0) \/ Now \in Frames(Len(sig))
  /\ pc \notin {"init", "destroy", "done"} => Now \in Frames(Len(sig))

ResultKind == rc \in {"none", "ok", "excused", "failure", "errno", "nomem"}

CallInv == MethodKind /\ FrameKind /\ ResultKind /\ at \in Nat \ {0}

\* The invariant is stronger than the type invariant.
LEMMA InvImpliesTypeOK == CallInv => TypeOK
<1> SUFFICES ASSUME CallInv PROVE TypeOK
  OBVIOUS
<1>1. Len(sig) \in Nat /\ DOMAIN sig = 1..Len(sig)
  BY SigFields DEF CallInv, MethodKind
<1>2. PICK N \in {0, Len(sig)} : Now \in Frames(N)
  BY DEF CallInv, FrameKind
<1>3. IsFrame(N, Now)
  BY <1>1, <1>2, FrameFields
<1>4. DOMAIN slots = 1..N /\ slots \in [1..N -> Slots]
  BY <1>3 DEF IsFrame, Now
<1>5. slots = <<>> \/ DOMAIN slots = DOMAIN sig
  <2>1. CASE N = 0
    BY <1>4, <2>1
  <2>2. CASE N = Len(sig)
    BY <1>1, <1>4, <2>2
  <2> QED
    BY <2>1, <2>2
<1>6. ASSUME NEW i \in DOMAIN slots
      PROVE  LET cell == slots[i].val IN
             CASE cell.is = "num" -> cell.n \in 0..(Word - 1)
               [] cell.is = "ptr" -> cell.n \in DOMAIN mem
               [] OTHER -> cell.is \in {"null", "lent"}
  <2> DEFINE cell == slots[i].val
  <2>1. slots[i] \in Slots
    BY <1>4
  <2>2. cell \in CellValues
    BY <2>1, SlotFields
  <2>3. cell.is = "ptr" => cell.n \in DOMAIN mem
    BY <1>3, <1>4 DEF IsFrame, InMemory, Now
  <2>4. cell.is = "num" => cell.n \in 0..(Word - 1)
    BY <2>2, WidthAssumption DEF CellValues
  <2>5. cell.is \in {"null", "num", "lent", "ptr"}
    BY <2>2 DEF CellValues
  <2> HIDE DEF cell
  <2>6. (CASE cell.is = "num" -> cell.n \in 0..(Word - 1)
           [] cell.is = "ptr" -> cell.n \in DOMAIN mem
           [] OTHER -> cell.is \in {"null", "lent"})
    BY <2>3, <2>4, <2>5
  <2> QED
    BY <2>6 DEF cell
<1>7. err \in {"none", "error", "server", "memory", "com"}
      /\ faults \subseteq {"not ours", "freed twice", "past the end", "bad read", "crash"}
  BY <1>3 DEF IsFrame, Now, ErrKinds, FaultKinds
<1>8. rc \in {"none", "ok", "excused", "failure", "errno", "nomem"}
  BY DEF CallInv, ResultKind
<1> QED
  BY <1>5, <1>6, <1>7, <1>8 DEF TypeOK

\* It holds when the call begins.
LEMMA InitInv == Init => CallInv
<1> SUFFICES ASSUME Init PROVE CallInv
  OBVIOUS
<1>1. PICK m \in Methods : sig = m.sig /\ args \in m.args /\ answers \in m.answers
  BY DEF Init
<1>2. /\ m.sig \in Seq(Descriptors) /\ WellFormed(m.sig)
      /\ m.args \subseteq Seq(Given)
      /\ m.answers \subseteq {s \in Seq(Given) : Len(s) < Word}
  BY MethodsAssumption
<1>3. MethodKind
  BY <1>1, <1>2 DEF Init, MethodKind, WellTyped, AnswersGiven
<1>4. Now \in Frames(0)
  <2>1. <<>> \in [1..0 -> Slots] /\ 0 \in Nat /\ 1..0 = {} /\ <<>> \in Seq(Blocks)
    OBVIOUS
  <2>2. {} \in SUBSET FaultKinds /\ "none" \in ErrKinds
    BY DEF ErrKinds
  <2>3. [slots |-> <<>>, mem |-> <<>>, faults |-> {}, err |-> "none", ok |-> TRUE]
          \in Frames(0)
    BY <2>1, <2>2, FrameBuilt
  <2> QED
    BY <2>3 DEF Init, Now
<1>5. pc = "init" /\ rc = "none" /\ at = 1
  BY DEF Init
<1> QED
  BY <1>3, <1>4, <1>5 DEF CallInv, FrameKind, ResultKind

\* What an action that leaves the signature and the values alone has to see
\* to.
LEMMA FrameKept ==
  ASSUME CallInv, NEW w \in Frames(Len(sig)), Becomes(w),
         UNCHANGED <<sig, caller, args, answers>>, ResultKind', at' \in Nat \ {0}
  PROVE  CallInv'
<1>1. Len(sig) \in Nat
  BY SigFields DEF CallInv, MethodKind
<1>2. Now' \in Frames(Len(sig))
  BY <1>1, BecomesFrame
<1>3. MethodKind'
  <2>1. sig' = sig /\ caller' = caller /\ args' = args /\ answers' = answers
    OBVIOUS
  <2> QED
    BY <2>1 DEF CallInv, MethodKind, AnswersGiven
<1> QED
  BY <1>2, <1>3 DEF CallInv, FrameKind

\* Every step of a call from Python keeps it: taking the arguments,
LEMMA InitCallInv == CallInv /\ caller = "python" /\ InitCall => CallInv'
<1> SUFFICES ASSUME CallInv, caller = "python", InitCall PROVE CallInv'
  OBVIOUS
<1> DEFINE N == Len(sig)
<1>1. WellTyped(sig') /\ Len(sig') = N /\ WellTyped(sig)
  BY RepairedKind DEF CallInv, MethodKind, InitCall
<1>2. MethodKind'
  BY <1>1 DEF CallInv, MethodKind, AnswersGiven, InitCall, Unchanged
<1>3. PICK M \in {0, N} : Now \in Frames(M)
  BY DEF CallInv, FrameKind
<1>4. \A e \in ErrKinds :
        /\ [slots |-> Times(N, NewSlot), mem |-> Now.mem, faults |-> Now.faults,
            err |-> e, ok |-> TRUE] \in Frames(N)
        /\ [slots |-> <<>>, mem |-> Now.mem, faults |-> Now.faults,
            err |-> e, ok |-> TRUE] \in Frames(0)
  <2> HIDE DEF N
  <2> QED
    BY <1>1, <1>3, FreshFrame DEF N
<1>5. /\ mem' = mem /\ faults' = faults /\ err' \in {"none", "error"}
      /\ \/ slots' = Times(N, NewSlot) /\ pc' = "prepare"
         \/ slots' = <<>> /\ pc' = "destroy"
      /\ at' = 1 /\ rc' = rc
  BY DEF InitCall, Goto
<1>6. Now' = [slots |-> slots', mem |-> Now.mem, faults |-> Now.faults,
              err |-> err', ok |-> TRUE] /\ err' \in ErrKinds
  BY <1>5 DEF Now, ErrKinds
<1>7. FrameKind'
  <2>1. CASE slots' = Times(N, NewSlot)
    BY <1>1, <1>4, <1>6, <2>1 DEF FrameKind
  <2>2. CASE slots' = <<>> /\ pc' = "destroy"
    BY <1>4, <1>6, <2>2 DEF FrameKind
  <2> QED
    BY <1>5, <2>1, <2>2
<1>8. ResultKind' /\ at' \in Nat \ {0}
  BY <1>5 DEF CallInv, ResultKind
<1> QED
  BY <1>2, <1>7, <1>8 DEF CallInv

\* preparing a parameter,
LEMMA PrepareParamInv == CallInv /\ PrepareParam => CallInv'
<1> SUFFICES ASSUME CallInv, PrepareParam PROVE CallInv'
  OBVIOUS
<1> DEFINE N == Len(sig)
           n == ParamIndex(at)
           out == (IsOut(sig[at]) /\ ~AutoOut(sig, at)) \/ IsDipper(sig[at])
           start == [Now EXCEPT !.slots[at].typed = TRUE]
           filled == IF ~TakesArgument(sig, at) THEN start
                     ELSE IF n > Len(args) THEN Raise(start)
                     ELSE FillInVariant(start, at, args[n])
           done == IF filled.ok /\ out THEN PrepareOutVariant(filled, at) ELSE filled
<1>1. WellTyped(sig) /\ N \in Nat /\ at \in 1..N
  BY SigFields DEF CallInv, MethodKind, PrepareParam
<1>2. start \in Frames(N)
  <2>1. Now \in Frames(N)
    BY DEF CallInv, FrameKind, PrepareParam
  <2> QED
    BY <1>1, <2>1, SlotFlagFrame
<1>3. Raise(start) \in Frames(N)
  <2> HIDE DEF start, N
  <2> QED
    BY <1>1, <1>2, FaultFrame
<1>4. ASSUME ~(n > Len(args))
      PROVE  FillInVariant(start, at, args[n]) \in Frames(N)
  <2>1. n \in Nat \ {0} /\ args \in Seq(Given)
    BY <1>1, Orders DEF CallInv, MethodKind
  <2> HIDE DEF n
  <2>2. args[n] \in Given
    BY <1>4, <2>1
  <2>3. args[n] \in Handled /\ Fits(args[n])
    BY <2>2, GivenKind DEF Fitting
  <2> HIDE DEF start
  <2> QED
    BY <1>1, <1>2, <2>3, FillFrame
<1>5. filled \in Frames(N)
  <2> HIDE DEF start
  <2> QED
    BY <1>2, <1>3, <1>4
<1>6. done \in Frames(N)
  <2> HIDE DEF filled
  <2> QED
    BY <1>1, <1>5, PrepareOutFrame
<1>7. Becomes(done) /\ (at' = at + 1 \/ at' = 1)
      /\ UNCHANGED <<sig, caller, args, answers, rc>>
  BY DEF PrepareParam, Unchanged
<1>8. ResultKind' /\ at' \in Nat \ {0}
  BY <1>7 DEF CallInv, ResultKind
<1> HIDE DEF done
<1> QED
  BY <1>6, <1>7, <1>8, FrameKept

\* preparing the sizes,
LEMMA PrepareSizesInv == CallInv /\ PrepareSizes => CallInv'
<1> SUFFICES ASSUME CallInv, PrepareSizes PROVE CallInv'
  OBVIOUS
<1>1. WellTyped(sig) /\ Now \in Frames(Len(sig))
  BY DEF CallInv, MethodKind, FrameKind, PrepareSizes
<1>2. TouchSizes(Now) \in Frames(Len(sig))
  BY <1>1, TouchSizesFrame
<1>3. Becomes(TouchSizes(Now)) /\ at' = 1 /\ UNCHANGED <<sig, caller, args, answers, rc>>
  BY DEF PrepareSizes, Goto, Unchanged
<1>4. ResultKind' /\ at' \in Nat \ {0}
  BY <1>3 DEF CallInv, ResultKind
<1> QED
  BY <1>2, <1>3, <1>4, FrameKept

\* building the result,
LEMMA BuildResultInv == CallInv /\ BuildResult => CallInv'
<1> SUFFICES ASSUME CallInv, BuildResult PROVE CallInv'
  OBVIOUS
<1>1. WellTyped(sig) /\ Now \in Frames(Len(sig)) /\ Len(sig) \in Nat
  BY SigFields DEF CallInv, MethodKind, FrameKind, BuildResult
<1>2. at' = 1 /\ UNCHANGED <<sig, caller, args, answers, rc>>
  BY DEF BuildResult, Goto, Unchanged
<1>3. ResultKind' /\ at' \in Nat \ {0}
  BY <1>2 DEF CallInv, ResultKind
<1>4. CASE Succeeded
  <2>1. MakePythonResult(Now)[1] \in Frames(Len(sig))
    BY <1>1, MakePythonResultFrame
  <2>2. Becomes(MakePythonResult(Now)[1])
    BY <1>4 DEF BuildResult
  <2> QED
    BY <1>2, <1>3, <2>1, <2>2, FrameKept
<1>5. CASE ~Succeeded
  <2>1. [Now EXCEPT !.err = "com"] \in Frames(Len(sig))
    BY <1>1, FlagFrame DEF ErrKinds
  <2>2. Becomes([Now EXCEPT !.err = "com"])
    BY <1>5 DEF BuildResult, Becomes, Now
  <2> QED
    BY <1>2, <1>3, <2>1, <2>2, FrameKept
<1> QED
  BY <1>4, <1>5

\* and the destructor of the helper.
LEMMA DestroyInv == CallInv /\ DestroyHelper => CallInv'
<1> SUFFICES ASSUME CallInv, DestroyHelper PROVE CallInv'
  OBVIOUS
<1>1. WellTyped(sig) /\ Len(sig) \in Nat
  BY SigFields DEF CallInv, MethodKind
<1>2. PICK N \in {0, Len(sig)} : Now \in Frames(N)
  BY DEF CallInv, FrameKind
<1>3. FoldLeftDomain(CleanupSlot, Now, Now.slots) \in Frames(N)
  BY <1>1, <1>2, DestroyFrame
<1>4. FoldLeftDomain(CleanupSlot, Now, slots) \in Frames(N)
  <2>1. Now.slots = slots
    BY DEF Now
  <2> QED
    BY <1>3, <2>1
<1>5. /\ Becomes(FoldLeftDomain(CleanupSlot, Now, slots))
      /\ at' = 1 /\ pc' = "done" /\ UNCHANGED <<sig, caller, args, answers, rc>>
  BY DEF DestroyHelper, Goto, Unchanged
<1>6. Now' \in Frames(N)
  BY <1>1, <1>4, <1>5, BecomesFrame
<1>7. MethodKind'
  BY <1>5 DEF CallInv, MethodKind, AnswersGiven
<1> QED
  BY <1>5, <1>6, <1>7 DEF CallInv, FrameKind, ResultKind

\* The same for the steps of the stub.
LEMMA StubKept ==
  ASSUME CallInv, NEW w \in Frames(Len(sig)),
         NEW result \in {"none", "ok", "excused", "failure", "errno", "nomem"},
         StubGoesOn(w, result), StubUnchanged
  PROVE  CallInv'
<1>1. Becomes(w) /\ rc' = result /\ at' = 1 /\ UNCHANGED <<sig, caller, args, answers>>
  BY DEF StubGoesOn, StubUnchanged, Goto
<1>2. ResultKind' /\ at' \in Nat \ {0}
  BY <1>1 DEF ResultKind
<1> QED
  BY <1>1, <1>2, FrameKept

\* What becomes of the frame when the arguments of a refused signature are
\* converted: the stub goes on with its error handling, or with the method.
LEMMA InsaneFrame ==
  ASSUME WellTyped(sig), NEW N, N = Len(sig), Now \in Frames(N), StubMakeArgsInsane
  PROVE  \/ \E w \in Frames(N) : StubGoesOn(w, "failure") /\ UNCHANGED seen
         \/ /\ \E w \in Frames(N) : Becomes(w)
            /\ Goto("method") /\ UNCHANGED rc
<1> DEFINE start == [Now EXCEPT !.err = "error"]
           r == MakePyArgs(start)
           Stops(w) == StubGoesOn(w, "failure") /\ UNCHANGED seen
<1>1. N \in Nat
  BY SigFields
<1>2. \A x \in Frames(N) : /\ \A e \in ErrKinds : [x EXCEPT !.err = e] \in Frames(N)
                           /\ Crash(x) \in Frames(N)
  BY <1>1, FlagFrame, FaultFrame
<1>3. "error" \in ErrKinds /\ "memory" \in ErrKinds /\ "none" \in ErrKinds
      /\ "past the end" \in FaultKinds
  BY DEF ErrKinds, FaultKinds
<1>4. start \in Frames(N)
  BY <1>2, <1>3
<1>5. r[1] \in Frames(N)
  <2> HIDE DEF start
  <2> QED
    BY <1>1, <1>4, MakePyArgsFrame
<1>6. Crash(Fault(Now, "past the end")) \in Frames(N)
  <2>1. Fault(Now, "past the end") \in Frames(N)
    BY <1>1, <1>3, FaultFrame
  <2> QED
    BY <1>2, <2>1
<1> HIDE DEF r
<1>7. \/ \E e \in {"error", "memory"} : Stops([Now EXCEPT !.err = e])
      \/ Stops(Crash(Fault(Now, "past the end")))
      \/ Stops(r[1])
      \/ Stops(Crash(r[1]))
      \/ /\ \E e \in {"error", "none"} : Becomes([r[1] EXCEPT !.err = e])
         /\ Goto("method") /\ UNCHANGED rc
  <2> HIDE DEF Stops
  <2> QED
    BY DEF StubMakeArgsInsane, Stops, r
<1>8. CASE \E e \in {"error", "memory"} : Stops([Now EXCEPT !.err = e])
  <2>1. PICK e \in {"error", "memory"} : Stops([Now EXCEPT !.err = e])
    BY <1>8
  <2>2. [Now EXCEPT !.err = e] \in Frames(N)
    BY <1>2, <1>3
  <2> QED
    BY <2>1, <2>2
<1>9. CASE Stops(Crash(Fault(Now, "past the end"))) \/ Stops(r[1]) \/ Stops(Crash(r[1]))
  BY <1>2, <1>5, <1>6, <1>9
<1>10. CASE /\ \E e \in {"error", "none"} : Becomes([r[1] EXCEPT !.err = e])
            /\ Goto("method") /\ UNCHANGED rc
  <2>1. PICK e \in {"error", "none"} : Becomes([r[1] EXCEPT !.err = e])
    BY <1>10
  <2>2. [r[1] EXCEPT !.err = e] \in Frames(N)
    BY <1>2, <1>3, <1>5
  <2> QED
    BY <1>10, <2>1, <2>2
<1> QED
  BY <1>7, <1>8, <1>9, <1>10

\* So do the steps of the stub,
LEMMA StubInv == CallInv /\ Stub => CallInv'
<1> SUFFICES ASSUME CallInv, Stub PROVE CallInv'
  OBVIOUS
<1>1. WellTyped(sig) /\ Len(sig) \in Nat /\ AnswersGiven
  BY SigFields DEF CallInv, MethodKind
<1>2. Now \in Frames(Len(sig))
  BY DEF CallInv, FrameKind, Stub, StubMakeArgs, StubMakeArgsInsane, MethodReturns,
         MethodReturnsCode, MethodRaises, HandleException
<1>3. CASE StubMakeArgs
  <2> DEFINE r == MakePyArgs(Now)
  <2>1. r[1] \in Frames(Len(sig))
    BY <1>1, <1>2, MakePyArgsFrame
  <2> HIDE DEF r
  <2>2. CASE r[1].ok
    <3>1. Becomes(r[1]) /\ at' = 1 /\ UNCHANGED <<sig, caller, args, answers, rc>>
      BY <1>3, <2>2 DEF StubMakeArgs, StubUnchanged, Goto, r
    <3>2. ResultKind' /\ at' \in Nat \ {0}
      BY <3>1 DEF CallInv, ResultKind
    <3> QED
      BY <2>1, <3>1, <3>2, FrameKept
  <2>3. CASE ~r[1].ok
    <3>1. StubGoesOn(r[1], "failure") /\ StubUnchanged
      BY <1>3, <2>3 DEF StubMakeArgs, r
    <3> QED
      BY <2>1, <3>1, StubKept
  <2> QED
    BY <2>2, <2>3
<1>4. CASE MethodReturns
  <2> DEFINE w == ProcessPythonResult(Now)
  <2>1. w \in Frames(Len(sig))
    BY <1>1, <1>2, ProcessFrame
  <2> HIDE DEF w
  <2>2. StubGoesOn(w, IF w.ok THEN "ok" ELSE "failure") /\ StubUnchanged
    BY <1>4 DEF MethodReturns, w
  <2>3. (IF w.ok THEN "ok" ELSE "failure") \in {"none", "ok", "excused", "failure", "errno", "nomem"}
    OBVIOUS
  <2> QED
    BY <2>1, <2>2, <2>3, StubKept
<1>5. CASE MethodReturnsCode
  <2>1. PICK result \in {"ok", "failure"} : StubGoesOn(Now, result)
    BY <1>5 DEF MethodReturnsCode
  <2>2. StubUnchanged
    BY <1>5 DEF MethodReturnsCode
  <2> QED
    BY <1>2, <2>1, <2>2, StubKept
<1>6. CASE MethodRaises
  <2>1. PICK e \in {"server", "memory", "error"} :
          StubGoesOn([Now EXCEPT !.err = e], "failure")
    BY <1>6 DEF MethodRaises
  <2>2. [Now EXCEPT !.err = e] \in Frames(Len(sig))
    BY <1>1, <1>2, FlagFrame DEF ErrKinds
  <2>3. StubUnchanged
    BY <1>6 DEF MethodRaises
  <2> QED
    BY <2>1, <2>2, <2>3, StubKept
<1>7. CASE HandleException
  <2>1. PICK answer \in HandlerAnswers, ready \in BOOLEAN :
          StubGoesOn([Now EXCEPT !.err = "none"], ErrorResult(err, answer, ready))
    BY <1>7 DEF HandleException
  <2>2. [Now EXCEPT !.err = "none"] \in Frames(Len(sig))
    BY <1>1, <1>2, FlagFrame DEF ErrKinds
  <2>3. ErrorResult(err, answer, ready) \in {"none", "ok", "excused", "failure", "errno", "nomem"}
    BY DEF ErrorResult, SetCOMErrorFromPyException
  <2>4. StubUnchanged
    BY <1>7 DEF HandleException
  <2> QED
    BY <2>1, <2>2, <2>3, <2>4, StubKept
<1>8. CASE StubMakeArgsInsane
  <2>1. StubUnchanged
    BY <1>8 DEF StubMakeArgsInsane
  <2>2. CASE \E w \in Frames(Len(sig)) : StubGoesOn(w, "failure")
    BY <2>1, <2>2, StubKept
  <2>3. CASE (\E w \in Frames(Len(sig)) : Becomes(w)) /\ Goto("method") /\ UNCHANGED rc
    <3>1. PICK w \in Frames(Len(sig)) : Becomes(w)
      BY <2>3
    <3>2. at' = 1 /\ UNCHANGED <<sig, caller, args, answers, rc>>
      BY <2>1, <2>3 DEF StubUnchanged, Goto
    <3>3. ResultKind' /\ at' \in Nat \ {0}
      BY <3>2 DEF CallInv, ResultKind
    <3> QED
      BY <3>1, <3>2, <3>3, FrameKept
  <2> QED
    BY <1>1, <1>2, <1>8, <2>2, <2>3, InsaneFrame
<1> QED
  BY <1>3, <1>4, <1>5, <1>6, <1>7, <1>8 DEF Stub

\* of its native caller before the call
LEMMA NativePrepareInv == CallInv /\ NativePrepare => CallInv'
<1> SUFFICES ASSUME CallInv, NativePrepare PROVE CallInv'
  OBVIOUS
<1> DEFINE N == Len(sig)
           start == [Now EXCEPT !.slots = Times(N, NewSlot)]
<1>1. /\ WellTyped(sig) /\ N \in Nat /\ args \in Seq(Given)
      /\ NativeValues(sig, ArgumentOrder(sig), args)
  BY SigFields DEF CallInv, MethodKind, NativePrepare
<1>2. PICK M \in {0, N} : Now \in Frames(M)
  BY DEF CallInv, FrameKind
<1>3. Now.err \in ErrKinds
  BY <1>1, <1>2, FrameFields DEF IsFrame
<1>4. start = [slots |-> Times(N, NewSlot), mem |-> Now.mem, faults |-> Now.faults,
               err |-> Now.err, ok |-> TRUE]
  <2>1. start = [slots |-> Times(N, NewSlot), mem |-> Now.mem, faults |-> Now.faults,
                 err |-> Now.err, ok |-> Now.ok]
    BY <1>1, <1>2, FrameUpdates
  <2>2. Now.ok = TRUE
    BY DEF Now
  <2> HIDE DEF start
  <2> QED
    BY <2>1, <2>2
<1>5. start \in Frames(N)
  <2> HIDE DEF start, N
  <2> QED
    BY <1>1, <1>2, <1>3, <1>4, FreshFrame DEF N
<1>6. PICK missing : Becomes(StoreAll(WithSpace(Without(start, missing)),
                                      ArgumentOrder(sig), args))
  BY DEF NativePrepare
<1> HIDE DEF start
<1>7. Without(start, missing) \in Frames(N)
  BY <1>1, <1>5, WithoutFrame
<1>8. WithSpace(Without(start, missing)) \in Frames(N)
  BY <1>1, <1>7, WithSpaceFrame
<1>9. StoreAll(WithSpace(Without(start, missing)), ArgumentOrder(sig), args) \in Frames(N)
  <2>1. ArgumentOrder(sig) \in Seq(1..N)
    BY <1>1, Orders
  <2> QED
    BY <1>1, <1>8, <2>1, StoreAllFrame
<1>10. at' = 1 /\ UNCHANGED <<sig, caller, args, answers, rc>>
  BY DEF NativePrepare, NativeUnchanged, Goto
<1>11. ResultKind' /\ at' \in Nat \ {0}
  BY <1>10 DEF CallInv, ResultKind
<1> QED
  BY <1>6, <1>9, <1>10, <1>11, FrameKept

\* and after it,
LEMMA NativeFinishInv == CallInv /\ NativeFinish => CallInv'
<1> SUFFICES ASSUME CallInv, NativeFinish PROVE CallInv'
  OBVIOUS
<1>1. WellTyped(sig) /\ Now \in Frames(Len(sig))
  BY DEF CallInv, MethodKind, FrameKind, NativeFinish
<1>2. FreeOwned(Now) \in Frames(Len(sig))
  BY <1>1, FreeOwnedFrame
<1>3. Becomes(FreeOwned(Now)) /\ at' = 1 /\ UNCHANGED <<sig, caller, args, answers, rc>>
  BY DEF NativeFinish, NativeUnchanged, Goto
<1>4. ResultKind' /\ at' \in Nat \ {0}
  BY <1>3 DEF CallInv, ResultKind
<1> QED
  BY <1>2, <1>3, <1>4, FrameKept

\* a native method that fails
LEMMA NativeFailsInv == CallInv /\ NativeFails => CallInv'
<1> SUFFICES ASSUME CallInv, NativeFails PROVE CallInv'
  OBVIOUS
<1>1. Now \in Frames(Len(sig))
  BY DEF CallInv, FrameKind, NativeFails
<1>2. Becomes(Now) /\ at' = 1 /\ rc' = "failure" /\ UNCHANGED <<sig, caller, args, answers>>
  BY DEF NativeFails, NativeUnchanged, Goto, Becomes, Now, frame
<1>3. ResultKind' /\ at' \in Nat \ {0}
  BY <1>2 DEF ResultKind
<1> QED
  BY <1>1, <1>2, <1>3, FrameKept

\* and one that answers.
LEMMA NativeMethodInv == CallInv /\ NativeMethod => CallInv'
<1> SUFFICES ASSUME CallInv, NativeMethod PROVE CallInv'
  OBVIOUS
<1> DEFINE N == Len(sig)
           free == ResetSizes(FreeReplaced(Now))
<1>1. /\ WellTyped(sig) /\ Now \in Frames(N) /\ answers \in Seq(Given)
      /\ NativeValues(sig, ResultOrder, answers)
  BY DEF CallInv, MethodKind, AnswersGiven, FrameKind, NativeMethod
<1>2. free \in Frames(N)
  <2>1. FreeReplaced(Now) \in Frames(N)
    BY <1>1, FreeReplacedFrame
  <2> QED
    BY <1>1, <2>1, ResetSizesFrame
<1>3. StoreAll(free, ResultOrder, answers) \in Frames(N)
  <2>1. ResultOrder \in Seq(1..N)
    BY <1>1, Orders
  <2> HIDE DEF free
  <2> QED
    BY <1>1, <1>2, <2>1, StoreAllFrame
<1>4. /\ Becomes(StoreAll(free, ResultOrder, answers))
      /\ at' = 1 /\ rc' = "ok" /\ UNCHANGED <<sig, caller, args, answers>>
  BY DEF NativeMethod, NativeUnchanged, Goto
<1>5. ResultKind' /\ at' \in Nat \ {0}
  BY <1>4 DEF ResultKind
<1> QED
  BY <1>3, <1>4, <1>5, FrameKept

\* So every step does.
LEMMA StepInv == CallInv /\ [Next]_vars => CallInv'
<1> SUFFICES ASSUME CallInv, [Next]_vars PROVE CallInv'
  OBVIOUS
<1>1. CASE UNCHANGED vars
  <2>1. /\ sig' = sig /\ caller' = caller /\ args' = args /\ answers' = answers
        /\ slots' = slots /\ mem' = mem /\ faults' = faults /\ err' = err
        /\ rc' = rc /\ pc' = pc /\ at' = at
    BY <1>1 DEF vars, frame
  <2>2. Now' = Now
    BY <2>1 DEF Now
  <2> QED
    BY <2>1, <2>2 DEF CallInv, MethodKind, AnswersGiven, FrameKind, ResultKind
<1>2. CASE caller = "python" /\ PythonCaller
  BY <1>2, InitCallInv, PrepareParamInv, PrepareSizesInv, BuildResultInv, DestroyInv
     DEF PythonCaller
<1>3. CASE Stub
  BY <1>3, StubInv
<1>4. CASE NativePrepare \/ NativeFinish \/ NativeFails \/ NativeMethod
  BY <1>4, NativePrepareInv, NativeFinishInv, NativeFailsInv, NativeMethodInv
<1>5. CASE Finished
  BY <1>1, <1>5 DEF Finished
<1> QED
  BY <1>1, <1>2, <1>3, <1>4, <1>5 DEF Next

\* Calls keep their types, whatever the signature of the method, the arguments
\* and the answers: no conversion in VariantUtils.cpp leaves a number wider
\* than its parameter, or a pointer to a block that was never allocated, in the
\* parameters of a call.
THEOREM CallsKeepTheirTypes == Spec => []TypeOK
<1>1. Spec => []CallInv
  BY InitInv, StepInv, PTL DEF Spec
<1> QED
  BY <1>1, InvImpliesTypeOK, PTL

-----------------------------------------------------------------------------
(***************************************************************************)
(* Theorem SizesAreTrue, first layer: what a change of the memory of a     *)
(* call keeps, slot by slot and block by block.                            *)
(***************************************************************************)

\* From w to x memory only grows and only the slots in I change; what is set of
\* a slot stays set.
Keeps(w, x, I) ==
  /\ Len(w.mem) <= Len(x.mem) /\ \A b \in DOMAIN w.mem : x.mem[b] = w.mem[b]
  /\ \A j \in DOMAIN w.slots \ I : x.slots[j] = w.slots[j]
  /\ \A j \in DOMAIN w.slots : /\ w.slots[j].typed => x.slots[j].typed
                               /\ w.slots[j].auto => x.slots[j].auto

\* One change after the other.
LEMMA KeepsOn ==
  ASSUME NEW N \in Nat, NEW w \in Frames(N), NEW x \in Frames(N), NEW y \in Frames(N),
         NEW I, NEW J, Keeps(w, x, I), Keeps(x, y, J)
  PROVE  Keeps(w, y, I \cup J)
<1>1. IsFrame(N, w) /\ IsFrame(N, x) /\ IsFrame(N, y)
  BY FrameFields
<1>2. DOMAIN w.slots = DOMAIN x.slots /\ DOMAIN w.mem \subseteq DOMAIN x.mem
  BY <1>1 DEF IsFrame, Keeps
<1> QED
  BY <1>1, <1>2 DEF IsFrame, Keeps

\* No change, or a change of what Keeps does not look at.
LEMMA KeepsAll ==
  ASSUME NEW N \in Nat, NEW w \in Frames(N), NEW x, x.slots = w.slots, x.mem = w.mem, NEW I
  PROVE  Keeps(w, x, I)
BY FrameFields DEF Keeps, IsFrame

\* x is w with the cell c in slot i, and maybe with other flags of that slot.
Wrote(w, x, i, c) ==
  /\ x.slots[i].val = c /\ x.mem = w.mem /\ x.ok = w.ok /\ x.err = w.err
  /\ Keeps(w, x, {i})

\* x is w with a new block in slot i.
Made(w, x, i, b) ==
  /\ x.slots[i].val = Ptr(Len(w.mem) + 1)
  /\ Len(x.mem) = Len(w.mem) + 1 /\ x.mem[Len(w.mem) + 1] = b
  /\ x.ok = w.ok /\ x.err = w.err
  /\ Keeps(w, x, {i})

\* Keeping a slot in two steps.
LEMMA KeepsTwice ==
  ASSUME NEW N \in Nat, NEW w \in Frames(N), NEW x \in Frames(N), NEW y \in Frames(N),
         NEW i, Keeps(w, x, {i}), Keeps(x, y, {i})
  PROVE  Keeps(w, y, {i})
<1>1. Keeps(w, y, {i} \cup {i})
  BY KeepsOn
<1> QED
  BY <1>1

\* Writing twice, and writing the flags of a slot with a new block.
LEMMA WroteOn ==
  ASSUME NEW N \in Nat, NEW w \in Frames(N), NEW x \in Frames(N), NEW y \in Frames(N),
         NEW i, NEW c, NEW d, Wrote(w, x, i, c), Wrote(x, y, i, d)
  PROVE  Wrote(w, y, i, d)
<1>1. Keeps(w, y, {i})
  BY KeepsTwice DEF Wrote
<1> QED
  BY <1>1 DEF Wrote

\* A slot with a new block, whose flags then change, still has that block.
LEMMA MadeOn ==
  ASSUME NEW N \in Nat, NEW w \in Frames(N), NEW x \in Frames(N), NEW y \in Frames(N),
         NEW i, NEW b
  PROVE  /\ Made(w, x, i, b) /\ Wrote(x, y, i, x.slots[i].val) => Made(w, y, i, b)
         /\ Wrote(w, x, i, w.slots[i].val) /\ Made(x, y, i, b) => Made(w, y, i, b)
<1>1. ASSUME Made(w, x, i, b), Wrote(x, y, i, x.slots[i].val) PROVE Made(w, y, i, b)
  <2>1. Keeps(w, y, {i})
    BY <1>1, KeepsTwice DEF Wrote, Made
  <2> QED
    BY <1>1, <2>1 DEF Wrote, Made
<1>2. ASSUME Wrote(w, x, i, w.slots[i].val), Made(x, y, i, b) PROVE Made(w, y, i, b)
  <2>1. Keeps(w, y, {i})
    BY <1>2, KeepsTwice DEF Wrote, Made
  <2> QED
    BY <1>2, <2>1 DEF Wrote, Made
<1> QED
  BY <1>1, <1>2

\* The cell of a slot.
LEMMA PutParts ==
  ASSUME NEW N \in Nat, NEW w \in Frames(N), NEW i \in 1..N, NEW c
  PROVE  Wrote(w, Put(w, i, c), i, c)
<1> DEFINE s == [w.slots EXCEPT ![i] = [w.slots[i] EXCEPT !.val = c]]
<1>0. IsFrame(N, w) /\ w.slots[i] \in Slots
  BY FrameFields DEF IsFrame
<1>1. Put(w, i, c) = [w EXCEPT !.slots = s]
  BY DEF Put
<1>2. [w EXCEPT !.slots = s] = [slots |-> s, mem |-> w.mem, faults |-> w.faults,
                               err |-> w.err, ok |-> w.ok]
  BY FrameUpdates
<1>3. /\ s[i].val = c /\ s[i].typed = w.slots[i].typed /\ s[i].auto = w.slots[i].auto
      /\ \A j \in 1..N \ {i} : s[j] = w.slots[j]
  BY <1>0 DEF IsFrame, Slots
<1> HIDE DEF s
<1>4. Keeps(w, [w EXCEPT !.slots = s], {i})
  BY <1>0, <1>2, <1>3 DEF Keeps, IsFrame
<1>5. Wrote(w, [w EXCEPT !.slots = s], i, c)
  BY <1>2, <1>3, <1>4 DEF Wrote
<1> QED
  BY <1>1, <1>5

\* Flags of a frame.
LEMMA FlagParts ==
  ASSUME NEW N \in Nat, NEW w \in Frames(N)
  PROVE  /\ ~Raise(w).ok /\ ~Fail(w).ok /\ ~Crash(w).ok
         /\ \A x \in {Raise(w), Fail(w), Crash(w)} : x.slots = w.slots /\ x.mem = w.mem
         /\ \A I : Keeps(w, Raise(w), I) /\ Keeps(w, Fail(w), I) /\ Keeps(w, Crash(w), I)
         /\ \A e, I : /\ [w EXCEPT !.err = e].slots = w.slots
                      /\ [w EXCEPT !.err = e].mem = w.mem
                      /\ [w EXCEPT !.err = e].ok = w.ok
                      /\ Keeps(w, [w EXCEPT !.err = e], I)
         /\ \A o, I : /\ [w EXCEPT !.ok = o].slots = w.slots
                      /\ [w EXCEPT !.ok = o].mem = w.mem
                      /\ [w EXCEPT !.ok = o].ok = o
                      /\ Keeps(w, [w EXCEPT !.ok = o], I)
<1>1. \A e : [w EXCEPT !.err = e] = [slots |-> w.slots, mem |-> w.mem, faults |-> w.faults,
                                    err |-> e, ok |-> w.ok]
  BY FrameUpdates
<1>2. \A o : [w EXCEPT !.ok = o] = [slots |-> w.slots, mem |-> w.mem, faults |-> w.faults,
                                   err |-> w.err, ok |-> o]
  BY FrameUpdates
<1>3. Raise(w) = [slots |-> w.slots, mem |-> w.mem, faults |-> w.faults,
                  err |-> "error", ok |-> FALSE]
  <2>1. Raise(w) = [Fail(w) EXCEPT !.err = "error"]
    BY DEF Raise, Fail
  <2>2. Fail(w) \in Frames(N) /\ Fail(w) = [slots |-> w.slots, mem |-> w.mem,
          faults |-> w.faults, err |-> w.err, ok |-> FALSE]
    BY <1>2, FaultFrame DEF Fail
  <2> DEFINE y == Fail(w)
  <2>3. [y EXCEPT !.err = "error"] = [slots |-> y.slots, mem |-> y.mem,
           faults |-> y.faults, err |-> "error", ok |-> y.ok]
    <3> HIDE DEF y
    <3>1. y \in Frames(N)
      BY <2>2 DEF y
    <3> QED
      BY <3>1, FrameUpdates
  <2> QED
    BY <2>1, <2>2, <2>3
<1>4. Fault(w, "crash") = [slots |-> w.slots, mem |-> w.mem,
                           faults |-> w.faults \cup {"crash"}, err |-> w.err, ok |-> w.ok]
  BY FrameUpdates DEF Fault
<1>5. Crash(w) = [slots |-> w.slots, mem |-> w.mem, faults |-> w.faults \cup {"crash"},
                  err |-> w.err, ok |-> FALSE]
  <2>1. Fault(w, "crash") \in Frames(N)
    BY FaultFrame DEF FaultKinds
  <2>2. Crash(w) = [Fault(w, "crash") EXCEPT !.ok = FALSE]
    BY DEF Crash, Fail
  <2> DEFINE y == Fault(w, "crash")
  <2>3. [y EXCEPT !.ok = FALSE] = [slots |-> y.slots, mem |-> y.mem,
           faults |-> y.faults, err |-> y.err, ok |-> FALSE]
    <3> HIDE DEF y
    <3>1. y \in Frames(N)
      BY <2>1 DEF y
    <3> QED
      BY <3>1, FrameUpdates
  <2>4. /\ y.slots = w.slots /\ y.mem = w.mem /\ y.err = w.err
        /\ y.faults = w.faults \cup {"crash"}
    BY <1>4
  <2>5. Crash(w) = [y EXCEPT !.ok = FALSE]
    BY <2>2
  <2> HIDE DEF y
  <2> QED
    BY <2>3, <2>4, <2>5
<1>6. Fail(w) = [slots |-> w.slots, mem |-> w.mem, faults |-> w.faults,
                 err |-> w.err, ok |-> FALSE]
  BY <1>2 DEF Fail
<1>7. \A x : x.slots = w.slots /\ x.mem = w.mem =>
              \A I : Keeps(w, x, I)
  BY KeepsAll
<1>8. \A x \in {Raise(w), Fail(w), Crash(w)} : x.slots = w.slots /\ x.mem = w.mem /\ ~x.ok
  BY <1>3, <1>5, <1>6
<1>9. /\ \A e : /\ [w EXCEPT !.err = e].slots = w.slots
                /\ [w EXCEPT !.err = e].mem = w.mem
                /\ [w EXCEPT !.err = e].ok = w.ok
                /\ [w EXCEPT !.err = e].faults = w.faults
      /\ \A o : /\ [w EXCEPT !.ok = o].slots = w.slots
                /\ [w EXCEPT !.ok = o].mem = w.mem
                /\ [w EXCEPT !.ok = o].ok = o
                /\ [w EXCEPT !.ok = o].faults = w.faults
  BY <1>1, <1>2
<1>10. \A I : Keeps(w, Raise(w), I) /\ Keeps(w, Fail(w), I) /\ Keeps(w, Crash(w), I)
  BY <1>7, <1>8
<1>11. \A e, I : Keeps(w, [w EXCEPT !.err = e], I)
  BY <1>7, <1>9
<1>12. \A o, I : Keeps(w, [w EXCEPT !.ok = o], I)
  BY <1>7, <1>9
<1> QED
  BY <1>8, <1>9, <1>10, <1>11, <1>12

\* The flag of a slot that tells the destructor to free its block, as b says.
WithCleanup(w, i, b) == [w EXCEPT !.slots[i].cleanup = b]

\* Setting or clearing it changes no cell and no block.
LEMMA CleanupParts ==
  ASSUME NEW N \in Nat, NEW w \in Frames(N), NEW i \in 1..N, NEW b
  PROVE  Wrote(w, WithCleanup(w, i, b), i, w.slots[i].val)
<1>0. IsFrame(N, w) /\ w.slots[i] \in Slots
  BY FrameFields DEF IsFrame
<1> DEFINE x == WithCleanup(w, i, b)
           s == [w.slots EXCEPT ![i] = [w.slots[i] EXCEPT !.cleanup = b]]
<1>1. x = [w EXCEPT !.slots = s]
  BY DEF WithCleanup
<1>2. x = [slots |-> s, mem |-> w.mem, faults |-> w.faults, err |-> w.err, ok |-> w.ok]
  BY <1>1, FrameUpdates
<1>3. /\ s[i].val = w.slots[i].val /\ s[i].cleanup = b
      /\ s[i].typed = w.slots[i].typed
      /\ s[i].auto = w.slots[i].auto
      /\ \A j \in 1..N \ {i} : s[j] = w.slots[j]
  BY <1>0 DEF IsFrame, Slots
<1> HIDE DEF s, x
<1>4. Keeps(w, x, {i})
  BY <1>0, <1>2, <1>3 DEF Keeps, IsFrame
<1> QED
  BY <1>2, <1>3, <1>4 DEF Wrote, x

\* The same flag, set.
Owned(w, i) == [w EXCEPT !.slots[i].cleanup = TRUE]

\* Taking ownership of a block changes no cell and no block.
LEMMA OwnedParts ==
  ASSUME NEW N \in Nat, NEW w \in Frames(N), NEW i \in 1..N
  PROVE  Wrote(w, Owned(w, i), i, w.slots[i].val)
<1>0. IsFrame(N, w) /\ w.slots[i] \in Slots
  BY FrameFields DEF IsFrame
<1> DEFINE x == Owned(w, i)
           s == [w.slots EXCEPT ![i] = [w.slots[i] EXCEPT !.cleanup = TRUE]]
<1>1. x = [w EXCEPT !.slots = s]
  BY DEF Owned
<1>2. x = [slots |-> s, mem |-> w.mem, faults |-> w.faults, err |-> w.err, ok |-> w.ok]
  BY <1>1, FrameUpdates
<1>3. /\ s[i].val = w.slots[i].val /\ s[i].cleanup = TRUE
      /\ s[i].typed = w.slots[i].typed
      /\ s[i].auto = w.slots[i].auto
      /\ \A j \in 1..N \ {i} : s[j] = w.slots[j]
  BY <1>0 DEF IsFrame, Slots
<1> HIDE DEF s, x
<1>4. Keeps(w, x, {i})
  BY <1>0, <1>2, <1>3 DEF Keeps, IsFrame
<1> QED
  BY <1>2, <1>3, <1>4 DEF Wrote, x

\* SetIndirect: the method is given the address of the variant.
WithIndirect(w, i) == [w EXCEPT !.slots[i].indirect = TRUE]

\* It changes no cell and no block.
LEMMA IndirectParts ==
  ASSUME NEW N \in Nat, NEW w \in Frames(N), NEW i \in 1..N
  PROVE  Wrote(w, WithIndirect(w, i), i, w.slots[i].val)
<1>0. IsFrame(N, w) /\ w.slots[i] \in Slots
  BY FrameFields DEF IsFrame
<1> DEFINE x == WithIndirect(w, i)
           s == [w.slots EXCEPT ![i] = [w.slots[i] EXCEPT !.indirect = TRUE]]
<1>1. x = [w EXCEPT !.slots = s]
  BY DEF WithIndirect
<1>2. x = [slots |-> s, mem |-> w.mem, faults |-> w.faults, err |-> w.err, ok |-> w.ok]
  BY <1>1, FrameUpdates
<1>3. /\ s[i].val = w.slots[i].val /\ s[i].indirect = TRUE
      /\ s[i].typed = w.slots[i].typed
      /\ s[i].auto = w.slots[i].auto
      /\ \A j \in 1..N \ {i} : s[j] = w.slots[j]
  BY <1>0 DEF IsFrame, Slots
<1> HIDE DEF s, x
<1>4. Keeps(w, x, {i})
  BY <1>0, <1>2, <1>3 DEF Keeps, IsFrame
<1> QED
  BY <1>2, <1>3, <1>4 DEF Wrote, x

\* The variant has its type.
WithType(w, i) == [w EXCEPT !.slots[i].typed = TRUE]

\* Setting the type changes no cell and no block.
LEMMA TypedParts ==
  ASSUME NEW N \in Nat, NEW w \in Frames(N), NEW i \in 1..N
  PROVE  Wrote(w, WithType(w, i), i, w.slots[i].val) /\ WithType(w, i).slots[i].typed
<1>0. IsFrame(N, w) /\ w.slots[i] \in Slots
  BY FrameFields DEF IsFrame
<1> DEFINE x == WithType(w, i)
           s == [w.slots EXCEPT ![i] = [w.slots[i] EXCEPT !.typed = TRUE]]
<1>1. x = [w EXCEPT !.slots = s]
  BY DEF WithType
<1>2. x = [slots |-> s, mem |-> w.mem, faults |-> w.faults, err |-> w.err, ok |-> w.ok]
  BY <1>1, FrameUpdates
<1>3. /\ s[i].val = w.slots[i].val /\ s[i].typed = TRUE
      /\ s[i].auto = w.slots[i].auto
      /\ \A j \in 1..N \ {i} : s[j] = w.slots[j]
  BY <1>0 DEF IsFrame, Slots
<1> HIDE DEF s, x
<1>4. Keeps(w, x, {i})
  BY <1>0, <1>2, <1>3 DEF Keeps, IsFrame
<1> QED
  BY <1>2, <1>3, <1>4 DEF Wrote, x

\* Memory grows by a block.
LEMMA AllocateParts ==
  ASSUME NEW N \in Nat, NEW w \in Frames(N), NEW b \in Blocks
  PROVE  LET a == Allocate(w, b) IN
         /\ a.mem = Append(w.mem, b) /\ Len(a.mem) = Len(w.mem) + 1
         /\ a.mem[Len(w.mem) + 1] = b
         /\ Newest(a) = Ptr(Len(w.mem) + 1)
         /\ a.slots = w.slots /\ a.ok = w.ok /\ a.err = w.err /\ a.faults = w.faults
         /\ \A I : Keeps(w, a, I)
<1> DEFINE a == Allocate(w, b)
<1>1. a.mem = Append(w.mem, b) /\ Len(a.mem) = Len(w.mem) + 1 /\ a.slots = w.slots
  BY AllocateFrame
<1>2. a.ok = w.ok /\ a.err = w.err /\ a.faults = w.faults
  <2>1. a = [w EXCEPT !.mem = Append(w.mem, b)]
    BY DEF Allocate
  <2> HIDE DEF a
  <2> QED
    BY <2>1, FrameUpdates
<1>3. IsFrame(N, w)
  BY FrameFields
<1>4. /\ \A c \in DOMAIN w.mem : a.mem[c] = w.mem[c]
      /\ a.mem[Len(w.mem) + 1] = b
  <2> HIDE DEF a
  <2> QED
    BY <1>1, <1>3 DEF IsFrame
<1>5. Newest(a) = Ptr(Len(w.mem) + 1)
  BY <1>1 DEF Newest
<1> HIDE DEF a
<1>6. \A I : Keeps(w, a, I)
  BY <1>1, <1>2, <1>3, <1>4 DEF Keeps, IsFrame
<1> QED
  BY <1>1, <1>2, <1>4, <1>5, <1>6 DEF a

\* A new block for a parameter.
LEMMA PutNewParts ==
  ASSUME NEW N \in Nat, NEW w \in Frames(N), NEW i \in 1..N, NEW b \in Blocks
  PROVE  Made(w, PutNew(w, i, b), i, b) /\ Made(w, Own(w, i, b), i, b)
<1> DEFINE a == Allocate(w, b)
           c == Newest(a)
           x == Put(a, i, c)
           y == Owned(x, i)
<1>1. /\ Len(a.mem) = Len(w.mem) + 1
      /\ a.mem[Len(w.mem) + 1] = b /\ c = Ptr(Len(w.mem) + 1)
      /\ a.slots = w.slots /\ a.ok = w.ok /\ a.err = w.err
      /\ Keeps(w, a, {i})
  BY AllocateParts
<1>2. a \in Frames(N) /\ c \in CellValues /\ InMemory(a, c)
  BY AllocateFrame
<1>3. x \in Frames(N) /\ y \in Frames(N)
  BY PutNewFrame DEF PutNew, Own, Owned
<1> HIDE DEF a, c
<1>4. Wrote(a, x, i, c)
  BY <1>2, PutParts
<1> HIDE DEF x
<1>5. Wrote(x, y, i, x.slots[i].val)
  BY <1>3, OwnedParts
<1> HIDE DEF y
<1>6. Keeps(w, x, {i})
  BY <1>1, <1>2, <1>3, <1>4, KeepsTwice DEF Wrote
<1>7. Made(w, x, i, b)
  BY <1>1, <1>4, <1>6 DEF Wrote, Made
<1>8. Made(w, y, i, b)
  BY <1>3, <1>5, <1>7, MadeOn
<1> QED
  BY <1>7, <1>8 DEF PutNew, Own, Owned, a, c, x, y

\* An interface pointer: null, or to a new reference.
LEMMA InterfaceParts ==
  ASSUME NEW N \in Nat, NEW w \in Frames(N), NEW v \in Handled, NEW type,
         NEW iid \in Interfaces
  PROVE  LET r == InterfaceFromPyObject(w, v, type, iid) IN
         /\ r[1] \in Frames(N) /\ r[1].slots = w.slots
         /\ \A I : Keeps(w, r[1], I)
         /\ r[2] \in {Null, Ptr(Len(w.mem) + 1)}
<1> DEFINE a == Allocate(w, InterfaceBlock(v, type, iid))
           e == [a EXCEPT !.err = "error"]
<1>1. InterfaceBlock(v, type, iid) \in Blocks
  BY InterfaceBlockKind
<1>2. /\ Len(a.mem) = Len(w.mem) + 1
      /\ a.mem[Len(w.mem) + 1] = InterfaceBlock(v, type, iid)
      /\ Newest(a) = Ptr(Len(w.mem) + 1)
      /\ a.slots = w.slots /\ a.ok = w.ok
      /\ \A I : Keeps(w, a, I)
  <2> HIDE DEF a
  <2> QED
    BY <1>1, AllocateParts DEF a
<1>3. a \in Frames(N)
  BY <1>1, AllocateFrame
<1> HIDE DEF a
<1>4. e.slots = a.slots /\ e.mem = a.mem /\ e.ok = a.ok /\ e \in Frames(N)
      /\ Keeps(a, e, {})
  <2>1. e \in Frames(N)
    BY <1>3, FlagFrame DEF ErrKinds
  <2>2. Keeps(a, e, {})
    BY <1>3, FlagParts
  <2> QED
    BY <1>3, <2>1, <2>2, FlagParts
<1> HIDE DEF e
<1>5. \A I : Keeps(w, e, I)
  <2> SUFFICES ASSUME NEW I PROVE Keeps(w, e, I)
    OBVIOUS
  <2>1. Keeps(w, e, I \cup {})
    BY <1>2, <1>3, <1>4, KeepsOn
  <2> QED
    BY <2>1
<1>6. Null # Ptr(Len(w.mem) + 1)
  BY DEF Null, Ptr, Cell
<1>7. \A x \in {Raise(w), Crash(w)} : x \in Frames(N) /\ x.slots = w.slots /\ x.mem = w.mem /\ ~x.ok
                        /\ \A I : Keeps(w, x, I)
  <2>1. Raise(w) \in Frames(N) /\ Crash(w) \in Frames(N)
    BY FaultFrame
  <2>2. \A I : Keeps(w, Raise(w), I) /\ Keeps(w, Crash(w), I)
    BY FlagParts
  <2> QED
    BY <2>1, <2>2, FlagParts
<1>8. \A I : Keeps(w, w, I)
  BY KeepsAll
<1> DEFINE r == InterfaceFromPyObject(w, v, type, iid)
<1>9. \/ r = <<Raise(w), Null>>
      \/ v = None /\ CanConvert(v, type, iid) /\ r = <<w, Null>>
      \/ r = <<Crash(w), Null>>
      \/ v # None /\ CanConvert(v, type, iid) /\ (r = <<e, Newest(a)>> \/ r = <<a, Newest(a)>>)
  BY DEF InterfaceFromPyObject, a, e
<1> HIDE DEF r
<1> QED
  BY <1>2, <1>3, <1>4, <1>5, <1>6, <1>7, <1>8, <1>9 DEF r

-----------------------------------------------------------------------------
(***************************************************************************)
(* Second layer: what the steps of PyXPCOM_InterfaceVariantHelper that     *)
(* prepare a parameter keep, and which sizes they tell.                    *)
(***************************************************************************)

\* A block for an array, of any length.
LEMMA ArrayBlocks ==
  ASSUME NEW cells \in Seq(CellValues)
  PROVE  Array(cells) \in Blocks /\ Array(cells).cells = cells /\ Array(cells).live = TRUE
<1>1. Array(cells) \in Blocks
  BY BlockKinds
<1>2. Block(None) \in Blocks /\ Block(None).live = TRUE
  BY BlockKinds, Constants, HandledShape DEF Block
<1>3. \A b \in Blocks : /\ [b EXCEPT !.cells = cells].cells = cells
                        /\ [b EXCEPT !.cells = cells].live = b.live
  BY DEF Blocks
<1>4. Array(cells) = [Block(None) EXCEPT !.cells = cells]
  BY DEF Array
<1> QED
  BY <1>1, <1>2, <1>3, <1>4

\* The space that an inout array gets whose argument is None: as many cells as
\* its size says.
Spaced(w, x, i) ==
  /\ IsIn(sig[i]) /\ w.slots[i].val = Null
  /\ \E b : Made(w, x, i, b) /\ Len(b.cells) = w.slots[sig[i].size].val.n

\* PrepareOutVariant for an array: nothing, or space.
LEMMA PrepareArrayParts ==
  ASSUME WellTyped(sig), NEW N, N = Len(sig), NEW w \in Frames(N), NEW i \in 1..N,
         sig[i].type = "array"
  PROVE  PrepareArray(w, i) = w \/ Spaced(w, PrepareArray(w, i), i)
<1> DEFINE size == GetSizeOrLengthIs(w, sig[i].size)
           zero == IF IsArithmetic(sig[i].elem) THEN Num(0) ELSE Null
           zeros == Times(size, zero)
           b == Array(zeros)
           y == PutNew(w, i, b)
           flag == ~IsArithmetic(sig[i].elem)
           x == WithCleanup(y, i, flag)
<1>1. N \in Nat /\ sig[i].size \in 1..N
  BY SigFields
<1>2. size \in Nat /\ size = w.slots[sig[i].size].val.n
  BY <1>1, SlotNumbers DEF GetSizeOrLengthIs
<1>3. zero \in CellValues
  BY CellKinds, SlotNumbers, WidthAssumption
<1>4. zeros \in Seq(CellValues) /\ Len(zeros) = size
  <2> HIDE DEF size, zero
  <2>1. \A n \in Nat, c \in CellValues :
          Times(n, c) \in Seq(CellValues) /\ Len(Times(n, c)) = n
    BY TimesSeq
  <2> QED
    BY <1>2, <1>3, <2>1
<1>5. b \in Blocks /\ Len(b.cells) = size
  <2> HIDE DEF zeros, size
  <2> QED
    BY <1>4, ArrayBlocks
<1> HIDE DEF b
<1>6. y \in Frames(N) /\ Made(w, y, i, b)
  <2>1. y \in Frames(N)
    BY <1>1, <1>5, PutNewFrame
  <2> QED
    BY <1>1, <1>5, <2>1, PutNewParts
<1> HIDE DEF y
<1>7. Wrote(y, x, i, y.slots[i].val)
  <2> HIDE DEF flag
  <2> QED
    BY <1>1, <1>6, CleanupParts
<1>8. x \in Frames(N)
  <2>1. flag \in BOOLEAN
    BY DEF IsArithmetic
  <2> HIDE DEF flag
  <2>2. [y EXCEPT !.slots[i].cleanup = flag] \in Frames(N)
    BY <1>1, <1>6, <2>1, SlotFlagFrame
  <2> QED
    BY <2>2 DEF WithCleanup
<1> HIDE DEF x
<1>9. Made(w, x, i, b)
  BY <1>1, <1>6, <1>7, <1>8, MadeOn
<1>10. \/ PrepareArray(w, i) = w
       \/ IsIn(sig[i]) /\ w.slots[i].val = Null /\ PrepareArray(w, i) = x
  BY DEF PrepareArray, x, y, b, flag, WithCleanup
<1> QED
  BY <1>2, <1>5, <1>9, <1>10 DEF Spaced

\* x is w with parameter i prepared for its result.
Prepared(w, x, i) ==
  /\ x.ok = w.ok /\ Keeps(w, x, {i})
  /\ /\ IsSized(sig[i].type) \/ (IsArithmetic(sig[i].type) /\ IsIn(sig[i]))
     /\ ~IsDipper(sig[i])
     => Wrote(w, x, i, w.slots[i].val)
  /\ sig[i].type = "array" => Wrote(w, x, i, w.slots[i].val) \/ Spaced(w, x, i)

\* PrepareOutVariant leaves a number that comes in, and a text or an array
\* with a value.
LEMMA PrepareOutParts ==
  ASSUME WellTyped(sig), NEW N, N = Len(sig), NEW w \in Frames(N), NEW i \in 1..N
  PROVE  Prepared(w, PrepareOutVariant(w, i), i)
<1> DEFINE y == WithIndirect(w, i)
           x == PrepareOutVariant(w, i)
<1>1. N \in Nat
  BY SigFields
<1>2. Wrote(w, y, i, w.slots[i].val)
  BY <1>1, IndirectParts
<1>3. y \in Frames(N)
  BY <1>1, SlotFlagFrame DEF WithIndirect
<1>4. x \in Frames(N)
  BY PrepareOutFrame
<1>5. /\ x = IF IsArithmetic(sig[i].type) /\ ~IsIn(sig[i]) THEN Put(y, i, Num(0))
             ELSE IF sig[i].type = "array" THEN PrepareArray(y, i)
             ELSE IF IsDipper(sig[i]) THEN PrepareDipper(y, i)
             ELSE y
  BY DEF PrepareOutVariant, WithIndirect
<1> HIDE DEF y, x
<1>6. CASE IsArithmetic(sig[i].type) /\ ~IsIn(sig[i])
  <2>1. x = Put(y, i, Num(0))
    BY <1>5, <1>6
  <2>2. Wrote(y, x, i, Num(0))
    BY <1>1, <1>3, <2>1, PutParts
  <2>3. Wrote(w, x, i, Num(0))
    BY <1>1, <1>2, <1>3, <1>4, <2>2, WroteOn
  <2>4. ~IsSized(sig[i].type) /\ sig[i].type # "array"
    BY <1>6 DEF IsArithmetic, IsSized
  <2> QED
    BY <1>6, <2>3, <2>4 DEF x, Prepared, Wrote
<1>7. CASE sig[i].type = "array"
  <2>1. x = PrepareArray(y, i) /\ ~IsArithmetic(sig[i].type) /\ ~IsSized(sig[i].type)
    BY <1>5, <1>7 DEF IsArithmetic, IsSized
  <2>2. x = y \/ Spaced(y, x, i)
    BY <1>3, <1>7, <2>1, PrepareArrayParts
  <2>3. CASE x = y
    BY <1>2, <1>7, <2>1, <2>3 DEF x, Prepared, Wrote
  <2>4. CASE Spaced(y, x, i)
    <3>1. PICK b : Made(y, x, i, b) /\ Len(b.cells) = y.slots[sig[i].size].val.n
      BY <2>4 DEF Spaced
    <3>2. Made(w, x, i, b)
      BY <1>1, <1>2, <1>3, <1>4, <3>1, MadeOn
    <3>3. y.slots[sig[i].size].val = w.slots[sig[i].size].val
      <4>1. sig[i].size \in 1..N /\ DOMAIN w.slots = 1..N
        BY <1>1, <1>7, SigFields, FrameFields DEF IsFrame
      <4> QED
        BY <1>2, <4>1 DEF Keeps, Wrote
    <3>4. Spaced(w, x, i)
      BY <1>2, <2>4, <3>1, <3>2, <3>3 DEF Spaced, Wrote
    <3> QED
      BY <1>7, <2>1, <3>2, <3>4 DEF x, Prepared, Made
  <2> QED
    BY <2>2, <2>3, <2>4
<1>8. CASE /\ ~(IsArithmetic(sig[i].type) /\ ~IsIn(sig[i])) /\ sig[i].type # "array"
           /\ IsDipper(sig[i])
  <2>1. x = PrepareDipper(y, i)
    BY <1>5, <1>8
  <2>2. Block(Str(0)) \in Blocks
    BY Constants, HandledShape, BlockKinds
  <2>3. Made(y, x, i, Block(Str(0)))
    BY <1>1, <1>3, <2>1, <2>2, PutNewParts DEF PrepareDipper
  <2>4. Made(w, x, i, Block(Str(0)))
    BY <1>1, <1>2, <1>3, <1>4, <2>3, MadeOn
  <2> QED
    BY <1>8, <2>4 DEF x, Prepared, Made
<1>9. CASE /\ ~(IsArithmetic(sig[i].type) /\ ~IsIn(sig[i])) /\ sig[i].type # "array"
           /\ ~IsDipper(sig[i])
  <2>1. x = y
    BY <1>5, <1>9
  <2> QED
    BY <1>2, <1>9, <2>1 DEF x, Prepared, Wrote
<1> QED
  BY <1>6, <1>7, <1>8, <1>9

\* A size that an array or a text tells.
WithSize(w, k, n) ==
  [w EXCEPT !.slots[k] = [@ EXCEPT !.val = Num(n), !.typed = TRUE, !.auto = TRUE]]

\* It is in its parameter then, and nothing else changes.
LEMMA ToldParts ==
  ASSUME NEW N \in Nat, NEW w \in Frames(N), NEW k \in 1..N, NEW n \in Nat, n < Word
  PROVE  LET x == WithSize(w, k, n) IN
         x \in Frames(N) /\ Wrote(w, x, k, Num(n)) /\ x.slots[k].auto
<1>0. IsFrame(N, w) /\ w.slots[k] \in Slots
  BY FrameFields DEF IsFrame
<1> DEFINE x == WithSize(w, k, n)
           t == [w.slots[k] EXCEPT !.val = Num(n), !.typed = TRUE, !.auto = TRUE]
           s == [w.slots EXCEPT ![k] = t]
<1>1. x = [w EXCEPT !.slots = s]
  BY DEF WithSize
<1>2. x = [slots |-> s, mem |-> w.mem, faults |-> w.faults, err |-> w.err, ok |-> w.ok]
  BY <1>1, FrameUpdates
<1>3. t.val = Num(n) /\ t.typed /\ t.auto
  BY <1>0 DEF Slots
<1> HIDE DEF t
<1>4. s[k] = t /\ \A j \in 1..N \ {k} : s[j] = w.slots[j]
  BY <1>0 DEF IsFrame
<1>5. x \in Frames(N)
  BY SizeFrame DEF WithSize
<1> HIDE DEF s, x
<1>6. Keeps(w, x, {k})
  BY <1>0, <1>2, <1>3, <1>4 DEF Keeps, IsFrame
<1> QED
  BY <1>2, <1>3, <1>4, <1>5, <1>6 DEF x, Wrote

\* x is w with a size n in parameter k, where w has it already or did not yet
\* say.
Agreed(w, x, k, n) ==
  /\ w.slots[k].auto => x = w
  /\ x.slots[k].val.n = n /\ x.slots[k].auto
  /\ x.mem = w.mem /\ x.ok = w.ok /\ Keeps(w, x, {k})

\* for a parameter that is a number and comes in.
LEMMA SetSizeParts ==
  ASSUME WellTyped(sig), NEW N, N = Len(sig), NEW w \in Frames(N), NEW i, NEW k \in 1..N,
         NEW n \in Nat, n < Word,
         sig[k].type = "num", IsIn(sig[k]), ~IsDipper(sig[k]),
         SetSizeOrLengthIs(w, i, k, n).ok
  PROVE  Agreed(w, SetSizeOrLengthIs(w, i, k, n), k, n)
<1> DEFINE y == WithSize(w, k, n)
           z == PrepareOutVariant(y, k)
           x == SetSizeOrLengthIs(w, i, k, n)
<1>1. N \in Nat
  BY SigFields
<1>2. y \in Frames(N) /\ Wrote(w, y, k, Num(n)) /\ y.slots[k].auto
  BY <1>1, ToldParts
<1>3. x = IF w.slots[k].auto
            THEN IF w.slots[k].val.n # n THEN Raise(w) ELSE w
            ELSE IF IsOut(sig[k]) THEN z ELSE y
  BY DEF SetSizeOrLengthIs, WithSize
<1> HIDE DEF y
<1>4. z \in Frames(N) /\ Wrote(y, z, k, y.slots[k].val)
  <2>1. IsArithmetic(sig[k].type)
    BY DEF IsArithmetic
  <2>2. z \in Frames(N) /\ Prepared(y, z, k)
    BY <1>2, PrepareOutFrame, PrepareOutParts
  <2> HIDE DEF z
  <2> QED
    BY <2>1, <2>2 DEF Prepared
<1> HIDE DEF z, x
<1>5. Wrote(w, z, k, Num(n)) /\ z.slots[k].auto
  <2>1. DOMAIN y.slots = 1..N
    BY <1>1, <1>2, FrameFields DEF IsFrame
  <2>2. y.slots[k].val = Num(n)
    BY <1>2 DEF Wrote
  <2>3. Wrote(w, z, k, Num(n))
    BY <1>1, <1>2, <1>4, <2>2, WroteOn
  <2> QED
    BY <1>2, <1>4, <2>1, <2>3 DEF Keeps, Wrote
<1>6. x.ok /\ ~Raise(w).ok
  BY <1>1, FlagParts DEF x
<1>7. Keeps(w, w, {k}) /\ Num(n).n = n
  BY <1>1, KeepsAll DEF Num, Cell
<1> QED
  BY <1>2, <1>3, <1>5, <1>6, <1>7 DEF x, Wrote, Agreed

-----------------------------------------------------------------------------
(***************************************************************************)
(* Third layer: filling an array writes its own block and what is          *)
(* allocated after it, and nothing before.                                 *)
(***************************************************************************)

\* x is w with n cells in block b, none of which points to b or what was there
\* before it.
Above(w, x, b, n) ==
  /\ x.slots = w.slots
  /\ b \in DOMAIN x.mem /\ \A c \in 1..(b - 1) : x.mem[c] = w.mem[c]
  /\ Len(x.mem[b].cells) = n
  /\ \A j \in 1..n : x.mem[b].cells[j].is = "ptr" => x.mem[b].cells[j].n > b

\* What happens above b does not matter.
LEMMA AboveKept ==
  ASSUME NEW w, NEW x, NEW y, NEW b \in Nat \ {0}, NEW n, Above(w, x, b, n), y.slots = x.slots,
         DOMAIN x.mem \subseteq DOMAIN y.mem, \A c \in 1..b : y.mem[c] = x.mem[c]
  PROVE  Above(w, y, b, n)
<1>1. b \in 1..b /\ 1..(b - 1) \subseteq 1..b
  OBVIOUS
<1> QED
  BY <1>1 DEF Above

\* Freeing what a cell of b points to,
LEMMA AboveFree ==
  ASSUME NEW N \in Nat, NEW w, NEW x \in Frames(N), NEW b \in Nat \ {0}, NEW n,
         Above(w, x, b, n), NEW c, c.is = "ptr" => c.n > b
  PROVE  Above(w, Free(x, c), b, n)
<1> DEFINE e == [x.mem[c.n] EXCEPT !.live = FALSE]
           m == [x.mem EXCEPT ![c.n] = e]
           y == Free(x, c)
<1>1. y.slots = x.slots /\ DOMAIN y.mem = DOMAIN x.mem
  BY FreeFrame
<1>2. \A what : Fault(x, what).mem = x.mem
  BY FrameUpdates DEF Fault
<1>3. [x EXCEPT !.mem = m].mem = m
  <2> HIDE DEF m
  <2> QED
    BY FrameUpdates
<1>4. [x EXCEPT !.mem[c.n].live = FALSE] = [x EXCEPT !.mem = m]
  OBVIOUS
<1>5. y.mem = x.mem \/ (c.is = "ptr" /\ y.mem = m)
  <2> HIDE DEF m
  <2> QED
    BY <1>2, <1>3, <1>4 DEF Free, Live
<1>6. c.is = "ptr" => \A d \in 1..b : m[d] = x.mem[d]
  <2> SUFFICES ASSUME c.is = "ptr", NEW d \in 1..b PROVE m[d] = x.mem[d]
    OBVIOUS
  <2>1. d # c.n
    OBVIOUS
  <2>2. 1..b \subseteq DOMAIN x.mem
    <3>1. b \in DOMAIN x.mem
      BY DEF Above
    <3>2. Len(x.mem) \in Nat /\ DOMAIN x.mem = 1..Len(x.mem)
      BY FrameFields DEF IsFrame
    <3> QED
      BY <3>1, <3>2
  <2> HIDE DEF e
  <2> QED
    BY <2>1, <2>2
<1> HIDE DEF m, y
<1>7. \A d \in 1..b : y.mem[d] = x.mem[d]
  BY <1>5, <1>6
<1> QED
  BY <1>1, <1>7, AboveKept DEF y

\* and writing such a cell.
LEMMA AboveSet ==
  ASSUME NEW N \in Nat, NEW w, NEW x \in Frames(N), NEW b \in Nat \ {0}, NEW n \in Nat,
         Above(w, x, b, n), NEW j \in 1..n, NEW c \in CellValues, c.is = "ptr" => c.n > b
  PROVE  Above(w, SetElement(x, b, j, c), b, n)
<1> DEFINE s == [x.mem[b].cells EXCEPT ![j] = c]
           e == [x.mem[b] EXCEPT !.cells = s]
           m == [x.mem EXCEPT ![b] = e]
           y == [x EXCEPT !.mem = m]
<1>1. SetElement(x, b, j, c) = y
  BY DEF SetElement
<1>2. /\ IsFrame(N, x) /\ x.mem[b] \in Blocks /\ x.mem[b].cells \in Seq(CellValues)
      /\ b \in DOMAIN x.mem
  <2>1. IsFrame(N, x) /\ b \in DOMAIN x.mem
    BY FrameFields DEF Above
  <2> QED
    BY <2>1, BlockFields DEF IsFrame
<1>3. Len(x.mem[b].cells) = n /\ DOMAIN x.mem[b].cells = 1..n
  BY <1>2 DEF Above
<1>4. Len(s) = n /\ s[j] = c /\ \A l \in 1..n \ {j} : s[l] = x.mem[b].cells[l]
  BY <1>2, <1>3, ExceptSeq
<1> HIDE DEF s
<1>5. e.cells = s
  BY <1>2 DEF Blocks
<1> HIDE DEF e
<1>6. m[b] = e /\ \A d \in 1..(b - 1) : m[d] = x.mem[d]
  <2>1. 1..(b - 1) \subseteq DOMAIN x.mem /\ b \notin 1..(b - 1)
    BY <1>2 DEF IsFrame
  <2> QED
    BY <1>2, <2>1
<1>7. DOMAIN m = DOMAIN x.mem
  OBVIOUS
<1>8. y.mem = m /\ y.slots = x.slots
  <2> HIDE DEF m
  <2> QED
    BY FrameUpdates
<1> HIDE DEF m, y
<1>9. \A l \in 1..n : s[l].is = "ptr" => s[l].n > b
  <2> SUFFICES ASSUME NEW l \in 1..n PROVE s[l].is = "ptr" => s[l].n > b
    OBVIOUS
  <2>1. CASE l = j
    BY <1>4, <2>1
  <2>2. CASE l # j
    BY <1>4, <2>2 DEF Above
  <2> QED
    BY <2>1, <2>2
<1>10. Above(w, y, b, n)
  BY <1>2, <1>4, <1>5, <1>6, <1>7, <1>8, <1>9 DEF Above
<1> QED
  BY <1>1, <1>10

\* A new block in a cell of b.
LEMMA AboveNew ==
  ASSUME NEW N \in Nat, NEW w, NEW x \in Frames(N), NEW b \in Nat \ {0}, NEW n \in Nat,
         Above(w, x, b, n), NEW j \in 1..n, NEW block \in Blocks
  PROVE  Above(w, NewElement(x, b, j, block), b, n)
<1> DEFINE a == Allocate(x, block)
<1>1. a \in Frames(N) /\ Newest(a) \in CellValues
  BY AllocateFrame
<1>2. Len(x.mem) \in Nat /\ DOMAIN x.mem = 1..Len(x.mem) /\ b \in 1..Len(x.mem)
  BY FrameFields DEF IsFrame, Above
<1>3. /\ Newest(a) = Ptr(Len(x.mem) + 1) /\ a.slots = x.slots
      /\ Len(a.mem) = Len(x.mem) + 1 /\ Keeps(x, a, {})
  BY AllocateParts
<1> HIDE DEF a
<1>4. Newest(a).n > b
  BY <1>2, <1>3, CellKinds
<1>5. DOMAIN x.mem \subseteq DOMAIN a.mem /\ \A c \in 1..b : a.mem[c] = x.mem[c]
  <2>1. DOMAIN a.mem = 1..(Len(x.mem) + 1)
    BY <1>1, <1>3, FrameFields DEF IsFrame
  <2>2. \A c \in DOMAIN x.mem : a.mem[c] = x.mem[c]
    BY <1>3 DEF Keeps
  <2> QED
    BY <1>2, <2>1, <2>2
<1>6. Above(w, a, b, n)
  BY <1>3, <1>5, AboveKept
<1>7. Above(w, SetElement(a, b, j, Newest(a)), b, n)
  BY <1>1, <1>4, <1>6, AboveSet
<1> QED
  BY <1>7 DEF NewElement, a

\* One round of FillSingleArray.
LEMMA FillElementAbove ==
  ASSUME NEW N \in Nat, NEW w, NEW x \in Frames(N), NEW b \in Nat \ {0}, NEW n \in Nat,
         Above(w, x, b, n), NEW j \in 1..n, NEW elem, NEW v \in Handled
  PROVE  Above(w, FillElement(x, b, j, elem, v), b, n)
<1> DEFINE old == x.mem[b].cells[j]
           gone == Free(x, old)
           freed == SetElement(gone, b, j, Null)
           new == InterfaceFromPyObject(x, v, elem, Supports)
           y == new[1]
           late == Free(y, old)
<1>1. old.is = "ptr" => old.n > b
  BY DEF Above
<1>2. \A z \in Frames(N) : Above(w, z, b, n) => Above(w, Raise(z), b, n)
  <2> SUFFICES ASSUME NEW z \in Frames(N), Above(w, z, b, n) PROVE Above(w, Raise(z), b, n)
    OBVIOUS
  <2>1. Raise(z).slots = z.slots /\ Raise(z).mem = z.mem
    BY FlagParts
  <2> QED
    BY <2>1, AboveKept
<1>3. Block(v) \in Blocks /\ Block(Plain(v)) \in Blocks
  BY HandledShape, BlockKinds
<1>4. Null \in CellValues /\ Null.is # "ptr"
  BY CellKinds
<1>5. gone \in Frames(N) /\ Above(w, gone, b, n)
  <2> HIDE DEF old
  <2> QED
    BY <1>1, FreeFrame, AboveFree
<1>6. freed \in Frames(N) /\ Above(w, freed, b, n)
  <2> HIDE DEF gone
  <2>1. freed \in Frames(N)
    BY <1>4, <1>5, ElementFrame
  <2> QED
    BY <1>4, <1>5, <2>1, AboveSet
<1>7. IsNumber(v) =>
        /\ Above(w, SetElement(x, b, j, Num(Cut(v.n))), b, n)
        /\ Above(w, [SetElement(x, b, j, Num(Cut(-1))) EXCEPT !.err = "error"], b, n)
  <2> SUFFICES ASSUME IsNumber(v)
        PROVE  /\ Above(w, SetElement(x, b, j, Num(Cut(v.n))), b, n)
               /\ Above(w, [SetElement(x, b, j, Num(Cut(-1))) EXCEPT !.err = "error"], b, n)
    OBVIOUS
  <2>1. /\ Num(Cut(v.n)) \in CellValues /\ Num(Cut(-1)) \in CellValues
        /\ Num(Cut(v.n)).is # "ptr" /\ Num(Cut(-1)).is # "ptr"
    BY Numbers, CutFits, CellKinds
  <2> DEFINE z == SetElement(x, b, j, Num(Cut(-1)))
  <2>2. /\ Above(w, SetElement(x, b, j, Num(Cut(v.n))), b, n)
        /\ Above(w, z, b, n)
    BY <2>1, AboveSet
  <2>3. z \in Frames(N)
    BY <2>1, ElementFrame
  <2> HIDE DEF z
  <2>4. [z EXCEPT !.err = "error"].slots = z.slots /\ [z EXCEPT !.err = "error"].mem = z.mem
    BY <2>3, FlagParts
  <2>5. Above(w, [z EXCEPT !.err = "error"], b, n)
    BY <2>2, <2>4, AboveKept
  <2> QED
    BY <2>2, <2>5 DEF z
<1>8. Above(w, y, b, n) /\ Above(w, SetElement(late, b, j, new[2]), b, n)
  <2>1. y \in Frames(N) /\ new[2] \in CellValues
    BY InterfaceFrame, Constants DEF Pairs
  <2>2. /\ y.slots = x.slots /\ Keeps(x, y, {})
        /\ new[2] \in {Null, Ptr(Len(x.mem) + 1)}
    BY InterfaceParts, Constants
  <2>3. Len(x.mem) \in Nat /\ DOMAIN x.mem = 1..Len(x.mem) /\ b \in 1..Len(x.mem)
    BY FrameFields DEF IsFrame, Above
  <2> HIDE DEF y, new, old
  <2>4. DOMAIN x.mem \subseteq DOMAIN y.mem /\ \A c \in 1..b : y.mem[c] = x.mem[c]
    <3>1. Len(y.mem) \in Nat /\ DOMAIN y.mem = 1..Len(y.mem)
      BY <2>1, FrameFields DEF IsFrame
    <3> QED
      BY <2>2, <2>3, <3>1 DEF Keeps
  <2>5. Above(w, y, b, n)
    BY <2>2, <2>4, AboveKept
  <2>6. late \in Frames(N) /\ Above(w, late, b, n)
    BY <1>1, <2>1, <2>5, FreeFrame, AboveFree
  <2>7. new[2].is = "ptr" => new[2].n > b
    BY <1>4, <2>2, <2>3, CellKinds
  <2> HIDE DEF late
  <2>8. Above(w, SetElement(late, b, j, new[2]), b, n)
    BY <2>1, <2>6, <2>7, AboveSet
  <2> QED
    BY <2>5, <2>8
<1>9. /\ Above(w, NewElement(freed, b, j, Block(v)), b, n)
      /\ Above(w, NewElement(freed, b, j, Block(Plain(v))), b, n)
  <2> HIDE DEF freed
  <2> QED
    BY <1>3, <1>6, AboveNew
<1>10. Above(w, Raise(x), b, n) /\ Above(w, Raise(freed), b, n)
  <2> HIDE DEF freed
  <2> QED
    BY <1>2, <1>6
<1>11. Above(w, SetElement(x, b, j, Num(FirstChar(v))), b, n)
  <2>1. Num(FirstChar(v)) \in CellValues /\ Num(FirstChar(v)).is # "ptr"
    BY FirstCharFits, CellKinds
  <2> QED
    BY <2>1, AboveSet
<1> HIDE DEF freed, new, late, y
<1> QED
  BY <1>6, <1>7, <1>8, <1>9, <1>10, <1>11 DEF FillElement, freed, new, late, y, gone

\* FillSingleArray leaves what was there before, and the number of cells.
LEMMA FillArrayAbove ==
  ASSUME NEW N \in Nat, NEW w \in Frames(N), NEW b \in Nat \ {0}, NEW elem, NEW s \in Seq(Handled),
         Above(w, w, b, Len(s))
  PROVE  /\ FillSingleArray(w, b, elem, s) \in Frames(N)
         /\ Above(w, FillSingleArray(w, b, elem, s), b, Len(s))
<1> DEFINE n == Len(s)
           F == {x \in Frames(N) : Above(w, x, b, n)}
           Step(x, j) == IF x.ok THEN FillElement(x, b, j, elem, s[j]) ELSE x
           f == [p \in F \X (1..n) |-> Step(p[1], p[2])]
           id == [i \in DOMAIN s |-> i]
           Eqn(h) == h = [t \in SUBSET (DOMAIN id) |->
                            IF t = {} THEN w ELSE Step(h[t \ {Max(t)}], id[Max(t)])]
<1>1. /\ n \in Nat /\ DOMAIN s = 1..n
      /\ DOMAIN id = 1..n /\ \A i \in 1..n : id[i] = i
  OBVIOUS
<1>2. \A x \in F, j \in 1..n : Step(x, j) \in F
  <2> SUFFICES ASSUME NEW x \in Frames(N), Above(w, x, b, n), NEW j \in 1..n
               PROVE  Step(x, j) \in Frames(N) /\ Above(w, Step(x, j), b, n)
    OBVIOUS
  <2>1. s[j] \in Handled
    OBVIOUS
  <2>2. FillElement(x, b, j, elem, s[j]) \in Frames(N)
    BY <2>1, FillElementFrame
  <2>3. Above(w, FillElement(x, b, j, elem, s[j]), b, n)
    BY <1>1, <2>1, FillElementAbove
  <2> QED
    BY <2>2, <2>3
<1>3. w \in F
  OBVIOUS
<1>4. \E g : Eqn(g)
  <2>1. f \in [F \X (1..n) -> F]
    <3> HIDE DEF F, Step, id
    <3> QED
      BY <1>2
  <2>2. PICK g : FoldFrom(g, F, n, f, w)
    <3> HIDE DEF F, f, n, id
    <3>1. n \in Nat
      BY <1>1
    <3> QED
      BY <1>3, <2>1, <3>1, FoldExists
  <2>3. \A t \in SUBSET (1..n) :
          g[t] = IF t = {} THEN w ELSE Step(g[t \ {Max(t)}], id[Max(t)])
    <3> HIDE DEF F, Step, id
    <3> SUFFICES ASSUME NEW t \in SUBSET (1..n), t # {}
                 PROVE  g[t] = Step(g[t \ {Max(t)}], id[Max(t)])
      BY <2>2 DEF FoldFrom
    <3> QED
      BY <1>1, <2>2 DEF FoldFrom
  <2>4. Eqn(g)
    <3>1. g = [t \in SUBSET (1..n) |-> g[t]]
      BY <2>2 DEF FoldFrom
    <3>2. SUBSET (DOMAIN id) = SUBSET (1..n)
      BY <1>1
    <3> HIDE DEF F, Step, id
    <3>3. [t \in SUBSET (1..n) |-> g[t]] =
            [t \in SUBSET (1..n) |->
               IF t = {} THEN w ELSE Step(g[t \ {Max(t)}], id[Max(t)])]
      BY <2>3, Zenon
    <3> QED
      BY <3>1, <3>2, <3>3
  <2> HIDE DEF Eqn
  <2> QED
    BY <2>4
<1> DEFINE h == CHOOSE h : Eqn(h)
<1>5. Eqn(h)
  <2> HIDE DEF Eqn
  <2> QED
    BY <1>4
<1>6. FillSingleArray(w, b, elem, s) = h[1..n]
  <2>1. FillSingleArray(w, b, elem, s) = h[DOMAIN id]
    BY DEF FillSingleArray, FoldLeftDomain, FoldLeft, MapThenFoldSet
  <2> HIDE DEF h, id
  <2> QED
    BY <1>1, <2>1
<1>7. h[1..n] \in F
  <2> HIDE DEF h
  <2>1. h[{}] \in F
    <3> HIDE DEF F, id
    <3> QED
      BY <1>3, <1>5
  <2>2. ASSUME NEW t \in SUBSET (1..n), t # {}, h[t \ {Max(t)}] \in F
        PROVE  h[t] = f[<<h[t \ {Max(t)}], Max(t)>>]
    <3> HIDE DEF F, Step, id
    <3>1. Max(t) \in 1..n
      BY <1>1, <2>2, MaxOfFinite
    <3> QED
      BY <1>1, <1>5, <2>2, <3>1
  <2>3. f \in [F \X (1..n) -> F]
    <3> HIDE DEF F, Step, id
    <3> QED
      BY <1>2
  <2> HIDE DEF F, f, id
  <2> QED
    BY <1>1, <2>1, <2>2, <2>3, FoldEnds
<1> QED
  BY <1>6, <1>7

-----------------------------------------------------------------------------
(***************************************************************************)
(* Fourth layer: Plain, which forgets how a value was encoded, and what    *)
(* the conversions of a single argument keep.                              *)
(***************************************************************************)

\* Plain of a value, as f gives it for the elements.
PlainStep(f, u) ==
  IF Encodes(u) THEN Str(u.n)
  ELSE IF IsNumber(u) THEN Integer(u.n)
  ELSE IF IsSequence(u) THEN List([j \in DOMAIN u.of |-> f[u.of[j]]])
  ELSE u

\* The recursive definition in Plain defines something.
LEMMA PlainExists ==
  ASSUME NEW d \in Nat
  PROVE  \E f : f = [u \in ValuesTo[d] |-> PlainStep(f, u)]
<1> DEFINE S == {n \in Nat : /\ ValuesTo[n] \subseteq ValuesTo[n + 1]
                             /\ \E f : f = [u \in ValuesTo[n] |-> PlainStep(f, u)]}
<1>1. /\ ValuesTo[0] = Simple
      /\ \A n \in Nat : ValuesTo[n + 1] = Simple \cup Lists(ValuesTo[n])
  BY ValuesToEquation
<1>2. \A u \in Simple : ~IsSequence(u)
  BY DEF Simple, IsSequence
<1>3. 0 \in S
  <2> DEFINE g == [u \in Simple |-> PlainStep(<<>>, u)]
  <2>1. \A u \in Simple : PlainStep(<<>>, u) = PlainStep(g, u)
    BY <1>2 DEF PlainStep
  <2>2. g = [u \in Simple |-> PlainStep(g, u)]
    BY <2>1
  <2>3. ValuesTo[0] \subseteq ValuesTo[0 + 1]
    BY <1>1
  <2> HIDE DEF g
  <2> QED
    BY <1>1, <2>2, <2>3
<1>4. ASSUME NEW n \in Nat, n \in S PROVE n + 1 \in S
  <2>1. PICK f : f = [u \in ValuesTo[n] |-> PlainStep(f, u)]
    BY <1>4
  <2> DEFINE g == [u \in ValuesTo[n + 1] |-> PlainStep(f, u)]
  <2>2. \A u \in ValuesTo[n] : g[u] = f[u]
    <3>1. \A u \in ValuesTo[n] : f[u] = PlainStep(f, u)
      BY <2>1, Zenon
    <3>2. \A u \in ValuesTo[n] : g[u] = PlainStep(f, u)
      BY <1>4
    <3> QED
      BY <3>1, <3>2
  <2>3. ASSUME NEW u \in ValuesTo[n + 1], IsSequence(u)
        PROVE  u.of \in Seq(ValuesTo[n])
    BY <1>1, <1>2, <2>3 DEF Lists
  <2>4. ASSUME NEW u \in ValuesTo[n + 1] PROVE PlainStep(f, u) = PlainStep(g, u)
    <3>1. CASE IsSequence(u)
      <4>1. \A j \in DOMAIN u.of : u.of[j] \in ValuesTo[n]
        BY <2>3, <3>1
      <4>2. \A j \in DOMAIN u.of : f[u.of[j]] = g[u.of[j]]
        <5> HIDE DEF g
        <5> QED
          BY <2>2, <4>1
      <4> HIDE DEF g
      <4> QED
        BY <4>2 DEF PlainStep
    <3>2. CASE ~IsSequence(u)
      BY <3>2 DEF PlainStep
    <3> QED
      BY <3>1, <3>2
  <2>5. g = [u \in ValuesTo[n + 1] |-> PlainStep(g, u)]
    <3> DEFINE h == g
    <3>1. g = [u \in ValuesTo[n + 1] |-> PlainStep(f, u)]
      OBVIOUS
    <3> HIDE DEF g
    <3> QED
      BY <2>4, <3>1
  <2>6. ValuesTo[n + 1] \subseteq ValuesTo[(n + 1) + 1]
    <3>1. n + 1 \in Nat /\ ValuesTo[(n + 1) + 1] = Simple \cup Lists(ValuesTo[n + 1])
      BY <1>1
    <3>2. Lists(ValuesTo[n]) \subseteq Lists(ValuesTo[n + 1])
      <4>1. ValuesTo[n] \subseteq ValuesTo[n + 1]
        BY <1>4
      <4> QED
        BY <4>1 DEF Lists
    <3> QED
      BY <1>1, <3>1, <3>2
  <2> HIDE DEF g
  <2> QED
    BY <2>5, <2>6
<1>5. Nat \subseteq S
  <2> HIDE DEF S
  <2> QED
    BY <1>3, <1>4, SetInduction
<1> QED
  BY <1>5

\* A text stays as long as it is.
LEMMA PlainText ==
  ASSUME NEW v \in PyValues, Encodes(v)
  PROVE  Plain(v) = Str(v.n) /\ Plain(v).n = v.n
<1> DEFINE Eqn(f) == f = [u \in PyValues |->
             IF Encodes(u) THEN Str(u.n)
             ELSE IF IsNumber(u) THEN Integer(u.n)
             ELSE IF IsSequence(u) THEN List([j \in DOMAIN u.of |-> f[u.of[j]]])
             ELSE u]
<1>1. \E f : Eqn(f)
  <2>1. PICK f : f = [u \in PyValues |-> PlainStep(f, u)]
    BY PlainExists, NestingAssumption DEF PyValues
  <2>2. Eqn(f)
    BY <2>1, Zenon DEF PlainStep
  <2> HIDE DEF Eqn
  <2> QED
    BY <2>2
<1>2. Eqn(PlainOf)
  <2>1. Eqn(CHOOSE f : Eqn(f))
    <3> HIDE DEF Eqn
    <3> QED
      BY <1>1
  <2> QED
    BY <2>1, Zenon DEF PlainOf
<1>3. PlainOf[v] = Str(v.n)
  BY <1>2
<1> QED
  BY <1>3 DEF Plain, Str, Value

\* Fill for numbers, characters and IIDs,
LEMMA FillScalarParts ==
  ASSUME NEW N \in Nat, NEW w \in Frames(N), NEW i \in 1..N, NEW v \in Handled
  PROVE  /\ Keeps(w, FillNumber(w, i, v), {i}) /\ Keeps(w, FillChar(w, i, v), {i})
         /\ Keeps(w, FillIID(w, i, v), {i})
<1>1. Keeps(w, Raise(w), {i})
  BY FlagParts
<1>2. \A c : Keeps(w, Put(w, i, c), {i})
  BY PutParts DEF Wrote
<1>3. Block(v) \in Blocks
  BY BlockKinds, HandledShape
<1>4. Keeps(w, Own(w, i, Block(v)), {i})
  BY <1>3, PutNewParts DEF Made
<1> QED
  BY <1>1, <1>2, <1>4 DEF FillNumber, FillChar, FillIID

\* texts without a size,
LEMMA FillTextParts ==
  ASSUME NEW N \in Nat, NEW w \in Frames(N), NEW i \in 1..N, NEW v \in Handled
  PROVE  /\ Keeps(w, FillAString(w, i, v), {i}) /\ Keeps(w, FillCString(w, i, v), {i})
         /\ Keeps(w, FillString(w, i, v), {i})
<1>1. Keeps(w, Raise(w), {i})
  BY FlagParts
<1>2. \A c : Keeps(w, Put(w, i, c), {i})
  BY PutParts DEF Wrote
<1>3. Block(Plain(v)) \in Blocks /\ Block(Str(0)) \in Blocks
  BY BlockKinds, HandledShape, Constants
<1>4. Keeps(w, Own(w, i, Block(Plain(v))), {i}) /\ Keeps(w, Own(w, i, Block(Str(0))), {i})
  BY <1>3, PutNewParts DEF Made
<1>5. Keeps(w, Raise(Own(w, i, Block(Str(0)))), {i})
  <2> DEFINE y == Own(w, i, Block(Str(0)))
  <2>1. y \in Frames(N) /\ Raise(y) \in Frames(N)
    <3>1. y \in Frames(N)
      BY Puts
    <3> HIDE DEF y
    <3> QED
      BY <3>1, FaultFrame
  <2>2. Keeps(y, Raise(y), {i})
    <3> HIDE DEF y
    <3> QED
      BY <2>1, FlagParts
  <2> HIDE DEF y
  <2>3. Keeps(w, y, {i})
    BY <1>4 DEF y
  <2>4. Keeps(w, Raise(y), {i})
    BY <2>1, <2>2, <2>3, KeepsTwice
  <2> QED
    BY <2>4 DEF y
<1> QED
  BY <1>1, <1>2, <1>4, <1>5 DEF FillAString, FillCString, FillString

\* and interfaces changes nothing but the slot.
LEMMA FillInterfaceParts ==
  ASSUME NEW N \in Nat, NEW w \in Frames(N), NEW i \in 1..N, NEW v \in Handled,
         NEW iid \in Interfaces
  PROVE  Keeps(w, FillInterface(w, i, v, iid), {i})
<1> DEFINE r == InterfaceFromPyObject(w, v, sig[i].type, iid)
           x == r[1]
           y == Put(x, i, r[2])
           flag == v # None
           z == WithCleanup(y, i, flag)
<1>1. x \in Frames(N) /\ Keeps(w, x, {i})
  BY InterfaceParts
<1>2. y \in Frames(N)
  <2>1. r[2] \in CellValues /\ InMemory(x, r[2])
    BY InterfaceFrame DEF Pairs
  <2> HIDE DEF x
  <2> QED
    BY <1>1, <2>1, PutFrame
<1>3. FillInterface(w, i, v, iid) = IF x.ok THEN z ELSE x
  BY DEF FillInterface, WithCleanup
<1> HIDE DEF x
<1>4. Keeps(x, y, {i})
  BY <1>1, PutParts DEF Wrote
<1> HIDE DEF y
<1>5. Keeps(w, y, {i})
  BY <1>1, <1>2, <1>4, KeepsTwice
<1>6. z \in Frames(N)
  <2> HIDE DEF flag
  <2>1. flag \in BOOLEAN
    BY DEF flag
  <2> QED
    BY <1>2, <2>1, SlotFlagFrame DEF WithCleanup
<1>7. Keeps(y, z, {i})
  <2> HIDE DEF flag
  <2> QED
    BY <1>2, CleanupParts DEF Wrote
<1> HIDE DEF z
<1>8. Keeps(w, z, {i})
  BY <1>2, <1>5, <1>6, <1>7, KeepsTwice
<1> QED
  BY <1>1, <1>3, <1>8

-----------------------------------------------------------------------------
(***************************************************************************)
(* Fifth layer: an argument arrives together with its size.                *)
(***************************************************************************)

\* Parameter k tells the size of what parameter i points to.
TrueSize(w, i, k) ==
  LET cell == w.slots[i].val
      b == w.mem[cell.n]
  IN /\ cell.is = "ptr"
     /\ w.slots[k].val.n = IF sig[i].type = "array" THEN Len(b.cells) ELSE b.of.n
     /\ sig[i].type # "array" => b.live

\* x is w with a value in parameter i and its size in k, where w had it already
\* or did not yet say.
FilledWith(w, x, i, k) ==
  /\ Keeps(w, x, {i, k})
  /\ w.slots[k].auto => x.slots[k] = w.slots[k]
  /\ x.slots[i].val # Null => TrueSize(x, i, k) /\ x.slots[k].auto

\* x has a size in parameter k with what y has in i.
SizedOn(w, y, x, i, k) ==
  /\ Keeps(w, x, {i, k}) /\ x.slots[i] = y.slots[i] /\ x.mem = y.mem
  /\ w.slots[k].auto => x.slots[k] = w.slots[k]

\* A size that goes with what is in parameter i.
LEMMA SizedParts ==
  ASSUME NEW N \in Nat, NEW w \in Frames(N), NEW y \in Frames(N), NEW x \in Frames(N),
         NEW i \in 1..N, NEW k \in 1..N, i # k, NEW n,
         Keeps(w, y, {i}), Agreed(y, x, k, n)
  PROVE  SizedOn(w, y, x, i, k)
<1>1. DOMAIN w.slots = 1..N /\ DOMAIN y.slots = 1..N
  BY FrameFields DEF IsFrame
<1>2. Keeps(w, x, {i} \cup {k})
  BY KeepsOn DEF Agreed
<1>3. {i} \cup {k} = {i, k}
  OBVIOUS
<1>4. y.slots[k] = w.slots[k] /\ x.slots[i] = y.slots[i]
  BY <1>1 DEF Keeps, Agreed
<1> QED
  BY <1>2, <1>3, <1>4 DEF Agreed, SizedOn

\* Null needs no size.
LEMMA NullParts ==
  ASSUME NEW N \in Nat, NEW w \in Frames(N), NEW i \in 1..N, NEW k \in 1..N, i # k
  PROVE  FilledWith(w, Put(w, i, Null), i, k)
<1> DEFINE x == Put(w, i, Null)
<1>1. Wrote(w, x, i, Null)
  BY PutParts
<1>2. DOMAIN w.slots = 1..N
  BY FrameFields DEF IsFrame
<1> HIDE DEF x
<1>3. Keeps(w, x, {i, k})
  BY <1>1 DEF Wrote, Keeps
<1>4. x.slots[k] = w.slots[k] /\ x.slots[i].val = Null
  BY <1>1, <1>2 DEF Wrote, Keeps
<1> QED
  BY <1>3, <1>4 DEF FilledWith, x

\* A text with its size,
LEMMA FillSizedParts ==
  ASSUME WellTyped(sig), NEW N, N = Len(sig), NEW w \in Frames(N), NEW i \in 1..N,
         NEW v \in PyValues, Fits(v), IsSized(sig[i].type), NEW k, k = sig[i].size, i # k,
         sig[k].type = "num", IsIn(sig[k]), ~IsDipper(sig[k]),
         FillSized(w, i, v).ok
  PROVE  FilledWith(w, FillSized(w, i, v), i, k)
<1> DEFINE b == Block(Plain(v))
           y == Own(w, i, b)
           x == SetSizeOrLengthIs(y, i, k, v.n)
<1>1. N \in Nat /\ k \in 1..N /\ v \in Handled
  BY SigFields, HandledShape
<1>2. ~Raise(w).ok
  BY <1>1, FlagParts
<1>3. \/ FillSized(w, i, v) = Put(w, i, Null)
      \/ Encodes(v) /\ FillSized(w, i, v) = x
  BY <1>2 DEF FillSized
<1>4. FilledWith(w, Put(w, i, Null), i, k)
  BY <1>1, NullParts
<1>5. ASSUME Encodes(v), x.ok PROVE FilledWith(w, x, i, k)
  <2>1. v.n \in Nat /\ v.n < Word
    <3>1. IsText(v) /\ ~IsSequence(v)
      BY <1>5 DEF Encodes, IsText, IsSequence
    <3> QED
      BY <1>1, <3>1, Numbers DEF Fits, Length
  <2>2. b \in Blocks /\ b.live /\ b.of = Plain(v) /\ Plain(v).n = v.n
    <3>1. Plain(v).n = v.n
      BY <1>5, PlainText
    <3> QED
      BY <1>1, <3>1, BlockKinds, HandledShape DEF Block
  <2> HIDE DEF b
  <2>3. Made(w, y, i, b)
    BY <1>1, <2>2, PutNewParts
  <2>4. y \in Frames(N)
    BY <1>1, <2>2, PutNewFrame
  <2> HIDE DEF y
  <2>5. Agreed(y, x, k, v.n)
    BY <1>1, <1>5, <2>1, <2>4, SetSizeParts
  <2>6. x \in Frames(N)
    BY <1>1, <2>1, <2>4, SetSizeFrame
  <2> HIDE DEF x
  <2>7. /\ Keeps(w, x, {i, k}) /\ x.slots[i] = y.slots[i] /\ x.mem = y.mem
        /\ w.slots[k].auto => x.slots[k] = w.slots[k]
    <3>1. Keeps(w, y, {i})
      BY <2>3 DEF Made
    <3>2. SizedOn(w, y, x, i, k)
      BY <1>1, <2>4, <2>5, <2>6, <3>1, SizedParts
    <3> QED
      BY <3>2 DEF SizedOn
  <2>8. Len(w.mem) \in Nat
    BY <1>1, FrameFields DEF IsFrame
  <2>9. x.slots[i].val = Ptr(Len(w.mem) + 1) /\ x.mem[Len(w.mem) + 1] = b
    BY <2>3, <2>7 DEF Made
  <2>10. sig[i].type # "array"
    BY DEF IsSized
  <2>11. TrueSize(x, i, k) /\ x.slots[k].auto
    <3>1. x.slots[i].val.is = "ptr" /\ x.slots[i].val.n = Len(w.mem) + 1
      BY <2>8, <2>9, CellKinds
    <3> QED
      BY <2>2, <2>5, <2>9, <2>10, <3>1 DEF TrueSize, Agreed
  <2> QED
    BY <2>7, <2>11 DEF FilledWith
<1> HIDE DEF x
<1> QED
  BY <1>3, <1>4, <1>5

\* and an array.
LEMMA FillArrayParts ==
  ASSUME WellTyped(sig), NEW N, N = Len(sig), NEW w \in Frames(N), NEW i \in 1..N,
         NEW v \in Handled, Fits(v), sig[i].type = "array", NEW k, k = sig[i].length, i # k,
         sig[k].type = "num", IsIn(sig[k]), ~IsDipper(sig[k]),
         FillArray(w, i, v).ok
  PROVE  FilledWith(w, FillArray(w, i, v), i, k)
<1> DEFINE items == Items(v, sig[i].elem)
           n == Len(items)
           cells == Times(n, Null)
           b == Array(cells)
           empty == PutNew(w, i, b)
           a == Newest(empty).n
           y == FillSingleArray(empty, a, sig[i].elem, items)
           z == [y EXCEPT !.ok = TRUE]
           x == SetSizeOrLengthIs(z, i, k, n)
           flag == ~IsArithmetic(sig[i].elem)
           kept == WithCleanup(x, i, flag)
<1>1. N \in Nat /\ k \in 1..N
  BY SigFields
<1>2. ~Raise(w).ok
  BY <1>1, FlagParts
<1>3. \/ FillArray(w, i, v) = Put(w, i, Null)
      \/ HasItems(v) /\ FillArray(w, i, v) = KeepArray(x, i, y.ok)
  BY <1>2 DEF FillArray, SizeArray
<1>4. FilledWith(w, Put(w, i, Null), i, k)
  BY <1>1, NullParts
<1>5. ASSUME HasItems(v), KeepArray(x, i, y.ok).ok
      PROVE  FilledWith(w, KeepArray(x, i, y.ok), i, k)
  <2>1. items \in Seq(Handled) /\ n \in Nat /\ n < Word
    BY <1>5, ItemsKind
  <2> HIDE DEF items
  <2>2. /\ cells \in Seq(CellValues) /\ Len(cells) = n
        /\ \A j \in 1..n : cells[j] = Null
    <3>1. Null \in CellValues
      BY CellKinds
    <3> HIDE DEF n
    <3> QED
      BY <2>1, <3>1, TimesSeq
  <2> HIDE DEF cells
  <2>3. b \in Blocks /\ b.cells = cells
    BY <2>2, ArrayBlocks
  <2> HIDE DEF b
  <2>4. empty \in Frames(N) /\ Made(w, empty, i, b)
    BY <1>1, <2>3, PutNewFrame, PutNewParts
  <2> HIDE DEF empty
  <2>5. Len(w.mem) \in Nat /\ DOMAIN w.mem = 1..Len(w.mem) /\ DOMAIN w.slots = 1..N
    BY <1>1, FrameFields DEF IsFrame
  <2>6. a = Len(w.mem) + 1 /\ DOMAIN empty.mem = 1..a /\ a \in Nat \ {0}
    <3>1. Len(empty.mem) = Len(w.mem) + 1
      BY <2>4 DEF Made
    <3>2. DOMAIN empty.mem = 1..Len(empty.mem)
      BY <1>1, <2>4, FrameFields DEF IsFrame
    <3> QED
      BY <2>5, <3>1, <3>2, CellKinds DEF Newest
  <2> HIDE DEF a
  <2>7. Above(empty, empty, a, Len(items))
    <3>1. empty.mem[a] = b
      BY <2>4, <2>6 DEF Made
    <3>2. Null.is # "ptr"
      BY CellKinds
    <3> QED
      BY <2>2, <2>3, <2>6, <3>1, <3>2 DEF Above
  <2>8. y \in Frames(N) /\ Above(empty, y, a, n)
    BY <1>1, <2>1, <2>4, <2>6, <2>7, FillArrayAbove
  <2> HIDE DEF y
  <2>9. z \in Frames(N) /\ z.slots = y.slots /\ z.mem = y.mem
    <3>1. z \in Frames(N)
      BY <1>1, <2>8, FlagFrame
    <3> QED
      BY <1>1, <2>8, <3>1, FlagParts
  <2> HIDE DEF z
  <2>10. Keeps(w, z, {i})
    <3>1. z.slots = empty.slots
      BY <2>8, <2>9 DEF Above
    <3>2. Len(w.mem) <= Len(z.mem) /\ \A c \in DOMAIN w.mem : z.mem[c] = w.mem[c]
      <4>1. Len(z.mem) \in Nat /\ DOMAIN z.mem = 1..Len(z.mem)
        BY <1>1, <2>9, FrameFields DEF IsFrame
      <4>2. a \in DOMAIN z.mem /\ \A c \in 1..(a - 1) : z.mem[c] = empty.mem[c]
        BY <2>8, <2>9 DEF Above
      <4>3. \A c \in DOMAIN w.mem : empty.mem[c] = w.mem[c]
        BY <2>4 DEF Made, Keeps
      <4> QED
        BY <2>5, <2>6, <4>1, <4>2, <4>3
    <3>3. Keeps(w, empty, {i})
      BY <2>4 DEF Made
    <3> QED
      BY <3>1, <3>2, <3>3 DEF Keeps
  <2>11. /\ KeepArray(x, i, y.ok) = kept /\ x.ok
    <3>1. x \in Frames(N)
      BY <1>1, <2>1, <2>9, SetSizeFrame
    <3> HIDE DEF x, flag
    <3>2. Put(Free(x, x.slots[i].val), i, Null) \in Frames(N)
      BY <1>1, <3>1, FreeFrame, NullFrame
    <3>3. ~Fail(Put(Free(x, x.slots[i].val), i, Null)).ok
      BY <1>1, <3>2, FlagParts
    <3> QED
      BY <1>5, <3>3 DEF KeepArray, WithCleanup, flag
  <2>12. x \in Frames(N) /\ Agreed(z, x, k, n)
    <3>1. x \in Frames(N)
      BY <1>1, <2>1, <2>9, SetSizeFrame
    <3> QED
      BY <1>1, <2>1, <2>9, <2>11, <3>1, SetSizeParts
  <2> HIDE DEF x
  <2>13. Wrote(x, kept, i, x.slots[i].val) /\ kept \in Frames(N)
    <3>1. flag \in BOOLEAN
      BY DEF IsArithmetic
    <3> HIDE DEF flag
    <3> QED
      BY <1>1, <2>12, <3>1, CleanupParts, SlotFlagFrame DEF WithCleanup
  <2> HIDE DEF kept
  <2>14. /\ Keeps(w, x, {i, k}) /\ x.slots[i] = z.slots[i] /\ x.mem = z.mem
         /\ w.slots[k].auto => x.slots[k] = w.slots[k]
    <3>1. SizedOn(w, z, x, i, k)
      <4> HIDE DEF n
      <4> QED
        BY <1>1, <2>9, <2>10, <2>12, SizedParts
    <3> QED
      BY <3>1 DEF SizedOn
  <2>15. kept.slots[k] = x.slots[k] /\ kept.mem = x.mem /\ kept.slots[i].val = z.slots[i].val
    <3>1. DOMAIN x.slots = 1..N
      BY <1>1, <2>12, FrameFields DEF IsFrame
    <3> QED
      BY <1>1, <2>13, <2>14, <3>1 DEF Wrote, Keeps
  <2>16. Keeps(w, kept, {i, k})
    <3>1. Keeps(w, kept, {i, k} \cup {i})
      BY <1>1, <2>12, <2>13, <2>14, KeepsOn DEF Wrote
    <3>2. {i, k} \cup {i} = {i, k}
      OBVIOUS
    <3> QED
      BY <3>1, <3>2
  <2>17. kept.slots[i].val = Ptr(a) /\ Len(kept.mem[a].cells) = n
    <3>1. z.slots[i].val = Ptr(a)
      BY <2>4, <2>6, <2>8, <2>9 DEF Made, Above
    <3>2. Len(z.mem[a].cells) = n
      BY <2>8, <2>9 DEF Above
    <3> QED
      BY <2>14, <2>15, <3>1, <3>2
  <2>18. TrueSize(kept, i, k) /\ kept.slots[k].auto
    <3>1. kept.slots[i].val.is = "ptr" /\ kept.slots[i].val.n = a
      BY <2>6, <2>17, CellKinds
    <3>2. kept.slots[k].val.n = n /\ kept.slots[k].auto
      BY <2>12, <2>15 DEF Agreed
    <3> HIDE DEF n
    <3> QED
      BY <2>17, <3>1, <3>2 DEF TrueSize
  <2> QED
    BY <2>11, <2>14, <2>15, <2>16, <2>18 DEF FilledWith
<1> HIDE DEF x, y
<1> QED
  BY <1>3, <1>4, <1>5

\* x is w with an argument in parameter i, and the size of it in the parameter
\* that tells that.
FilledIn(w, x, i) ==
  /\ Keeps(w, x, {i}) \/ \E k \in DOMAIN sig : Counts(sig, k, i)
  /\ \A k \in DOMAIN sig : Counts(sig, k, i) => FilledWith(w, x, i, k)

\* The sizes of a signature tell those of others.
LEMMA PlainParts ==
  ASSUME NEW s, SizesPlain(s), NEW i \in DOMAIN s, NEW k \in DOMAIN s, Counts(s, k, i)
  PROVE  /\ s[k].type = "num" /\ ~IsDipper(s[k]) /\ ~IsDipper(s[i]) /\ i # k
         /\ IsIn(s[i]) => IsIn(s[k])
         /\ s[i].type = "array" \/ IsSized(s[i].type)
         /\ s[i].type = "array" /\ IsIn(s[i]) /\ IsOut(s[i]) =>
              s[i].size = k /\ LastTold(s, k, i)
         /\ \A j \in DOMAIN s : ~Counts(s, j, k)
BY DEF SizesPlain, Counts, IsSized

\* FillInVariant, when it goes well.
LEMMA FillParts ==
  ASSUME WellTyped(sig), SizesPlain(sig), NEW N, N = Len(sig), NEW w \in Frames(N),
         NEW i \in 1..N, IsIn(sig[i]), NEW v \in Given, FillInVariant(w, i, v).ok
  PROVE  FilledIn(w, FillInVariant(w, i, v), i)
<1> DEFINE y == Fill(w, i, v)
           ok == y.ok /\ y.err = "none"
           x == [y EXCEPT !.ok = ok]
<1>1. N \in Nat /\ DOMAIN sig = 1..N /\ v \in PyValues /\ v \in Handled /\ Fits(v)
  BY SigFields, HandledShape DEF Given
<1>2. FillInVariant(w, i, v) = x
  BY DEF FillInVariant
<1>4. y \in Frames(N)
  BY <1>1, FillKind
<1> HIDE DEF y
<1>5. x.slots = y.slots /\ x.mem = y.mem /\ x.ok = ok
  <2> HIDE DEF ok
  <2> QED
    BY <1>1, <1>4, FlagParts
<1>6. y.ok
  BY <1>2, <1>5
<1> HIDE DEF x
<1>7. CASE sig[i].type = "array"
  <2> DEFINE k == sig[i].length
  <2>1. Counts(sig, k, i) /\ k \in 1..N
    BY <1>1, <1>7, SigFields DEF Counts
  <2>2. /\ sig[k].type = "num" /\ ~IsDipper(sig[k]) /\ i # k /\ IsIn(sig[k])
    BY <1>1, <2>1, PlainParts
  <2>3. y = FillArray(w, i, v)
    BY <1>7 DEF y, Fill, IsString, IsSized
  <2>4. FilledWith(w, y, i, k)
    BY <1>1, <1>6, <1>7, <2>2, <2>3, FillArrayParts
  <2>5. FilledWith(w, x, i, k)
    BY <1>5, <2>4 DEF FilledWith, Keeps, TrueSize
  <2>6. \A l \in DOMAIN sig : Counts(sig, l, i) => l = k
    BY <1>7 DEF Counts, IsSized
  <2> HIDE DEF k
  <2> QED
    BY <1>1, <1>2, <2>1, <2>5, <2>6 DEF FilledIn
<1>8. CASE IsSized(sig[i].type)
  <2> DEFINE k == sig[i].size
  <2>1. Counts(sig, k, i) /\ k \in 1..N
    BY <1>1, <1>8, SigFields DEF Counts
  <2>2. /\ sig[k].type = "num" /\ ~IsDipper(sig[k]) /\ i # k /\ IsIn(sig[k])
    BY <1>1, <2>1, PlainParts
  <2>3. y = FillSized(w, i, v)
    BY <1>8 DEF y, Fill, IsString, IsSized
  <2>4. FilledWith(w, y, i, k)
    BY <1>1, <1>6, <1>8, <2>2, <2>3, FillSizedParts
  <2>5. FilledWith(w, x, i, k)
    BY <1>5, <2>4 DEF FilledWith, Keeps, TrueSize
  <2>6. \A l \in DOMAIN sig : Counts(sig, l, i) => l = k
    BY <1>8 DEF Counts, IsSized
  <2> HIDE DEF k
  <2> QED
    BY <1>1, <1>2, <2>1, <2>5, <2>6 DEF FilledIn
<1>9. CASE sig[i].type # "array" /\ ~IsSized(sig[i].type)
  <2>1. Keeps(w, FillInterface(w, i, v, Supports), {i})
    BY <1>1, FillInterfaceParts, Constants
  <2>2. sig[i].iid \in Nat /\ Keeps(w, FillInterface(w, i, v, sig[i].iid), {i})
    BY <1>1, SigFields, FillInterfaceParts, Constants
  <2>3. sig[i].type = "iface_is" => Keeps(w, FillInterfaceIs(w, i, v), {i})
    <3> SUFFICES ASSUME sig[i].type = "iface_is" PROVE Keeps(w, FillInterfaceIs(w, i, v), {i})
      OBVIOUS
    <3>1. sig[i].iid \in 1..N
      BY SigFields
    <3>2. Pointee(w, w.slots[sig[i].iid].val).n \in Interfaces /\ Supports \in Interfaces
      BY <1>1, <3>1, SlotNumbers, PointeeHeld, Constants
    <3> QED
      BY <1>1, <3>2, FillInterfaceParts DEF FillInterfaceIs
  <2>4. Keeps(w, Raise(w), {i})
    BY <1>1, FlagParts
  <2>5. /\ Keeps(w, FillNumber(w, i, v), {i}) /\ Keeps(w, FillChar(w, i, v), {i})
        /\ Keeps(w, FillIID(w, i, v), {i})
        /\ Keeps(w, FillAString(w, i, v), {i}) /\ Keeps(w, FillCString(w, i, v), {i})
        /\ Keeps(w, FillString(w, i, v), {i})
    BY <1>1, FillScalarParts, FillTextParts
  <2>6. Keeps(w, y, {i})
    BY <1>9, <2>1, <2>2, <2>3, <2>4, <2>5 DEF y, Fill
  <2>7. Keeps(w, x, {i})
    BY <1>5, <2>6 DEF Keeps
  <2>8. \A k \in DOMAIN sig : ~Counts(sig, k, i)
    BY <1>9 DEF Counts
  <2> QED
    BY <1>2, <2>7, <2>8 DEF FilledIn
<1> QED
  BY <1>7, <1>8, <1>9

-----------------------------------------------------------------------------
(***************************************************************************)
(* Sixth layer: the sizes known so far stay known when the next            *)
(* parameter is filled or prepared.                                        *)
(***************************************************************************)

\* What is in parameter i has the size that k tells; and it will, as k is set
\* for good or counts nothing else that is still to come.
SizeKnown(w, i, k) ==
  w.slots[i].val # Null =>
    TrueSize(w, i, k) /\ (w.slots[k].auto \/ LastTold(sig, k, i))

\* It is so for the first n parameters.
SizesKnown(w, n) ==
  \A i, k \in DOMAIN sig :
    i <= n /\ Counts(sig, k, i) /\ IsIn(sig[i]) => SizeKnown(w, i, k)

\* Changes elsewhere leave a size known.
LEMMA KnownKept ==
  ASSUME NEW N \in Nat, NEW w \in Frames(N), NEW x \in Frames(N), NEW J, Keeps(w, x, J),
         NEW i \in 1..N \ J, NEW k \in 1..N, x.slots[k].val = w.slots[k].val,
         SizeKnown(w, i, k)
  PROVE  SizeKnown(x, i, k)
<1>1. IsFrame(N, w) /\ DOMAIN w.slots = 1..N
  BY FrameFields DEF IsFrame
<1>2. x.slots[i] = w.slots[i]
  BY <1>1 DEF Keeps
<1>3. SUFFICES ASSUME w.slots[i].val # Null PROVE SizeKnown(x, i, k)
  BY <1>2 DEF SizeKnown
<1>4. TrueSize(w, i, k) /\ (w.slots[k].auto \/ LastTold(sig, k, i))
  BY <1>3 DEF SizeKnown
<1>5. w.slots[i].val.n \in DOMAIN w.mem
  BY <1>4, SlotNumbers DEF InMemory, TrueSize
<1>6. x.mem[w.slots[i].val.n] = w.mem[w.slots[i].val.n]
  BY <1>5 DEF Keeps
<1>7. TrueSize(x, i, k)
  BY <1>2, <1>4, <1>6 DEF TrueSize
<1>8. w.slots[k].auto => x.slots[k].auto
  BY <1>1 DEF Keeps
<1> QED
  BY <1>4, <1>7, <1>8 DEF SizeKnown

\* So do changes that leave the pointers and numbers.
LEMMA KnownWrote ==
  ASSUME WellTyped(sig), NEW N, N = Len(sig), NEW w \in Frames(N), NEW x \in Frames(N),
         NEW j \in 1..N, Wrote(w, x, j, w.slots[j].val), NEW n, SizesKnown(w, n)
  PROVE  SizesKnown(x, n)
<1>1. N \in Nat /\ DOMAIN sig = 1..N
  BY SigFields
<1>2. DOMAIN w.slots = 1..N
  BY <1>1, FrameFields DEF IsFrame
<1>3. \A i \in 1..N : x.slots[i].val = w.slots[i].val /\ (w.slots[i].auto => x.slots[i].auto)
  BY <1>2 DEF Wrote, Keeps
<1>4. x.mem = w.mem
  BY DEF Wrote
<1>5. \A i, k \in 1..N : SizeKnown(w, i, k) => SizeKnown(x, i, k)
  BY <1>3, <1>4 DEF SizeKnown, TrueSize
<1> QED
  BY <1>1, <1>5 DEF SizesKnown

\* A parameter that takes no argument is not one whose size is told.
LEMMA TakenParts ==
  ASSUME WellTyped(sig), SizesPlain(sig), ~Insane(sig), NEW i \in DOMAIN sig, NEW k \in DOMAIN sig,
         Counts(sig, k, i), IsIn(sig[i])
  PROVE  TakesArgument(sig, i) /\ ~TakesArgument(sig, k)
BY PlainParts, SigFields DEF TakesArgument, AutoIn, Described, Insane

\* An argument makes the size of its parameter known.
LEMMA FilledKnown ==
  ASSUME WellTyped(sig), SizesPlain(sig), ~Insane(sig), NEW N, N = Len(sig), NEW w \in Frames(N),
         NEW x \in Frames(N), NEW j \in 1..N, TakesArgument(sig, j), FilledIn(w, x, j),
         SizesKnown(w, j - 1)
  PROVE  SizesKnown(x, j)
<1>1. N \in Nat /\ DOMAIN sig = 1..N /\ IsIn(sig[j])
  BY SigFields DEF TakesArgument
<1> SUFFICES ASSUME NEW i \in 1..N, NEW k \in 1..N, i <= j, Counts(sig, k, i), IsIn(sig[i])
             PROVE  SizeKnown(x, i, k)
  BY <1>1 DEF SizesKnown
<1>2. DOMAIN w.slots = 1..N
  BY <1>1, FrameFields DEF IsFrame
<1>3. CASE i = j
  <2>1. FilledWith(w, x, i, k)
    BY <1>1, <1>3 DEF FilledIn
  <2> QED
    BY <2>1 DEF FilledWith, SizeKnown
<1>4. CASE i < j
  <2>1. SizeKnown(w, i, k)
    BY <1>1, <1>4 DEF SizesKnown
  <2>2. k # j
    BY <1>1, TakenParts
  <2>3. CASE Keeps(w, x, {j})
    <3>1. x.slots[k].val = w.slots[k].val
      BY <1>2, <2>2, <2>3 DEF Keeps
    <3>2. i \in 1..N \ {j}
      BY <1>4
    <3> QED
      BY <1>1, <2>1, <2>3, <3>1, <3>2, KnownKept
  <2>4. ASSUME NEW l \in 1..N, Counts(sig, l, j) PROVE SizeKnown(x, i, k)
    <3>1. FilledWith(w, x, j, l)
      BY <1>1, <2>4 DEF FilledIn
    <3>2. i # l
      BY <1>1, <2>4, PlainParts
    <3>3. CASE x.slots[k].val = w.slots[k].val
      <4>1. i \in 1..N \ {j, l}
        BY <1>4, <3>2
      <4> QED
        BY <1>1, <2>1, <3>1, <3>3, <4>1, KnownKept DEF FilledWith
    <3>4. CASE x.slots[k].val # w.slots[k].val
      <4>1. k = l
        BY <1>2, <2>2, <3>1, <3>4 DEF FilledWith, Keeps
      <4>2. ~w.slots[k].auto
        BY <3>1, <3>4, <4>1 DEF FilledWith
      <4>3. ~LastTold(sig, k, i)
        BY <1>1, <1>4, <2>4, <4>1 DEF LastTold
      <4>4. w.slots[i].val = Null
        BY <2>1, <4>2, <4>3 DEF SizeKnown
      <4>5. x.slots[i] = w.slots[i]
        BY <1>2, <1>4, <3>1, <3>2 DEF FilledWith, Keeps
      <4> QED
        BY <4>4, <4>5 DEF SizeKnown
    <3> QED
      BY <3>3, <3>4
  <2> QED
    BY <1>1, <2>3, <2>4 DEF FilledIn
<1> QED
  BY <1>3, <1>4

\* Making ready for a result leaves the sizes known.
LEMMA PreparedKnown ==
  ASSUME WellTyped(sig), SizesPlain(sig), NEW N, N = Len(sig), NEW w \in Frames(N),
         NEW x \in Frames(N), NEW j \in 1..N, Prepared(w, x, j),
         \/ IsOut(sig[j])
         \/ IsDipper(sig[j]),
         NEW n, SizesKnown(w, n)
  PROVE  SizesKnown(x, n)
<1>1. N \in Nat /\ DOMAIN sig = 1..N
  BY SigFields
<1> SUFFICES ASSUME NEW i \in 1..N, NEW k \in 1..N, i <= n, Counts(sig, k, i), IsIn(sig[i])
             PROVE  SizeKnown(x, i, k)
  BY <1>1 DEF SizesKnown
<1>2. DOMAIN w.slots = 1..N
  BY <1>1, FrameFields DEF IsFrame
<1>3. SizeKnown(w, i, k)
  BY <1>1 DEF SizesKnown
<1>4. /\ sig[k].type = "num" /\ ~IsDipper(sig[k]) /\ ~IsDipper(sig[i]) /\ i # k
      /\ IsIn(sig[k]) /\ (sig[i].type = "array" \/ IsSized(sig[i].type))
      /\ sig[i].type = "array" /\ IsOut(sig[i]) => sig[i].size = k /\ LastTold(sig, k, i)
  BY <1>1, PlainParts
<1>5. Wrote(w, x, j, w.slots[j].val) => SizeKnown(x, i, k)
  <2> SUFFICES ASSUME Wrote(w, x, j, w.slots[j].val) PROVE SizeKnown(x, i, k)
    OBVIOUS
  <2>1. SizesKnown(x, n)
    BY KnownWrote
  <2> QED
    BY <1>1, <2>1 DEF SizesKnown
<1>6. CASE j = k
  <2>1. IsArithmetic(sig[j].type)
    BY <1>4, <1>6 DEF IsArithmetic
  <2> QED
    BY <1>4, <1>5, <1>6, <2>1 DEF Prepared
<1>7. CASE j # k /\ j # i
  <2>1. Keeps(w, x, {j}) /\ x.slots[k].val = w.slots[k].val /\ i \in 1..N \ {j}
    BY <1>2, <1>7 DEF Prepared, Keeps
  <2> QED
    BY <1>1, <1>3, <2>1, KnownKept
<1>8. CASE j = i
  <2>1. CASE Wrote(w, x, i, w.slots[i].val)
    BY <1>5, <1>8, <2>1
  <2>2. CASE sig[i].type = "array" /\ Spaced(w, x, i)
    <3>1. sig[i].size = k /\ LastTold(sig, k, i)
      BY <1>4, <1>8, <2>2
    <3>2. PICK b : Made(w, x, i, b) /\ Len(b.cells) = w.slots[k].val.n
      BY <2>2, <3>1 DEF Spaced
    <3>3. x.slots[k].val = w.slots[k].val
      BY <1>2, <1>4, <3>2 DEF Made, Keeps
    <3>4. Len(w.mem) \in Nat
      BY <1>1, FrameFields DEF IsFrame
    <3>5. x.slots[i].val.is = "ptr" /\ x.slots[i].val.n = Len(w.mem) + 1
      BY <3>2, <3>4, CellKinds DEF Made
    <3>6. TrueSize(x, i, k)
      BY <2>2, <3>2, <3>3, <3>5 DEF TrueSize, Made
    <3> QED
      BY <3>1, <3>6 DEF SizeKnown
  <2> QED
    BY <1>4, <1>8, <2>1, <2>2 DEF Prepared
<1> QED
  BY <1>6, <1>7, <1>8

\* "There may be out size_is params we havent touched yet": touching them
\* leaves the sizes known.
LEMMA TouchSizesKnown ==
  ASSUME WellTyped(sig), SizesPlain(sig), NEW N, N = Len(sig), NEW w \in Frames(N),
         SizesKnown(w, N)
  PROVE  SizesKnown(TouchSizes(w), N)
<1> DEFINE n == Len(sig)
           F == {x \in Frames(N) : SizesKnown(x, N)}
           Step(x, j) == IF IsOut(sig[j]) /\ AutoOut(sig, j) /\ ~x.slots[j].auto
                          THEN PrepareOutVariant(x, j) ELSE x
           f == [p \in F \X (1..n) |-> Step(p[1], p[2])]
           id == [i \in DOMAIN sig |-> i]
           Eqn(h) == h = [t \in SUBSET (DOMAIN id) |->
                            IF t = {} THEN w ELSE Step(h[t \ {Max(t)}], id[Max(t)])]
<1>1. /\ n \in Nat /\ DOMAIN sig = 1..n
      /\ DOMAIN id = 1..n /\ \A i \in 1..n : id[i] = i
  BY SigFields
<1>2. \A x \in F, j \in 1..n : Step(x, j) \in F
  <2> SUFFICES ASSUME NEW x \in Frames(N), SizesKnown(x, N), NEW j \in 1..N, IsOut(sig[j])
               PROVE  /\ PrepareOutVariant(x, j) \in Frames(N)
                      /\ SizesKnown(PrepareOutVariant(x, j), N)
    OBVIOUS
  <2> DEFINE y == PrepareOutVariant(x, j)
  <2>1. y \in Frames(N) /\ Prepared(x, y, j)
    BY PrepareOutFrame, PrepareOutParts
  <2> HIDE DEF y
  <2>2. SizesKnown(y, N)
    BY <2>1, PreparedKnown
  <2> QED
    BY <2>1, <2>2 DEF y
<1>3. w \in F
  OBVIOUS
<1>4. \E g : Eqn(g)
  <2>1. f \in [F \X (1..n) -> F]
    <3> HIDE DEF F, Step, id
    <3> QED
      BY <1>2
  <2>2. PICK g : FoldFrom(g, F, n, f, w)
    <3> HIDE DEF F, f, n, id
    <3>1. n \in Nat
      BY <1>1
    <3> QED
      BY <1>3, <2>1, <3>1, FoldExists
  <2>3. \A t \in SUBSET (1..n) :
          g[t] = IF t = {} THEN w ELSE Step(g[t \ {Max(t)}], id[Max(t)])
    <3> HIDE DEF F, Step, id
    <3> SUFFICES ASSUME NEW t \in SUBSET (1..n), t # {}
                 PROVE  g[t] = Step(g[t \ {Max(t)}], id[Max(t)])
      BY <2>2 DEF FoldFrom
    <3> QED
      BY <1>1, <2>2 DEF FoldFrom
  <2>4. Eqn(g)
    <3>1. g = [t \in SUBSET (1..n) |-> g[t]]
      BY <2>2 DEF FoldFrom
    <3>2. SUBSET (DOMAIN id) = SUBSET (1..n)
      BY <1>1
    <3> HIDE DEF F, Step, id
    <3>3. [t \in SUBSET (1..n) |-> g[t]] =
            [t \in SUBSET (1..n) |->
               IF t = {} THEN w ELSE Step(g[t \ {Max(t)}], id[Max(t)])]
      BY <2>3, Zenon
    <3> QED
      BY <3>1, <3>2, <3>3
  <2> HIDE DEF Eqn
  <2> QED
    BY <2>4
<1> DEFINE h == CHOOSE h : Eqn(h)
<1>5. Eqn(h)
  <2> HIDE DEF Eqn
  <2> QED
    BY <1>4
<1>6. TouchSizes(w) = h[1..n]
  <2>1. TouchSizes(w) = h[DOMAIN id]
    BY DEF TouchSizes, FoldLeftDomain, FoldLeft, MapThenFoldSet
  <2> HIDE DEF h, id
  <2> QED
    BY <1>1, <2>1
<1>7. h[1..n] \in F
  <2> HIDE DEF h
  <2>1. h[{}] \in F
    <3> HIDE DEF F, id
    <3> QED
      BY <1>3, <1>5
  <2>2. ASSUME NEW t \in SUBSET (1..n), t # {}, h[t \ {Max(t)}] \in F
        PROVE  h[t] = f[<<h[t \ {Max(t)}], Max(t)>>]
    <3> HIDE DEF F, Step, id
    <3>1. Max(t) \in 1..n
      BY <1>1, <2>2, MaxOfFinite
    <3> QED
      BY <1>1, <1>5, <2>2, <3>1
  <2>3. f \in [F \X (1..n) -> F]
    <3> HIDE DEF F, Step, id
    <3> QED
      BY <1>2
  <2> HIDE DEF F, f, id
  <2> QED
    BY <1>1, <2>1, <2>2, <2>3, FoldEnds
<1> QED
  BY <1>6, <1>7

\* ProcessPythonTypeDescriptors leaves the sizes of a signature.
LEMMA RepairedPlain ==
  ASSUME NEW s, WellTyped(s), SizesPlain(s)
  PROVE  SizesPlain(Repaired(s))
<1> DEFINE r == Repaired(s)
<1>1. DOMAIN r = DOMAIN s
  BY DEF Repaired
<1>2. ASSUME NEW i \in DOMAIN s
      PROVE  /\ r[i].type = s[i].type /\ r[i].size = s[i].size /\ r[i].length = s[i].length
             /\ ~IsDipper(s[i]) => r[i] = s[i]
  <2>1. s[i] \in Descriptors
    BY SigFields
  <2>2. r[i] = IF IsDipper(s[i]) /\ ~IsIn(s[i]) /\ ~IsOut(s[i])
                 THEN [s[i] EXCEPT !.flags = @ \cup {"in"}] ELSE s[i]
    BY DEF Repaired
  <2>3. /\ [s[i] EXCEPT !.flags = @ \cup {"in"}].type = s[i].type
        /\ [s[i] EXCEPT !.flags = @ \cup {"in"}].size = s[i].size
        /\ [s[i] EXCEPT !.flags = @ \cup {"in"}].length = s[i].length
    BY <2>1 DEF Descriptors
  <2> HIDE DEF r
  <2> QED
    BY <2>2, <2>3
<1> HIDE DEF r
<1>3. \A i, k \in DOMAIN s : Counts(r, k, i) <=> Counts(s, k, i)
  BY <1>2 DEF Counts
<1>4. ASSUME NEW i \in DOMAIN s, NEW k \in DOMAIN s, Counts(r, k, i)
      PROVE  /\ r[k].type = "num" /\ ~IsDipper(r[k]) /\ ~IsDipper(r[i])
             /\ IsIn(r[i]) => IsIn(r[k])
             /\ r[i].type = "array" /\ IsIn(r[i]) /\ IsOut(r[i]) =>
                  r[i].size = k /\ LastTold(r, k, i)
  <2>1. Counts(s, k, i)
    BY <1>3, <1>4
  <2>2. r[i] = s[i] /\ r[k] = s[k]
    BY <1>2, <2>1, PlainParts
  <2>3. LastTold(s, k, i) => LastTold(r, k, i)
    <3> SUFFICES ASSUME LastTold(s, k, i), NEW j \in DOMAIN s, Counts(r, k, j), IsIn(r[j])
                 PROVE  j <= i
      BY <1>1 DEF LastTold
    <3>1. Counts(s, k, j)
      BY <1>3
    <3>2. r[j] = s[j]
      BY <1>2, <3>1, PlainParts
    <3> QED
      BY <3>1, <3>2 DEF LastTold
  <2> QED
    BY <2>1, <2>2, <2>3, PlainParts
<1> QED
  BY <1>1, <1>4 DEF SizesPlain, r

-----------------------------------------------------------------------------
(***************************************************************************)
(* The inductive invariant and the theorem.                                *)
(***************************************************************************)

\* The inductive invariant: while the arguments are prepared the sizes of those
\* done so far are known, and all of them when the method is called.
SizesInv ==
  /\ SizesPlain(sig)
  /\ pc = "prepare" => ~Insane(sig) /\ SizesKnown(Now, at - 1)
  /\ pc = "call" /\ caller = "python" => SizesKnown(Now, Len(sig))

\* It implies the property.
LEMMA SizesInvAgree == CallInv /\ SizesInv => SizesAgree
<1> SUFFICES ASSUME CallInv, SizesInv, pc = "call", caller = "python",
                    NEW i \in DOMAIN sig, NEW k \in DOMAIN sig,
                    Counts(sig, k, i), IsIn(sig[i]), slots[i].val # Null
             PROVE  slots[k].val.n = IF sig[i].type = "array" THEN Len(Cells(Now, slots[i].val))
                                     ELSE Pointee(Now, slots[i].val).n
  BY DEF SizesAgree
<1>1. Len(sig) \in Nat /\ DOMAIN sig = 1..Len(sig)
  BY SigFields DEF CallInv, MethodKind
<1>2. TrueSize(Now, i, k)
  <2>1. i <= Len(sig)
    BY <1>1
  <2> QED
    BY <2>1 DEF SizesInv, SizesKnown, SizeKnown, Now
<1>3. Now.slots = slots /\ Now.mem = mem
  BY DEF Now
<1>4. slots[i].val.is = "ptr"
  BY <1>2, <1>3 DEF TrueSize
<1>5. CASE sig[i].type = "array"
  BY <1>2, <1>3, <1>4, <1>5 DEF TrueSize, Cells
<1>6. CASE sig[i].type # "array"
  BY <1>2, <1>3, <1>4, <1>6 DEF TrueSize, Pointee, Live, Null, Cell
<1> QED
  BY <1>5, <1>6

\* Preparing a parameter keeps it,
LEMMA PrepareParamKnown == CallInv /\ SizesInv /\ PrepareParam => SizesInv'
<1> SUFFICES ASSUME CallInv, SizesInv, PrepareParam PROVE SizesInv'
  OBVIOUS
<1> DEFINE N == Len(sig)
           n == ParamIndex(at)
           takes == TakesArgument(sig, at)
           out == (IsOut(sig[at]) /\ ~AutoOut(sig, at)) \/ IsDipper(sig[at])
           start == WithType(Now, at)
           filled == IF ~takes THEN start
                     ELSE IF n > Len(args) THEN Raise(start)
                     ELSE FillInVariant(start, at, args[n])
           done == IF filled.ok /\ out THEN PrepareOutVariant(filled, at) ELSE filled
<1>1. /\ WellTyped(sig) /\ N \in Nat /\ at \in 1..N /\ DOMAIN sig = 1..N
      /\ Now \in Frames(N) /\ SizesPlain(sig) /\ SizesKnown(Now, at - 1)
      /\ ~Insane(sig)
  BY SigFields DEF CallInv, MethodKind, FrameKind, SizesInv, PrepareParam
<1>2. start \in Frames(N) /\ SizesKnown(start, at - 1)
  <2>1. start \in Frames(N)
    BY <1>1, SlotFlagFrame DEF WithType
  <2>2. Wrote(Now, start, at, Now.slots[at].val)
    BY <1>1, TypedParts
  <2> HIDE DEF start
  <2> QED
    BY <1>1, <2>1, <2>2, KnownWrote
<1>3. ASSUME takes, ~(n > Len(args))
      PROVE  /\ FillInVariant(start, at, args[n]) \in Frames(N)
             /\ FillInVariant(start, at, args[n]).ok =>
                  SizesKnown(FillInVariant(start, at, args[n]), at)
  <2>1. n \in Nat \ {0} /\ args \in Seq(Given)
    BY <1>1, Orders DEF CallInv, MethodKind
  <2> HIDE DEF n
  <2>2. args[n] \in Given
    BY <1>3, <2>1
  <2> DEFINE v == args[n]
             y == FillInVariant(start, at, v)
  <2>3. v \in Given /\ v \in Handled /\ Fits(v)
    BY <2>2, GivenKind DEF Fitting
  <2> HIDE DEF v, start
  <2>4. y \in Frames(N)
    BY <1>1, <1>2, <2>3, FillFrame
  <2>5. ASSUME y.ok PROVE SizesKnown(y, at)
    <3>1. IsIn(sig[at])
      BY <1>3 DEF TakesArgument
    <3>2. FilledIn(start, y, at)
      BY <1>1, <1>2, <2>3, <2>5, <3>1, FillParts
    <3> HIDE DEF y
    <3> QED
      BY <1>1, <1>2, <1>3, <2>4, <3>2, FilledKnown
  <2> HIDE DEF y
  <2> QED
    BY <2>4, <2>5 DEF y, v
<1>4. ~takes => SizesKnown(start, at)
  <2> SUFFICES ASSUME ~takes, NEW i \in 1..N, NEW k \in 1..N, i <= at,
                      Counts(sig, k, i), IsIn(sig[i])
               PROVE  SizeKnown(start, i, k)
    BY <1>1 DEF SizesKnown
  <2>1. i # at
    BY <1>1, TakenParts
  <2>2. i <= at - 1
    BY <1>1, <2>1
  <2> HIDE DEF start
  <2> QED
    BY <1>1, <1>2, <2>2 DEF SizesKnown
<1>5. Raise(start) \in Frames(N) /\ ~Raise(start).ok
  <2> HIDE DEF start
  <2> QED
    BY <1>1, <1>2, FaultFrame, FlagParts
<1>6. filled \in Frames(N) /\ (filled.ok => SizesKnown(filled, at))
  <2> HIDE DEF start, n, takes
  <2> QED
    BY <1>2, <1>3, <1>4, <1>5
<1>7. done.ok => SizesKnown(done, at)
  <2> HIDE DEF filled
  <2>1. CASE filled.ok /\ out
    <3> DEFINE y == PrepareOutVariant(filled, at)
    <3>1. y \in Frames(N) /\ Prepared(filled, y, at)
      BY <1>1, <1>6, PrepareOutFrame, PrepareOutParts
    <3> HIDE DEF y
    <3>2. SizesKnown(y, at)
      BY <1>1, <1>6, <2>1, <3>1, PreparedKnown
    <3> QED
      BY <2>1, <3>2 DEF y
  <2>2. CASE ~(filled.ok /\ out)
    BY <1>6, <2>2
  <2> QED
    BY <2>1, <2>2
<1>8. /\ Becomes(done) /\ UNCHANGED <<sig, caller>>
      /\ pc' = "prepare" => done.ok
      /\ done.ok => at' = at + 1
      /\ pc' \in {"crashed", "prepare", "destroy"}
  BY DEF PrepareParam, Unchanged, WithType
<1> HIDE DEF done
<1>9. SizesPlain(sig)' /\ ~Insane(sig)'
  BY <1>1, <1>8
<1>10. ASSUME pc' = "prepare" PROVE SizesKnown(Now, at - 1)'
  <2>1. SizesKnown(done, at' - 1)
    BY <1>1, <1>7, <1>8, <1>10
  <2>2. Now'.slots = done.slots /\ Now'.mem = done.mem /\ sig' = sig
    BY <1>8 DEF Becomes, Now
  <2>3. \A i, k : TrueSize(done, i, k) => TrueSize(Now, i, k)'
    BY <2>2 DEF TrueSize
  <2>4. \A i, k : SizeKnown(done, i, k) => SizeKnown(Now, i, k)'
    BY <2>2, <2>3 DEF SizeKnown
  <2> QED
    BY <2>1, <2>2, <2>4 DEF SizesKnown
<1> QED
  BY <1>8, <1>9, <1>10 DEF SizesInv

\* and so does preparing the sizes,
LEMMA PrepareSizesKnown == CallInv /\ SizesInv /\ PrepareSizes => SizesInv'
<1> SUFFICES ASSUME CallInv, SizesInv, PrepareSizes PROVE SizesInv'
  OBVIOUS
<1> DEFINE N == Len(sig)
           x == TouchSizes(Now)
<1>1. /\ WellTyped(sig) /\ N \in Nat /\ Now \in Frames(N) /\ SizesPlain(sig)
      /\ at \in Nat /\ at > N /\ DOMAIN sig = 1..N /\ SizesKnown(Now, at - 1)
  BY SigFields DEF CallInv, MethodKind, FrameKind, SizesInv, PrepareSizes
<1>2. SizesKnown(Now, N)
  BY <1>1 DEF SizesKnown
<1>3. SizesKnown(x, N)
  BY <1>1, <1>2, TouchSizesKnown
<1>4. Becomes(x) /\ pc' = "call" /\ UNCHANGED <<sig, caller>>
  BY DEF PrepareSizes, Goto, Unchanged
<1> HIDE DEF x
<1>5. Now'.slots = x.slots /\ Now'.mem = x.mem /\ sig' = sig
  BY <1>4 DEF Becomes, Now
<1>6. \A i, k : TrueSize(x, i, k) => TrueSize(Now, i, k)'
  BY <1>5 DEF TrueSize
<1>7. \A i, k : SizeKnown(x, i, k) => SizeKnown(Now, i, k)'
  BY <1>5, <1>6 DEF SizeKnown
<1>8. SizesKnown(Now, Len(sig))'
  BY <1>3, <1>5, <1>7 DEF SizesKnown
<1> QED
  BY <1>1, <1>4, <1>5, <1>8 DEF SizesInv

\* and taking the arguments.
LEMMA InitCallKnown == CallInv /\ SizesInv /\ InitCall => SizesInv'
<1> SUFFICES ASSUME CallInv, SizesInv, InitCall PROVE SizesInv'
  OBVIOUS
<1>1. WellTyped(sig) /\ SizesPlain(sig)
  BY DEF CallInv, MethodKind, SizesInv
<1>2. SizesPlain(Repaired(sig)) /\ WellTyped(Repaired(sig))
  BY <1>1, RepairedPlain, RepairedKind
<1>3. sig' = Repaired(sig) /\ at' = 1 /\ pc' \in {"prepare", "destroy"}
  BY DEF InitCall, Goto
<1>6. pc' = "prepare" => ~Insane(sig')
  BY DEF InitCall, Goto
<1>4. SizesPlain(sig)' /\ DOMAIN sig' = 1..Len(sig')
  BY <1>2, <1>3, SigFields
<1>5. SizesKnown(Now, at - 1)'
  BY <1>2, <1>3, <1>4 DEF SizesKnown
<1> QED
  BY <1>3, <1>4, <1>5, <1>6 DEF SizesInv

\* No other step begins the preparation or a call from Python.
LEMMA OthersKnown ==
  ASSUME CallInv, SizesInv,
         BuildResult \/ DestroyHelper \/ Stub \/ NativePrepare \/ NativeFinish
           \/ NativeFails \/ NativeMethod
  PROVE  SizesInv'
<1>1. UNCHANGED <<sig, caller>>
  BY DEF BuildResult, DestroyHelper, Unchanged, Stub, StubMakeArgs, StubMakeArgsInsane,
         MethodReturns, MethodReturnsCode, MethodRaises, HandleException, StubUnchanged, NativePrepare,
         NativeFinish, NativeFails, NativeMethod, NativeUnchanged
<1>2. pc' # "prepare" /\ (pc' = "call" => caller # "python")
  BY DEF BuildResult, DestroyHelper, Stub, StubMakeArgs, StubMakeArgsInsane,
         MethodReturns, MethodReturnsCode, MethodRaises, HandleException, StubGoesOn, NativePrepare,
         NativeFinish, NativeFails, NativeMethod, Goto
<1> QED
  BY <1>1, <1>2 DEF SizesInv

\* A method that Python calls is told the true size of every array and text it
\* is given, whatever the arguments are, also when several of them share a size
\* (SetSizeOrLengthIs and its callers in VariantUtils.cpp) - if the sizes are
\* declared as PlainSizes says.
THEOREM SizesAreTrue ==
  ASSUME PlainSizes
  PROVE  Spec => []SizesAgree
<1>1. Init => CallInv /\ SizesInv
  <2>1. Init => SizesPlain(sig) /\ pc = "init"
    BY DEF Init, PlainSizes
  <2> QED
    BY <2>1, InitInv DEF SizesInv
<1>2. CallInv /\ SizesInv /\ [Next]_vars => SizesInv'
  <2> SUFFICES ASSUME CallInv, SizesInv, [Next]_vars PROVE SizesInv'
    OBVIOUS
  <2>1. CASE UNCHANGED vars
    <3>1. /\ sig' = sig /\ caller' = caller /\ pc' = pc /\ at' = at
          /\ slots' = slots /\ mem' = mem /\ faults' = faults /\ err' = err
      BY <2>1 DEF vars, frame
    <3> QED
      BY <3>1 DEF SizesInv, SizesKnown, SizeKnown, TrueSize, Now
  <2>2. CASE PythonCaller
    BY <2>2, InitCallKnown, PrepareParamKnown, PrepareSizesKnown, OthersKnown
       DEF PythonCaller
  <2>3. CASE Stub \/ NativePrepare \/ NativeFinish \/ NativeFails \/ NativeMethod
    BY <2>3, OthersKnown
  <2>4. CASE Finished
    BY <2>1, <2>4 DEF Finished
  <2> QED
    BY <2>1, <2>2, <2>3, <2>4 DEF Next
<1> QED
  BY <1>1, <1>2, StepInv, SizesInvAgree, PTL DEF Spec

-----------------------------------------------------------------------------
(***************************************************************************)
(* Blocks to spare.  What holds an IID is pointed to by one slot and       *)
(* nothing else: a function that takes a frame to another may free or      *)
(* overwrite what its arguments lead to, and spares every block that       *)
(* nothing leads to.                                                       *)
(***************************************************************************)

\* Every cell of a block leads to a block that was allocated, if anywhere.
Closed(w) ==
  \A b \in DOMAIN w.mem : \A q \in DOMAIN w.mem[b].cells : InMemory(w, w.mem[b].cells[q])

\* The types whose contents are filled in where they are: a variant of one
\* never holds a number, nor a pointer into a Python str.
FilledInPlace == {"astring", "cstring", "utf8", "sized", "wsized"}
Points(c) == c = Null \/ c.is = "ptr"
InPlace(w) ==
  \A j \in DOMAIN sig : sig[j].type \in FilledInPlace => Points(w.slots[j].val)

\* A slot in I, or an element of an array, points to b.
Reached(w, I, b) ==
  \/ \E j \in I : w.slots[j].val = Ptr(b)
  \/ \E c \in DOMAIN w.mem : \E q \in DOMAIN w.mem[c].cells : w.mem[c].cells[q] = Ptr(b)

\* A cell that may be freed or stored by who works on the slots in I: it does
\* not point to a block that is there in w, except one that can be reached.
Allowed(w, I, c) == c.is = "ptr" => c.n > Len(w.mem) \/ Reached(w, I, c.n)

\* A block of w is in x what it was, if it cannot be reached from I; any block
\* keeps its interface, and none comes to life again.
Spared(w, x, I, b) ==
  /\ x.mem[b].as = w.mem[b].as /\ (x.mem[b].live => w.mem[b].live)
  /\ ~Reached(w, I, b) => /\ ~Reached(x, I, b)
                          /\ x.mem[b].live = w.mem[b].live /\ x.mem[b].of = w.mem[b].of

\* What may become of w when the parameters in I are worked on.
Spares(w, x, I) ==
  /\ Len(w.mem) <= Len(x.mem)
  /\ \A j \in DOMAIN w.slots \ I : x.slots[j].val = w.slots[j].val
  /\ \A j \in DOMAIN w.slots : w.slots[j].typed => x.slots[j].typed
  /\ \A b \in DOMAIN w.mem : Spared(w, x, I, b)
Sound(N) == {x \in Frames(N) : Closed(x) /\ InPlace(x)}
Sparing(N, w, I) == {x \in Sound(N) : Spares(w, x, I)}

\* A pointer is Ptr of its number.
LEMMA PointerIs == \A c \in CellValues : c.is = "ptr" => c = Ptr(c.n)
BY DEF CellValues, Ptr, Cell

\* Nothing done.
LEMMA SpareNothing ==
  ASSUME NEW N \in Nat, NEW w \in Sound(N), NEW I \in SUBSET (1..N)
  PROVE  w \in Sparing(N, w, I)
<1>1. w \in Frames(N) /\ IsFrame(N, w)
  BY FrameFields DEF Sound
<1> QED
  BY <1>1 DEF Sparing, Spares, Spared, IsFrame

\* A change of the flags of a frame.
LEMMA SpareFlags ==
  ASSUME NEW N \in Nat, NEW w \in Sound(N), NEW I \in SUBSET (1..N), NEW x \in Sparing(N, w, I),
         NEW y \in Frames(N), y.slots = x.slots, y.mem = x.mem
  PROVE  y \in Sparing(N, w, I)
BY DEF Sparing, Sound, Spares, Spared, Closed, InPlace, Reached, InMemory

\* A change of a slot in I.
LEMMA SpareWrote ==
  ASSUME NEW N \in Nat, NEW w \in Sound(N), NEW I \in SUBSET (1..N), NEW x \in Sparing(N, w, I),
         N = Len(sig), DOMAIN sig = 1..N,
         NEW y \in Frames(N), NEW i \in 1..N, i \in I, NEW c, Wrote(x, y, i, c),
         Allowed(w, I, c), sig[i].type \in FilledInPlace => Points(c)
  PROVE  y \in Sparing(N, w, I)
<1>1. IsFrame(N, w) /\ IsFrame(N, x) /\ IsFrame(N, y)
  BY FrameFields DEF Sparing, Sound
<1>2. /\ y.mem = x.mem /\ y.slots[i].val = c
      /\ \A j \in 1..N \ {i} : y.slots[j] = x.slots[j]
      /\ \A j \in 1..N : x.slots[j].typed => y.slots[j].typed
  BY <1>1 DEF Wrote, Keeps, IsFrame
<1>3. Closed(x) /\ InPlace(x) /\ Spares(w, x, I)
  BY DEF Sparing, Sound
<1>4. Closed(y) /\ InPlace(y)
  BY <1>2, <1>3 DEF Closed, InPlace, InMemory
<1>5. ASSUME NEW b \in DOMAIN w.mem, ~Reached(w, I, b) PROVE ~Reached(y, I, b)
  <2>1. ~Reached(x, I, b)
    BY <1>3, <1>5 DEF Spares, Spared
  <2>2. ASSUME c = Ptr(b) PROVE FALSE
    <3>1. c.is = "ptr" /\ c.n = b
      BY <2>2 DEF Ptr, Cell
    <3>2. b <= Len(w.mem) /\ b \in Nat /\ Len(w.mem) \in Nat
      BY <1>1 DEF IsFrame
    <3> QED
      BY <1>5, <3>1, <3>2 DEF Allowed
  <2>3. \A j \in I : y.slots[j].val # Ptr(b)
    <3>1. TAKE j \in I
    <3>2. CASE j = i
      BY <1>2, <2>2, <3>2
    <3>3. CASE j \in 1..N \ {i}
      BY <1>2, <2>1, <3>3 DEF Reached
    <3> QED
      BY <3>2, <3>3
  <2> QED
    BY <1>2, <2>1, <2>3 DEF Reached
<1>6. Spares(w, y, I)
  BY <1>1, <1>2, <1>3, <1>5 DEF Spares, Spared, IsFrame
<1> QED
  BY <1>4, <1>6 DEF Sparing, Sound

\* A new block that points nowhere.
Flat == {b \in Blocks : \A q \in DOMAIN b.cells : b.cells[q].is # "ptr"}

LEMMA SpareGrown ==
  ASSUME NEW N \in Nat, NEW w \in Sound(N), NEW I \in SUBSET (1..N),
         NEW x \in Sparing(N, w, I), NEW y \in Frames(N), NEW b \in Flat,
         y.mem = Append(x.mem, b), y.slots = x.slots
  PROVE  y \in Sparing(N, w, I)
<1>1. IsFrame(N, w) /\ IsFrame(N, x) /\ IsFrame(N, y)
  BY FrameFields DEF Sparing, Sound
<1>2. Closed(x) /\ InPlace(x) /\ Spares(w, x, I)
  BY DEF Sparing, Sound
<1>3. /\ Len(y.mem) = Len(x.mem) + 1 /\ y.mem[Len(x.mem) + 1] = b
      /\ \A c \in DOMAIN x.mem : y.mem[c] = x.mem[c]
      /\ DOMAIN y.mem = DOMAIN x.mem \cup {Len(x.mem) + 1}
  BY <1>1 DEF IsFrame
<1>4. \A q \in DOMAIN b.cells : b.cells[q].is # "ptr" /\ \A n : b.cells[q] # Ptr(n)
  BY DEF Flat, Ptr, Cell
<1>5. Closed(y)
  <2> SUFFICES ASSUME NEW c \in DOMAIN y.mem, NEW q \in DOMAIN y.mem[c].cells
               PROVE  InMemory(y, y.mem[c].cells[q])
    BY DEF Closed
  <2>1. CASE c \in DOMAIN x.mem
    BY <1>2, <1>3, <2>1 DEF Closed, InMemory
  <2>2. CASE c = Len(x.mem) + 1
    BY <1>3, <1>4, <2>2 DEF InMemory
  <2> QED
    BY <1>3, <2>1, <2>2
<1>6. InPlace(y)
  BY <1>2 DEF InPlace
<1>7. \A n : ~Reached(x, I, n) => ~Reached(y, I, n)
  <2> SUFFICES ASSUME NEW n, ~Reached(x, I, n),
                      NEW c \in DOMAIN y.mem, NEW q \in DOMAIN y.mem[c].cells
               PROVE  y.mem[c].cells[q] # Ptr(n)
    BY DEF Reached
  <2>1. CASE c \in DOMAIN x.mem
    BY <1>3, <2>1 DEF Reached
  <2>2. CASE c = Len(x.mem) + 1
    BY <1>3, <1>4, <2>2
  <2> QED
    BY <1>3, <2>1, <2>2
<1>8. Len(w.mem) <= Len(y.mem) /\ \A n \in DOMAIN w.mem : n \in DOMAIN x.mem
  BY <1>1, <1>2, <1>3 DEF Spares, IsFrame
<1>9. Spares(w, y, I)
  BY <1>2, <1>3, <1>7, <1>8 DEF Spares, Spared
<1> QED
  BY <1>5, <1>6, <1>9 DEF Sparing, Sound

\* A block allocated since is allowed, and so is what is in a slot of I or in
\* an array.
LEMMA AllowedCells ==
  ASSUME NEW N \in Nat, NEW w \in Sound(N), NEW I \in SUBSET (1..N),
         NEW x \in Sparing(N, w, I)
  PROVE  /\ Allowed(w, I, Ptr(Len(x.mem) + 1))
         /\ \A i \in I : Allowed(w, I, x.slots[i].val)
         /\ \A c \in DOMAIN x.mem : \A q \in DOMAIN x.mem[c].cells :
              Allowed(w, I, x.mem[c].cells[q])
         /\ \A c : c.is # "ptr" => Allowed(w, I, c)
<1>1. IsFrame(N, w) /\ IsFrame(N, x) /\ Spares(w, x, I)
  BY FrameFields DEF Sparing, Sound
<1>2. ASSUME NEW c \in CellValues, InMemory(x, c), \A b : c = Ptr(b) => Reached(x, I, b)
      PROVE  Allowed(w, I, c)
  <2> SUFFICES ASSUME c.is = "ptr", ~(c.n > Len(w.mem)), ~Reached(w, I, c.n)
               PROVE  FALSE
    BY DEF Allowed
  <2>1. c = Ptr(c.n) /\ c.n \in 1..Len(x.mem)
    BY <1>1, <1>2, PointerIs DEF IsFrame, InMemory
  <2>2. c.n \in DOMAIN w.mem
    BY <1>1, <2>1 DEF IsFrame
  <2> QED
    BY <1>1, <1>2, <2>1, <2>2 DEF Spares, Spared
<1>3. ASSUME NEW i \in I PROVE Allowed(w, I, x.slots[i].val)
  <2>1. x.slots[i].val \in CellValues /\ InMemory(x, x.slots[i].val)
    BY <1>1, SlotFields DEF IsFrame
  <2>2. \A b : x.slots[i].val = Ptr(b) => Reached(x, I, b)
    BY DEF Reached
  <2> QED
    BY <1>2, <2>1, <2>2
<1>4. ASSUME NEW c \in DOMAIN x.mem, NEW q \in DOMAIN x.mem[c].cells
      PROVE  Allowed(w, I, x.mem[c].cells[q])
  <2> DEFINE d == x.mem[c].cells[q]
  <2>1. x.mem[c].cells \in Seq(CellValues)
    BY <1>1, BlockFields DEF IsFrame
  <2>2. d \in CellValues
    BY <2>1
  <2>3. InMemory(x, d)
    BY DEF Sparing, Sound, Closed
  <2>4. \A b : d = Ptr(b) => Reached(x, I, b)
    BY DEF Reached
  <2> HIDE DEF d
  <2>5. Allowed(w, I, d)
    BY <1>2, <2>2, <2>3, <2>4
  <2> QED
    BY <2>5 DEF d
<1>5. Allowed(w, I, Ptr(Len(x.mem) + 1))
  <2>1. Len(x.mem) + 1 > Len(w.mem)
    BY <1>1 DEF Spares, IsFrame
  <2> QED
    BY <2>1 DEF Allowed, Ptr, Cell
<1> QED
  BY <1>3, <1>4, <1>5 DEF Allowed

\* A change of what is in a block, of its life and of its cells.
LEMMA SpareBlock ==
  ASSUME NEW N \in Nat, NEW w \in Sound(N), NEW I \in SUBSET (1..N),
         NEW x \in Sparing(N, w, I), NEW y \in Frames(N), y.slots = x.slots,
         NEW b \in DOMAIN x.mem, NEW e, y.mem = [x.mem EXCEPT ![b] = e],
         e.as = x.mem[b].as, e.live => x.mem[b].live,
         \/ e.live = x.mem[b].live /\ e.of = x.mem[b].of
         \/ Allowed(w, I, Ptr(b)),
         \A q \in DOMAIN e.cells :
           Allowed(w, I, e.cells[q]) /\ InMemory(x, e.cells[q])
  PROVE  y \in Sparing(N, w, I)
<1>1. IsFrame(N, w) /\ IsFrame(N, x) /\ IsFrame(N, y)
  BY FrameFields DEF Sparing, Sound
<1>2. Closed(x) /\ InPlace(x) /\ Spares(w, x, I)
  BY DEF Sparing, Sound
<1>3. /\ DOMAIN y.mem = DOMAIN x.mem /\ y.mem[b] = e /\ Len(y.mem) = Len(x.mem)
      /\ \A c \in DOMAIN x.mem \ {b} : y.mem[c] = x.mem[c]
  BY <1>1 DEF IsFrame
<1>4. Closed(y) /\ InPlace(y)
  <2>1. \A c : InMemory(x, c) => InMemory(y, c)
    BY <1>3 DEF InMemory
  <2>2. \A c \in DOMAIN y.mem : \A q \in DOMAIN y.mem[c].cells : InMemory(x, y.mem[c].cells[q])
    BY <1>2, <1>3 DEF Closed
  <2> QED
    BY <1>2, <2>1, <2>2 DEF Closed, InPlace
<1>5. ASSUME NEW n \in DOMAIN w.mem, ~Reached(w, I, n)
      PROVE  ~Reached(y, I, n) /\ y.mem[n].live = x.mem[n].live /\ y.mem[n].of = x.mem[n].of
  <2>1. ~Reached(x, I, n)
    BY <1>2, <1>5 DEF Spares, Spared
  <2>2. n \in Nat /\ n <= Len(w.mem) /\ Len(w.mem) \in Nat /\ n \in DOMAIN x.mem
    BY <1>1, <1>2 DEF IsFrame, Spares
  <2>3. ~Allowed(w, I, Ptr(n))
    BY <1>5, <2>2 DEF Allowed, Ptr, Cell
  <2>4. ~Reached(y, I, n)
    <3> SUFFICES ASSUME NEW c \in DOMAIN y.mem, NEW q \in DOMAIN y.mem[c].cells,
                        y.mem[c].cells[q] = Ptr(n)
                 PROVE  FALSE
      BY <2>1 DEF Reached
    <3>1. CASE c = b
      BY <1>3, <2>3, <3>1
    <3>2. CASE c \in DOMAIN x.mem \ {b}
      BY <1>3, <2>1, <3>2 DEF Reached
    <3> QED
      BY <1>3, <3>1, <3>2
  <2>5. CASE n = b
    BY <1>3, <2>3, <2>4, <2>5
  <2>6. CASE n # b
    BY <1>3, <2>2, <2>4, <2>6
  <2> QED
    BY <2>5, <2>6
<1>6. \A n \in DOMAIN w.mem : /\ n \in DOMAIN x.mem /\ y.mem[n].as = x.mem[n].as
                              /\ y.mem[n].live => x.mem[n].live
  <2> TAKE n \in DOMAIN w.mem
  <2>1. n \in DOMAIN x.mem
    BY <1>1, <1>2 DEF IsFrame, Spares
  <2> QED
    BY <1>3, <2>1
<1>7. Spares(w, y, I)
  BY <1>2, <1>3, <1>5, <1>6 DEF Spares, Spared
<1> QED
  BY <1>4, <1>7 DEF Sparing, Sound

\* A method with N parameters asks for an interface.
Asking(N) ==
  /\ N \in Nat /\ N = Len(sig) /\ WellTyped(sig)
  /\ AsksInterface(sig) /\ IIDsPlain(sig)

\* The parameters in I of a frame w are being worked on.
Working(N, w, I) == Asking(N) /\ w \in Sound(N) /\ I \in SUBSET (1..N)

\* What is known then.
LEMMA Work ==
  ASSUME NEW N, NEW w, NEW I, Working(N, w, I)
  PROVE  /\ N \in Nat /\ DOMAIN sig = 1..N /\ N = Len(sig) /\ WellTyped(sig)
         /\ w \in Sound(N) /\ I \in SUBSET (1..N)
         /\ w \in Sparing(N, w, I)
         /\ Sparing(N, w, I) \subseteq Frames(N)
         /\ \A x \in Sparing(N, w, I) : IsFrame(N, x) /\ InPlace(x) /\ x \in Sound(N)
         /\ \A i, k \in 1..N : Counts(sig, k, i) => sig[k].type = "num"
         /\ \A i \in 1..N : IsDipper(sig[i]) => sig[i].type \in FilledInPlace
<1>1. N \in Nat /\ DOMAIN sig = 1..N /\ w \in Sound(N) /\ I \in SUBSET (1..N)
  BY SigFields DEF Working, Asking
<1>2. w \in Sparing(N, w, I)
  BY <1>1, SpareNothing
<1>3. \A x \in Sparing(N, w, I) : x \in Frames(N) /\ IsFrame(N, x) /\ InPlace(x) /\ x \in Sound(N)
  BY <1>1, FrameFields DEF Sparing, Sound
<1> QED
  BY <1>1, <1>2, <1>3 DEF Working, Asking, IIDsPlain, FilledInPlace

\* Exceptions and faults.
LEMMA SpareRaise ==
  ASSUME NEW N, NEW w, NEW I, Working(N, w, I), NEW x \in Sparing(N, w, I)
  PROVE  /\ Raise(x) \in Sparing(N, w, I) /\ Fail(x) \in Sparing(N, w, I)
         /\ Crash(x) \in Sparing(N, w, I)
         /\ \A what \in FaultKinds : Fault(x, what) \in Sparing(N, w, I)
         /\ \A v : Read(x, v) \in Sparing(N, w, I)
         /\ [x EXCEPT !.err = "error"] \in Sparing(N, w, I)
         /\ \A o \in BOOLEAN : [x EXCEPT !.ok = o] \in Sparing(N, w, I)
<1>1. N \in Nat /\ x \in Frames(N) /\ w \in Sound(N) /\ I \in SUBSET (1..N)
  BY Work
<1>2. \A y \in Frames(N) : y.slots = x.slots /\ y.mem = x.mem => y \in Sparing(N, w, I)
  BY <1>1, SpareFlags
<1>3. \A what : Fault(x, what).slots = x.slots /\ Fault(x, what).mem = x.mem
  BY <1>1, FrameUpdates DEF Fault
<1>4. \A what \in FaultKinds : Fault(x, what) \in Sparing(N, w, I)
  BY <1>1, <1>2, <1>3, FaultFrame
<1>5. \A v : Read(x, v) \in Sparing(N, w, I)
  BY <1>4 DEF Read, FaultKinds
<1>6. Raise(x) \in Sparing(N, w, I) /\ Fail(x) \in Sparing(N, w, I) /\ Crash(x) \in Sparing(N, w, I)
  <2>1. \A y \in {Raise(x), Fail(x), Crash(x)} : y.slots = x.slots /\ y.mem = x.mem
    BY <1>1, FlagParts
  <2>2. Raise(x) \in Frames(N) /\ Fail(x) \in Frames(N) /\ Crash(x) \in Frames(N)
    BY <1>1, FaultFrame
  <2> QED
    BY <1>2, <2>1, <2>2
<1>7. [x EXCEPT !.err = "error"] \in Sparing(N, w, I)
  <2>1. "error" \in ErrKinds
    BY DEF ErrKinds
  <2>2. /\ [x EXCEPT !.err = "error"].slots = x.slots
        /\ [x EXCEPT !.err = "error"].mem = x.mem
    BY <1>1, FlagParts
  <2>3. [x EXCEPT !.err = "error"] \in Frames(N)
    BY <1>1, <2>1, FlagFrame
  <2> QED
    BY <1>2, <2>2, <2>3
<1>8. ASSUME NEW o \in BOOLEAN PROVE [x EXCEPT !.ok = o] \in Sparing(N, w, I)
  <2>1. [x EXCEPT !.ok = o].slots = x.slots /\ [x EXCEPT !.ok = o].mem = x.mem
    BY <1>1, FlagParts
  <2>2. [x EXCEPT !.ok = o] \in Frames(N)
    BY <1>1, FlagFrame
  <2> QED
    BY <1>2, <2>1, <2>2
<1> QED
  BY <1>4, <1>5, <1>6, <1>7, <1>8

\* A cell in a slot that is worked on.
LEMMA SparePut ==
  ASSUME NEW N, NEW w, NEW I, Working(N, w, I), NEW x \in Sparing(N, w, I), NEW i \in I
  PROVE  /\ Put(x, i, Null) \in Sparing(N, w, I)
         /\ \A c \in CellValues :
              InMemory(x, c) /\ Allowed(w, I, c) /\ (Points(c) \/ sig[i].type \notin FilledInPlace)
                => Put(x, i, c) \in Sparing(N, w, I)
         /\ sig[i].type \notin FilledInPlace =>
              /\ \A n \in Nat : n < Word => Put(x, i, Num(n)) \in Sparing(N, w, I)
              /\ \A n \in Nat : Put(x, i, Lent(n)) \in Sparing(N, w, I)
<1>1. N \in Nat /\ x \in Frames(N) /\ i \in 1..N /\ w \in Sound(N) /\ I \in SUBSET (1..N)
  BY Work
<1>2. ASSUME NEW c \in CellValues, InMemory(x, c), Allowed(w, I, c),
             Points(c) \/ sig[i].type \notin FilledInPlace
      PROVE  Put(x, i, c) \in Sparing(N, w, I)
  <2>1. Put(x, i, c) \in Frames(N) /\ Wrote(x, Put(x, i, c), i, c)
    BY <1>1, <1>2, PutFrame, PutParts
  <2> QED
    BY <1>1, <1>2, <2>1, SpareWrote, Work
<1>3. \A c \in CellValues : c.is # "ptr" => InMemory(x, c) /\ Allowed(w, I, c)
  BY DEF InMemory, Allowed
<1>4. Points(Null)
  BY DEF Points
<1> QED
  BY <1>2, <1>3, <1>4, CellKinds

\* The flags of a slot.
LEMMA SpareSlotFlags ==
  ASSUME NEW N, NEW w, NEW I, Working(N, w, I), NEW x \in Sparing(N, w, I), NEW i \in I
  PROVE  /\ \A b \in BOOLEAN : WithCleanup(x, i, b) \in Sparing(N, w, I)
         /\ Owned(x, i) \in Sparing(N, w, I)
         /\ WithIndirect(x, i) \in Sparing(N, w, I)
         /\ WithType(x, i) \in Sparing(N, w, I)
<1>1. N \in Nat /\ x \in Frames(N) /\ i \in 1..N /\ w \in Sound(N) /\ I \in SUBSET (1..N)
  BY Work
<1>2. Allowed(w, I, x.slots[i].val)
  BY <1>1, AllowedCells
<1>3. sig[i].type \in FilledInPlace => Points(x.slots[i].val)
  BY <1>1, Work DEF InPlace
<1>4. \A y \in Frames(N) : Wrote(x, y, i, x.slots[i].val) => y \in Sparing(N, w, I)
  BY <1>1, <1>2, <1>3, SpareWrote, Work
<1>5. /\ \A b \in BOOLEAN : WithCleanup(x, i, b) \in Frames(N)
      /\ Owned(x, i) \in Frames(N) /\ WithIndirect(x, i) \in Frames(N)
      /\ WithType(x, i) \in Frames(N)
  BY <1>1, SlotFlagFrame DEF WithCleanup, Owned, WithIndirect, WithType
<1> QED
  BY <1>1, <1>4, <1>5, CleanupParts, OwnedParts, IndirectParts, TypedParts

\* A new block, and a new block in a slot.
LEMMA SpareNew ==
  ASSUME NEW N, NEW w, NEW I, Working(N, w, I), NEW x \in Sparing(N, w, I), NEW b \in Flat
  PROVE  /\ Allocate(x, b) \in Sparing(N, w, I)
         /\ Newest(Allocate(x, b)) \in CellValues
         /\ InMemory(Allocate(x, b), Newest(Allocate(x, b)))
         /\ Allowed(w, I, Newest(Allocate(x, b))) /\ Points(Newest(Allocate(x, b)))
         /\ \A i \in I : PutNew(x, i, b) \in Sparing(N, w, I) /\ Own(x, i, b) \in Sparing(N, w, I)
<1> DEFINE a == Allocate(x, b)
<1>1. N \in Nat /\ x \in Frames(N) /\ w \in Sound(N) /\ I \in SUBSET (1..N)
  BY Work
<1>2. b \in Blocks
  BY DEF Flat
<1>3. /\ a \in Frames(N) /\ InMemory(a, Newest(a)) /\ Newest(a) \in CellValues
      /\ a.slots = x.slots /\ a.mem = Append(x.mem, b) /\ Newest(a) = Ptr(Len(x.mem) + 1)
  BY <1>1, <1>2, AllocateFrame, AllocateParts
<1> HIDE DEF a
<1>4. a \in Sparing(N, w, I)
  BY <1>1, <1>3, SpareGrown
<1>5. Allowed(w, I, Newest(a)) /\ Points(Newest(a))
  BY <1>1, <1>3, AllowedCells DEF Points, Ptr, Cell
<1>6. ASSUME NEW i \in I
      PROVE  Put(a, i, Newest(a)) \in Sparing(N, w, I)
             /\ Owned(Put(a, i, Newest(a)), i) \in Sparing(N, w, I)
  <2>1. Put(a, i, Newest(a)) \in Sparing(N, w, I)
    BY <1>3, <1>4, <1>5, SparePut
  <2> QED
    BY <2>1, SpareSlotFlags
<1> QED
  BY <1>3, <1>4, <1>5, <1>6 DEF a, PutNew, Own, Owned

-----------------------------------------------------------------------------
(***************************************************************************)
(* The functions of the stub and of the Python caller spare such blocks.   *)
(***************************************************************************)

\* Freeing what may be freed.
LEMMA SpareFree ==
  ASSUME NEW N, NEW w, NEW I, Working(N, w, I), NEW x \in Sparing(N, w, I),
         NEW c \in CellValues, Allowed(w, I, c)
  PROVE  Free(x, c) \in Sparing(N, w, I)
<1>1. /\ N \in Nat /\ x \in Frames(N) /\ IsFrame(N, x)
      /\ w \in Sound(N) /\ I \in SUBSET (1..N) /\ Closed(x)
  BY Work DEF Sound
<1>2. Fault(x, "not ours") \in Sparing(N, w, I) /\ Fault(x, "freed twice") \in Sparing(N, w, I)
  BY SpareRaise DEF FaultKinds
<1>3. ASSUME Live(x, c)
      PROVE  [x EXCEPT !.mem[c.n].live = FALSE] \in Sparing(N, w, I)
  <2> DEFINE b == c.n
             e == [x.mem[b] EXCEPT !.live = FALSE]
             y == [x EXCEPT !.mem[b].live = FALSE]
  <2>1. c.is = "ptr" /\ c = Ptr(b)
    BY <1>3, PointerIs DEF Live
  <2>2. y = [x EXCEPT !.mem = [x.mem EXCEPT ![b] = e]]
    OBVIOUS
  <2>3. CASE b \in DOMAIN x.mem
    <3>1. x.mem[b] \in Blocks
      BY <1>1, <2>3 DEF IsFrame
    <3>2. /\ e \in Blocks /\ e.as = x.mem[b].as /\ e.live = FALSE
          /\ e.cells = x.mem[b].cells
      BY <3>1 DEF Blocks
    <3>3. y \in Frames(N) /\ y.slots = x.slots /\ y.mem = [x.mem EXCEPT ![b] = e]
      <4> HIDE DEF b, e, y
      <4> QED
        BY <1>1, <2>2, <2>3, <3>2, BlockFrame
    <3>4. \A q \in DOMAIN e.cells : Allowed(w, I, e.cells[q]) /\ InMemory(x, e.cells[q])
      BY <1>1, <2>3, <3>2, AllowedCells DEF Closed
    <3>5. Allowed(w, I, Ptr(b))
      BY <2>1
    <3> HIDE DEF b, e, y
    <3>6. y \in Sparing(N, w, I)
      BY <1>1, <2>3, <3>2, <3>3, <3>4, <3>5, SpareBlock
    <3> QED
      BY <3>6 DEF y, b
  <2>4. CASE b \notin DOMAIN x.mem
    <3>1. [x.mem EXCEPT ![b] = e] = x.mem
      <4> HIDE DEF b, e, y
      <4>1. x.mem \in Seq(Blocks)
        BY <1>1 DEF IsFrame
      <4> QED
        BY <2>4, <4>1
    <3>2. [x EXCEPT !.mem = x.mem].slots = x.slots /\ [x EXCEPT !.mem = x.mem].mem = x.mem
      BY <1>1, FrameUpdates
    <3>3. Free(x, c) = y
      BY <1>3, <2>1 DEF Free, Live
    <3>4. Free(x, c) \in Frames(N)
      BY <1>1, FreeFrame
    <3> HIDE DEF e, y
    <3>5. y \in Sparing(N, w, I)
      BY <1>1, <2>2, <3>1, <3>2, <3>3, <3>4, SpareFlags
    <3> QED
      BY <3>5 DEF y
  <2> QED
    BY <2>3, <2>4
<1> QED
  BY <1>2, <1>3 DEF Free

\* A cell of an array.
LEMMA SpareElement ==
  ASSUME NEW N, NEW w, NEW I, Working(N, w, I), NEW x \in Sparing(N, w, I), NEW b, NEW j
  PROVE  /\ \A c \in CellValues :
              Allowed(w, I, c) /\ InMemory(x, c) => SetElement(x, b, j, c) \in Sparing(N, w, I)
         /\ \A block \in Flat : NewElement(x, b, j, block) \in Sparing(N, w, I)
<1>1. ASSUME NEW y \in Sparing(N, w, I), NEW c \in CellValues, Allowed(w, I, c), InMemory(y, c)
      PROVE  SetElement(y, b, j, c) \in Sparing(N, w, I)
  <2> DEFINE e == [y.mem[b] EXCEPT !.cells = [y.mem[b].cells EXCEPT ![j] = c]]
             z == SetElement(y, b, j, c)
  <2>1. /\ N \in Nat /\ y \in Frames(N) /\ IsFrame(N, y)
        /\ w \in Sound(N) /\ I \in SUBSET (1..N) /\ Closed(y)
    BY Work DEF Sound
  <2>2. z \in Frames(N)
    BY <2>1, ElementFrame
  <2>3. z = [y EXCEPT !.mem = [y.mem EXCEPT ![b] = e]]
    BY DEF SetElement
  <2>4. z.slots = y.slots /\ z.mem = [y.mem EXCEPT ![b] = e]
    <3> HIDE DEF e, z
    <3> QED
      BY <2>1, <2>3, FrameUpdates
  <2>5. CASE b \in DOMAIN y.mem
    <3>1. y.mem[b] \in Blocks /\ y.mem[b].cells \in Seq(CellValues)
      BY <2>1, <2>5, BlockFields DEF IsFrame
    <3>2. /\ e.as = y.mem[b].as /\ e.live = y.mem[b].live /\ e.of = y.mem[b].of
          /\ e.cells = [y.mem[b].cells EXCEPT ![j] = c]
      BY <3>1 DEF Blocks
    <3>3. DOMAIN e.cells = DOMAIN y.mem[b].cells
          /\ \A q \in DOMAIN e.cells : e.cells[q] = c \/ e.cells[q] = y.mem[b].cells[q]
      BY <3>1, <3>2
    <3>4. \A q \in DOMAIN y.mem[b].cells :
            Allowed(w, I, y.mem[b].cells[q]) /\ InMemory(y, y.mem[b].cells[q])
      BY <2>1, <2>5, AllowedCells DEF Closed
    <3>5. \A q \in DOMAIN e.cells : Allowed(w, I, e.cells[q]) /\ InMemory(y, e.cells[q])
      BY <1>1, <3>3, <3>4
    <3> HIDE DEF e, z
    <3> QED
      BY <2>1, <2>2, <2>4, <2>5, <3>2, <3>5, SpareBlock DEF z
  <2>6. CASE b \notin DOMAIN y.mem
    <3>1. y.mem \in Seq(Blocks)
      BY <2>1 DEF IsFrame
    <3>2. [y.mem EXCEPT ![b] = e] = y.mem
      <4> HIDE DEF e
      <4> QED
        BY <2>6, <3>1
    <3> HIDE DEF e, z
    <3> QED
      BY <2>1, <2>2, <2>4, <3>2, SpareFlags DEF z
  <2> QED
    BY <2>5, <2>6
<1>2. ASSUME NEW block \in Flat PROVE NewElement(x, b, j, block) \in Sparing(N, w, I)
  BY <1>1, SpareNew DEF NewElement
<1> QED
  BY <1>1, <1>2

\* Freeing a list of cells.
LEMMA SpareFreeAll ==
  ASSUME NEW N, NEW w, NEW I, Working(N, w, I), NEW x \in Sparing(N, w, I),
         NEW s \in Seq(CellValues), \A j \in DOMAIN s : Allowed(w, I, s[j])
  PROVE  FoldLeft(Free, x, s) \in Sparing(N, w, I)
<1> DEFINE n == Len(s)
           F == Sparing(N, w, I)
           Step(y, j) == Free(y, s[j])
           f == [p \in F \X (1..n) |-> Step(p[1], p[2])]
           Eqn(h) == h = [t \in SUBSET (DOMAIN s) |->
                            IF t = {} THEN x ELSE Step(h[t \ {Max(t)}], Max(t))]
<1>1. /\ n \in Nat /\ DOMAIN s = 1..n
  OBVIOUS
<1>2. \A y \in F, j \in 1..n : Step(y, j) \in F
  <2> SUFFICES ASSUME NEW y \in F, NEW j \in 1..n PROVE Step(y, j) \in F
    OBVIOUS
  <2>1. s[j] \in CellValues /\ Allowed(w, I, s[j])
    OBVIOUS
  <2> QED
    BY <2>1, SpareFree
<1>3. x \in F
  OBVIOUS
<1>4. \E g : Eqn(g)
  <2>1. f \in [F \X (1..n) -> F]
    <3> HIDE DEF F, Step
    <3> QED
      BY <1>2
  <2>2. PICK g : FoldFrom(g, F, n, f, x)
    <3> HIDE DEF F, f, n
    <3>1. n \in Nat
      BY <1>1
    <3> QED
      BY <1>3, <2>1, <3>1, FoldExists
  <2>3. \A t \in SUBSET (1..n) :
          g[t] = IF t = {} THEN x ELSE Step(g[t \ {Max(t)}], Max(t))
    <3> HIDE DEF F, Step
    <3> SUFFICES ASSUME NEW t \in SUBSET (1..n), t # {}
                 PROVE  g[t] = Step(g[t \ {Max(t)}], Max(t))
      BY <2>2 DEF FoldFrom
    <3> QED
      BY <1>1, <2>2 DEF FoldFrom
  <2>4. Eqn(g)
    <3>1. g = [t \in SUBSET (1..n) |-> g[t]]
      BY <2>2 DEF FoldFrom
    <3>2. SUBSET (DOMAIN s) = SUBSET (1..n)
      BY <1>1
    <3> HIDE DEF F, Step
    <3>3. [t \in SUBSET (1..n) |-> g[t]] =
            [t \in SUBSET (1..n) |->
               IF t = {} THEN x ELSE Step(g[t \ {Max(t)}], Max(t))]
      BY <2>3, Zenon
    <3> QED
      BY <3>1, <3>2, <3>3
  <2> HIDE DEF Eqn
  <2> QED
    BY <2>4
<1> DEFINE h == CHOOSE h : Eqn(h)
<1>5. Eqn(h)
  <2> HIDE DEF Eqn
  <2> QED
    BY <1>4
<1>6. FoldLeft(Free, x, s) = h[1..n]
  <2>1. FoldLeft(Free, x, s) = h[DOMAIN s]
    BY DEF FoldLeft, MapThenFoldSet
  <2> HIDE DEF h
  <2> QED
    BY <1>1, <2>1
<1>7. h[1..n] \in F
  <2> HIDE DEF h
  <2>1. h[{}] \in F
    <3> HIDE DEF F
    <3> QED
      BY <1>3, <1>5
  <2>2. ASSUME NEW t \in SUBSET (1..n), t # {}, h[t \ {Max(t)}] \in F
        PROVE  h[t] = f[<<h[t \ {Max(t)}], Max(t)>>]
    <3> HIDE DEF F, Step
    <3>1. Max(t) \in 1..n
      BY <1>1, <2>2, MaxOfFinite
    <3> QED
      BY <1>1, <1>5, <2>2, <3>1
  <2>3. f \in [F \X (1..n) -> F]
    <3> HIDE DEF F, Step
    <3> QED
      BY <1>2
  <2> HIDE DEF F, f
  <2> QED
    BY <1>1, <2>1, <2>2, <2>3, FoldEnds
<1> QED
  BY <1>6, <1>7

\* Freeing the elements of an array.
LEMMA SpareFreeArray ==
  ASSUME NEW N, NEW w, NEW I, Working(N, w, I), NEW x \in Sparing(N, w, I),
         NEW c, InMemory(x, c), NEW n \in Nat, NEW elem
  PROVE  FreeSingleArray(x, c, n, elem) \in Sparing(N, w, I)
<1> DEFINE s == Cells(x, c)
<1>1. N \in Nat /\ x \in Frames(N) /\ IsFrame(N, x) /\ w \in Sound(N) /\ I \in SUBSET (1..N)
  BY Work
<1>2. s \in Seq(CellValues)
  BY <1>1, CellsKind
<1>3. \A j \in DOMAIN s : Allowed(w, I, s[j])
  <2>1. CASE c.is = "ptr"
    <3>1. c.n \in DOMAIN x.mem
      BY <2>1 DEF InMemory
    <3> QED
      BY <1>1, <2>1, <3>1, AllowedCells DEF Cells
  <2>2. CASE c.is # "ptr"
    BY <2>2 DEF Cells
  <2> QED
    BY <2>1, <2>2
<1> HIDE DEF s
<1>4. ASSUME n <= Len(s) PROVE FoldLeft(Free, x, SubSeq(s, 1, n)) \in Sparing(N, w, I)
  <2>1. SubSeq(s, 1, n) \in Seq(CellValues)
    BY <1>2, <1>4
  <2>2. \A j \in DOMAIN SubSeq(s, 1, n) : Allowed(w, I, SubSeq(s, 1, n)[j])
    BY <1>2, <1>3, <1>4
  <2> QED
    BY <2>1, <2>2, SpareFreeAll
<1>5. ~(n > Len(s)) => n <= Len(s)
  BY <1>2
<1>6. Fault(x, "past the end") \in Sparing(N, w, I)
  BY SpareRaise DEF FaultKinds
<1> QED
  BY <1>4, <1>5, <1>6 DEF FreeSingleArray, s

\* Blocks with a value point nowhere, and neither does a new array.
LEMMA FlatBlocks ==
  /\ \A v \in Held : Block(v) \in Flat
  /\ \A v \in Held, iid \in Interfaces : Reference(v, iid) \in Flat /\ Reference(v, iid).as = iid
  /\ \A cells \in Seq(CellValues) :
       (\A q \in DOMAIN cells : cells[q].is # "ptr") => Array(cells) \in Flat
<1>1. ASSUME NEW v \in Held
      PROVE  /\ Block(v) \in Flat
             /\ \A iid \in Interfaces : Reference(v, iid) \in Flat /\ Reference(v, iid).as = iid
  <2>1. Block(v) \in Blocks /\ \A iid \in Interfaces : Reference(v, iid) \in Blocks
    BY BlockKinds
  <2>2. Block(v).cells = <<>> /\ \A iid : Reference(v, iid).cells = <<>> /\ Reference(v, iid).as = iid
    BY DEF Block, Reference
  <2> QED
    BY <2>1, <2>2 DEF Flat
<1>2. ASSUME NEW cells \in Seq(CellValues), \A q \in DOMAIN cells : cells[q].is # "ptr"
      PROVE  Array(cells) \in Flat
  BY <1>2, ArrayBlocks DEF Flat
<1> QED
  BY <1>1, <1>2

\* A reference to what an interface pointer is made for, as that interface.
LEMMA FlatInterface ==
  ASSUME NEW v \in Handled, NEW type, NEW iid \in Interfaces
  PROVE  /\ InterfaceBlock(v, type, iid) \in Flat
         /\ type # "variant" => InterfaceBlock(v, type, iid).as = iid
<1>1. v \in Held /\ AsVariant(v) \in Held /\ Supports \in Interfaces
  BY HandledShape, Constants
<1>2. Reference(v, iid) \in Flat /\ Reference(v, iid).as = iid
  BY <1>1, FlatBlocks
<1>3. Reference(AsVariant(v), Supports) \in Flat
  BY <1>1, FlatBlocks
<1> QED
  BY <1>2, <1>3 DEF InterfaceBlock

\* An interface pointer: null, or to a new reference as the interface asked
\* for.
LEMMA SpareInterface ==
  ASSUME NEW N, NEW w, NEW I, Working(N, w, I), NEW x \in Sparing(N, w, I),
         NEW v \in Handled, NEW type, NEW iid \in Interfaces
  PROVE  LET r == InterfaceFromPyObject(x, v, type, iid) IN
         /\ r[1] \in Sparing(N, w, I) /\ r[1].slots = x.slots
         /\ r[2] \in CellValues /\ InMemory(r[1], r[2]) /\ Allowed(w, I, r[2]) /\ Points(r[2])
         /\ type # "variant" /\ r[2] # Null => r[1].mem[r[2].n].as = iid
         /\ \A b \in DOMAIN x.mem : r[1].mem[b] = x.mem[b]
<1> DEFINE b == InterfaceBlock(v, type, iid)
           a == Allocate(x, b)
           late == [a EXCEPT !.err = "error"]
<1>1. N \in Nat /\ x \in Frames(N) /\ IsFrame(N, x)
  BY Work
<1>2. b \in Flat /\ b \in Blocks /\ (type # "variant" => b.as = iid)
  <2>1. InterfaceBlock(v, type, iid) \in Flat
    BY FlatInterface
  <2>2. type # "variant" => InterfaceBlock(v, type, iid).as = iid
    BY FlatInterface
  <2> HIDE DEF b
  <2>3. b \in Flat
    BY <2>1 DEF b
  <2>4. b \in Blocks
    BY <2>3 DEF Flat
  <2>5. type # "variant" => b.as = iid
    BY <2>2 DEF b
  <2> QED
    BY <2>3, <2>4, <2>5
<1> HIDE DEF b
<1>3. /\ a \in Sparing(N, w, I) /\ Newest(a) \in CellValues /\ InMemory(a, Newest(a))
      /\ Allowed(w, I, Newest(a)) /\ Points(Newest(a))
  BY <1>2, SpareNew
<1>4. /\ a.slots = x.slots /\ Newest(a) = Ptr(Len(x.mem) + 1)
      /\ a.mem[Len(x.mem) + 1] = b /\ Keeps(x, a, {})
  BY <1>1, <1>2, AllocateParts
<1> HIDE DEF a
<1>5. a.mem[Newest(a).n] = b /\ \A c \in DOMAIN x.mem : a.mem[c] = x.mem[c]
  BY <1>4 DEF Keeps, Ptr, Cell
<1>6. late \in Sparing(N, w, I) /\ late.slots = a.slots /\ late.mem = a.mem
  BY <1>1, <1>3, SpareRaise, FlagParts, Work
<1> HIDE DEF late
<1>7. InMemory(late, Newest(a))
  BY <1>3, <1>6 DEF InMemory
<1>8. /\ Null \in CellValues /\ Points(Null) /\ Allowed(w, I, Null)
      /\ \A y : InMemory(y, Null)
  BY CellKinds DEF Points, Allowed, InMemory
<1>9. \A y \in {Raise(x), Crash(x)} : y \in Sparing(N, w, I) /\ y.slots = x.slots /\ y.mem = x.mem
  <2>1. \A y \in {Raise(x), Fail(x), Crash(x)} : y.slots = x.slots /\ y.mem = x.mem
    BY <1>1, FlagParts
  <2>2. Raise(x) \in Sparing(N, w, I) /\ Crash(x) \in Sparing(N, w, I)
    BY SpareRaise
  <2> QED
    BY <2>1, <2>2
<1>10. InterfaceFromPyObject(x, v, type, iid) \in
         {<<Raise(x), Null>>, <<Crash(x), Null>>, <<x, Null>>, <<late, Newest(a)>>, <<a, Newest(a)>>}
  BY DEF InterfaceFromPyObject, late, a, b
<1> QED
  BY <1>2, <1>3, <1>4, <1>5, <1>6, <1>7, <1>8, <1>9, <1>10

\* One round of FillSingleArray.
LEMMA SpareFillElement ==
  ASSUME NEW N, NEW w, NEW I, Working(N, w, I), NEW x \in Sparing(N, w, I),
         NEW y, NEW b \in Nat \ {0}, NEW n \in Nat, Above(y, x, b, n), NEW j \in 1..n,
         NEW elem, NEW v \in Handled
  PROVE  FillElement(x, b, j, elem, v) \in Sparing(N, w, I)
<1> DEFINE F == Sparing(N, w, I)
           old == x.mem[b].cells[j]
           gone == Free(x, old)
           freed == SetElement(gone, b, j, Null)
           new == InterfaceFromPyObject(x, v, elem, Supports)
           late == Free(new[1], old)
<1>0. N \in Nat /\ IsFrame(N, x) /\ F \subseteq Frames(N) /\ w \in Sound(N) /\ I \in SUBSET (1..N)
  BY Work
<1>1. old \in CellValues /\ Allowed(w, I, old)
  <2>1. b \in DOMAIN x.mem /\ Len(x.mem[b].cells) = n
    BY DEF Above
  <2>2. x.mem[b].cells \in Seq(CellValues)
    BY <1>0, <2>1, BlockFields DEF IsFrame
  <2>3. j \in DOMAIN x.mem[b].cells
    BY <2>1, <2>2
  <2>4. old \in CellValues
    BY <2>2, <2>3
  <2> QED
    BY <1>0, <2>1, <2>3, <2>4, AllowedCells DEF F
<1>2. Null \in CellValues /\ Allowed(w, I, Null) /\ \A z : InMemory(z, Null)
  BY CellKinds DEF Allowed, InMemory
<1>3. Block(v) \in Flat /\ Block(Plain(v)) \in Flat
  BY HandledShape, FlatBlocks
<1>4. gone \in F
  <2> HIDE DEF old
  <2> QED
    BY <1>1, SpareFree
<1>5. freed \in F
  <2> HIDE DEF gone
  <2> QED
    BY <1>2, <1>4, SpareElement
<1>6. IsNumber(v) =>
        /\ SetElement(x, b, j, Num(Cut(v.n))) \in F
        /\ [SetElement(x, b, j, Num(Cut(-1))) EXCEPT !.err = "error"] \in F
  <2> SUFFICES ASSUME IsNumber(v)
        PROVE  /\ SetElement(x, b, j, Num(Cut(v.n))) \in F
               /\ [SetElement(x, b, j, Num(Cut(-1))) EXCEPT !.err = "error"] \in F
    OBVIOUS
  <2>1. \A c \in {Num(Cut(v.n)), Num(Cut(-1))} :
          c \in CellValues /\ Allowed(w, I, c) /\ InMemory(x, c)
    <3>1. /\ Num(Cut(v.n)) \in CellValues /\ Num(Cut(-1)) \in CellValues
          /\ Num(Cut(v.n)).is # "ptr" /\ Num(Cut(-1)).is # "ptr"
      BY Numbers, CutFits, CellKinds
    <3> QED
      BY <3>1 DEF Allowed, InMemory
  <2> DEFINE z == SetElement(x, b, j, Num(Cut(-1)))
  <2>2. SetElement(x, b, j, Num(Cut(v.n))) \in F /\ z \in F
    BY <2>1, SpareElement
  <2> HIDE DEF z
  <2>3. [z EXCEPT !.err = "error"] \in F
    BY <2>2, SpareRaise
  <2> QED
    BY <2>2, <2>3 DEF z
<1>7. new[1] \in F /\ SetElement(late, b, j, new[2]) \in F
  <2>1. /\ new[1] \in F /\ new[2] \in CellValues /\ InMemory(new[1], new[2])
        /\ Allowed(w, I, new[2])
    BY SpareInterface, Constants
  <2> HIDE DEF new, old
  <2>2. late \in F
    BY <1>1, <2>1, SpareFree
  <2>3. DOMAIN late.mem = DOMAIN new[1].mem
    BY <1>0, <2>1, FreeFrame
  <2>4. InMemory(late, new[2])
    BY <2>1, <2>3 DEF InMemory
  <2> HIDE DEF late
  <2>5. SetElement(late, b, j, new[2]) \in F
    BY <2>1, <2>2, <2>4, SpareElement
  <2> QED
    BY <2>1, <2>5
<1>8. NewElement(freed, b, j, Block(v)) \in F /\ NewElement(freed, b, j, Block(Plain(v))) \in F
  <2> HIDE DEF freed
  <2> QED
    BY <1>3, <1>5, SpareElement
<1>9. Raise(x) \in F /\ Raise(freed) \in F
  <2> HIDE DEF freed
  <2> QED
    BY <1>5, SpareRaise
<1>11. SetElement(x, b, j, Num(FirstChar(v))) \in F
  <2>1. Num(FirstChar(v)) \in CellValues /\ Num(FirstChar(v)).is # "ptr"
    BY FirstCharFits, CellKinds
  <2>2. Allowed(w, I, Num(FirstChar(v))) /\ InMemory(x, Num(FirstChar(v)))
    BY <2>1 DEF Allowed, InMemory
  <2> QED
    BY <2>1, <2>2, SpareElement
<1> HIDE DEF freed, new, late, F
<1>10. FillElement(x, b, j, elem, v) \in F
  BY <1>5, <1>6, <1>7, <1>8, <1>9, <1>11 DEF FillElement, freed, new, late, gone
<1> QED
  BY <1>10 DEF F

\* FillSingleArray.
LEMMA SpareFillArray ==
  ASSUME NEW N, NEW w, NEW I, Working(N, w, I), NEW x \in Sparing(N, w, I),
         NEW b \in Nat \ {0}, NEW elem, NEW s \in Seq(Handled), Above(x, x, b, Len(s))
  PROVE  FillSingleArray(x, b, elem, s) \in Sparing(N, w, I)
<1> DEFINE n == Len(s)
           F == {y \in Sparing(N, w, I) : Above(x, y, b, n)}
           Step(y, j) == IF y.ok THEN FillElement(y, b, j, elem, s[j]) ELSE y
           f == [p \in F \X (1..n) |-> Step(p[1], p[2])]
           id == [j \in DOMAIN s |-> j]
           Eqn(h) == h = [t \in SUBSET (DOMAIN id) |->
                            IF t = {} THEN x ELSE Step(h[t \ {Max(t)}], id[Max(t)])]
<1>1. /\ n \in Nat /\ DOMAIN s = 1..n
      /\ DOMAIN id = 1..n /\ \A j \in 1..n : id[j] = j
  OBVIOUS
<1>2. \A y \in F, j \in 1..n : Step(y, j) \in F
  <2> SUFFICES ASSUME NEW y \in Sparing(N, w, I), Above(x, y, b, n), NEW j \in 1..n
               PROVE  Step(y, j) \in Sparing(N, w, I) /\ Above(x, Step(y, j), b, n)
    OBVIOUS
  <2>1. s[j] \in Handled /\ n \in Nat
    BY <1>1
  <2>2. N \in Nat /\ y \in Frames(N)
    BY Work
  <2> HIDE DEF n
  <2>3. FillElement(y, b, j, elem, s[j]) \in Sparing(N, w, I)
    BY <2>1, SpareFillElement
  <2>4. Above(x, FillElement(y, b, j, elem, s[j]), b, n)
    BY <2>1, <2>2, FillElementAbove
  <2> QED
    BY <2>3, <2>4
<1>3. x \in F
  OBVIOUS
<1>4. \E g : Eqn(g)
  <2>1. f \in [F \X (1..n) -> F]
    <3> HIDE DEF F, Step, id
    <3> QED
      BY <1>2
  <2>2. PICK g : FoldFrom(g, F, n, f, x)
    <3> HIDE DEF F, f, n, id
    <3>1. n \in Nat
      BY <1>1
    <3> QED
      BY <1>3, <2>1, <3>1, FoldExists
  <2>3. \A t \in SUBSET (1..n) :
          g[t] = IF t = {} THEN x ELSE Step(g[t \ {Max(t)}], id[Max(t)])
    <3> HIDE DEF F, Step, id
    <3> SUFFICES ASSUME NEW t \in SUBSET (1..n), t # {}
                 PROVE  g[t] = Step(g[t \ {Max(t)}], id[Max(t)])
      BY <2>2 DEF FoldFrom
    <3> QED
      BY <1>1, <2>2 DEF FoldFrom
  <2>4. Eqn(g)
    <3>1. g = [t \in SUBSET (1..n) |-> g[t]]
      BY <2>2 DEF FoldFrom
    <3>2. SUBSET (DOMAIN id) = SUBSET (1..n)
      BY <1>1
    <3> HIDE DEF F, Step, id
    <3>3. [t \in SUBSET (1..n) |-> g[t]] =
            [t \in SUBSET (1..n) |->
               IF t = {} THEN x ELSE Step(g[t \ {Max(t)}], id[Max(t)])]
      BY <2>3, Zenon
    <3> QED
      BY <3>1, <3>2, <3>3
  <2> HIDE DEF Eqn
  <2> QED
    BY <2>4
<1> DEFINE h == CHOOSE h : Eqn(h)
<1>5. Eqn(h)
  <2> HIDE DEF Eqn
  <2> QED
    BY <1>4
<1>6. FillSingleArray(x, b, elem, s) = h[1..n]
  <2>1. FillSingleArray(x, b, elem, s) = h[DOMAIN id]
    BY DEF FillSingleArray, FoldLeftDomain, FoldLeft, MapThenFoldSet
  <2> HIDE DEF h, id
  <2> QED
    BY <1>1, <2>1
<1>7. h[1..n] \in F
  <2> HIDE DEF h
  <2>1. h[{}] \in F
    <3> HIDE DEF F, id
    <3> QED
      BY <1>3, <1>5
  <2>2. ASSUME NEW t \in SUBSET (1..n), t # {}, h[t \ {Max(t)}] \in F
        PROVE  h[t] = f[<<h[t \ {Max(t)}], Max(t)>>]
    <3> HIDE DEF F, Step, id
    <3>1. Max(t) \in 1..n
      BY <1>1, <2>2, MaxOfFinite
    <3> QED
      BY <1>1, <1>5, <2>2, <3>1
  <2>3. f \in [F \X (1..n) -> F]
    <3> HIDE DEF F, Step, id
    <3> QED
      BY <1>2
  <2> HIDE DEF F, f, id
  <2> QED
    BY <1>1, <2>1, <2>2, <2>3, FoldEnds
<1> QED
  BY <1>6, <1>7

\* What the conversions put into memory.
LEMMA SparePuts ==
  ASSUME NEW N, NEW w, NEW I, Working(N, w, I), NEW x \in Sparing(N, w, I), NEW i \in I,
         NEW v \in Handled
  PROVE  /\ Own(x, i, Block(v)) \in Sparing(N, w, I)
         /\ Own(x, i, Block(Plain(v))) \in Sparing(N, w, I)
         /\ Own(x, i, Block(Str(0))) \in Sparing(N, w, I)
         /\ PutNew(x, i, Block(v)) \in Sparing(N, w, I)
         /\ PutNew(x, i, Block(Plain(v))) \in Sparing(N, w, I)
         /\ Put(x, i, Null) \in Sparing(N, w, I)
         /\ Raise(x) \in Sparing(N, w, I) /\ Crash(x) \in Sparing(N, w, I)
         /\ Fail(x) \in Sparing(N, w, I)
<1>1. Block(v) \in Flat /\ Block(Plain(v)) \in Flat /\ Block(Str(0)) \in Flat
  BY Constants, HandledShape, FlatBlocks
<1> QED
  BY <1>1, SpareNew, SparePut, SpareRaise

\* PrepareOutVariant.
LEMMA SparePrepareOut ==
  ASSUME NEW N, NEW w, NEW I, Working(N, w, I), NEW x \in Sparing(N, w, I), NEW i \in I
  PROVE  PrepareOutVariant(x, i) \in Sparing(N, w, I)
<1> DEFINE F == Sparing(N, w, I)
           y == WithIndirect(x, i)
<1>1. N \in Nat /\ N = Len(sig) /\ WellTyped(sig) /\ i \in 1..N /\ F \subseteq Frames(N)
  BY Work
<1>2. y \in F
  BY SpareSlotFlags
<1> HIDE DEF y
<1>3. IsArithmetic(sig[i].type) => Put(y, i, Num(0)) \in F
  <2>1. IsArithmetic(sig[i].type) => sig[i].type \notin FilledInPlace
    BY DEF IsArithmetic, FilledInPlace
  <2>2. 0 \in Nat /\ 0 < Word
    BY WidthAssumption
  <2> QED
    BY <1>2, <2>1, <2>2, SparePut
<1>4. sig[i].type = "array" => PrepareArray(y, i) \in F
  <2> SUFFICES ASSUME sig[i].type = "array" PROVE PrepareArray(y, i) \in F
    OBVIOUS
  <2> DEFINE size == GetSizeOrLengthIs(y, sig[i].size)
             zero == IF IsArithmetic(sig[i].elem) THEN Num(0) ELSE Null
             zeros == Times(size, zero)
             b == Array(zeros)
             flag == ~IsArithmetic(sig[i].elem)
             z == PutNew(y, i, b)
  <2>1. size \in Nat
    BY <1>1, <1>2, SigFields, SlotNumbers DEF GetSizeOrLengthIs
  <2>2. zero \in CellValues /\ zero.is # "ptr"
    BY CellKinds, SlotNumbers, WidthAssumption
  <2>3. zeros \in Seq(CellValues) /\ \A q \in DOMAIN zeros : zeros[q].is # "ptr"
    <3> HIDE DEF size, zero
    <3>1. zeros \in Seq(CellValues) /\ zeros \in Seq({zero})
      BY <2>1, <2>2, TimesSeq
    <3>2. \A q \in DOMAIN zeros : zeros[q] = zero
      <4> HIDE DEF zeros
      <4> QED
        BY <3>1
    <3> QED
      BY <2>2, <3>1, <3>2
  <2>4. b \in Flat
    <3> HIDE DEF zeros
    <3> QED
      BY <2>3, FlatBlocks
  <2> HIDE DEF b
  <2>5. z \in F
    BY <1>2, <2>4, SpareNew
  <2>6. flag \in BOOLEAN
    BY DEF IsArithmetic
  <2> HIDE DEF z, flag
  <2>7. WithCleanup(z, i, flag) \in F
    BY <2>5, <2>6, SpareSlotFlags
  <2> QED
    BY <1>2, <2>7 DEF PrepareArray, WithCleanup, z, flag, b
<1>5. PrepareDipper(y, i) \in F
  <2>1. None \in Handled
    BY Constants
  <2> QED
    BY <1>2, <2>1, SparePuts DEF PrepareDipper
<1> HIDE DEF F
<1>6. PrepareOutVariant(x, i) \in F
  BY <1>2, <1>3, <1>4, <1>5 DEF PrepareOutVariant, y, WithIndirect
<1> QED
  BY <1>6 DEF F

\* SetSizeOrLengthIs, of a parameter that is a number.
LEMMA SpareSetSize ==
  ASSUME NEW N, NEW w, NEW I, Working(N, w, I), NEW x \in Sparing(N, w, I), NEW i, NEW k \in I,
         sig[k].type = "num", NEW n \in Nat, n < Word
  PROVE  SetSizeOrLengthIs(x, i, k, n) \in Sparing(N, w, I)
<1> DEFINE y == WithSize(x, k, n)
<1>1. N \in Nat /\ x \in Frames(N) /\ k \in 1..N /\ w \in Sound(N) /\ I \in SUBSET (1..N)
  BY Work
<1>2. y \in Frames(N) /\ Wrote(x, y, k, Num(n))
  BY <1>1, ToldParts
<1>3. sig[k].type \notin FilledInPlace /\ Allowed(w, I, Num(n))
  BY DEF FilledInPlace, Allowed, Num, Cell
<1> HIDE DEF y
<1>4. y \in Sparing(N, w, I)
  BY <1>1, <1>2, <1>3, SpareWrote, Work
<1>5. PrepareOutVariant(y, k) \in Sparing(N, w, I)
  BY <1>4, SparePrepareOut
<1>6. Raise(x) \in Sparing(N, w, I)
  BY SpareRaise
<1> QED
  BY <1>4, <1>5, <1>6 DEF SetSizeOrLengthIs, y, WithSize

\* FillInVariant for an interface: it is kept as the interface asked for.
LEMMA SpareFillInterface ==
  ASSUME NEW N, NEW w, NEW I, Working(N, w, I), NEW x \in Sparing(N, w, I), NEW i \in I,
         NEW v \in Handled, NEW iid \in Interfaces
  PROVE  LET y == FillInterface(x, i, v, iid) IN
         /\ y \in Sparing(N, w, I)
         /\ y.ok /\ sig[i].type # "variant" /\ y.slots[i].val # Null =>
              y.mem[y.slots[i].val.n].as = iid
<1> DEFINE F == Sparing(N, w, I)
           r == InterfaceFromPyObject(x, v, sig[i].type, iid)
           a == r[1]
           c == r[2]
           y == Put(a, i, c)
           flag == v # None
           z == WithCleanup(y, i, flag)
<1>1. N \in Nat /\ F \subseteq Frames(N) /\ i \in 1..N
  BY Work
<1>2. /\ a \in F /\ c \in CellValues /\ InMemory(a, c) /\ Allowed(w, I, c) /\ Points(c)
      /\ sig[i].type # "variant" /\ c # Null => a.mem[c.n].as = iid
  BY SpareInterface
<1> HIDE DEF a, c
<1>3. y \in F
  BY <1>2, SparePut
<1>4. Wrote(a, y, i, c)
  BY <1>1, <1>2, PutParts
<1>5. flag \in BOOLEAN
  OBVIOUS
<1> HIDE DEF y, flag
<1>6. z \in F
  BY <1>3, <1>5, SpareSlotFlags
<1>7. Wrote(y, z, i, y.slots[i].val)
  BY <1>1, <1>3, CleanupParts
<1> HIDE DEF z
<1>8. z.slots[i].val = c /\ z.mem = a.mem
  BY <1>4, <1>7 DEF Wrote
<1>9. FillInterface(x, i, v, iid) = IF a.ok THEN z ELSE a
  BY DEF FillInterface, a, c, y, z, flag, WithCleanup
<1> QED
  BY <1>2, <1>6, <1>8, <1>9

\* For text with a size,
LEMMA SpareFillSized ==
  ASSUME NEW N, NEW w, NEW I, Working(N, w, I), NEW x \in Sparing(N, w, I), NEW i \in I,
         NEW v \in Handled, Fits(v), IsSized(sig[i].type), sig[i].size \in I
  PROVE  FillSized(x, i, v) \in Sparing(N, w, I)
<1> DEFINE k == sig[i].size
<1>1. N \in Nat /\ DOMAIN sig = 1..N /\ WellTyped(sig) /\ i \in 1..N
  BY Work
<1>2. sig[k].type = "num"
  <2>1. Counts(sig, k, i) /\ k \in 1..N
    BY Work DEF Counts
  <2> QED
    BY <1>1, <2>1, Work
<1>3. Encodes(v) => v.n \in Nat /\ v.n < Word
  <2>1. Encodes(v) => IsText(v) /\ ~IsSequence(v)
    BY DEF Encodes, IsText, IsSequence
  <2> QED
    BY <2>1, Numbers DEF Fits, Length
<1> DEFINE y == Own(x, i, Block(Plain(v)))
<1>4. y \in Sparing(N, w, I)
  BY SparePuts
<1> HIDE DEF y, k
<1>5. Encodes(v) => SetSizeOrLengthIs(y, i, k, v.n) \in Sparing(N, w, I)
  <2>1. k \in I
    BY DEF k
  <2> QED
    BY <1>2, <1>3, <1>4, <2>1, SpareSetSize
<1>6. Put(x, i, Null) \in Sparing(N, w, I) /\ Raise(x) \in Sparing(N, w, I)
  BY SparePuts
<1> QED
  BY <1>5, <1>6 DEF FillSized, y, k

\* for an array: whether it keeps what it has filled,
LEMMA SpareKeepArray ==
  ASSUME NEW N, NEW w, NEW I, Working(N, w, I), NEW x \in Sparing(N, w, I), NEW i \in I,
         NEW filled
  PROVE  KeepArray(x, i, filled) \in Sparing(N, w, I)
<1> DEFINE c == x.slots[i].val
           y == Free(x, c)
           z == Put(y, i, Null)
           flag == ~IsArithmetic(sig[i].elem)
<1>1. N \in Nat /\ x \in Frames(N) /\ i \in 1..N /\ w \in Sound(N) /\ I \in SUBSET (1..N)
  BY Work
<1>2. c \in CellValues /\ Allowed(w, I, c)
  BY <1>1, SlotNumbers, AllowedCells
<1> HIDE DEF c
<1>3. y \in Sparing(N, w, I)
  BY <1>2, SpareFree
<1> HIDE DEF y
<1>4. z \in Sparing(N, w, I)
  BY <1>3, SparePut
<1> HIDE DEF z
<1>5. Fail(z) \in Sparing(N, w, I)
  BY <1>4, SpareRaise
<1>6. WithCleanup(x, i, flag) \in Sparing(N, w, I)
  <2>1. flag \in BOOLEAN
    BY DEF IsArithmetic
  <2> HIDE DEF flag
  <2> QED
    BY <2>1, SpareSlotFlags
<1> QED
  BY <1>5, <1>6 DEF KeepArray, WithCleanup, c, y, z

\* A new array with its elements,
LEMMA SpareNewArray ==
  ASSUME NEW N, NEW w, NEW I, Working(N, w, I), NEW x \in Sparing(N, w, I), NEW i \in I,
         NEW elem, NEW s \in Seq(Handled)
  PROVE  LET y == PutNew(x, i, Array(Times(Len(s), Null)))
         IN FillSingleArray(y, Newest(y).n, elem, s) \in Sparing(N, w, I)
<1> DEFINE n == Len(s)
           cells == Times(n, Null)
           block == Array(cells)
           y == PutNew(x, i, block)
           b == Newest(y).n
           z == FillSingleArray(y, b, elem, s)
<1>1. N \in Nat /\ i \in 1..N /\ x \in Frames(N) /\ Sparing(N, w, I) \subseteq Frames(N)
      /\ n \in Nat
  BY Work
<1>2. /\ cells \in Seq(CellValues) /\ Len(cells) = n
      /\ \A q \in DOMAIN cells : cells[q].is # "ptr"
  <2>1. Null \in CellValues /\ Null.is # "ptr"
    BY CellKinds
  <2>2. cells \in Seq(CellValues) /\ cells \in [1..n -> {Null}] /\ Len(cells) = n
    BY <1>1, <2>1, TimesSeq
  <2> HIDE DEF cells, n
  <2>3. \A q \in DOMAIN cells : cells[q] = Null
    BY <2>2
  <2> QED
    BY <2>1, <2>2, <2>3
<1> HIDE DEF cells
<1>3. block \in Flat /\ block \in Blocks /\ block.cells = cells
  <2>1. block \in Flat /\ block.cells = cells
    BY <1>2, FlatBlocks, ArrayBlocks
  <2> QED
    BY <2>1 DEF Flat
<1> HIDE DEF block
<1>4. y \in Sparing(N, w, I) /\ Made(x, y, i, block)
  BY <1>1, <1>3, SpareNew, PutNewParts
<1> HIDE DEF y
<1>5. b = Len(x.mem) + 1 /\ b \in Nat \ {0} /\ b \in DOMAIN y.mem /\ y.mem[b] = block
  <2>1. Len(x.mem) \in Nat /\ DOMAIN y.mem = 1..Len(y.mem)
    BY <1>1, <1>4, FrameFields DEF IsFrame
  <2> QED
    BY <1>4, <2>1 DEF Made, Newest, Ptr, Cell
<1> HIDE DEF b
<1>6. Above(y, y, b, Len(s))
  <2>1. Len(s) = n /\ DOMAIN cells = 1..n
    BY <1>1, <1>2
  <2> HIDE DEF n
  <2> QED
    BY <1>2, <1>3, <1>5, <2>1 DEF Above
<1>7. z \in Sparing(N, w, I)
  BY <1>4, <1>5, <1>6, SpareFillArray
<1> QED
  BY <1>7 DEF z, b, y, block, cells, n

\* and the whole of it,
LEMMA SpareFillArrayParam ==
  ASSUME NEW N, NEW w, NEW I, Working(N, w, I), NEW x \in Sparing(N, w, I), NEW i \in I,
         NEW v \in Handled, Fits(v), sig[i].type = "array", sig[i].length \in I
  PROVE  FillArray(x, i, v) \in Sparing(N, w, I)
<1> DEFINE k == sig[i].length
           items == Items(v, sig[i].elem)
<1>1. N \in Nat /\ DOMAIN sig = 1..N /\ i \in 1..N
  BY Work
<1>2. sig[k].type = "num"
  <2>1. Counts(sig, k, i) /\ k \in 1..N
    BY Work DEF Counts
  <2> QED
    BY <1>1, <2>1, Work
<1>3. ASSUME HasItems(v)
      PROVE  SizeArray(FillSingleArray(PutNew(x, i, Array(Times(Len(items), Null))),
                         Newest(PutNew(x, i, Array(Times(Len(items), Null)))).n,
                         sig[i].elem, items), i, Len(items)) \in Sparing(N, w, I)
  <2> DEFINE n == Len(items)
             y == PutNew(x, i, Array(Times(n, Null)))
             z == FillSingleArray(y, Newest(y).n, sig[i].elem, items)
             a == [z EXCEPT !.ok = TRUE]
             s == SetSizeOrLengthIs(a, i, k, n)
  <2>1. items \in Seq(Handled) /\ n \in Nat /\ n < Word
    BY <1>3, ItemsKind
  <2> HIDE DEF items
  <2>2. z \in Sparing(N, w, I)
    BY <2>1, SpareNewArray
  <2> HIDE DEF z, n
  <2>3. a \in Sparing(N, w, I)
    BY <2>2, SpareRaise
  <2> HIDE DEF a, k
  <2>4. s \in Sparing(N, w, I)
    <3>1. k \in I
      BY DEF k
    <3> QED
      BY <1>2, <2>1, <2>3, <3>1, SpareSetSize
  <2> HIDE DEF s
  <2>5. KeepArray(s, i, z.ok) \in Sparing(N, w, I)
    BY <2>4, SpareKeepArray
  <2> QED
    BY <2>5 DEF SizeArray, s, a, k, z, n
<1>4. Put(x, i, Null) \in Sparing(N, w, I) /\ Raise(x) \in Sparing(N, w, I)
  BY SparePuts
<1> QED
  BY <1>3, <1>4 DEF FillArray

\* for numbers, characters and iids,
LEMMA SpareFillScalar ==
  ASSUME NEW N, NEW w, NEW I, Working(N, w, I), NEW x \in Sparing(N, w, I), NEW i \in I,
         NEW v \in Handled
  PROVE  /\ sig[i].type = "num" => FillNumber(x, i, v) \in Sparing(N, w, I)
         /\ sig[i].type = "char" => FillChar(x, i, v) \in Sparing(N, w, I)
         /\ FillIID(x, i, v) \in Sparing(N, w, I)
<1>1. 0 \in Nat /\ 0 < Word /\ 1 \in Nat /\ 1 < Word
  BY WidthAssumption
<1>2. sig[i].type \in {"num", "char"} =>
        \A n \in Nat : n < Word => Put(x, i, Num(n)) \in Sparing(N, w, I)
  BY SparePut DEF FilledInPlace
<1>3. Raise(x) \in Sparing(N, w, I) /\ Own(x, i, Block(v)) \in Sparing(N, w, I)
  BY SparePuts
<1>4. sig[i].type = "num" => FillNumber(x, i, v) \in Sparing(N, w, I)
  BY <1>1, <1>2, <1>3, Numbers DEF FillNumber
<1>5. sig[i].type = "char" => FillChar(x, i, v) \in Sparing(N, w, I)
  BY <1>1, <1>2, <1>3 DEF FillChar
<1>6. FillIID(x, i, v) \in Sparing(N, w, I)
  BY <1>3 DEF FillIID
<1> QED
  BY <1>4, <1>5, <1>6

\* for text without a size,
LEMMA SpareFillText ==
  ASSUME NEW N, NEW w, NEW I, Working(N, w, I), NEW x \in Sparing(N, w, I), NEW i \in I,
         NEW v \in Handled
  PROVE  /\ FillAString(x, i, v) \in Sparing(N, w, I)
         /\ FillCString(x, i, v) \in Sparing(N, w, I)
         /\ IsString(sig[i].type) => FillString(x, i, v) \in Sparing(N, w, I)
<1>1. /\ Own(x, i, Block(Plain(v))) \in Sparing(N, w, I)
      /\ Own(x, i, Block(Str(0))) \in Sparing(N, w, I)
      /\ Raise(x) \in Sparing(N, w, I) /\ Put(x, i, Null) \in Sparing(N, w, I)
  BY SparePuts
<1>2. Raise(Own(x, i, Block(Str(0)))) \in Sparing(N, w, I)
  BY <1>1, SpareRaise
<1>3. v.py = "str" /\ IsString(sig[i].type) => Put(x, i, Lent(v.n)) \in Sparing(N, w, I)
  <2>1. v.py = "str" => v.n \in Nat
    BY Numbers DEF IsText
  <2>2. IsString(sig[i].type) => sig[i].type \notin FilledInPlace
    BY DEF IsString, FilledInPlace
  <2> QED
    BY <2>1, <2>2, SparePut
<1>4. FillAString(x, i, v) \in Sparing(N, w, I)
  BY <1>1, <1>2 DEF FillAString
<1>5. FillCString(x, i, v) \in Sparing(N, w, I)
  BY <1>1 DEF FillCString
<1>6. IsString(sig[i].type) => FillString(x, i, v) \in Sparing(N, w, I)
  BY <1>1, <1>3 DEF FillString
<1> QED
  BY <1>4, <1>5, <1>6

\* FillInVariant.
LEMMA SpareFill ==
  ASSUME NEW N, NEW w, NEW I, Working(N, w, I), NEW x \in Sparing(N, w, I), NEW i \in I,
         \A k \in 1..N : Counts(sig, k, i) => k \in I, NEW v \in Handled, Fits(v)
  PROVE  FillInVariant(x, i, v) \in Sparing(N, w, I)
<1> DEFINE p == sig[i]
           y == Fill(x, i, v)
           b == y.ok /\ y.err = "none"
<1>1. N \in Nat /\ DOMAIN sig = 1..N /\ N = Len(sig) /\ WellTyped(sig) /\ i \in 1..N
      /\ x \in Frames(N) /\ Sparing(N, w, I) \subseteq Frames(N)
  BY Work
<1>2. p.iid \in Nat /\ (p.type = "iface_is" => p.iid \in 1..N)
      /\ (IsSized(p.type) => p.size \in 1..N) /\ (p.type = "array" => p.length \in 1..N)
  BY <1>1, SigFields
<1>3. /\ FillInterface(x, i, v, p.iid) \in Sparing(N, w, I)
      /\ FillInterface(x, i, v, Supports) \in Sparing(N, w, I)
  BY <1>2, Constants, SpareFillInterface
<1>4. p.type = "iface_is" => FillInterfaceIs(x, i, v) \in Sparing(N, w, I)
  <2>1. p.type = "iface_is" => Pointee(x, x.slots[p.iid].val).n \in Interfaces
    BY <1>1, <1>2, SlotNumbers, PointeeHeld, Constants
  <2> QED
    BY <2>1, Constants, SpareFillInterface DEF FillInterfaceIs
<1>5. IsSized(p.type) => FillSized(x, i, v) \in Sparing(N, w, I)
  BY <1>2, SpareFillSized DEF Counts
<1>6. p.type = "array" => FillArray(x, i, v) \in Sparing(N, w, I)
  BY <1>2, SpareFillArrayParam DEF Counts
<1>7. /\ p.type = "num" => FillNumber(x, i, v) \in Sparing(N, w, I)
      /\ p.type = "char" => FillChar(x, i, v) \in Sparing(N, w, I)
      /\ FillIID(x, i, v) \in Sparing(N, w, I)
  BY SpareFillScalar
<1>8. /\ FillAString(x, i, v) \in Sparing(N, w, I)
      /\ FillCString(x, i, v) \in Sparing(N, w, I)
      /\ IsString(p.type) => FillString(x, i, v) \in Sparing(N, w, I)
  BY SpareFillText
<1>9. Raise(x) \in Sparing(N, w, I)
  BY SpareRaise
<1>10. y \in Sparing(N, w, I)
  BY <1>3, <1>4, <1>5, <1>6, <1>7, <1>8, <1>9 DEF Fill
<1>11. b \in BOOLEAN
  BY <1>1, <1>10, FrameFields DEF IsFrame
<1>12. [y EXCEPT !.ok = b] \in Sparing(N, w, I)
  <2> HIDE DEF y, b
  <2> QED
    BY <1>10, <1>11, SpareRaise
<1> QED
  BY <1>12 DEF FillInVariant

-----------------------------------------------------------------------------
(***************************************************************************)
(* IIDs that are kept, and interfaces that are as they were asked for.     *)
(***************************************************************************)

\* Parameter k tells the interface of another one.
TellsInterface(k) == \E i \in DOMAIN sig : sig[i].type = "iface_is" /\ sig[i].iid = k

\* An IID is in a block of its own: nothing else points to it.
HoldsIID(w, k) ==
  LET c == w.slots[k].val IN
  c # Null => /\ c = Ptr(c.n) /\ c.n \in DOMAIN w.mem /\ w.mem[c.n].live
              /\ ~Reached(w, DOMAIN sig \ {k}, c.n)
HoldsIIDs(w) == \A k \in DOMAIN sig : TellsInterface(k) => HoldsIID(w, k)

\* The interface in parameter i is the one that its IID says.
AsAsked(w, i) ==
  Live(w, w.slots[i].val) =>
    w.mem[w.slots[i].val.n].as = Pointee(w, w.slots[sig[i].iid].val).n

\* What IIDsPlain says of an IID and of the parameters that have a size.
LEMMA PlainIID ==
  ASSUME NEW N, NEW w, NEW I, Working(N, w, I)
  PROVE  /\ \A k \in 1..N : TellsInterface(k) =>
              /\ sig[k].type = "iid" /\ ~IsOut(sig[k]) /\ ~IsRetval(sig[k]) /\ ~IsDipper(sig[k])
              /\ \A i \in 1..N : ~Counts(sig, k, i) /\ ~Counts(sig, i, k)
         /\ \A i \in 1..N : sig[i].type = "iface_is" =>
              /\ sig[i].iid \in 1..N /\ TellsInterface(sig[i].iid) /\ sig[i].iid # i
              /\ IsIn(sig[i]) => sig[i].iid < i
              /\ ~IsDipper(sig[i]) /\ ~TellsInterface(i)
              /\ \A k \in 1..N : ~Counts(sig, k, i) /\ ~Counts(sig, i, k)
<1>1. N \in Nat /\ DOMAIN sig = 1..N /\ WellTyped(sig) /\ AsksInterface(sig) /\ IIDsPlain(sig)
      /\ N = Len(sig)
  BY Work DEF Working, Asking
<1>2. \A i, k \in 1..N : Counts(sig, k, i) =>
        sig[k].type = "num" /\ (sig[i].type = "array" \/ IsSized(sig[i].type))
  BY <1>1 DEF IIDsPlain, Counts
<1>3. \A k \in 1..N : TellsInterface(k) =>
        sig[k].type = "iid" /\ ~IsOut(sig[k]) /\ ~IsRetval(sig[k])
  BY <1>1 DEF TellsInterface, IIDsPlain
<1>4. \A i \in 1..N : IsDipper(sig[i]) => sig[i].type \in {"astring", "cstring", "utf8"}
  BY <1>1 DEF IIDsPlain
<1>5. \A i \in 1..N : sig[i].type = "iface_is" =>
        /\ sig[i].iid \in 1..N /\ TellsInterface(sig[i].iid)
        /\ IsIn(sig[i]) => sig[i].iid < i
  <2>1. \A i \in 1..N : sig[i].type = "iface_is" => sig[i].iid \in 1..N
    BY <1>1, SigFields
  <2> QED
    BY <1>1, <2>1 DEF TellsInterface, IIDsPlain
<1> QED
  BY <1>2, <1>3, <1>4, <1>5 DEF IsSized

\* Working on other parameters keeps IIDs,
LEMMA IIDsStay ==
  ASSUME NEW N, NEW w, NEW I, Working(N, w, I), NEW x \in Sparing(N, w, I),
         NEW k \in 1..N, k \notin I, HoldsIID(w, k)
  PROVE  /\ HoldsIID(x, k) /\ x.slots[k].val = w.slots[k].val
         /\ Pointee(x, x.slots[k].val) = Pointee(w, w.slots[k].val)
<1> DEFINE c == w.slots[k].val
           b == c.n
<1>1. /\ N \in Nat /\ DOMAIN sig = 1..N /\ IsFrame(N, w) /\ IsFrame(N, x) /\ I \in SUBSET (1..N)
  BY Work
<1>2. Spares(w, x, I)
  BY DEF Sparing
<1>3. x.slots[k].val = c
  BY <1>1, <1>2 DEF Spares, IsFrame
<1>4. CASE c = Null
  BY <1>3, <1>4 DEF HoldsIID, Pointee
<1>5. CASE c # Null
  <2>1. c = Ptr(b) /\ b \in DOMAIN w.mem /\ w.mem[b].live /\ ~Reached(w, 1..N \ {k}, b)
    BY <1>1, <1>5 DEF HoldsIID
  <2>2. ~Reached(w, I, b)
    <3>1. I \subseteq 1..N \ {k}
      BY <1>1
    <3> QED
      BY <2>1, <3>1 DEF Reached
  <2>3. /\ ~Reached(x, I, b) /\ x.mem[b].live = w.mem[b].live /\ x.mem[b].of = w.mem[b].of
        /\ b \in DOMAIN x.mem
    <3>1. b \in DOMAIN w.mem
      BY <2>1
    <3>2. Spared(w, x, I, b)
      BY <1>2, <3>1 DEF Spares
    <3>3. b \in DOMAIN x.mem
      BY <1>1, <1>2, <3>1 DEF Spares, IsFrame
    <3> HIDE DEF b
    <3> QED
      BY <2>2, <3>2, <3>3 DEF Spared
  <2>4. \A j \in 1..N \ {k} : x.slots[j].val # Ptr(b)
    <3>1. TAKE j \in 1..N \ {k}
    <3>2. CASE j \in I
      BY <2>3, <3>2 DEF Reached
    <3>3. CASE j \notin I
      <4>1. x.slots[j].val = w.slots[j].val
        BY <1>1, <1>2, <3>3 DEF Spares, IsFrame
      <4> QED
        BY <2>1, <4>1 DEF Reached
    <3> QED
      BY <3>2, <3>3
  <2>5. ~Reached(x, 1..N \ {k}, b)
    BY <2>3, <2>4 DEF Reached
  <2>6. HoldsIID(x, k)
    BY <1>1, <1>3, <2>1, <2>3, <2>5 DEF HoldsIID
  <2>7. c.is = "ptr"
    BY <2>1 DEF Ptr, Cell
  <2>8. Pointee(x, c) = x.mem[b].of /\ Pointee(w, c) = w.mem[b].of
    BY <1>5, <2>1, <2>3, <2>7 DEF Pointee, Live
  <2> QED
    BY <1>3, <2>3, <2>6, <2>8
<1> QED
  BY <1>4, <1>5

\* all of them,
LEMMA AllIIDsStay ==
  ASSUME NEW N, NEW w, NEW I, Working(N, w, I), NEW x \in Sparing(N, w, I),
         \A k \in I : ~TellsInterface(k), HoldsIIDs(w)
  PROVE  HoldsIIDs(x)
<1>1. DOMAIN sig = 1..N
  BY Work
<1> SUFFICES ASSUME NEW k \in 1..N, TellsInterface(k) PROVE HoldsIID(x, k)
  BY <1>1 DEF HoldsIIDs
<1>2. HoldsIID(w, k) /\ k \notin I
  BY <1>1 DEF HoldsIIDs
<1> QED
  BY <1>2, IIDsStay

\* and the interfaces as they are.
LEMMA AskedStays ==
  ASSUME NEW N, NEW w, NEW I, Working(N, w, I), NEW x \in Sparing(N, w, I),
         NEW i \in 1..N, sig[i].type = "iface_is", sig[i].iid \notin I, HoldsIIDs(w),
         x.slots[i].val = w.slots[i].val, AsAsked(w, i)
  PROVE  AsAsked(x, i)
<1> DEFINE c == w.slots[i].val
           k == sig[i].iid
<1>1. /\ N \in Nat /\ DOMAIN sig = 1..N /\ IsFrame(N, w) /\ IsFrame(N, x)
      /\ w \in Frames(N)
  BY Work DEF Sound
<1>2. Spares(w, x, I)
  BY DEF Sparing
<1>3. k \in 1..N /\ HoldsIID(w, k)
  BY <1>1, PlainIID DEF HoldsIIDs
<1>4. Pointee(x, x.slots[k].val) = Pointee(w, w.slots[k].val)
  BY <1>3, IIDsStay
<1> SUFFICES ASSUME Live(x, c)
             PROVE  x.mem[c.n].as = Pointee(x, x.slots[k].val).n
  BY DEF AsAsked
<1>5. c.is = "ptr" /\ c.n \in DOMAIN w.mem
  <2>1. InMemory(w, c)
    BY <1>1, SlotNumbers
  <2> QED
    BY <2>1 DEF Live, InMemory
<1>6. x.mem[c.n].as = w.mem[c.n].as /\ Live(w, c)
  BY <1>2, <1>5 DEF Spares, Spared, Live
<1> QED
  BY <1>4, <1>6 DEF AsAsked

\* x is w with something new in parameter i that points nowhere.
NewIn(w, x, i) ==
  /\ x.slots[i].val = Ptr(Len(w.mem) + 1)
  /\ Len(x.mem) = Len(w.mem) + 1
  /\ x.mem[Len(w.mem) + 1].live /\ x.mem[Len(w.mem) + 1].cells = <<>>
  /\ Keeps(w, x, {i})

\* That is a block of its own.
LEMMA NewIsHeld ==
  ASSUME NEW N, NEW w, NEW I, Working(N, w, I), NEW x \in Frames(N), NEW i \in 1..N,
         NewIn(w, x, i)
  PROVE  HoldsIID(x, i)
<1> DEFINE b == Len(w.mem) + 1
<1>1. /\ DOMAIN sig = 1..N /\ IsFrame(N, w) /\ IsFrame(N, x) /\ Closed(w) /\ w \in Frames(N)
      /\ N \in Nat
  BY Work, FrameFields DEF Sound
<1>2. x.slots[i].val.n = b /\ x.slots[i].val = Ptr(b)
  BY DEF NewIn, Ptr, Cell
<1>3. /\ b \in Nat /\ b \notin DOMAIN w.mem /\ DOMAIN x.mem = DOMAIN w.mem \cup {b}
      /\ b \in DOMAIN x.mem
  BY <1>1 DEF NewIn, IsFrame
<1>4. \A c : InMemory(w, c) => c # Ptr(b)
  BY <1>3 DEF InMemory, Ptr, Cell
<1>5. \A j \in 1..N \ {i} : x.slots[j].val # Ptr(b)
  <2>1. \A j \in 1..N \ {i} : x.slots[j] = w.slots[j]
    BY <1>1 DEF NewIn, Keeps, IsFrame
  <2>2. \A j \in 1..N : InMemory(w, w.slots[j].val)
    BY <1>1, SlotNumbers
  <2> QED
    BY <1>4, <2>1, <2>2
<1>6. \A c \in DOMAIN x.mem : \A q \in DOMAIN x.mem[c].cells : x.mem[c].cells[q] # Ptr(b)
  <2>1. TAKE c \in DOMAIN x.mem
  <2>2. TAKE q \in DOMAIN x.mem[c].cells
  <2>3. CASE c = b
    BY <2>3 DEF NewIn
  <2>4. CASE c \in DOMAIN w.mem
    <3>1. x.mem[c] = w.mem[c]
      BY <2>4 DEF NewIn, Keeps
    <3> QED
      BY <1>1, <1>4, <2>4, <3>1 DEF Closed
  <2> QED
    BY <1>3, <2>3, <2>4
<1>7. ~Reached(x, 1..N \ {i}, b)
  BY <1>5, <1>6 DEF Reached
<1>8. x.mem[b].live
  BY DEF NewIn
<1> HIDE DEF b
<1> QED
  BY <1>1, <1>2, <1>3, <1>7, <1>8 DEF HoldsIID

-----------------------------------------------------------------------------
(***************************************************************************)
(* Preparing an argument keeps the IIDs, and the interface it prepares is  *)
(* as it was asked for.                                                    *)
(***************************************************************************)

\* A frame whose IIDs are kept.
Kept(w) == w \in Sound(Len(sig)) /\ HoldsIIDs(w)

\* The first n parameters have been prepared: an IID that is there can be
\* looked at, an interface that is there is as asked, and the others are not
\* there yet.
PreparedAsked(w, n) ==
  /\ Kept(w)
  /\ \A k \in DOMAIN sig :
       TellsInterface(k) => w.slots[k].val = Null \/ w.slots[k].typed
  /\ \A i \in DOMAIN sig :
       sig[i].type = "iface_is" =>
         /\ AsAsked(w, i)
         /\ i > n \/ ~IsIn(sig[i]) => w.slots[i].val = Null

\* What a frame like that is.
LEMMA KeptWorking ==
  ASSUME NEW N, Asking(N), NEW w, Kept(w), NEW I \in SUBSET (1..N)
  PROVE  /\ Working(N, w, I) /\ w \in Sound(N) /\ w \in Sparing(N, w, I)
         /\ w \in Frames(N) /\ IsFrame(N, w) /\ HoldsIIDs(w) /\ DOMAIN sig = 1..N
         /\ N \in Nat /\ N = Len(sig) /\ WellTyped(sig)
<1>1. Working(N, w, I) /\ w \in Sound(N)
  BY DEF Kept, Working, Asking
<1> QED
  BY <1>1, Work DEF Kept, Sound

\* Counting on, it stays so.
LEMMA PreparedOn ==
  ASSUME NEW N, Asking(N), NEW w, NEW n \in Int, NEW m \in Int, n <= m, PreparedAsked(w, n)
  PROVE  PreparedAsked(w, m)
<1>1. DOMAIN sig = 1..N
  BY KeptWorking DEF PreparedAsked
<1> QED
  BY <1>1 DEF PreparedAsked

\* Working on parameters that have nothing to do with interfaces leaves it so,
LEMMA PreparedStays ==
  ASSUME NEW N, Asking(N), NEW w, NEW n, PreparedAsked(w, n),
         NEW I \in SUBSET (1..N), \A k \in I : ~TellsInterface(k) /\ sig[k].type # "iface_is",
         NEW x \in Sparing(N, w, I)
  PROVE  PreparedAsked(x, n)
<1>1. /\ Working(N, w, I) /\ HoldsIIDs(w) /\ DOMAIN sig = 1..N /\ IsFrame(N, w)
      /\ N = Len(sig)
  BY KeptWorking DEF PreparedAsked
<1>2. x \in Sound(N) /\ Spares(w, x, I)
  BY DEF Sparing
<1>3. HoldsIIDs(x)
  BY <1>1, AllIIDsStay
<1>4. /\ \A j \in 1..N \ I : x.slots[j].val = w.slots[j].val
      /\ \A j \in 1..N : w.slots[j].typed => x.slots[j].typed
  BY <1>1, <1>2 DEF Spares, IsFrame
<1>5. ASSUME NEW i \in 1..N, sig[i].type = "iface_is"
      PROVE  AsAsked(x, i) /\ x.slots[i].val = w.slots[i].val
  <2>1. i \notin I /\ sig[i].iid \notin I /\ AsAsked(w, i)
    BY <1>1, <1>5, PlainIID DEF PreparedAsked
  <2>2. x.slots[i].val = w.slots[i].val
    BY <1>4, <2>1
  <2> QED
    BY <1>1, <1>5, <2>1, <2>2, AskedStays
<1> QED
  BY <1>1, <1>2, <1>3, <1>4, <1>5 DEF PreparedAsked, Kept

\* and so does writing the flags of any.
LEMMA PreparedFlags ==
  ASSUME NEW N, Asking(N), NEW w, NEW n, PreparedAsked(w, n), NEW j \in 1..N,
         NEW x \in Frames(N), Wrote(w, x, j, w.slots[j].val)
  PROVE  PreparedAsked(x, n)
<1>1. /\ Working(N, w, {j}) /\ HoldsIIDs(w) /\ DOMAIN sig = 1..N /\ IsFrame(N, w)
      /\ N = Len(sig) /\ w \in Sparing(N, w, {j}) /\ w \in Sound(N) /\ N \in Nat
      /\ w \in Frames(N)
  BY KeptWorking DEF PreparedAsked
<1>2. Allowed(w, {j}, w.slots[j].val)
  BY <1>1, AllowedCells
<1>3. sig[j].type \in FilledInPlace => Points(w.slots[j].val)
  BY <1>1, Work DEF InPlace
<1>4. x \in Sparing(N, w, {j})
  BY <1>1, <1>2, <1>3, SpareWrote
<1>5. x \in Sound(N)
  BY <1>4 DEF Sparing
<1>6. x.mem = w.mem /\ \A i \in 1..N : /\ x.slots[i].val = w.slots[i].val
                                       /\ w.slots[i].typed => x.slots[i].typed
  BY <1>1 DEF Wrote, Keeps, IsFrame
<1>7. HoldsIIDs(x)
  BY <1>1, <1>6 DEF HoldsIIDs, HoldsIID, Reached
<1>8. \A i \in 1..N : sig[i].type = "iface_is" /\ AsAsked(w, i) => AsAsked(x, i)
  <2> SUFFICES ASSUME NEW i \in 1..N, sig[i].type = "iface_is", AsAsked(w, i)
               PROVE  AsAsked(x, i)
    OBVIOUS
  <2>1. sig[i].iid \in 1..N
    BY <1>1, PlainIID
  <2>2. /\ x.slots[i].val = w.slots[i].val
        /\ x.slots[sig[i].iid].val = w.slots[sig[i].iid].val
    BY <1>6, <2>1
  <2>3. \A c : Live(x, c) <=> Live(w, c)
    BY <1>6 DEF Live
  <2>4. \A c : Pointee(x, c) = Pointee(w, c)
    BY <1>6, <2>3 DEF Pointee
  <2> QED
    BY <1>6, <2>2, <2>3, <2>4 DEF AsAsked
<1> QED
  BY <1>1, <1>5, <1>6, <1>7, <1>8 DEF PreparedAsked, Kept

\* The parameters that one works on with parameter j: its sizes.
WithSizes(j) == {j} \cup {k \in DOMAIN sig : Counts(sig, k, j)}

\* They have nothing to do with interfaces if j has not.
LEMMA SizesAskNothing ==
  ASSUME NEW N, NEW w, NEW I, Working(N, w, I), NEW j \in 1..N
  PROVE  /\ WithSizes(j) \in SUBSET (1..N)
         /\ TellsInterface(j) \/ sig[j].type = "iface_is" => WithSizes(j) = {j}
         /\ ~TellsInterface(j) /\ sig[j].type # "iface_is" =>
              \A k \in WithSizes(j) : ~TellsInterface(k) /\ sig[k].type # "iface_is"
<1>1. DOMAIN sig = 1..N
  BY Work
<1> QED
  BY <1>1, PlainIID DEF WithSizes

\* There is nothing behind a null pointer.
LEMMA NullLeadsNowhere == \A w, c : c = Null => Pointee(w, c) = None /\ ~Live(w, c)
<1>1. Null.is = "null"
  BY DEF Null, Cell
<1>2. \A w, c : c = Null => c.is = "null" /\ ~Live(w, c)
  BY <1>1 DEF Live
<1> QED
  BY <1>2 DEF Pointee

\* An argument that is an interface is stored as the one that its IID says.
LEMMA FilledAsAsked ==
  ASSUME NEW N, Asking(N), NEW w, NEW n, PreparedAsked(w, n), NEW j \in 1..N,
         sig[j].type = "iface_is", NEW v \in Handled, Fits(v), FillInVariant(w, j, v).ok
  PROVE  AsAsked(FillInVariant(w, j, v), j)
<1> DEFINE k == sig[j].iid
           s == w.slots[k]
           told == Pointee(w, s.val).n
           iid == IF s.typed /\ s.val # Null THEN told ELSE Supports
           y == FillInterface(w, j, v, iid)
           x == FillInVariant(w, j, v)
           o == y.ok /\ y.err = "none"
<1>1. /\ Working(N, w, {j}) /\ HoldsIIDs(w) /\ DOMAIN sig = 1..N /\ w \in Frames(N)
      /\ w \in Sparing(N, w, {j}) /\ N \in Nat /\ WellTyped(sig)
  BY KeptWorking DEF PreparedAsked
<1>2. k \in 1..N /\ TellsInterface(k) /\ k # j
  BY <1>1, PlainIID
<1>3. told \in Interfaces /\ iid \in Interfaces
  BY <1>1, <1>2, SlotNumbers, PointeeHeld, Constants
<1>4. iid = told
  <2>1. s.val = Null \/ s.typed
    BY <1>1, <1>2 DEF PreparedAsked
  <2>2. \A c : c = Null => Pointee(w, c) = None
    BY NullLeadsNowhere
  <2>3. None.n = Supports
    BY DEF None, Value, Supports
  <2> HIDE DEF s
  <2>4. s.val = Null => told = Supports
    BY <2>2, <2>3
  <2> QED
    BY <2>1, <2>4
<1>5. x = [y EXCEPT !.ok = o]
  <2> DEFINE f == Fill(w, j, v)
             b == f.ok /\ f.err = "none"
             z == [f EXCEPT !.ok = b]
  <2>1. x = z
    BY DEF FillInVariant
  <2>2. f = FillInterfaceIs(w, j, v)
    BY DEF Fill, IsString, IsSized
  <2>3. FillInterfaceIs(w, j, v) = y
    BY DEF FillInterfaceIs
  <2> HIDE DEF y, f, x
  <2> QED
    BY <2>1, <2>2, <2>3
<1>6. /\ y \in Sparing(N, w, {j})
      /\ y.ok /\ y.slots[j].val # Null => y.mem[y.slots[j].val.n].as = iid
  <2> HIDE DEF iid
  <2> QED
    BY <1>1, <1>3, SpareFillInterface
<1> HIDE DEF y, iid
<1>7. x.slots = y.slots /\ x.mem = y.mem /\ x.ok = o /\ y \in Frames(N)
  <2>1. y \in Frames(N)
    BY <1>1, <1>6, Work
  <2> HIDE DEF x, o
  <2> QED
    BY <1>1, <1>5, <2>1, FlagParts
<1>8. y.ok
  BY <1>7 DEF o, x
<1>9. Pointee(y, y.slots[k].val) = Pointee(w, s.val)
  BY <1>1, <1>2, <1>6, IIDsStay DEF HoldsIIDs
<1>10. Pointee(x, x.slots[k].val) = Pointee(y, y.slots[k].val)
  BY <1>7 DEF Pointee, Live
<1>11. x.slots[j].val # Null => x.mem[x.slots[j].val.n].as = iid
  BY <1>6, <1>7, <1>8
<1>12. Live(x, x.slots[j].val) => x.slots[j].val # Null
  BY DEF Live, Null, Cell
<1> HIDE DEF x
<1> QED
  BY <1>4, <1>9, <1>10, <1>11, <1>12 DEF AsAsked, x

\* An IID is stored in a block of its own.
LEMMA FilledIID ==
  ASSUME NEW N, Asking(N), NEW w, Kept(w), NEW j \in 1..N,
         sig[j].type = "iid", NEW v \in Handled, FillInVariant(w, j, v).ok
  PROVE  HoldsIID(FillInVariant(w, j, v), j)
<1> DEFINE y == FillIID(w, j, v)
           o == y.ok /\ y.err = "none"
           x == FillInVariant(w, j, v)
<1>1. Working(N, w, {j}) /\ w \in Frames(N) /\ N \in Nat /\ w \in Sparing(N, w, {j})
  BY KeptWorking
<1>2. x = [y EXCEPT !.ok = o]
  <2> DEFINE f == Fill(w, j, v)
             b == f.ok /\ f.err = "none"
             z == [f EXCEPT !.ok = b]
  <2>1. x = z
    BY DEF FillInVariant
  <2>2. f = y
    BY DEF Fill, IsString, IsSized
  <2> HIDE DEF y, f, x
  <2> QED
    BY <2>1, <2>2
<1>3. y \in Sparing(N, w, {j})
  BY <1>1, SpareFillScalar
<1>4. y \in Frames(N) /\ o \in BOOLEAN
  <2>1. y \in Frames(N)
    BY <1>1, <1>3, Work
  <2> HIDE DEF y
  <2> QED
    BY <1>1, <2>1, FrameFields DEF IsFrame
<1>5. y = IF v.py = "iid" THEN Own(w, j, Block(v)) ELSE Raise(w)
  BY DEF FillIID
<1> HIDE DEF y
<1>6. x.slots = y.slots /\ x.mem = y.mem /\ x.ok = o /\ x \in Frames(N)
  <2> HIDE DEF o, x
  <2> QED
    BY <1>1, <1>2, <1>4, FlagParts, FlagFrame
<1>7. y = Own(w, j, Block(v))
  <2>1. ~Raise(w).ok
    BY <1>1, FlagParts
  <2> QED
    BY <1>5, <1>6, <2>1
<1>8. Made(w, y, j, Block(v))
  <2>1. Block(v) \in Blocks
    BY HandledShape, BlockKinds
  <2> QED
    BY <1>1, <1>7, <2>1, PutNewParts
<1>9. NewIn(w, x, j)
  <2>1. Block(v).live /\ Block(v).cells = <<>>
    BY DEF Block
  <2> HIDE DEF x
  <2> QED
    BY <1>6, <1>8, <2>1 DEF Made, NewIn, Keeps
<1> HIDE DEF x
<1>10. HoldsIID(x, j)
  BY <1>1, <1>6, <1>9, NewIsHeld
<1> QED
  BY <1>10 DEF x

\* An argument leaves what is prepared as asked,
LEMMA FilledAsked ==
  ASSUME NEW N, Asking(N), NEW j \in 1..N, NEW w, PreparedAsked(w, j - 1), w.slots[j].typed,
         TakesArgument(sig, j), NEW v \in Handled, Fits(v), FillInVariant(w, j, v).ok
  PROVE  PreparedAsked(FillInVariant(w, j, v), j)
<1> DEFINE I == WithSizes(j)
           x == FillInVariant(w, j, v)
<1>1. /\ Working(N, w, {}) /\ HoldsIIDs(w) /\ DOMAIN sig = 1..N /\ IsFrame(N, w)
      /\ N = Len(sig) /\ N \in Nat
  BY KeptWorking DEF PreparedAsked
<1>2. /\ I \in SUBSET (1..N) /\ j \in I
      /\ TellsInterface(j) \/ sig[j].type = "iface_is" => I = {j}
      /\ ~TellsInterface(j) /\ sig[j].type # "iface_is" =>
           \A k \in I : ~TellsInterface(k) /\ sig[k].type # "iface_is"
  BY <1>1, SizesAskNothing DEF WithSizes
<1>3. \A k \in 1..N : Counts(sig, k, j) => k \in I
  BY <1>1 DEF WithSizes
<1> HIDE DEF I
<1>4. Working(N, w, I) /\ w \in Sparing(N, w, I)
  BY <1>2, KeptWorking DEF PreparedAsked
<1>5. x \in Sparing(N, w, I)
  BY <1>2, <1>3, <1>4, SpareFill
<1>6. x \in Sound(N) /\ Spares(w, x, I)
  BY <1>5 DEF Sparing
<1>7. /\ \A i \in 1..N \ I : x.slots[i].val = w.slots[i].val
      /\ \A i \in 1..N : w.slots[i].typed => x.slots[i].typed
  BY <1>1, <1>6 DEF Spares, IsFrame
<1>8. sig[j].type = "iface_is" => AsAsked(x, j)
  BY FilledAsAsked
<1>9. sig[j].type = "iid" => HoldsIID(x, j)
  BY FilledIID DEF PreparedAsked
<1> HIDE DEF x
<1>10. CASE ~TellsInterface(j) /\ sig[j].type # "iface_is"
  <2>1. PreparedAsked(x, j - 1)
    BY <1>2, <1>5, <1>10, PreparedStays
  <2>2. j - 1 \in Int /\ j \in Int /\ j - 1 <= j
    BY <1>1
  <2>3. PreparedAsked(x, j)
    BY <2>1, <2>2, PreparedOn
  <2> QED
    BY <2>3 DEF x
<1>11. CASE sig[j].type = "iface_is"
  <2>1. I = {j} /\ ~TellsInterface(j) /\ IsIn(sig[j])
    BY <1>1, <1>2, <1>11, PlainIID DEF TakesArgument
  <2>2. HoldsIIDs(x)
    BY <1>1, <1>4, <1>5, <2>1, AllIIDsStay
  <2>3. ASSUME NEW i \in 1..N \ {j}, sig[i].type = "iface_is" PROVE AsAsked(x, i)
    <3>1. sig[i].iid # j /\ AsAsked(w, i)
      BY <1>1, <2>1, <2>3 DEF PreparedAsked, TellsInterface
    <3> QED
      BY <1>1, <1>4, <1>5, <1>7, <2>1, <2>3, <3>1, AskedStays
  <2>4. \A i \in 1..N : sig[i].type = "iface_is" => AsAsked(x, i)
    BY <1>8, <2>3
  <2>5. ASSUME NEW i \in 1..N, sig[i].type = "iface_is", i > j \/ ~IsIn(sig[i])
        PROVE  x.slots[i].val = Null
    <3>1. i # j /\ (i > j - 1 \/ ~IsIn(sig[i]))
      BY <2>1, <2>5
    <3> QED
      BY <1>1, <1>7, <2>1, <2>5, <3>1 DEF PreparedAsked
  <2>6. \A k \in 1..N : TellsInterface(k) => x.slots[k].val = Null \/ x.slots[k].typed
    <3>1. \A k \in 1..N : TellsInterface(k) => k \in 1..N \ I
      BY <2>1
    <3> QED
      BY <1>1, <1>7, <3>1 DEF PreparedAsked
  <2>7. PreparedAsked(x, j)
    BY <1>1, <1>6, <2>2, <2>4, <2>5, <2>6 DEF PreparedAsked, Kept
  <2> QED
    BY <2>7 DEF x
<1>12. CASE TellsInterface(j)
  <2>1. I = {j} /\ sig[j].type = "iid"
    BY <1>1, <1>2, <1>12, PlainIID
  <2>2. HoldsIIDs(x)
    <3>1. \A k \in 1..N \ {j} : HoldsIID(w, k) => HoldsIID(x, k)
      BY <1>4, <1>5, <2>1, IIDsStay
    <3> QED
      BY <1>1, <1>9, <2>1, <3>1 DEF HoldsIIDs
  <2>3. ASSUME NEW i \in 1..N, sig[i].type = "iface_is"
        PROVE  /\ AsAsked(x, i)
               /\ i > j \/ ~IsIn(sig[i]) => x.slots[i].val = Null
    <3>1. i # j /\ AsAsked(w, i) /\ x.slots[i].val = w.slots[i].val
      BY <1>1, <1>7, <2>1, <2>3 DEF PreparedAsked
    <3>2. i > j - 1 \/ ~IsIn(sig[i]) => x.slots[i].val = Null
      BY <1>1, <2>3, <3>1 DEF PreparedAsked
    <3>3. CASE sig[i].iid # j
      BY <1>1, <1>4, <1>5, <2>1, <2>3, <3>1, <3>2, <3>3, AskedStays
    <3>4. CASE sig[i].iid = j
      <4>1. IsIn(sig[i]) => j < i
        BY <1>1, <2>3, <3>4, PlainIID
      <4>2. x.slots[i].val = Null
        BY <3>2, <4>1
      <4> QED
        BY <4>2, NullLeadsNowhere DEF AsAsked
    <3> QED
      BY <3>3, <3>4
  <2>4. \A k \in 1..N : TellsInterface(k) => x.slots[k].val = Null \/ x.slots[k].typed
    <3>1. TAKE k \in 1..N
    <3>2. CASE k = j
      BY <1>7, <3>2
    <3>3. CASE k # j
      BY <1>1, <1>7, <2>1, <3>3 DEF PreparedAsked
    <3> QED
      BY <3>2, <3>3
  <2>5. PreparedAsked(x, j)
    BY <1>1, <1>6, <2>2, <2>3, <2>4 DEF PreparedAsked, Kept
  <2> QED
    BY <2>5 DEF x
<1> QED
  BY <1>10, <1>11, <1>12

\* the type of a variant too,
LEMMA TypedAsked ==
  ASSUME NEW N, Asking(N), NEW w, NEW n, PreparedAsked(w, n), NEW j \in 1..N
  PROVE  PreparedAsked(WithType(w, j), n) /\ WithType(w, j).slots[j].typed
<1> DEFINE x == WithType(w, j)
<1>1. N \in Nat /\ w \in Frames(N)
  BY KeptWorking DEF PreparedAsked
<1>2. x \in Frames(N)
  BY <1>1, SlotFlagFrame DEF WithType
<1>3. Wrote(w, x, j, w.slots[j].val)
  BY <1>1, TypedParts
<1>4. x.slots[j].typed
  BY <1>1, FrameFields DEF WithType, IsFrame, Slots
<1> HIDE DEF x
<1>5. PreparedAsked(x, n)
  BY <1>2, <1>3, PreparedFlags
<1> QED
  BY <1>4, <1>5 DEF x

\* the space for a result,
LEMMA SpaceAsked ==
  ASSUME NEW N, Asking(N), NEW w, NEW n, PreparedAsked(w, n), NEW j \in 1..N,
         IsOut(sig[j]) \/ IsDipper(sig[j])
  PROVE  PreparedAsked(PrepareOutVariant(w, j), n)
<1>1. /\ N \in Nat /\ w \in Frames(N) /\ Working(N, w, {j}) /\ w \in Sparing(N, w, {j})
      /\ DOMAIN sig = 1..N
  BY KeptWorking DEF PreparedAsked
<1>2. ~TellsInterface(j)
  BY <1>1, PlainIID
<1>3. CASE sig[j].type = "iface_is"
  <2> DEFINE x == WithIndirect(w, j)
  <2>1. ~IsDipper(sig[j])
    BY <1>1, <1>3, PlainIID
  <2>2. PrepareOutVariant(w, j) = x
    BY <1>3, <2>1 DEF PrepareOutVariant, WithIndirect, IsArithmetic
  <2>3. x \in Frames(N)
    BY <1>1, SlotFlagFrame DEF WithIndirect
  <2>4. Wrote(w, x, j, w.slots[j].val)
    BY <1>1, IndirectParts
  <2> HIDE DEF x
  <2>5. PreparedAsked(x, n)
    BY <2>3, <2>4, PreparedFlags
  <2> QED
    BY <2>2, <2>5
<1>4. CASE sig[j].type # "iface_is"
  <2>1. PrepareOutVariant(w, j) \in Sparing(N, w, {j})
    BY <1>1, SparePrepareOut
  <2>2. \A k \in {j} : ~TellsInterface(k) /\ sig[k].type # "iface_is"
    BY <1>2, <1>4
  <2>3. {j} \in SUBSET (1..N)
    OBVIOUS
  <2> QED
    BY <2>1, <2>2, <2>3, PreparedStays
<1> QED
  BY <1>3, <1>4

\* and that for sizes.
LEMMA TouchSizesAsked ==
  ASSUME NEW N, Asking(N), NEW w, NEW m, PreparedAsked(w, m)
  PROVE  PreparedAsked(TouchSizes(w), m)
<1> DEFINE n == Len(sig)
           F == {x \in Frames(N) : PreparedAsked(x, m)}
           Step(y, j) == IF IsOut(sig[j]) /\ AutoOut(sig, j) /\ ~y.slots[j].auto
                          THEN PrepareOutVariant(y, j) ELSE y
           f == [p \in F \X (1..n) |-> Step(p[1], p[2])]
           id == [j \in DOMAIN sig |-> j]
           Eqn(h) == h = [t \in SUBSET (DOMAIN id) |->
                            IF t = {} THEN w ELSE Step(h[t \ {Max(t)}], id[Max(t)])]
<1>1. /\ n \in Nat /\ DOMAIN sig = 1..n
      /\ DOMAIN id = 1..n /\ \A j \in 1..n : id[j] = j
  BY SigFields DEF Asking
<1>2. \A y \in F, j \in 1..n : Step(y, j) \in F
  <2> SUFFICES ASSUME NEW x \in Frames(N), PreparedAsked(x, m), NEW j \in 1..N, IsOut(sig[j])
               PROVE  /\ PrepareOutVariant(x, j) \in Frames(N)
                      /\ PreparedAsked(PrepareOutVariant(x, j), m)
    BY DEF Asking
  <2> DEFINE y == PrepareOutVariant(x, j)
  <2>1. PreparedAsked(y, m)
    BY SpaceAsked
  <2> HIDE DEF y
  <2>2. y \in Frames(N)
    BY <2>1, KeptWorking DEF PreparedAsked
  <2> QED
    BY <2>1, <2>2 DEF y
<1>3. w \in F
  BY KeptWorking DEF PreparedAsked
<1>4. \E g : Eqn(g)
  <2>1. f \in [F \X (1..n) -> F]
    <3> HIDE DEF F, Step, id
    <3> QED
      BY <1>2
  <2>2. PICK g : FoldFrom(g, F, n, f, w)
    <3> HIDE DEF F, f, n, id
    <3>1. n \in Nat
      BY <1>1
    <3> QED
      BY <1>3, <2>1, <3>1, FoldExists
  <2>3. \A t \in SUBSET (1..n) :
          g[t] = IF t = {} THEN w ELSE Step(g[t \ {Max(t)}], id[Max(t)])
    <3> HIDE DEF F, Step, id
    <3> SUFFICES ASSUME NEW t \in SUBSET (1..n), t # {}
                 PROVE  g[t] = Step(g[t \ {Max(t)}], id[Max(t)])
      BY <2>2 DEF FoldFrom
    <3> QED
      BY <1>1, <2>2 DEF FoldFrom
  <2>4. Eqn(g)
    <3>1. g = [t \in SUBSET (1..n) |-> g[t]]
      BY <2>2 DEF FoldFrom
    <3>2. SUBSET (DOMAIN id) = SUBSET (1..n)
      BY <1>1
    <3> HIDE DEF F, Step, id
    <3>3. [t \in SUBSET (1..n) |-> g[t]] =
            [t \in SUBSET (1..n) |->
               IF t = {} THEN w ELSE Step(g[t \ {Max(t)}], id[Max(t)])]
      BY <2>3, Zenon
    <3> QED
      BY <3>1, <3>2, <3>3
  <2> HIDE DEF Eqn
  <2> QED
    BY <2>4
<1> DEFINE h == CHOOSE h : Eqn(h)
<1>5. Eqn(h)
  <2> HIDE DEF Eqn
  <2> QED
    BY <1>4
<1>6. TouchSizes(w) = h[1..n]
  <2>1. TouchSizes(w) = h[DOMAIN id]
    BY DEF TouchSizes, FoldLeftDomain, FoldLeft, MapThenFoldSet
  <2> HIDE DEF h, id
  <2> QED
    BY <1>1, <2>1
<1>7. h[1..n] \in F
  <2> HIDE DEF h
  <2>1. h[{}] \in F
    <3> HIDE DEF F, id
    <3> QED
      BY <1>3, <1>5
  <2>2. ASSUME NEW t \in SUBSET (1..n), t # {}, h[t \ {Max(t)}] \in F
        PROVE  h[t] = f[<<h[t \ {Max(t)}], Max(t)>>]
    <3> HIDE DEF F, Step, id
    <3>1. Max(t) \in 1..n
      BY <1>1, <2>2, MaxOfFinite
    <3> QED
      BY <1>1, <1>5, <2>2, <3>1
  <2>3. f \in [F \X (1..n) -> F]
    <3> HIDE DEF F, Step, id
    <3> QED
      BY <1>2
  <2> HIDE DEF F, f, id
  <2> QED
    BY <1>1, <2>1, <2>2, <2>3, FoldEnds
<1> QED
  BY <1>6, <1>7

\* ProcessPythonTypeDescriptors leaves the IIDs of a signature.
LEMMA RepairedIIDs ==
  ASSUME NEW s, WellTyped(s), IIDsPlain(s)
  PROVE  IIDsPlain(Repaired(s))
<1> DEFINE r == Repaired(s)
<1>1. DOMAIN r = DOMAIN s
  BY DEF Repaired
<1>2. ASSUME NEW i \in DOMAIN s
      PROVE  /\ r[i].type = s[i].type /\ r[i].size = s[i].size /\ r[i].length = s[i].length
             /\ r[i].iid = s[i].iid
             /\ IsOut(r[i]) <=> IsOut(s[i])
             /\ IsRetval(r[i]) <=> IsRetval(s[i])
             /\ IsDipper(r[i]) <=> IsDipper(s[i])
             /\ ~IsDipper(s[i]) => r[i] = s[i]
  <2> DEFINE e == [s[i] EXCEPT !.flags = @ \cup {"in"}]
  <2>1. s[i] \in Descriptors
    BY SigFields
  <2>2. r[i] = IF IsDipper(s[i]) /\ ~IsIn(s[i]) /\ ~IsOut(s[i]) THEN e ELSE s[i]
    BY DEF Repaired
  <2>3. /\ e.type = s[i].type /\ e.size = s[i].size /\ e.length = s[i].length
        /\ e.iid = s[i].iid /\ e.flags = s[i].flags \cup {"in"}
    BY <2>1 DEF Descriptors
  <2>4. /\ IsOut(e) <=> IsOut(s[i])
        /\ IsRetval(e) <=> IsRetval(s[i])
        /\ IsDipper(e) <=> IsDipper(s[i])
    <3> HIDE DEF e
    <3> QED
      BY <2>3 DEF IsOut, IsRetval, IsDipper
  <2> HIDE DEF r, e
  <2> QED
    BY <2>2, <2>3, <2>4
<1> HIDE DEF r
<1>3. \A i, k \in DOMAIN s : Counts(r, k, i) <=> Counts(s, k, i)
  BY <1>2 DEF Counts
<1>4. SUFFICES ASSUME AsksInterface(s) PROVE IIDsPlain(r)
  <2>1. AsksInterface(r) => AsksInterface(s)
    BY <1>1, <1>2 DEF AsksInterface
  <2>2. ~AsksInterface(s) => IIDsPlain(r)
    BY <2>1 DEF IIDsPlain
  <2> QED
    BY <2>2 DEF r
<1>5. \A i \in DOMAIN s : s[i].type \in {"array", "iface_is"} => r[i] = s[i]
  BY <1>2, <1>4 DEF IIDsPlain
<1>6. \A i, k \in DOMAIN r :
        Counts(r, k, i) =>
          /\ r[k].type = "num"
          /\ r[i].type = "array" /\ IsIn(r[i]) /\ (IsOut(r[i]) \/ IsRetval(r[i])) =>
               IsOut(r[k])
  BY <1>1, <1>2, <1>3, <1>4, <1>5 DEF IIDsPlain
<1>7. ASSUME NEW i \in DOMAIN s, s[i].type = "iface_is" PROVE s[i].iid \in DOMAIN s
  BY <1>7 DEF WellTyped, WellFormed
<1>8. \A i \in DOMAIN r :
        /\ IsDipper(r[i]) => r[i].type \in {"astring", "cstring", "utf8"}
        /\ r[i].type = "iface_is" =>
             LET k == r[i].iid
             IN /\ r[k].type = "iid" /\ ~IsOut(r[k]) /\ ~IsRetval(r[k])
                /\ IsIn(r[i]) => k < i
  BY <1>1, <1>2, <1>4, <1>5, <1>7 DEF IIDsPlain
<1> QED
  BY <1>6, <1>8 DEF IIDsPlain

-----------------------------------------------------------------------------
(***************************************************************************)
(* The results of a method: what comes back is as it was asked for.        *)
(***************************************************************************)

\* The contents of what a slot points to.
LEMMA SpareContents ==
  ASSUME NEW N, NEW w, NEW I, Working(N, w, I), NEW x \in Sparing(N, w, I), NEW i \in I,
         sig[i].type \in FilledInPlace, NEW u \in Held
  PROVE  [x EXCEPT !.mem[x.slots[i].val.n].of = u] \in Sparing(N, w, I)
<1> DEFINE c == x.slots[i].val
           b == c.n
           e == [x.mem[b] EXCEPT !.of = u]
           y == [x EXCEPT !.mem[b].of = u]
<1>1. /\ N \in Nat /\ x \in Frames(N) /\ IsFrame(N, x) /\ i \in 1..N /\ DOMAIN sig = 1..N
      /\ w \in Sound(N) /\ I \in SUBSET (1..N) /\ Closed(x) /\ InPlace(x)
  BY Work DEF Sound
<1>2. c \in CellValues /\ InMemory(x, c) /\ Points(c) /\ Allowed(w, I, c)
  BY <1>1, SlotNumbers, AllowedCells DEF InPlace
<1>3. y \in Frames(N)
  <2> HIDE DEF b
  <2> QED
    BY <1>1, ContentsFrame
<1>4. y = [x EXCEPT !.mem = [x.mem EXCEPT ![b] = e]]
  OBVIOUS
<1>5. y.slots = x.slots /\ y.mem = [x.mem EXCEPT ![b] = e]
  <2> HIDE DEF b, e, y
  <2> QED
    BY <1>1, <1>4, FrameUpdates
<1>6. CASE b \in DOMAIN x.mem
  <2>1. c = Ptr(b)
    <3>1. c.is = "ptr"
      <4>1. Null.n = 0
        BY DEF Null, Cell
      <4>2. 0 \notin DOMAIN x.mem
        BY <1>1 DEF IsFrame
      <4> HIDE DEF c
      <4> QED
        BY <1>2, <1>6, <4>1, <4>2 DEF Points
    <3> QED
      BY <1>2, <3>1, PointerIs
  <2>2. x.mem[b] \in Blocks
    BY <1>1, <1>6 DEF IsFrame
  <2>3. e.as = x.mem[b].as /\ e.live = x.mem[b].live /\ e.cells = x.mem[b].cells
    BY <2>2 DEF Blocks
  <2>4. \A q \in DOMAIN e.cells : Allowed(w, I, e.cells[q]) /\ InMemory(x, e.cells[q])
    BY <1>1, <1>6, <2>3, AllowedCells DEF Closed
  <2>5. Allowed(w, I, Ptr(b))
    BY <1>2, <2>1
  <2> HIDE DEF b, e, y
  <2>6. y \in Sparing(N, w, I)
    BY <1>1, <1>3, <1>5, <1>6, <2>3, <2>4, <2>5, SpareBlock
  <2> QED
    BY <2>6 DEF y, b
<1>7. CASE b \notin DOMAIN x.mem
  <2>1. [x.mem EXCEPT ![b] = e] = x.mem
    <3> HIDE DEF b, e, y
    <3>1. x.mem \in Seq(Blocks)
      BY <1>1 DEF IsFrame
    <3> QED
      BY <1>7, <3>1
  <2> HIDE DEF b, e, y
  <2>2. y \in Sparing(N, w, I)
    BY <1>1, <1>3, <1>5, <2>1, SpareFlags
  <2> QED
    BY <2>2 DEF y, b
<1> QED
  BY <1>6, <1>7

\* Dropping what a parameter held,
LEMMA SpareDropped ==
  ASSUME NEW N, NEW w, NEW I, Working(N, w, I), NEW x \in Sparing(N, w, I), NEW i \in I
  PROVE  Dropped(x, i) \in Sparing(N, w, I)
<1> DEFINE c == x.slots[i].val
           y == Free(x, c)
<1>1. N \in Nat /\ x \in Frames(N) /\ i \in 1..N /\ w \in Sound(N) /\ I \in SUBSET (1..N)
  BY Work
<1>2. c \in CellValues /\ Allowed(w, I, c)
  BY <1>1, SlotNumbers, AllowedCells
<1> HIDE DEF c
<1>3. y \in Sparing(N, w, I)
  BY <1>2, SpareFree
<1> HIDE DEF y
<1>4. Put(y, i, Null) \in Sparing(N, w, I) /\ Put(x, i, Null) \in Sparing(N, w, I)
  BY <1>3, SparePut
<1> QED
  BY <1>4 DEF Dropped, c, y

\* A size that comes back.
Counted(w, k, n) == [w EXCEPT !.slots[k] = [@ EXCEPT !.val = Num(n), !.filled = TRUE]]

\* It changes its parameter only.
LEMMA CountedParts ==
  ASSUME NEW N \in Nat, NEW w \in Frames(N), NEW k \in 1..N, NEW n \in Nat, n < Word
  PROVE  Counted(w, k, n) \in Frames(N) /\ Wrote(w, Counted(w, k, n), k, Num(n))
<1>0. IsFrame(N, w) /\ w.slots[k] \in Slots
  BY FrameFields DEF IsFrame
<1> DEFINE x == Counted(w, k, n)
           t == [w.slots[k] EXCEPT !.val = Num(n), !.filled = TRUE]
           s == [w.slots EXCEPT ![k] = t]
<1>1. x = [w EXCEPT !.slots = s]
  BY DEF Counted
<1>2. x = [slots |-> s, mem |-> w.mem, faults |-> w.faults, err |-> w.err, ok |-> w.ok]
  BY <1>1, FrameUpdates
<1>3. t.val = Num(n) /\ t.typed = w.slots[k].typed /\ t.auto = w.slots[k].auto
  BY <1>0 DEF Slots
<1> HIDE DEF t
<1>4. s[k] = t /\ \A j \in 1..N \ {k} : s[j] = w.slots[j]
  BY <1>0 DEF IsFrame
<1>5. x \in Frames(N)
  BY SizeFrame DEF Counted
<1> HIDE DEF s, x
<1>6. Keeps(w, x, {k})
  BY <1>0, <1>2, <1>3, <1>4 DEF Keeps, IsFrame
<1> QED
  BY <1>2, <1>3, <1>4, <1>5, <1>6 DEF x, Wrote

\* A size of a result,
LEMMA SpareBackFillSize ==
  ASSUME NEW N, NEW w, NEW I, Working(N, w, I), NEW x \in Sparing(N, w, I), NEW k \in I,
         sig[k].type = "num", NEW n \in Nat, n < Word
  PROVE  BackFillSize(x, k, n) \in Sparing(N, w, I)
<1> DEFINE y == Counted(x, k, n)
<1>1. N \in Nat /\ x \in Frames(N) /\ k \in 1..N /\ w \in Sound(N) /\ I \in SUBSET (1..N)
  BY Work
<1>2. y \in Frames(N) /\ Wrote(x, y, k, Num(n))
  BY <1>1, CountedParts
<1>3. sig[k].type \notin FilledInPlace /\ Allowed(w, I, Num(n))
  BY DEF FilledInPlace, Allowed, Num, Cell
<1> HIDE DEF y
<1>4. y \in Sparing(N, w, I)
  BY <1>1, <1>2, <1>3, SpareWrote, Work
<1>5. Raise(x) \in Sparing(N, w, I)
  BY SpareRaise
<1> QED
  BY <1>4, <1>5 DEF BackFillSize, y, Counted

\* a number, a character or an IID,
LEMMA SpareBackFillScalar ==
  ASSUME NEW N, NEW w, NEW I, Working(N, w, I), NEW x \in Sparing(N, w, I), NEW i \in I,
         NEW v \in Handled
  PROVE  /\ sig[i].type = "num" => BackFillNumber(x, i, v) \in Sparing(N, w, I)
         /\ sig[i].type = "char" => BackFillChar(x, i, v) \in Sparing(N, w, I)
         /\ BackFillIID(x, i, v) \in Sparing(N, w, I)
<1>1. 0 \in Nat /\ 0 < Word /\ 1 \in Nat /\ 1 < Word
  BY WidthAssumption
<1>2. sig[i].type \in {"num", "char"} =>
        \A n \in Nat : n < Word => Put(x, i, Num(n)) \in Sparing(N, w, I)
  BY SparePut DEF FilledInPlace
<1>3. Raise(x) \in Sparing(N, w, I)
  BY SpareRaise
<1>4. ASSUME sig[i].type = "num" PROVE BackFillNumber(x, i, v) \in Sparing(N, w, I)
  <2> DEFINE y == Put(x, i, Num(Cut(-1)))
             long == [y EXCEPT !.err = "error"]
  <2>1. IsNumber(v) => Cut(v.n) \in Nat /\ Cut(v.n) < Word
    BY Numbers, CutFits
  <2>2. Cut(-1) \in Nat /\ Cut(-1) < Word
    BY CutFits
  <2>3. y \in Sparing(N, w, I)
    BY <1>2, <1>4, <2>2
  <2> HIDE DEF y
  <2>4. long \in Sparing(N, w, I)
    BY <2>3, SpareRaise
  <2>5. IsNumber(v) => Put(x, i, Num(Cut(v.n))) \in Sparing(N, w, I)
    BY <1>2, <1>4, <2>1
  <2> HIDE DEF long
  <2> QED
    BY <1>3, <2>4, <2>5 DEF BackFillNumber, long, y
<1>5. sig[i].type = "char" => BackFillChar(x, i, v) \in Sparing(N, w, I)
  BY <1>2, <1>3, FirstCharFits DEF BackFillChar
<1>6. BackFillIID(x, i, v) \in Sparing(N, w, I)
  <2> DEFINE y == Dropped(x, i)
  <2>1. y \in Sparing(N, w, I)
    BY SpareDropped
  <2> HIDE DEF y
  <2>2. PutNew(y, i, Block(v)) \in Sparing(N, w, I)
    BY <2>1, SparePuts
  <2> QED
    BY <1>3, <2>2 DEF BackFillIID, y
<1> QED
  BY <1>4, <1>5, <1>6

\* text without a size,
LEMMA SpareBackFillText ==
  ASSUME NEW N, NEW w, NEW I, Working(N, w, I), NEW x \in Sparing(N, w, I), NEW i \in I,
         NEW v \in Handled
  PROVE  /\ sig[i].type \in {"astring", "cstring", "utf8"} =>
              BackFillDipper(x, i, v) \in Sparing(N, w, I)
         /\ BackFillString(x, i, v) \in Sparing(N, w, I)
<1>1. ASSUME sig[i].type \in {"astring", "cstring", "utf8"}
      PROVE  BackFillDipper(x, i, v) \in Sparing(N, w, I)
  <2>1. Plain(v) \in Held
    BY HandledShape
  <2>2. [x EXCEPT !.mem[x.slots[i].val.n].of = Plain(v)] \in Sparing(N, w, I)
    BY <1>1, <2>1, SpareContents DEF FilledInPlace
  <2>3. Crash(x) \in Sparing(N, w, I) /\ Raise(x) \in Sparing(N, w, I)
    BY SpareRaise
  <2> QED
    BY <2>2, <2>3 DEF BackFillDipper
<1>2. BackFillString(x, i, v) \in Sparing(N, w, I)
  <2> DEFINE y == Dropped(x, i)
  <2>1. y \in Sparing(N, w, I)
    BY SpareDropped
  <2> HIDE DEF y
  <2>2. /\ PutNew(y, i, Block(Plain(v))) \in Sparing(N, w, I)
        /\ Crash(y) \in Sparing(N, w, I) /\ Raise(y) \in Sparing(N, w, I)
    BY <2>1, SparePuts
  <2> QED
    BY <2>1, <2>2 DEF BackFillString, y
<1> QED
  BY <1>1, <1>2

\* text with a size,
LEMMA SpareBackFillSized ==
  ASSUME NEW N, NEW w, NEW I, Working(N, w, I), NEW x \in Sparing(N, w, I), NEW i \in I,
         NEW v \in Handled, Fits(v), IsSized(sig[i].type), sig[i].size \in I
  PROVE  BackFillSized(x, i, v) \in Sparing(N, w, I)
<1> DEFINE k == sig[i].size
           n == IF v = None THEN 0 ELSE v.n
           y == Dropped(x, i)
           z == PutNew(y, i, Block(Plain(v)))
           filled == IF v = None THEN y ELSE z
           a == Allocate(x, Block(Plain(v)))
<1>1. N \in Nat /\ DOMAIN sig = 1..N /\ i \in 1..N
  BY Work
<1>2. sig[k].type = "num" /\ k \in I
  <2>1. Counts(sig, k, i) /\ k \in 1..N
    BY Work DEF Counts
  <2> QED
    BY <1>1, <2>1, Work
<1>3. v = None \/ IsText(v) => n \in Nat /\ n < Word
  <2>1. IsText(v) => ~IsSequence(v)
    BY DEF IsText, IsSequence
  <2> QED
    BY <2>1, Numbers, WidthAssumption DEF Fits, Length
<1>4. y \in Sparing(N, w, I)
  BY SpareDropped
<1>5. z \in Sparing(N, w, I)
  <2> HIDE DEF y
  <2> QED
    BY <1>4, SparePuts
<1>6. filled \in Sparing(N, w, I)
  BY <1>4, <1>5
<1>7. v = None \/ IsText(v) => BackFillSize(filled, k, n) \in Sparing(N, w, I)
  <2> HIDE DEF filled, n, k
  <2> QED
    BY <1>2, <1>3, <1>6, SpareBackFillSize
<1>8. Raise(a) \in Sparing(N, w, I) /\ Raise(x) \in Sparing(N, w, I) /\ Crash(x) \in Sparing(N, w, I)
  <2>1. a \in Sparing(N, w, I)
    <3>1. Block(Plain(v)) \in Flat
      BY HandledShape, FlatBlocks
    <3> QED
      BY <3>1, SpareNew
  <2> HIDE DEF a
  <2> QED
    BY <2>1, SpareRaise
<1>9. [x EXCEPT !.mem[x.slots[i].val.n].of = Plain(v)] \in Sparing(N, w, I)
  <2>1. sig[i].type \in FilledInPlace
    BY DEF IsSized, FilledInPlace
  <2>2. Plain(v) \in Held
    BY HandledShape
  <2> QED
    BY <2>1, <2>2, SpareContents
<1> HIDE DEF filled, a
<1> QED
  BY <1>6, <1>7, <1>8, <1>9 DEF BackFillSized, filled, a

\* and an array, if it is not to be filled where it is.
LEMMA SpareBackFillArray ==
  ASSUME NEW N, NEW w, NEW I, Working(N, w, I), NEW x \in Sparing(N, w, I), NEW i \in I,
         NEW v \in Handled, Fits(v), sig[i].type = "array", sig[i].length \in I,
         IsIn(sig[i]) => IsOut(sig[sig[i].length])
  PROVE  BackFillArray(x, i, v) \in Sparing(N, w, I)
<1> DEFINE k == sig[i].length
           elem == sig[i].elem
           cell == x.slots[i].val
           existing == x.slots[k].val.n
           items == IF v = None THEN <<>> ELSE Items(v, elem)
           freed == FreeSingleArray(x, cell, existing, elem)
           y == IF IsIn(sig[i]) /\ cell # Null THEN Dropped(freed, i) ELSE Put(x, i, Null)
           new == PutNew(y, i, Array(Times(Len(items), Null)))
           filled == FillSingleArray(new, Newest(new).n, elem, items)
<1>1. N \in Nat /\ DOMAIN sig = 1..N /\ i \in 1..N /\ x \in Frames(N) /\ k \in 1..N
  BY Work
<1>2. sig[k].type = "num" /\ k \in I
  <2>1. Counts(sig, k, i)
    BY DEF Counts
  <2> QED
    BY <1>1, <2>1, Work
<1>3. v = None \/ HasItems(v) => items \in Seq(Handled) /\ Len(items) \in Nat /\ Len(items) < Word
  <2>1. CASE v = None
    <3>1. items = <<>> /\ 0 < Word
      BY <2>1, WidthAssumption
    <3>2. <<>> \in Seq(Handled) /\ Len(<<>>) = 0
      OBVIOUS
    <3> HIDE DEF items
    <3> QED
      BY <3>1, <3>2
  <2>2. CASE v # None /\ HasItems(v)
    <3>1. items = Items(v, elem)
      BY <2>2
    <3> QED
      BY <2>2, <3>1, ItemsKind
  <2> QED
    BY <2>1, <2>2
<1>4. y \in Sparing(N, w, I)
  <2>1. existing \in Nat /\ InMemory(x, cell)
    BY <1>1, SlotNumbers
  <2> HIDE DEF existing, cell
  <2>2. freed \in Sparing(N, w, I)
    BY <2>1, SpareFreeArray
  <2> HIDE DEF freed
  <2>3. Dropped(freed, i) \in Sparing(N, w, I)
    BY <2>2, SpareDropped
  <2>4. Put(x, i, Null) \in Sparing(N, w, I)
    BY SparePut
  <2> QED
    BY <2>3, <2>4
<1> HIDE DEF y, items
<1>5. v = None \/ HasItems(v) => filled \in Sparing(N, w, I)
  BY <1>3, <1>4, SpareNewArray
<1>6. v = None \/ HasItems(v) => BackFillSize(filled, k, Len(items)) \in Sparing(N, w, I)
  <2> HIDE DEF filled, k
  <2> QED
    BY <1>2, <1>3, <1>5, SpareBackFillSize
<1>7. Raise(x) \in Sparing(N, w, I) /\ Crash(x) \in Sparing(N, w, I)
  BY SpareRaise
<1> HIDE DEF filled
<1> QED
  BY <1>4, <1>5, <1>6, <1>7 DEF BackFillArray, y, filled, items

\* A result that is an interface is stored as the one that its IID says.
LEMMA SpareBackFillInterface ==
  ASSUME NEW N, NEW w, NEW I, Working(N, w, I), NEW x \in Sparing(N, w, I), NEW i \in I
  PROVE  /\ \A v \in Handled : BackFillInterface(x, i, v) \in Sparing(N, w, I)
         /\ \A v \in Handled :
              LET y == BackFillInterface(x, i, v) IN
              sig[i].type = "iface_is" /\ ~IsIn(sig[i]) /\ y.ok /\ y.slots[i].val # Null =>
                y.mem[y.slots[i].val.n].as = IIDFor(x, sig[i].iid)
<1> SUFFICES ASSUME NEW v \in Handled
             PROVE  LET y == BackFillInterface(x, i, v) IN
                    /\ y \in Sparing(N, w, I)
                    /\ sig[i].type = "iface_is" /\ ~IsIn(sig[i]) /\ y.ok /\ y.slots[i].val # Null =>
                         y.mem[y.slots[i].val.n].as = IIDFor(x, sig[i].iid)
  OBVIOUS
<1> DEFINE p == sig[i]
           iid == CASE p.type = "iface" -> p.iid
                    [] p.type = "iface_is" -> IIDFor(x, p.iid)
                    [] OTHER -> Supports
           new == InterfaceFromPyObject(x, v, p.type, iid)
           a == new[1]
           c == new[2]
           d == Dropped(a, i)
           z == Put(d, i, c)
           y == BackFillInterface(x, i, v)
<1>1. N \in Nat /\ x \in Frames(N) /\ i \in 1..N /\ DOMAIN sig = 1..N
      /\ Sparing(N, w, I) \subseteq Frames(N) /\ WellTyped(sig) /\ N = Len(sig)
  BY Work
<1>2. iid \in Interfaces /\ (p.type = "iface_is" => iid = IIDFor(x, p.iid))
  <2>1. p.type = "iface_is" => IIDFor(x, p.iid) \in Interfaces
    <3>1. p.type = "iface_is" => Pointee(x, x.slots[p.iid].val).n \in Interfaces
      BY <1>1, SigFields, SlotNumbers, PointeeHeld
    <3> QED
      BY <3>1, Constants DEF IIDFor
  <2>2. p.iid \in Interfaces
    BY <1>1, SigFields, Constants
  <2> QED
    BY <2>1, <2>2, Constants
<1>3. /\ a \in Sparing(N, w, I) /\ c \in CellValues /\ InMemory(a, c) /\ Allowed(w, I, c)
      /\ Points(c) /\ a.slots = x.slots
      /\ p.type # "variant" /\ c # Null => a.mem[c.n].as = iid
  <2> HIDE DEF iid
  <2> QED
    BY <1>2, SpareInterface
<1>4. y = IF a.ok THEN z ELSE a
  BY DEF BackFillInterface
<1> HIDE DEF iid, a, c, y
<1>5. d \in Sparing(N, w, I)
  BY <1>3, SpareDropped
<1>6. DOMAIN d.mem = DOMAIN a.mem /\ (~IsIn(p) => d.mem = a.mem)
  <2>1. \A q \in Frames(N) : Put(q, i, Null).mem = q.mem
    BY FrameUpdates, <1>1 DEF Put
  <2>2. Free(a, a.slots[i].val) \in Frames(N)
        /\ DOMAIN Free(a, a.slots[i].val).mem = DOMAIN a.mem
    BY <1>1, <1>3, FreeFrame
  <2> QED
    BY <1>1, <1>3, <2>1, <2>2 DEF Dropped
<1> HIDE DEF d
<1>7. InMemory(d, c)
  BY <1>3, <1>6 DEF InMemory
<1>8. z \in Sparing(N, w, I) /\ Wrote(d, z, i, c)
  BY <1>1, <1>3, <1>5, <1>7, SparePut, PutParts
<1> HIDE DEF z
<1>9. z.slots[i].val = c /\ z.mem = d.mem
  BY <1>8 DEF Wrote
<1>10. y \in Sparing(N, w, I)
  BY <1>3, <1>4, <1>8
<1>11. p.type = "iface_is" /\ ~IsIn(p) /\ y.ok /\ y.slots[i].val # Null =>
         y.mem[y.slots[i].val.n].as = IIDFor(x, p.iid)
  BY <1>2, <1>3, <1>4, <1>6, <1>9
<1> QED
  BY <1>10, <1>11 DEF y

\* BackFillVariant.
LEMMA SpareBackFill ==
  ASSUME NEW N, NEW w, NEW I, Working(N, w, I), NEW x \in Sparing(N, w, I), NEW i \in I,
         \A k \in 1..N : Counts(sig, k, i) => k \in I, NEW v \in Handled, Fits(v),
         IsOut(sig[i]) \/ IsRetval(sig[i]) \/ IsDipper(sig[i])
  PROVE  BackFillVariant(x, i, v) \in Sparing(N, w, I)
<1>1. /\ DOMAIN sig = 1..N /\ i \in 1..N /\ WellTyped(sig) /\ N = Len(sig)
      /\ AsksInterface(sig) /\ IIDsPlain(sig)
  BY Work DEF Working, Asking
<1>2. /\ IsSized(sig[i].type) => sig[i].size \in 1..N
      /\ sig[i].type = "array" => sig[i].length \in 1..N
  BY <1>1, SigFields
<1>3. ASSUME sig[i].type = "array", IsIn(sig[i]) PROVE IsOut(sig[sig[i].length])
  <2>1. Counts(sig, sig[i].length, i)
    BY <1>3 DEF Counts
  <2>2. ~IsDipper(sig[i])
    BY <1>1, <1>3 DEF IIDsPlain
  <2> QED
    BY <1>1, <1>2, <1>3, <2>1, <2>2 DEF IIDsPlain
<1>4. /\ sig[i].type = "num" => BackFillNumber(x, i, v) \in Sparing(N, w, I)
      /\ sig[i].type = "char" => BackFillChar(x, i, v) \in Sparing(N, w, I)
      /\ BackFillIID(x, i, v) \in Sparing(N, w, I)
  BY SpareBackFillScalar
<1>5. /\ sig[i].type \in {"astring", "cstring", "utf8"} =>
           BackFillDipper(x, i, v) \in Sparing(N, w, I)
      /\ BackFillString(x, i, v) \in Sparing(N, w, I)
  BY SpareBackFillText
<1>6. BackFillInterface(x, i, v) \in Sparing(N, w, I)
  BY SpareBackFillInterface
<1>7. IsSized(sig[i].type) => BackFillSized(x, i, v) \in Sparing(N, w, I)
  BY <1>2, SpareBackFillSized DEF Counts
<1>8. sig[i].type = "array" => BackFillArray(x, i, v) \in Sparing(N, w, I)
  BY <1>2, <1>3, SpareBackFillArray DEF Counts
<1> QED
  BY <1>4, <1>5, <1>6, <1>7, <1>8 DEF BackFillVariant

\* Interfaces that only come back are as asked,
ResultsAsked(w) ==
  \A i \in DOMAIN sig : sig[i].type = "iface_is" /\ ~IsIn(sig[i]) => AsAsked(w, i)

\* if nothing has failed.
Answered(w) == Kept(w) /\ (w.ok => ResultsAsked(w))

\* What comes back.
ComesBack(i) == IsOut(sig[i]) \/ IsRetval(sig[i]) \/ IsDipper(sig[i])

\* Working on results leaves the others as asked.
LEMMA ResultsStay ==
  ASSUME NEW N, Asking(N), NEW w, Kept(w), ResultsAsked(w), NEW i \in 1..N, ComesBack(i),
         NEW x \in Sparing(N, w, WithSizes(i))
  PROVE  /\ Kept(x)
         /\ \A j \in 1..N \ {i} : sig[j].type = "iface_is" /\ ~IsIn(sig[j]) => AsAsked(x, j)
<1> DEFINE I == WithSizes(i)
<1>1. Working(N, w, {}) /\ DOMAIN sig = 1..N /\ N = Len(sig) /\ HoldsIIDs(w) /\ IsFrame(N, w)
  BY KeptWorking
<1>2. /\ I \in SUBSET (1..N) /\ i \in I
      /\ TellsInterface(i) \/ sig[i].type = "iface_is" => I = {i}
      /\ ~TellsInterface(i) /\ sig[i].type # "iface_is" =>
           \A k \in I : ~TellsInterface(k) /\ sig[k].type # "iface_is"
  BY <1>1, SizesAskNothing DEF WithSizes
<1>3. ~TellsInterface(i)
  BY <1>1, PlainIID DEF ComesBack
<1>4. \A k \in I : ~TellsInterface(k)
  BY <1>2, <1>3
<1>5. \A j \in 1..N \ {i} : sig[j].type = "iface_is" => j \notin I
  BY <1>2, <1>3
<1> HIDE DEF I
<1>6. Working(N, w, I)
  BY <1>2, KeptWorking
<1>7. x \in Sparing(N, w, I) /\ x \in Sound(N) /\ Spares(w, x, I)
  BY DEF Sparing, I
<1>8. HoldsIIDs(x)
  BY <1>1, <1>4, <1>6, <1>7, AllIIDsStay
<1>9. ASSUME NEW j \in 1..N \ {i}, sig[j].type = "iface_is", ~IsIn(sig[j])
      PROVE  AsAsked(x, j)
  <2>1. sig[j].iid \notin I
    BY <1>1, <1>4, <1>9 DEF TellsInterface
  <2>2. x.slots[j].val = w.slots[j].val
    BY <1>1, <1>5, <1>7, <1>9 DEF Spares, IsFrame
  <2>3. AsAsked(w, j)
    BY <1>1, <1>9 DEF ResultsAsked
  <2> QED
    BY <1>1, <1>6, <1>7, <1>9, <2>1, <2>2, <2>3, AskedStays
<1> QED
  BY <1>1, <1>7, <1>8, <1>9 DEF Kept

\* A result.
LEMMA BackFilledAsked ==
  ASSUME NEW N, Asking(N), NEW w, Kept(w), ResultsAsked(w), NEW i \in 1..N, ComesBack(i),
         NEW v \in Handled, Fits(v)
  PROVE  Answered(BackFillVariant(w, i, v))
<1> DEFINE I == WithSizes(i)
           y == BackFillVariant(w, i, v)
           k == sig[i].iid
<1>1. /\ DOMAIN sig = 1..N /\ N = Len(sig) /\ Working(N, w, {}) /\ HoldsIIDs(w)
      /\ w \in Frames(N)
  BY KeptWorking
<1>2. /\ I \in SUBSET (1..N) /\ i \in I /\ \A q \in 1..N : Counts(sig, q, i) => q \in I
      /\ sig[i].type = "iface_is" => I = {i}
  BY <1>1, SizesAskNothing DEF WithSizes
<1> HIDE DEF I
<1>3. Working(N, w, I) /\ w \in Sparing(N, w, I)
  BY <1>2, KeptWorking
<1>4. y \in Sparing(N, w, I)
  BY <1>2, <1>3, SpareBackFill DEF ComesBack
<1>5. /\ Kept(y)
      /\ \A j \in 1..N \ {i} : sig[j].type = "iface_is" /\ ~IsIn(sig[j]) => AsAsked(y, j)
  <2> HIDE DEF y
  <2>1. y \in Sparing(N, w, WithSizes(i))
    BY <1>4 DEF I
  <2> QED
    BY <2>1, ResultsStay
<1>6. ASSUME sig[i].type = "iface_is", ~IsIn(sig[i]), y.ok PROVE AsAsked(y, i)
  <2> DEFINE z == BackFillInterface(w, i, v)
  <2>1. y = w \/ y = z
    <3>1. /\ sig[i].type = "iface_is" /\ IsInterface(sig[i].type)
          /\ ~IsString(sig[i].type) /\ ~IsSized(sig[i].type)
      BY <1>6 DEF IsInterface, IsString, IsSized
    <3> HIDE DEF z
    <3> QED
      BY <3>1 DEF BackFillVariant, z
  <2>2. y = w => AsAsked(y, i)
    BY <1>1, <1>6 DEF ResultsAsked
  <2>3. ASSUME y = z, Live(y, y.slots[i].val)
        PROVE  y.mem[y.slots[i].val.n].as = Pointee(y, y.slots[k].val).n
    <3>1. y.slots[i].val # Null
      BY <2>3, NullLeadsNowhere
    <3>2. y.mem[y.slots[i].val.n].as = IIDFor(w, k)
      <4>1. \A u \in Handled :
              LET r == BackFillInterface(w, i, u) IN
              sig[i].type = "iface_is" /\ ~IsIn(sig[i]) /\ r.ok /\ r.slots[i].val # Null =>
                r.mem[r.slots[i].val.n].as = IIDFor(w, sig[i].iid)
        BY <1>2, <1>3, SpareBackFillInterface
      <4>2. z.ok /\ z.slots[i].val # Null
        BY <1>6, <2>3, <3>1
      <4>3. z.mem[z.slots[i].val.n].as = IIDFor(w, k)
        <5> HIDE DEF y
        <5> QED
          BY <1>6, <4>1, <4>2
      <4> HIDE DEF y, z
      <4> QED
        BY <2>3, <4>3
    <3>3. k \in 1..N /\ TellsInterface(k) /\ k # i /\ ~IsOut(sig[k])
      BY <1>1, <1>6, PlainIID
    <3>4. IIDFor(w, k) = Pointee(w, w.slots[k].val).n
      <4>1. ~SizeMissing(w, k)
        BY <3>3 DEF SizeMissing
      <4>2. \A c : c = Null => Pointee(w, c) = None
        BY NullLeadsNowhere
      <4>3. None.n = Supports
        BY DEF None, Value, Supports
      <4> QED
        BY <4>1, <4>2, <4>3 DEF IIDFor
    <3>5. Pointee(y, y.slots[k].val) = Pointee(w, w.slots[k].val)
      <4> HIDE DEF y, k
      <4>1. HoldsIID(w, k) /\ k \notin I
        BY <1>1, <1>2, <1>6, <3>3 DEF HoldsIIDs
      <4> QED
        BY <1>3, <1>4, <3>3, <4>1, IIDsStay
    <3> QED
      BY <3>2, <3>4, <3>5
  <2> HIDE DEF y, z, k
  <2>4. y = z => AsAsked(y, i)
    BY <2>3 DEF AsAsked, k
  <2> QED
    BY <2>1, <2>2, <2>4
<1> HIDE DEF y
<1>7. y.ok => ResultsAsked(y)
  BY <1>1, <1>5, <1>6 DEF ResultsAsked
<1>8. Answered(y)
  BY <1>5, <1>7 DEF Answered
<1> QED
  BY <1>8 DEF y

\* An exception leaves the IIDs, and the results do not matter any more.
LEMMA RaisedAnswered ==
  ASSUME NEW N, Asking(N), NEW w, Kept(w)
  PROVE  Answered(Raise(w)) /\ Raise(w) \in Frames(N)
<1>1. /\ Working(N, w, {}) /\ HoldsIIDs(w) /\ DOMAIN sig = 1..N /\ w \in Sparing(N, w, {})
      /\ w \in Frames(N) /\ N \in Nat /\ N = Len(sig)
  BY KeptWorking
<1>2. Raise(w) \in Sparing(N, w, {})
  BY <1>1, SpareRaise
<1>3. ~Raise(w).ok
  BY <1>1, FlagParts
<1> DEFINE x == Raise(w)
<1> HIDE DEF x
<1>4. HoldsIIDs(x)
  BY <1>1, <1>2, AllIIDsStay DEF x
<1>5. x \in Sound(N) /\ x \in Frames(N)
  BY <1>2 DEF Sparing, Sound, x
<1> QED
  BY <1>1, <1>3, <1>4, <1>5 DEF Answered, Kept, x

\* The results that a Python method gives, and the parameters that they are
\* stored in, come back.
LEMMA ResultsComeBack ==
  ASSUME NEW N, Asking(N)
  PROVE  /\ FillOrder(IndexRetval) \in Seq(1..N)
         /\ \A j \in DOMAIN FillOrder(IndexRetval) : ComesBack(FillOrder(IndexRetval)[j])
         /\ Results(sig) \in Seq(1..N)
         /\ \A j \in DOMAIN Results(sig) : ComesBack(Results(sig)[j])
<1>1. N \in Nat /\ DOMAIN sig = 1..N /\ N = Len(sig) /\ WellTyped(sig)
  BY SigFields DEF Asking
<1>2. FillOrder(IndexRetval) \in Seq(1..N) /\ Results(sig) \in Seq(1..N)
  BY <1>1, IndexRetvalKind, Orders
<1>3. ASSUME NEW S PROVE /\ InOrder(sig, S) \in Seq(1..N)
                         /\ \A j \in DOMAIN InOrder(sig, S) : InOrder(sig, S)[j] \in S
  <2>1. /\ InOrder(sig, S) \in Seq(1..Len(sig))
        /\ \A i \in 1..Len(sig) :
              i \in S <=> \E j \in DOMAIN InOrder(sig, S) : InOrder(sig, S)[j] = i
    BY <1>1, InOrderLists
  <2>2. \A j \in DOMAIN InOrder(sig, S) : InOrder(sig, S)[j] \in 1..N
    BY <1>1, <2>1
  <2> QED
    BY <1>1, <2>1, <2>2
<1>4. \A j \in DOMAIN Results(sig) : ComesBack(Results(sig)[j])
  <2> DEFINE S == {i \in DOMAIN sig : GivesResult(sig, i)}
  <2>1. \A i \in S : ComesBack(i)
    BY DEF GivesResult, ComesBack
  <2> HIDE DEF S
  <2>2. \A j \in DOMAIN InOrder(sig, S) : ComesBack(InOrder(sig, S)[j])
    BY <1>3, <2>1
  <2> QED
    BY <2>2 DEF Results, S
<1>5. IndexRetval # 0 => ComesBack(IndexRetval)
  <2> DEFINE all == {i \in DOMAIN sig : IsRetval(sig[i]) /\ ~AutoOut(sig, i)}
  <2>1. N \in Nat /\ all \in SUBSET (1..N) /\ \A i \in all : ComesBack(i)
    BY <1>1 DEF ComesBack
  <2>2. IndexRetval = IF all = {} THEN 0 ELSE CHOOSE i \in all : \A j \in all : j <= i
    BY DEF IndexRetval
  <2> HIDE DEF all
  <2>3. ASSUME all # {} PROVE (CHOOSE i \in all : \A j \in all : j <= i) \in all
    <3>1. Max(all) \in all /\ \A j \in all : j <= Max(all)
      BY <2>1, <2>3, MaxOfFinite
    <3> QED
      BY <3>1, Zenon
  <2> QED
    BY <2>1, <2>2, <2>3
<1>6. \A j \in DOMAIN FillOrder(IndexRetval) : ComesBack(FillOrder(IndexRetval)[j])
  <2> DEFINE r == IndexRetval
             S == {i \in DOMAIN sig : IsOut(sig[i]) /\ ~AutoOut(sig, i) /\ i # r}
             rest == InOrder(sig, S)
  <2>1. \A i \in S : ComesBack(i)
    BY DEF ComesBack
  <2> HIDE DEF S, r
  <2>2. rest \in Seq(1..N) /\ \A j \in DOMAIN rest : ComesBack(rest[j])
    BY <1>3, <2>1
  <2>3. FillOrder(r) = IF r = 0 THEN rest ELSE <<r>> \o rest
    BY DEF FillOrder, S, rest
  <2> HIDE DEF rest
  <2>4. r # 0 => \A j \in DOMAIN (<<r>> \o rest) : ComesBack((<<r>> \o rest)[j])
    <3> SUFFICES ASSUME r # 0, NEW j \in DOMAIN (<<r>> \o rest)
                 PROVE  ComesBack((<<r>> \o rest)[j])
      OBVIOUS
    <3>1. j \in 1..(1 + Len(rest)) /\ Len(rest) \in Nat
      BY <2>2
    <3>2. (<<r>> \o rest)[j] = IF j = 1 THEN r ELSE rest[j - 1]
      BY <2>2, <3>1
    <3>3. j # 1 => j - 1 \in DOMAIN rest
      BY <2>2, <3>1
    <3> QED
      BY <1>5, <2>2, <3>2, <3>3 DEF r
  <2> QED
    BY <2>2, <2>3, <2>4 DEF r
<1> QED
  BY <1>2, <1>4, <1>6

\* Several results.
LEMMA BackFillAllAnswered ==
  ASSUME NEW N, Asking(N), NEW w, Kept(w), ResultsAsked(w), NEW items \in Seq(Fitting)
  PROVE  Answered(BackFillAll(w, items))
<1> DEFINE order == FillOrder(IndexRetval)
<1>0. /\ order \in Seq(1..N) /\ \A j \in DOMAIN order : ComesBack(order[j])
      /\ w \in Frames(N) /\ N \in Nat
  BY ResultsComeBack, KeptWorking
<1>9. BackFillAll(w, items) =
        FoldLeftDomain(LAMBDA x, j : IF ~x.ok THEN x
                                     ELSE IF j > Len(items) THEN Raise(x)
                                     ELSE BackFillVariant(x, order[j], items[j]), w, order)
  BY DEF BackFillAll
<1> HIDE DEF order
<1> DEFINE n == Len(order)
           F == {x \in Frames(N) : Answered(x)}
           Step(y, j) == IF ~y.ok THEN y
                          ELSE IF j > Len(items) THEN Raise(y)
                          ELSE BackFillVariant(y, order[j], items[j])
           f == [p \in F \X (1..n) |-> Step(p[1], p[2])]
           id == [j \in DOMAIN order |-> j]
           Eqn(h) == h = [t \in SUBSET (DOMAIN id) |->
                            IF t = {} THEN w ELSE Step(h[t \ {Max(t)}], id[Max(t)])]
<1>1. /\ n \in Nat /\ DOMAIN order = 1..n
      /\ DOMAIN id = 1..n /\ \A j \in 1..n : id[j] = j
  BY <1>0
<1>2. \A y \in F, j \in 1..n : Step(y, j) \in F
  <2> SUFFICES ASSUME NEW y \in F, NEW j \in 1..n PROVE Step(y, j) \in F
    OBVIOUS
  <2>1. Answered(y) /\ Kept(y) /\ (y.ok => ResultsAsked(y))
    <3>1. Answered(y)
      OBVIOUS
    <3> QED
      BY <3>1 DEF Answered
  <2>2. order[j] \in 1..N /\ ComesBack(order[j])
    BY <1>0, <1>1
  <2>3. Answered(Raise(y)) /\ Raise(y) \in Frames(N)
    BY <2>1, RaisedAnswered
  <2>4. ASSUME y.ok, ~(j > Len(items))
        PROVE  BackFillVariant(y, order[j], items[j]) \in F
    <3>1. j \in 1..Len(items)
      BY <1>1, <2>4
    <3>2. items[j] \in Handled /\ Fits(items[j])
      BY <3>1 DEF Fitting
    <3>3. Answered(BackFillVariant(y, order[j], items[j]))
      BY <2>1, <2>2, <2>4, <3>2, BackFilledAsked
    <3>4. BackFillVariant(y, order[j], items[j]) \in Frames(N)
      BY <3>3, KeptWorking DEF Answered
    <3> QED
      BY <3>3, <3>4
  <2> QED
    BY <2>3, <2>4

<1>3. w \in F
  BY <1>0 DEF Answered
<1>4. \E g : Eqn(g)
  <2>1. f \in [F \X (1..n) -> F]
    <3> HIDE DEF F, Step, id
    <3> QED
      BY <1>2
  <2>2. PICK g : FoldFrom(g, F, n, f, w)
    <3> HIDE DEF F, f, n, id
    <3>1. n \in Nat
      BY <1>1
    <3> QED
      BY <1>3, <2>1, <3>1, FoldExists
  <2>3. \A t \in SUBSET (1..n) :
          g[t] = IF t = {} THEN w ELSE Step(g[t \ {Max(t)}], id[Max(t)])
    <3> HIDE DEF F, Step, id
    <3> SUFFICES ASSUME NEW t \in SUBSET (1..n), t # {}
                 PROVE  g[t] = Step(g[t \ {Max(t)}], id[Max(t)])
      BY <2>2 DEF FoldFrom
    <3> QED
      BY <1>1, <2>2 DEF FoldFrom
  <2>4. Eqn(g)
    <3>1. g = [t \in SUBSET (1..n) |-> g[t]]
      BY <2>2 DEF FoldFrom
    <3>2. SUBSET (DOMAIN id) = SUBSET (1..n)
      BY <1>1
    <3> HIDE DEF F, Step, id
    <3>3. [t \in SUBSET (1..n) |-> g[t]] =
            [t \in SUBSET (1..n) |->
               IF t = {} THEN w ELSE Step(g[t \ {Max(t)}], id[Max(t)])]
      BY <2>3, Zenon
    <3> QED
      BY <3>1, <3>2, <3>3
  <2> HIDE DEF Eqn
  <2> QED
    BY <2>4
<1> DEFINE h == CHOOSE h : Eqn(h)
<1>5. Eqn(h)
  <2> HIDE DEF Eqn
  <2> QED
    BY <1>4
<1>6. FoldLeftDomain(LAMBDA x, j : IF ~x.ok THEN x ELSE IF j > Len(items) THEN Raise(x) ELSE BackFillVariant(x, order[j], items[j]), w, order) = h[1..n]
  <2>1. FoldLeftDomain(LAMBDA x, j : IF ~x.ok THEN x ELSE IF j > Len(items) THEN Raise(x) ELSE BackFillVariant(x, order[j], items[j]), w, order) = h[DOMAIN id]
    BY DEF FoldLeftDomain, FoldLeft, MapThenFoldSet
  <2> HIDE DEF h, id
  <2> QED
    BY <1>1, <2>1
<1>7. h[1..n] \in F
  <2> HIDE DEF h
  <2>1. h[{}] \in F
    <3> HIDE DEF F, id
    <3> QED
      BY <1>3, <1>5
  <2>2. ASSUME NEW t \in SUBSET (1..n), t # {}, h[t \ {Max(t)}] \in F
        PROVE  h[t] = f[<<h[t \ {Max(t)}], Max(t)>>]
    <3> HIDE DEF F, Step, id
    <3>1. Max(t) \in 1..n
      BY <1>1, <2>2, MaxOfFinite
    <3> QED
      BY <1>1, <1>5, <2>2, <3>1
  <2>3. f \in [F \X (1..n) -> F]
    <3> HIDE DEF F, Step, id
    <3> QED
      BY <1>2
  <2> HIDE DEF F, f, id
  <2> QED
    BY <1>1, <2>1, <2>2, <2>3, FoldEnds
<1>8. Answered(h[1..n])
  <2> HIDE DEF h
  <2> QED
    BY <1>7
<1> HIDE DEF h
<1> QED
  BY <1>6, <1>8, <1>9

\* ProcessPythonResult.
LEMMA ProcessAnswered ==
  ASSUME NEW N, Asking(N), NEW w, Kept(w), ResultsAsked(w), AnswersGiven
  PROVE  Answered(ProcessPythonResult(w))
<1> DEFINE r == Results(sig)
<1>1. r \in Seq(1..N) /\ (\A j \in DOMAIN r : ComesBack(r[j])) /\ N \in Nat
  BY ResultsComeBack, KeptWorking
<1>2. UserResult \in Handled /\ Fits(UserResult)
  BY UserResultKind DEF Fitting
<1> HIDE DEF r
<1>3. ASSUME Len(r) = 1 PROVE Answered(BackFillVariant(w, r[1], UserResult))
  <2>1. 1 \in DOMAIN r
    BY <1>1, <1>3
  <2>2. r[1] \in 1..N
    <3>1. \A j \in 1..Len(r) : r[j] \in 1..N
      BY <1>1
    <3> QED
      BY <1>3, <3>1
  <2>3. ComesBack(r[1])
    BY <1>1, <2>1
  <2> QED
    BY <1>2, <2>2, <2>3, BackFilledAsked
<1>4. Answered(Raise(w))
  BY RaisedAnswered
<1>5. IsSequence(UserResult) => Answered(BackFillAll(w, UserResult.of))
  BY UserResultKind, BackFillAllAnswered
<1>6. Answered(w)
  BY DEF Answered
<1> QED
  BY <1>3, <1>4, <1>5, <1>6 DEF ProcessPythonResult, r

-----------------------------------------------------------------------------
(***************************************************************************)
(* A native caller, which stores the arguments itself.                     *)
(***************************************************************************)

\* A frame that a Python method can be called with: its IIDs are kept, and
\* the interfaces that only come back are not there yet.
Handing(w) ==
  /\ Kept(w)
  /\ \A i \in DOMAIN sig : sig[i].type = "iface_is" /\ ~IsIn(sig[i]) => w.slots[i].val = Null

\* Their results are as asked, as there are none.
LEMMA HandingResults ==
  ASSUME NEW w, Handing(w)
  PROVE  Kept(w) /\ ResultsAsked(w)
BY NullLeadsNowhere DEF Handing, ResultsAsked, AsAsked

\* Working on parameters keeps it so, if the IIDs among them are kept.
LEMMA HandingStays ==
  ASSUME NEW N, Asking(N), NEW w, Handing(w), NEW I \in SUBSET (1..N), NEW x \in Sparing(N, w, I),
         \A k \in I : TellsInterface(k) => HoldsIID(x, k),
         \A k \in I : sig[k].type = "iface_is" => IsIn(sig[k])
  PROVE  Handing(x)
<1>1. /\ Working(N, w, I) /\ HoldsIIDs(w) /\ DOMAIN sig = 1..N /\ IsFrame(N, w) /\ N = Len(sig)
  BY KeptWorking DEF Handing
<1>2. x \in Sound(N) /\ Spares(w, x, I)
  BY DEF Sparing
<1>3. HoldsIIDs(x)
  <2> SUFFICES ASSUME NEW k \in 1..N, TellsInterface(k) PROVE HoldsIID(x, k)
    BY <1>1 DEF HoldsIIDs
  <2>1. k \notin I => HoldsIID(x, k)
    BY <1>1, IIDsStay DEF HoldsIIDs
  <2> QED
    BY <2>1
<1>4. \A i \in 1..N : sig[i].type = "iface_is" /\ ~IsIn(sig[i]) => x.slots[i].val = Null
  BY <1>1, <1>2 DEF Spares, IsFrame, Handing
<1> QED
  BY <1>1, <1>2, <1>3, <1>4 DEF Handing, Kept

\* What a native program allocates for a value points nowhere.
LEMMA FlatNative ==
  ASSUME NEW p, p.iid \in Nat, NEW v \in Handled
  PROVE  /\ NativeBlock(p, v) \in Flat
         /\ p.type = "iid" => NativeBlock(p, v).live /\ NativeBlock(p, v).cells = <<>>
<1>1. p.iid \in Interfaces /\ Supports \in Interfaces
  BY Constants
<1>2. v \in Held /\ Plain(v) \in Held
  BY HandledShape
<1>3. Block(v) \in Flat /\ Block(Plain(v)) \in Flat
  BY <1>2, FlatBlocks
<1>4. \A iid \in Interfaces : InterfaceBlock(v, p.type, iid) \in Flat
  BY FlatInterface
<1>5. NativeBlock(p, v) \in Flat
  BY <1>1, <1>3, <1>4 DEF NativeBlock
<1>6. p.type = "iid" => NativeBlock(p, v).live /\ NativeBlock(p, v).cells = <<>>
  BY DEF NativeBlock, IsInterface, Block
<1> QED
  BY <1>5, <1>6

\* The elements of an array that a native program stores.
LEMMA SpareStoreElements ==
  ASSUME NEW N, NEW w, NEW I, Working(N, w, I), NEW x \in Sparing(N, w, I), NEW b,
         NEW elem, elem.iid \in Nat, NEW s \in Seq(Handled),
         \A j \in DOMAIN s : IsArithmetic(elem.type) => s[j].n \in Nat /\ s[j].n < Word
  PROVE  StoreElements(x, b, elem, s) \in Sparing(N, w, I)
<1> DEFINE n == Len(s)
           F == Sparing(N, w, I)
           Step(y, j) == IF IsArithmetic(elem.type) THEN SetElement(y, b, j, Num(s[j].n))
                          ELSE IF s[j] = None THEN y
                          ELSE NewElement(y, b, j, NativeBlock(elem, s[j]))
           f == [p \in F \X (1..n) |-> Step(p[1], p[2])]
           id == [j \in DOMAIN s |-> j]
           Eqn(h) == h = [t \in SUBSET (DOMAIN id) |->
                            IF t = {} THEN x ELSE Step(h[t \ {Max(t)}], id[Max(t)])]
<1>1. /\ n \in Nat /\ DOMAIN s = 1..n
      /\ DOMAIN id = 1..n /\ \A j \in 1..n : id[j] = j
  OBVIOUS
<1>2. \A y \in F, j \in 1..n : Step(y, j) \in F
  <2> SUFFICES ASSUME NEW y \in F, NEW j \in 1..n PROVE Step(y, j) \in F
    OBVIOUS
  <2>1. s[j] \in Handled
    BY <1>1
  <2>2. IsArithmetic(elem.type) => SetElement(y, b, j, Num(s[j].n)) \in Sparing(N, w, I)
    <3>1. IsArithmetic(elem.type) => Num(s[j].n) \in CellValues /\ Num(s[j].n).is # "ptr"
      BY <1>1, CellKinds
    <3>2. \A c : c.is # "ptr" => Allowed(w, I, c) /\ InMemory(y, c)
      BY DEF Allowed, InMemory
    <3> QED
      BY <3>1, <3>2, SpareElement
  <2>3. NewElement(y, b, j, NativeBlock(elem, s[j])) \in Sparing(N, w, I)
    BY <2>1, FlatNative, SpareElement
  <2> QED
    BY <2>2, <2>3

<1>3. x \in F
  OBVIOUS
<1>4. \E g : Eqn(g)
  <2>1. f \in [F \X (1..n) -> F]
    <3> HIDE DEF F, Step, id
    <3> QED
      BY <1>2
  <2>2. PICK g : FoldFrom(g, F, n, f, x)
    <3> HIDE DEF F, f, n, id
    <3>1. n \in Nat
      BY <1>1
    <3> QED
      BY <1>3, <2>1, <3>1, FoldExists
  <2>3. \A t \in SUBSET (1..n) :
          g[t] = IF t = {} THEN x ELSE Step(g[t \ {Max(t)}], id[Max(t)])
    <3> HIDE DEF F, Step, id
    <3> SUFFICES ASSUME NEW t \in SUBSET (1..n), t # {}
                 PROVE  g[t] = Step(g[t \ {Max(t)}], id[Max(t)])
      BY <2>2 DEF FoldFrom
    <3> QED
      BY <1>1, <2>2 DEF FoldFrom
  <2>4. Eqn(g)
    <3>1. g = [t \in SUBSET (1..n) |-> g[t]]
      BY <2>2 DEF FoldFrom
    <3>2. SUBSET (DOMAIN id) = SUBSET (1..n)
      BY <1>1
    <3> HIDE DEF F, Step, id
    <3>3. [t \in SUBSET (1..n) |-> g[t]] =
            [t \in SUBSET (1..n) |->
               IF t = {} THEN x ELSE Step(g[t \ {Max(t)}], id[Max(t)])]
      BY <2>3, Zenon
    <3> QED
      BY <3>1, <3>2, <3>3
  <2> HIDE DEF Eqn
  <2> QED
    BY <2>4
<1> DEFINE h == CHOOSE h : Eqn(h)
<1>5. Eqn(h)
  <2> HIDE DEF Eqn
  <2> QED
    BY <1>4
<1>6. StoreElements(x, b, elem, s) = h[1..n]
  <2>1. StoreElements(x, b, elem, s) = h[DOMAIN id]
    BY DEF StoreElements, FoldLeftDomain, FoldLeft, MapThenFoldSet
  <2> HIDE DEF h, id
  <2> QED
    BY <1>1, <2>1
<1>7. h[1..n] \in F
  <2> HIDE DEF h
  <2>1. h[{}] \in F
    <3> HIDE DEF F, id
    <3> QED
      BY <1>3, <1>5
  <2>2. ASSUME NEW t \in SUBSET (1..n), t # {}, h[t \ {Max(t)}] \in F
        PROVE  h[t] = f[<<h[t \ {Max(t)}], Max(t)>>]
    <3> HIDE DEF F, Step, id
    <3>1. Max(t) \in 1..n
      BY <1>1, <2>2, MaxOfFinite
    <3> QED
      BY <1>1, <1>5, <2>2, <3>1
  <2>3. f \in [F \X (1..n) -> F]
    <3> HIDE DEF F, Step, id
    <3> QED
      BY <1>2
  <2> HIDE DEF F, f, id
  <2> QED
    BY <1>1, <2>1, <2>2, <2>3, FoldEnds
<1> QED
  BY <1>6, <1>7

\* A value that a native program stores, and an IID has a block of its own.
LEMMA SpareStore ==
  ASSUME NEW N, NEW w, NEW I, Working(N, w, I), NEW i \in I,
         \A k \in 1..N : Counts(sig, k, i) => k \in I, ~IsDipper(sig[i]),
         NEW v \in Given, NativeValue(sig[i], v)
  PROVE  /\ NativeStore(w, i, v) \in Sparing(N, w, I)
         /\ sig[i].type = "iid" => \/ NativeStore(w, i, v) = w
                                   \/ NewIn(w, NativeStore(w, i, v), i)
<1> DEFINE p == sig[i]
           elem == [p EXCEPT !.type = p.elem]
           array == PutNew(w, i, Array(Times(Len(v.of), Null)))
           b == Newest(array).n
           filled == StoreElements(array, b, elem, v.of)
           Sized(x, k) == [x EXCEPT !.slots[k].val = Num(Length(v))]
           one == PutNew(w, i, NativeBlock(p, v))
<1>1. /\ N \in Nat /\ p \in Descriptors /\ p.iid \in Nat /\ i \in 1..N /\ w \in Frames(N)
      /\ p.type = "array" => p.length \in 1..N
      /\ IsSized(p.type) => p.size \in 1..N
      /\ w \in Sparing(N, w, I)
  BY Work, SigFields
<1>2. v \in Handled /\ Fits(v) /\ (IsSequence(v) => v.of \in Seq(Handled))
  BY GivenKind, Numbers DEF Fitting
<1>3. one \in Sparing(N, w, I) /\ (p.type = "iid" => NewIn(w, one, i))
  <2> DEFINE e == NativeBlock(p, v)
  <2>1. e \in Flat /\ (p.type = "iid" => e.live /\ e.cells = <<>>)
    BY <1>1, <1>2, FlatNative
  <2> HIDE DEF p, e
  <2>2. e \in Blocks /\ PutNew(w, i, e) \in Sparing(N, w, I)
    BY <1>1, <2>1, SpareNew DEF Flat
  <2>3. Made(w, PutNew(w, i, e), i, e)
    BY <1>1, <2>2, PutNewParts
  <2>4. p.type = "iid" => NewIn(w, PutNew(w, i, e), i)
    BY <2>1, <2>3 DEF Made, NewIn
  <2> QED
    BY <2>2, <2>4 DEF e
<1>4. ASSUME NEW x \in Sparing(N, w, I), NEW k \in 1..N, Counts(sig, k, i),
             Length(v) \in Nat, Length(v) < Word
      PROVE  Sized(x, k) \in Sparing(N, w, I)
  <2>1. Sized(x, k) = Put(x, k, Num(Length(v)))
    BY DEF Put
  <2>2. k \in I /\ sig[k].type \notin FilledInPlace
    <3>1. sig[k].type = "num"
      BY <1>1, <1>4, Work
    <3> QED
      BY <1>4, <3>1 DEF FilledInPlace
  <2> HIDE DEF Sized
  <2> QED
    BY <1>1, <1>4, <2>1, <2>2, SparePut
<1>5. ASSUME IsArithmetic(p.type)
      PROVE  Put(w, i, Num(v.n)) \in Sparing(N, w, I)
  <2>1. Representable(p, v)
    BY <1>5 DEF NativeValue, IsArithmetic
  <2>2. v.n \in Nat /\ v.n < Word
    BY <1>2, <1>5, <2>1, RepresentableFits
  <2>3. p.type \notin FilledInPlace
    BY <1>5 DEF IsArithmetic, FilledInPlace
  <2> QED
    BY <1>1, <2>2, <2>3, SparePut
<1>6. ASSUME p.type = "array", v # None
      PROVE  Sized(filled, p.length) \in Sparing(N, w, I)
  <2>1. /\ IsSequence(v)
        /\ \A j \in DOMAIN v.of : Representable(elem, v.of[j])
    BY <1>6 DEF NativeValue
  <2>2. v.of \in Seq(Handled) /\ Len(v.of) \in Nat
    BY <1>2, <2>1
  <2>3. array \in Sparing(N, w, I)
    <3> DEFINE n == Len(v.of)
               cells == Times(n, Null)
    <3>1. Null \in CellValues /\ Null.is # "ptr" /\ n \in Nat
      BY <2>2, CellKinds
    <3> HIDE DEF n
    <3>2. cells \in Seq(CellValues) /\ cells \in [1..n -> {Null}]
      BY <3>1, TimesSeq
    <3>3. \A q \in DOMAIN cells : cells[q] = Null
      BY <3>2
    <3> HIDE DEF cells
    <3>4. Array(cells) \in Flat
      BY <3>1, <3>2, <3>3, FlatBlocks
    <3>5. PutNew(w, i, Array(cells)) \in Sparing(N, w, I)
      BY <1>1, <3>4, SpareNew
    <3> QED
      BY <3>5 DEF cells, n
  <2>4. elem.type = p.elem /\ elem.iid \in Nat
    BY <1>1 DEF Descriptors
  <2>5. \A j \in DOMAIN v.of : IsArithmetic(elem.type) => v.of[j].n \in Nat /\ v.of[j].n < Word
    <3> SUFFICES ASSUME NEW j \in DOMAIN v.of, IsArithmetic(elem.type)
                 PROVE  v.of[j].n \in Nat /\ v.of[j].n < Word
      OBVIOUS
    <3>1. v.of[j] \in Handled
      BY <2>2
    <3> HIDE DEF p, elem
    <3> QED
      BY <2>1, <2>4, <3>1, RepresentableFits
  <2>6. filled \in Sparing(N, w, I)
    <3> HIDE DEF array, b, elem
    <3> QED
      BY <1>1, <2>2, <2>3, <2>4, <2>5, SpareStoreElements
  <2>7. Length(v) = Len(v.of) /\ Length(v) < Word
    BY <1>2, <2>1 DEF Length, Fits
  <2>8. Counts(sig, p.length, i) /\ p.length \in 1..N
    BY <1>1, <1>6 DEF Counts
  <2> HIDE DEF filled, Sized
  <2> QED
    BY <1>4, <2>2, <2>6, <2>7, <2>8
<1>7. ASSUME IsSized(p.type), v # None
      PROVE  Sized(one, p.size) \in Sparing(N, w, I)
  <2>1. v.py = "str"
    BY <1>7 DEF NativeValue, Representable, IsSized
  <2>2. Length(v) = v.n /\ v.n \in Nat /\ v.n < Word
    BY <1>2, <2>1, Numbers DEF Length, Fits, IsText, Encodes, IsSequence
  <2>3. Counts(sig, p.size, i) /\ p.size \in 1..N
    BY <1>1, <1>7 DEF Counts
  <2> HIDE DEF one, Sized
  <2> QED
    BY <1>3, <1>4, <2>2, <2>3
<1> HIDE DEF one, filled
<1>8. /\ p.type = "array" => p.type \notin {"astring", "cstring", "utf8"}
      /\ IsSized(p.type) => p.type \notin {"astring", "cstring", "utf8"}
  BY DEF IsSized
<1>9. NativeStore(w, i, v) \in Sparing(N, w, I)
  BY <1>1, <1>3, <1>5, <1>6, <1>7, <1>8 DEF NativeStore, one, filled
<1>10. p.type = "iid" => NativeStore(w, i, v) = w \/ NativeStore(w, i, v) = one
  BY DEF NativeStore, one, IsArithmetic, IsSized
<1> QED
  BY <1>3, <1>9, <1>10

\* An argument that a native caller stores.
LEMMA StoreHanding ==
  ASSUME NEW N, Asking(N), NEW w, Handing(w), NEW i \in 1..N, TakesArgument(sig, i),
         NEW v \in Given, NativeValue(sig[i], v)
  PROVE  Handing(NativeStore(w, i, v))
<1> DEFINE I == WithSizes(i)
           x == NativeStore(w, i, v)
<1>1. /\ Working(N, w, {}) /\ DOMAIN sig = 1..N /\ N = Len(sig) /\ HoldsIIDs(w) /\ w \in Frames(N)
  BY KeptWorking DEF Handing
<1>2. /\ I \in SUBSET (1..N) /\ i \in I /\ \A q \in 1..N : Counts(sig, q, i) => q \in I
      /\ TellsInterface(i) \/ sig[i].type = "iface_is" => I = {i}
      /\ ~TellsInterface(i) /\ sig[i].type # "iface_is" =>
           \A k \in I : ~TellsInterface(k) /\ sig[k].type # "iface_is"
  BY <1>1, SizesAskNothing DEF WithSizes
<1> HIDE DEF I
<1>3. Working(N, w, I) /\ w \in Sparing(N, w, I)
  BY <1>2, KeptWorking DEF Handing
<1>4. IsIn(sig[i]) /\ ~IsDipper(sig[i])
  BY DEF TakesArgument
<1>5. /\ x \in Sparing(N, w, I)
      /\ sig[i].type = "iid" => x = w \/ NewIn(w, x, i)
  BY <1>2, <1>3, <1>4, SpareStore
<1> HIDE DEF x
<1>6. TellsInterface(i) => HoldsIID(x, i)
  <2> SUFFICES ASSUME TellsInterface(i) PROVE HoldsIID(x, i)
    OBVIOUS
  <2>1. sig[i].type = "iid"
    BY <1>1, PlainIID
  <2>2. CASE x = w
    BY <1>1, <2>2 DEF HoldsIIDs
  <2>3. CASE NewIn(w, x, i)
    BY <1>3, <1>5, <2>3, Work, NewIsHeld
  <2> QED
    BY <1>5, <2>1, <2>2, <2>3
<1>7. \A k \in I : /\ TellsInterface(k) => HoldsIID(x, k)
                   /\ sig[k].type = "iface_is" => IsIn(sig[k])
  BY <1>2, <1>4, <1>6
<1> QED
  BY <1>2, <1>5, <1>7, HandingStays DEF x

\* The parameters that Python gives are none of its dippers.
LEMMA ArgumentsTaken ==
  ASSUME NEW N, Asking(N)
  PROVE  /\ ArgumentOrder(sig) \in Seq(1..N)
         /\ \A j \in DOMAIN ArgumentOrder(sig) : TakesArgument(sig, ArgumentOrder(sig)[j])
<1>1. N \in Nat /\ DOMAIN sig = 1..N /\ N = Len(sig) /\ WellTyped(sig)
  BY SigFields DEF Asking
<1> DEFINE S == {i \in DOMAIN sig : TakesArgument(sig, i)}
           r == InOrder(sig, S)
<1>2. \A i \in S : TakesArgument(sig, i)
  OBVIOUS
<1> HIDE DEF S
<1>3. /\ r \in Seq(1..Len(sig))
      /\ \A i \in 1..Len(sig) : i \in S <=> \E j \in DOMAIN r : r[j] = i
  BY <1>1, InOrderLists
<1> HIDE DEF r
<1>4. \A j \in DOMAIN r : r[j] \in 1..N
  BY <1>1, <1>3
<1>5. \A j \in DOMAIN r : TakesArgument(sig, r[j])
  BY <1>1, <1>2, <1>3, <1>4
<1> QED
  BY <1>1, <1>3, <1>5 DEF ArgumentOrder, S, r

\* All arguments.
LEMMA StoreAllHanding ==
  ASSUME NEW N, Asking(N), NEW w, Handing(w), NEW values \in Seq(Given),
         NativeValues(sig, ArgumentOrder(sig), values)
  PROVE  Handing(StoreAll(w, ArgumentOrder(sig), values))
<1> DEFINE order == ArgumentOrder(sig)
<1>0. /\ order \in Seq(1..N) /\ (\A j \in DOMAIN order : TakesArgument(sig, order[j]))
      /\ w \in Frames(N) /\ N \in Nat
  BY ArgumentsTaken, KeptWorking DEF Handing
<1>9. NativeValues(sig, order, values)
  OBVIOUS
<1> HIDE DEF order
<1> DEFINE n == Len(order)
           F == {x \in Frames(N) : Handing(x)}
           Step(y, j) == NativeStore(y, order[j], values[j])
           f == [p \in F \X (1..n) |-> Step(p[1], p[2])]
           id == [j \in DOMAIN order |-> j]
           Eqn(h) == h = [t \in SUBSET (DOMAIN id) |->
                            IF t = {} THEN w ELSE Step(h[t \ {Max(t)}], id[Max(t)])]
<1>1. /\ n \in Nat /\ DOMAIN order = 1..n
      /\ DOMAIN id = 1..n /\ \A j \in 1..n : id[j] = j
  BY <1>0
<1>2. \A y \in F, j \in 1..n : Step(y, j) \in F
  <2> SUFFICES ASSUME NEW y \in F, NEW j \in 1..n PROVE Step(y, j) \in F
    OBVIOUS
  <2>1. Handing(y)
    OBVIOUS
  <2>2. order[j] \in 1..N /\ TakesArgument(sig, order[j])
    BY <1>0, <1>1
  <2>3. values[j] \in Given /\ NativeValue(sig[order[j]], values[j])
    BY <1>1, <1>9 DEF NativeValues
  <2>4. Handing(NativeStore(y, order[j], values[j]))
    BY <2>1, <2>2, <2>3, StoreHanding
  <2>5. NativeStore(y, order[j], values[j]) \in Frames(N)
    BY <2>4, KeptWorking DEF Handing
  <2> QED
    BY <2>4, <2>5

<1>3. w \in F
  BY <1>0
<1>4. \E g : Eqn(g)
  <2>1. f \in [F \X (1..n) -> F]
    <3> HIDE DEF F, Step, id
    <3> QED
      BY <1>2
  <2>2. PICK g : FoldFrom(g, F, n, f, w)
    <3> HIDE DEF F, f, n, id
    <3>1. n \in Nat
      BY <1>1
    <3> QED
      BY <1>3, <2>1, <3>1, FoldExists
  <2>3. \A t \in SUBSET (1..n) :
          g[t] = IF t = {} THEN w ELSE Step(g[t \ {Max(t)}], id[Max(t)])
    <3> HIDE DEF F, Step, id
    <3> SUFFICES ASSUME NEW t \in SUBSET (1..n), t # {}
                 PROVE  g[t] = Step(g[t \ {Max(t)}], id[Max(t)])
      BY <2>2 DEF FoldFrom
    <3> QED
      BY <1>1, <2>2 DEF FoldFrom
  <2>4. Eqn(g)
    <3>1. g = [t \in SUBSET (1..n) |-> g[t]]
      BY <2>2 DEF FoldFrom
    <3>2. SUBSET (DOMAIN id) = SUBSET (1..n)
      BY <1>1
    <3> HIDE DEF F, Step, id
    <3>3. [t \in SUBSET (1..n) |-> g[t]] =
            [t \in SUBSET (1..n) |->
               IF t = {} THEN w ELSE Step(g[t \ {Max(t)}], id[Max(t)])]
      BY <2>3, Zenon
    <3> QED
      BY <3>1, <3>2, <3>3
  <2> HIDE DEF Eqn
  <2> QED
    BY <2>4
<1> DEFINE h == CHOOSE h : Eqn(h)
<1>5. Eqn(h)
  <2> HIDE DEF Eqn
  <2> QED
    BY <1>4
<1>6. StoreAll(w, order, values) = h[1..n]
  <2>1. StoreAll(w, order, values) = h[DOMAIN id]
    BY DEF StoreAll, FoldLeftDomain, FoldLeft, MapThenFoldSet
  <2> HIDE DEF h, id
  <2> QED
    BY <1>1, <2>1
<1>7. h[1..n] \in F
  <2> HIDE DEF h
  <2>1. h[{}] \in F
    <3> HIDE DEF F, id
    <3> QED
      BY <1>3, <1>5
  <2>2. ASSUME NEW t \in SUBSET (1..n), t # {}, h[t \ {Max(t)}] \in F
        PROVE  h[t] = f[<<h[t \ {Max(t)}], Max(t)>>]
    <3> HIDE DEF F, Step, id
    <3>1. Max(t) \in 1..n
      BY <1>1, <2>2, MaxOfFinite
    <3> QED
      BY <1>1, <1>5, <2>2, <3>1
  <2>3. f \in [F \X (1..n) -> F]
    <3> HIDE DEF F, Step, id
    <3> QED
      BY <1>2
  <2> HIDE DEF F, f, id
  <2> QED
    BY <1>1, <2>1, <2>2, <2>3, FoldEnds
<1>8. Handing(h[1..n])
  <2> HIDE DEF h
  <2> QED
    BY <1>7
<1> HIDE DEF h
<1> QED
  BY <1>6, <1>8 DEF order

\* The variants of a native caller before it has stored anything.
Blank(N) == {x \in Frames(N) : x.mem = <<>> /\ \A i \in 1..N : x.slots[i].val = Null}

\* They are still so without the pointers that it leaves out.
LEMMA WithoutBlank ==
  ASSUME NEW N, Asking(N), NEW w \in Blank(N), NEW missing
  PROVE  Without(w, missing) \in Blank(N)
<1>0. N \in Nat /\ Len(sig) = N /\ DOMAIN sig = 1..N
  BY SigFields DEF Asking
<1> DEFINE n == Len(sig)
           F == Blank(N)
           Step(y, j) == [y EXCEPT !.slots[j].there = j \notin missing]
           f == [p \in F \X (1..n) |-> Step(p[1], p[2])]
           id == [j \in DOMAIN sig |-> j]
           Eqn(h) == h = [t \in SUBSET (DOMAIN id) |->
                            IF t = {} THEN w ELSE Step(h[t \ {Max(t)}], id[Max(t)])]
<1>1. /\ n \in Nat /\ DOMAIN sig = 1..n
      /\ DOMAIN id = 1..n /\ \A j \in 1..n : id[j] = j
  BY <1>0
<1>2. \A y \in F, j \in 1..n : Step(y, j) \in F
  <2> SUFFICES ASSUME NEW y \in F, NEW j \in 1..n PROVE Step(y, j) \in F
    OBVIOUS
  <2> DEFINE b == j \notin missing
             t == [y.slots[j] EXCEPT !.there = b]
             s == [y.slots EXCEPT ![j] = t]
             x == [y EXCEPT !.slots[j].there = b]
  <2>1. y \in Frames(N) /\ y.mem = <<>> /\ (\A i \in 1..N : y.slots[i].val = Null) /\ b \in BOOLEAN
    BY DEF Blank
  <2>2. x \in Frames(N)
    <3> HIDE DEF b
    <3> QED
      BY <1>0, <2>1, SlotFlagFrame
  <2>3. x.slots = s /\ x.mem = y.mem
    <3>1. x = [y EXCEPT !.slots = s]
      OBVIOUS
    <3> HIDE DEF s, x
    <3> QED
      BY <1>0, <2>1, <3>1, FrameUpdates
  <2>4. \A i \in 1..N : s[i].val = Null
    <3>1. y.slots \in [1..N -> Slots] /\ y.slots[j] \in Slots
      BY <1>0, <2>1, FrameFields DEF IsFrame
    <3>2. t.val = y.slots[j].val
      BY <2>1, <3>1, SlotFields
    <3> HIDE DEF t
    <3> QED
      BY <1>0, <2>1, <3>1, <3>2
  <2>5. x \in Blank(N)
    <3> HIDE DEF s, x
    <3> QED
      BY <2>1, <2>2, <2>3, <2>4 DEF Blank
  <2> QED
    BY <2>5

<1>3. w \in F
  OBVIOUS
<1>4. \E g : Eqn(g)
  <2>1. f \in [F \X (1..n) -> F]
    <3> HIDE DEF F, Step, id
    <3> QED
      BY <1>2
  <2>2. PICK g : FoldFrom(g, F, n, f, w)
    <3> HIDE DEF F, f, n, id
    <3>1. n \in Nat
      BY <1>1
    <3> QED
      BY <1>3, <2>1, <3>1, FoldExists
  <2>3. \A t \in SUBSET (1..n) :
          g[t] = IF t = {} THEN w ELSE Step(g[t \ {Max(t)}], id[Max(t)])
    <3> HIDE DEF F, Step, id
    <3> SUFFICES ASSUME NEW t \in SUBSET (1..n), t # {}
                 PROVE  g[t] = Step(g[t \ {Max(t)}], id[Max(t)])
      BY <2>2 DEF FoldFrom
    <3> QED
      BY <1>1, <2>2 DEF FoldFrom
  <2>4. Eqn(g)
    <3>1. g = [t \in SUBSET (1..n) |-> g[t]]
      BY <2>2 DEF FoldFrom
    <3>2. SUBSET (DOMAIN id) = SUBSET (1..n)
      BY <1>1
    <3> HIDE DEF F, Step, id
    <3>3. [t \in SUBSET (1..n) |-> g[t]] =
            [t \in SUBSET (1..n) |->
               IF t = {} THEN w ELSE Step(g[t \ {Max(t)}], id[Max(t)])]
      BY <2>3, Zenon
    <3> QED
      BY <3>1, <3>2, <3>3
  <2> HIDE DEF Eqn
  <2> QED
    BY <2>4
<1> DEFINE h == CHOOSE h : Eqn(h)
<1>5. Eqn(h)
  <2> HIDE DEF Eqn
  <2> QED
    BY <1>4
<1>6. Without(w, missing) = h[1..n]
  <2>1. Without(w, missing) = h[DOMAIN id]
    BY DEF Without, FoldLeftDomain, FoldLeft, MapThenFoldSet
  <2> HIDE DEF h, id
  <2> QED
    BY <1>1, <2>1
<1>7. h[1..n] \in F
  <2> HIDE DEF h
  <2>1. h[{}] \in F
    <3> HIDE DEF F, id
    <3> QED
      BY <1>3, <1>5
  <2>2. ASSUME NEW t \in SUBSET (1..n), t # {}, h[t \ {Max(t)}] \in F
        PROVE  h[t] = f[<<h[t \ {Max(t)}], Max(t)>>]
    <3> HIDE DEF F, Step, id
    <3>1. Max(t) \in 1..n
      BY <1>1, <2>2, MaxOfFinite
    <3> QED
      BY <1>1, <1>5, <2>2, <3>1
  <2>3. f \in [F \X (1..n) -> F]
    <3> HIDE DEF F, Step, id
    <3> QED
      BY <1>2
  <2> HIDE DEF F, f, id
  <2> QED
    BY <1>1, <2>1, <2>2, <2>3, FoldEnds
<1> QED
  BY <1>6, <1>7

\* It is a frame that a method can be called with.
LEMMA BlankHanding ==
  ASSUME NEW N, Asking(N), NEW w \in Blank(N)
  PROVE  Handing(w)
<1>1. N \in Nat /\ DOMAIN sig = 1..N /\ N = Len(sig)
  BY SigFields DEF Asking
<1>2. w \in Frames(N) /\ w.mem = <<>> /\ \A i \in 1..N : w.slots[i].val = Null
  BY DEF Blank
<1>3. DOMAIN w.mem = {}
  BY <1>2
<1>4. Closed(w)
  BY <1>3 DEF Closed
<1>5. InPlace(w)
  BY <1>1, <1>2 DEF InPlace, Points
<1>6. HoldsIIDs(w)
  BY <1>1, <1>2 DEF HoldsIIDs, HoldsIID
<1> QED
  BY <1>1, <1>2, <1>4, <1>5, <1>6 DEF Handing, Kept, Sound

\* Space for a result.
LEMMA SpaceHanding ==
  ASSUME NEW N, Asking(N), NEW w, Handing(w), NEW i \in 1..N
  PROVE  /\ IsArithmetic(sig[i].type) => Handing(Put(w, i, Num(0)))
         /\ IsDipper(sig[i]) => Handing(PutNew(w, i, Block(Str(0))))
<1>1. /\ Working(N, w, {i}) /\ w \in Sparing(N, w, {i}) /\ DOMAIN sig = 1..N /\ N \in Nat
  BY KeptWorking DEF Handing
<1>2. IsArithmetic(sig[i].type) \/ IsDipper(sig[i]) =>
        ~TellsInterface(i) /\ sig[i].type # "iface_is"
  BY <1>1, PlainIID DEF IsArithmetic
<1>3. IsArithmetic(sig[i].type) => Put(w, i, Num(0)) \in Sparing(N, w, {i})
  <2>1. IsArithmetic(sig[i].type) => sig[i].type \notin FilledInPlace
    BY DEF IsArithmetic, FilledInPlace
  <2>2. 0 < Word /\ 0 \in Nat
    BY WidthAssumption
  <2> QED
    BY <1>1, <2>1, <2>2, SparePut
<1>4. PutNew(w, i, Block(Str(0))) \in Sparing(N, w, {i})
  BY <1>1, Constants, SparePuts
<1> QED
  BY <1>1, <1>2, <1>3, <1>4, HandingStays

\* All of it.
LEMMA WithSpaceHanding ==
  ASSUME NEW N, Asking(N), NEW w, Handing(w)
  PROVE  Handing(WithSpace(w))
<1>0. N \in Nat /\ Len(sig) = N /\ DOMAIN sig = 1..N /\ w \in Frames(N)
  BY KeptWorking DEF Handing
<1> DEFINE n == Len(sig)
           F == {x \in Frames(N) : Handing(x)}
           Step(y, j) == IF IsArithmetic(sig[j].type) THEN Put(y, j, Num(0))
                          ELSE IF IsDipper(sig[j]) THEN PutNew(y, j, Block(Str(0)))
                          ELSE y
           f == [p \in F \X (1..n) |-> Step(p[1], p[2])]
           id == [j \in DOMAIN sig |-> j]
           Eqn(h) == h = [t \in SUBSET (DOMAIN id) |->
                            IF t = {} THEN w ELSE Step(h[t \ {Max(t)}], id[Max(t)])]
<1>1. /\ n \in Nat /\ DOMAIN sig = 1..n
      /\ DOMAIN id = 1..n /\ \A j \in 1..n : id[j] = j
  BY <1>0
<1>2. \A y \in F, j \in 1..n : Step(y, j) \in F
  <2> SUFFICES ASSUME NEW y \in F, NEW j \in 1..n PROVE Step(y, j) \in F
    OBVIOUS
  <2>1. Handing(y) /\ j \in 1..N
    BY <1>0
  <2>2. \A x : Handing(x) => x \in Frames(N)
    BY KeptWorking DEF Handing
  <2> QED
    BY <2>1, <2>2, SpaceHanding

<1>3. w \in F
  BY <1>0
<1>4. \E g : Eqn(g)
  <2>1. f \in [F \X (1..n) -> F]
    <3> HIDE DEF F, Step, id
    <3> QED
      BY <1>2
  <2>2. PICK g : FoldFrom(g, F, n, f, w)
    <3> HIDE DEF F, f, n, id
    <3>1. n \in Nat
      BY <1>1
    <3> QED
      BY <1>3, <2>1, <3>1, FoldExists
  <2>3. \A t \in SUBSET (1..n) :
          g[t] = IF t = {} THEN w ELSE Step(g[t \ {Max(t)}], id[Max(t)])
    <3> HIDE DEF F, Step, id
    <3> SUFFICES ASSUME NEW t \in SUBSET (1..n), t # {}
                 PROVE  g[t] = Step(g[t \ {Max(t)}], id[Max(t)])
      BY <2>2 DEF FoldFrom
    <3> QED
      BY <1>1, <2>2 DEF FoldFrom
  <2>4. Eqn(g)
    <3>1. g = [t \in SUBSET (1..n) |-> g[t]]
      BY <2>2 DEF FoldFrom
    <3>2. SUBSET (DOMAIN id) = SUBSET (1..n)
      BY <1>1
    <3> HIDE DEF F, Step, id
    <3>3. [t \in SUBSET (1..n) |-> g[t]] =
            [t \in SUBSET (1..n) |->
               IF t = {} THEN w ELSE Step(g[t \ {Max(t)}], id[Max(t)])]
      BY <2>3, Zenon
    <3> QED
      BY <3>1, <3>2, <3>3
  <2> HIDE DEF Eqn
  <2> QED
    BY <2>4
<1> DEFINE h == CHOOSE h : Eqn(h)
<1>5. Eqn(h)
  <2> HIDE DEF Eqn
  <2> QED
    BY <1>4
<1>6. WithSpace(w) = h[1..n]
  <2>1. WithSpace(w) = h[DOMAIN id]
    BY DEF WithSpace, FoldLeftDomain, FoldLeft, MapThenFoldSet
  <2> HIDE DEF h, id
  <2> QED
    BY <1>1, <2>1
<1>7. h[1..n] \in F
  <2> HIDE DEF h
  <2>1. h[{}] \in F
    <3> HIDE DEF F, id
    <3> QED
      BY <1>3, <1>5
  <2>2. ASSUME NEW t \in SUBSET (1..n), t # {}, h[t \ {Max(t)}] \in F
        PROVE  h[t] = f[<<h[t \ {Max(t)}], Max(t)>>]
    <3> HIDE DEF F, Step, id
    <3>1. Max(t) \in 1..n
      BY <1>1, <2>2, MaxOfFinite
    <3> QED
      BY <1>1, <1>5, <2>2, <3>1
  <2>3. f \in [F \X (1..n) -> F]
    <3> HIDE DEF F, Step, id
    <3> QED
      BY <1>2
  <2> HIDE DEF F, f, id
  <2> QED
    BY <1>1, <2>1, <2>2, <2>3, FoldEnds
<1>8. Handing(h[1..n])
  <2> HIDE DEF h
  <2> QED
    BY <1>7
<1> HIDE DEF h
<1> QED
  BY <1>6, <1>8

\* Taking the arguments for a Python method leaves the parameters as they are,
\* one
LEMMA SingleParamReads ==
  ASSUME NEW N \in Nat, NEW w \in Frames(N), NEW i
  PROVE  /\ MakeSingleParam(w, i)[1].slots = w.slots
         /\ MakeSingleParam(w, i)[1].mem = w.mem
<1>1. /\ Raise(w).slots = w.slots /\ Raise(w).mem = w.mem
      /\ Crash(w).slots = w.slots /\ Crash(w).mem = w.mem
  <2>1. \A x \in {Raise(w), Fail(w), Crash(w)} : x.slots = w.slots /\ x.mem = w.mem
    BY FlagParts
  <2> QED
    BY <2>1
<1>2. \A v : Read(w, v).slots = w.slots /\ Read(w, v).mem = w.mem
  <2>1. \A x : /\ [w EXCEPT !.faults = x].slots = w.slots
               /\ [w EXCEPT !.faults = x].mem = w.mem
    BY FrameUpdates
  <2> QED
    BY <2>1 DEF Read, Fault
<1>3. \A v : Decoded(w, i, v)[1].slots = w.slots /\ Decoded(w, i, v)[1].mem = w.mem
  BY <1>1, <1>2 DEF Decoded
<1> QED
  BY <1>1, <1>3 DEF MakeSingleParam

\* and all of them.
LEMMA MakePyArgsReads ==
  ASSUME WellTyped(sig), NEW N, N = Len(sig), NEW w \in Frames(N)
  PROVE  MakePyArgs(w)[1].slots = w.slots /\ MakePyArgs(w)[1].mem = w.mem
<1> DEFINE order == ArgumentOrder(sig)
<1>0. N \in Nat /\ order \in Seq(1..N)
  BY SigFields, Orders
<1> DEFINE G == {x \in Frames(N) : x.slots = w.slots /\ x.mem = w.mem}
           V == {MakeSingleParam(x, i)[2] : x \in Frames(N), i \in 1..N}
           S == Seq(V)
           start == <<w, <<>>>>
           One(x, i) == LET r == MakeSingleParam(x[1], i)
                        IN IF x[1].ok THEN <<r[1], Append(x[2], r[2])>> ELSE x
<1>9. MakePyArgs(w) = FoldLeft(One, start, order)
  BY DEF MakePyArgs
<1>10. start \in G \X S
  <2>1. <<>> \in S
    OBVIOUS
  <2> HIDE DEF S
  <2> QED
    BY <2>1, PairIn
<1> HIDE DEF V, order, start
<1> DEFINE n == Len(order)
           F == G \X S
           Step(y, j) == One(y, order[j])
           f == [p \in F \X (1..n) |-> Step(p[1], p[2])]
           Eqn(h) == h = [t \in SUBSET (DOMAIN order) |->
                            IF t = {} THEN start ELSE Step(h[t \ {Max(t)}], Max(t))]
<1>1. /\ n \in Nat /\ DOMAIN order = 1..n
  BY <1>0
<1>2. \A y \in F, j \in 1..n : Step(y, j) \in F
  <2> SUFFICES ASSUME NEW y \in F, NEW j \in 1..n PROVE Step(y, j) \in F
    OBVIOUS
  <2> DEFINE r == MakeSingleParam(y[1], order[j])
  <2>1. y[1] \in G /\ y[2] \in Seq(V) /\ y[1] \in Frames(N)
    OBVIOUS
  <2>2. order[j] \in 1..N
    BY <1>0, <1>1
  <2>3. r[1] \in Frames(N)
    BY <1>0, <2>1, <2>2, SingleParamFrame
  <2>4. r[1].slots = y[1].slots /\ r[1].mem = y[1].mem
    BY <1>0, <2>1, SingleParamReads
  <2>5. r[2] \in V
    BY <2>1, <2>2 DEF V
  <2>6. Step(y, j) = IF y[1].ok THEN <<r[1], Append(y[2], r[2])>> ELSE y
    OBVIOUS
  <2> HIDE DEF r
  <2>7. Append(y[2], r[2]) \in S
    BY <2>1, <2>5
  <2>8. r[1] \in G
    BY <2>1, <2>3, <2>4
  <2> HIDE DEF Step, G, S
  <2>9. <<r[1], Append(y[2], r[2])>> \in F
    BY <2>7, <2>8, PairIn
  <2> HIDE DEF F
  <2> QED
    BY <2>6, <2>9

<1>3. start \in F
  BY <1>10
<1>4. \E g : Eqn(g)
  <2>1. f \in [F \X (1..n) -> F]
    <3> HIDE DEF F, Step
    <3> QED
      BY <1>2
  <2>2. PICK g : FoldFrom(g, F, n, f, start)
    <3> HIDE DEF F, f, n
    <3>1. n \in Nat
      BY <1>1
    <3> QED
      BY <1>3, <2>1, <3>1, FoldExists
  <2>3. \A t \in SUBSET (1..n) :
          g[t] = IF t = {} THEN start ELSE Step(g[t \ {Max(t)}], Max(t))
    <3> HIDE DEF F, Step
    <3> SUFFICES ASSUME NEW t \in SUBSET (1..n), t # {}
                 PROVE  g[t] = Step(g[t \ {Max(t)}], Max(t))
      BY <2>2 DEF FoldFrom
    <3> QED
      BY <1>1, <2>2 DEF FoldFrom
  <2>4. Eqn(g)
    <3>1. g = [t \in SUBSET (1..n) |-> g[t]]
      BY <2>2 DEF FoldFrom
    <3>2. SUBSET (DOMAIN order) = SUBSET (1..n)
      BY <1>1
    <3> HIDE DEF F, Step
    <3>3. [t \in SUBSET (1..n) |-> g[t]] =
            [t \in SUBSET (1..n) |->
               IF t = {} THEN start ELSE Step(g[t \ {Max(t)}], Max(t))]
      BY <2>3, Zenon
    <3> QED
      BY <3>1, <3>2, <3>3
  <2> HIDE DEF Eqn
  <2> QED
    BY <2>4
<1> DEFINE h == CHOOSE h : Eqn(h)
<1>5. Eqn(h)
  <2> HIDE DEF Eqn
  <2> QED
    BY <1>4
<1>6. FoldLeft(One, start, order) = h[1..n]
  <2>1. FoldLeft(One, start, order) = h[DOMAIN order]
    BY DEF FoldLeft, MapThenFoldSet
  <2> HIDE DEF h
  <2> QED
    BY <1>1, <2>1
<1>7. h[1..n] \in F
  <2> HIDE DEF h
  <2>1. h[{}] \in F
    <3> HIDE DEF F
    <3> QED
      BY <1>3, <1>5
  <2>2. ASSUME NEW t \in SUBSET (1..n), t # {}, h[t \ {Max(t)}] \in F
        PROVE  h[t] = f[<<h[t \ {Max(t)}], Max(t)>>]
    <3> HIDE DEF F, Step
    <3>1. Max(t) \in 1..n
      BY <1>1, <2>2, MaxOfFinite
    <3> QED
      BY <1>1, <1>5, <2>2, <3>1
  <2>3. f \in [F \X (1..n) -> F]
    <3> HIDE DEF F, Step
    <3> QED
      BY <1>2
  <2> HIDE DEF F, f
  <2> QED
    BY <1>1, <2>1, <2>2, <2>3, FoldEnds
<1>8. h[1..n][1] \in G
  <2> HIDE DEF h, G, S
  <2> QED
    BY <1>7
<1> HIDE DEF h, One
<1> QED
  BY <1>6, <1>8, <1>9

-----------------------------------------------------------------------------
(***************************************************************************)
(* The inductive invariant, and the theorem.                               *)
(***************************************************************************)

\* The inductive invariant: while the arguments are prepared the interfaces done
\* so far are as asked, and all of them when the method is called; a Python
\* method finds its IIDs kept, and when it has answered the interfaces that come
\* back are as asked.
AskedInv ==
  /\ IIDsPlain(sig)
  /\ pc = "init" => mem = <<>>
  /\ AsksInterface(sig) =>
       /\ pc = "prepare" => PreparedAsked(Now, at - 1)
       /\ pc = "call" /\ caller = "python" => PreparedAsked(Now, Len(sig))
       /\ pc \in {"call", "method"} /\ callee = "python" => Handing(Now)
       /\ pc = "returned" /\ callee = "python" /\ rc = "ok" => ResultsAsked(Now)

\* It implies the property.
LEMMA AskedInvAgree == CallInv /\ AskedInv => InterfacesAsAsked
<1> SUFFICES ASSUME CallInv, AskedInv, NEW i \in DOMAIN sig, sig[i].type = "iface_is",
                    \/ pc = "call" /\ caller = "python"
                    \/ pc = "returned" /\ callee = "python" /\ rc = "ok",
                    Live(Now, slots[i].val), IsIn(sig[i]) <=> pc = "call"
             PROVE  mem[slots[i].val.n].as = Pointee(Now, slots[sig[i].iid].val).n
  BY DEF InterfacesAsAsked
<1>1. AsksInterface(sig)
  BY DEF AsksInterface
<1>2. AsAsked(Now, i)
  <2>1. CASE pc = "call" /\ caller = "python"
    BY <1>1, <2>1 DEF AskedInv, PreparedAsked
  <2>2. CASE pc = "returned" /\ callee = "python" /\ rc = "ok"
    BY <1>1, <2>2 DEF AskedInv, ResultsAsked
  <2> QED
    BY <2>1, <2>2
<1>3. Now.slots = slots /\ Now.mem = mem
  BY DEF Now
<1> QED
  BY <1>2, <1>3 DEF AsAsked

\* What is known of a frame is known of the call when it has become the frame.
LEMMA BecomesAsked ==
  ASSUME WellTyped(sig), NEW w, Becomes(w), sig' = sig
  PROVE  /\ Kept(w) => Kept(Now)'
         /\ \A i : AsAsked(w, i) => AsAsked(Now, i)'
         /\ \A k : TellsInterface(k) <=> TellsInterface(k)'
         /\ Now'.slots = w.slots
<1> DEFINE N == Len(sig)
<1>1. Now'.slots = w.slots /\ Now'.mem = w.mem
  BY DEF Becomes, Now
<1>2. N \in Nat
  BY SigFields
<1>3. \A k : TellsInterface(k) <=> TellsInterface(k)'
  BY DEF TellsInterface
<1>4. \A i : AsAsked(w, i) => AsAsked(Now, i)'
  BY <1>1 DEF AsAsked, Live, Pointee
<1>5. w \in Sound(N) => (Now \in Sound(Len(sig)))'
  <2> SUFFICES ASSUME w \in Sound(N) PROVE (Now \in Sound(Len(sig)))'
    OBVIOUS
  <2>1. w \in Frames(N) /\ Closed(w) /\ InPlace(w)
    BY DEF Sound
  <2>2. Now' \in Frames(N)
    BY <1>2, <2>1, BecomesFrame
  <2>3. Closed(Now)'
    BY <1>1, <2>1 DEF Closed, InMemory
  <2>4. InPlace(Now)'
    BY <1>1, <2>1 DEF InPlace
  <2> QED
    BY <2>2, <2>3, <2>4 DEF Sound
<1>6. HoldsIIDs(w) => HoldsIIDs(Now)'
  <2>1. \A k : HoldsIID(w, k) => HoldsIID(Now, k)'
    BY <1>1 DEF HoldsIID, Reached
  <2> QED
    BY <1>3, <2>1 DEF HoldsIIDs
<1> QED
  BY <1>1, <1>3, <1>4, <1>5, <1>6 DEF Kept

\* Taking the arguments begins with it,
LEMMA InitCallAsked == CallInv /\ AskedInv /\ caller = "python" /\ InitCall => AskedInv'
<1> SUFFICES ASSUME CallInv, AskedInv, caller = "python", InitCall PROVE AskedInv'
  OBVIOUS
<1> DEFINE N == Len(sig)
<1>1. WellTyped(sig) /\ IIDsPlain(sig) /\ mem = <<>>
  BY DEF CallInv, MethodKind, AskedInv, InitCall
<1>2. IIDsPlain(Repaired(sig)) /\ WellTyped(Repaired(sig)) /\ Len(Repaired(sig)) = N
  BY <1>1, RepairedIIDs, RepairedKind
<1>3. /\ sig' = Repaired(sig) /\ at' = 1 /\ pc' \in {"prepare", "destroy"} /\ mem' = <<>>
      /\ pc' = "prepare" => slots' = Times(N, NewSlot)
  BY <1>1 DEF InitCall, Goto
<1>4. IIDsPlain(sig)' /\ DOMAIN sig' = 1..N /\ Len(sig') = N /\ N \in Nat
  BY <1>2, <1>3, SigFields
<1>5. CallInv'
  BY InitCallInv
<1>6. ASSUME pc' = "prepare" PROVE PreparedAsked(Now, at - 1)'
  <2>1. Now' \in Frames(N)
    BY <1>4, <1>5, <1>6 DEF CallInv, FrameKind
  <2>2. Now'.mem = <<>> /\ Now'.slots = Times(N, NewSlot)
    BY <1>3, <1>6 DEF Now
  <2>3. \A i \in 1..N : Now'.slots[i].val = Null
    <3>1. \A i \in 1..N : Times(N, NewSlot)[i] = NewSlot
      BY <1>4, SlotKinds, TimesSeq
    <3>2. NewSlot.val = Null
      BY DEF NewSlot
    <3> QED
      BY <2>2, <3>1, <3>2
  <2>4. DOMAIN Now'.mem = {}
    BY <2>2
  <2>5. Closed(Now)'
    BY <2>4 DEF Closed
  <2>6. InPlace(Now)'
    BY <1>4, <2>3 DEF InPlace, Points
  <2>7. HoldsIIDs(Now)'
    BY <1>4, <2>3 DEF HoldsIIDs, HoldsIID
  <2>8. Kept(Now)'
    BY <1>4, <2>1, <2>5, <2>6, <2>7 DEF Kept, Sound
  <2>9. \A i \in 1..N : AsAsked(Now, i)'
    <3> SUFFICES ASSUME NEW i \in 1..N PROVE AsAsked(Now, i)'
      OBVIOUS
    <3>1. ~Live(Now', Now'.slots[i].val)
      BY <2>3, NullLeadsNowhere
    <3> QED
      BY <3>1 DEF AsAsked
  <2> QED
    BY <1>4, <2>3, <2>8, <2>9 DEF PreparedAsked
<1> QED
  BY <1>3, <1>4, <1>6 DEF AskedInv

\* preparing a parameter keeps it,
LEMMA PrepareParamAsked == CallInv /\ AskedInv /\ PrepareParam => AskedInv'
<1> SUFFICES ASSUME CallInv, AskedInv, PrepareParam PROVE AskedInv'
  OBVIOUS
<1> DEFINE N == Len(sig)
           n == ParamIndex(at)
           takes == TakesArgument(sig, at)
           out == (IsOut(sig[at]) /\ ~AutoOut(sig, at)) \/ IsDipper(sig[at])
           start == WithType(Now, at)
           filled == IF ~takes THEN start
                     ELSE IF n > Len(args) THEN Raise(start)
                     ELSE FillInVariant(start, at, args[n])
           done == IF filled.ok /\ out THEN PrepareOutVariant(filled, at) ELSE filled
<1>1. /\ WellTyped(sig) /\ N \in Nat /\ at \in 1..N /\ DOMAIN sig = 1..N /\ IIDsPlain(sig)
      /\ Now \in Frames(N)
  BY SigFields DEF CallInv, MethodKind, FrameKind, AskedInv, PrepareParam
<1>2. /\ Becomes(done) /\ UNCHANGED <<sig, caller>>
      /\ pc' = "prepare" => done.ok
      /\ done.ok => at' = at + 1
      /\ pc' \in {"crashed", "prepare", "destroy"}
  BY DEF PrepareParam, Unchanged, WithType
<1>3. ASSUME AsksInterface(sig), done.ok PROVE PreparedAsked(done, at)
  <2>1. Asking(N) /\ PreparedAsked(Now, at - 1)
    <3>1. Asking(N)
      BY <1>1, <1>3 DEF Asking
    <3>2. PreparedAsked(Now, at - 1)
      BY <1>3 DEF AskedInv, PrepareParam
    <3> QED
      BY <3>1, <3>2
  <2>2. PreparedAsked(start, at - 1) /\ start.slots[at].typed
    BY <1>1, <2>1, TypedAsked
  <2>3. at - 1 \in Int /\ at \in Int /\ at - 1 <= at
    BY <1>1
  <2> HIDE DEF start
  <2>4. PreparedAsked(start, at) /\ start \in Frames(N)
    <3>1. PreparedAsked(start, at)
      BY <2>1, <2>2, <2>3, PreparedOn
    <3>2. start \in Frames(N)
      BY <2>1, <3>1, KeptWorking DEF PreparedAsked
    <3> QED
      BY <3>1, <3>2
  <2>5. ASSUME takes, ~(n > Len(args)), FillInVariant(start, at, args[n]).ok
        PROVE  PreparedAsked(FillInVariant(start, at, args[n]), at)
    <3>1. n \in Nat \ {0} /\ args \in Seq(Given)
      BY <1>1, Orders DEF CallInv, MethodKind
    <3> HIDE DEF n
    <3>2. args[n] \in Given
      BY <2>5, <3>1
    <3> DEFINE v == args[n]
    <3>3. v \in Handled /\ Fits(v)
      BY <3>2, GivenKind DEF Fitting
    <3> HIDE DEF v
    <3>4. FillInVariant(start, at, v).ok
      BY <2>5 DEF v
    <3>5. PreparedAsked(FillInVariant(start, at, v), at)
      BY <1>1, <2>1, <2>2, <2>5, <3>3, <3>4, FilledAsked
    <3> QED
      BY <3>5 DEF v
  <2>6. ~Raise(start).ok
    BY <1>1, <2>4, FlagParts
  <2>7. filled.ok => PreparedAsked(filled, at)
    <3> HIDE DEF n, takes
    <3> QED
      BY <2>4, <2>5, <2>6
  <2> HIDE DEF filled
  <2>8. CASE filled.ok /\ out
    <3>1. IsOut(sig[at]) \/ IsDipper(sig[at])
      BY <2>8
    <3>2. PreparedAsked(PrepareOutVariant(filled, at), at)
      BY <1>1, <2>1, <2>7, <2>8, <3>1, SpaceAsked
    <3> QED
      BY <2>8, <3>2
  <2>9. CASE ~(filled.ok /\ out)
    BY <1>3, <2>7, <2>9
  <2> QED
    BY <2>8, <2>9
<1> HIDE DEF done
<1>4. ASSUME AsksInterface(sig), pc' = "prepare" PROVE PreparedAsked(Now, at - 1)'
  <2>1. PreparedAsked(done, at) /\ at' - 1 = at
    BY <1>1, <1>2, <1>3, <1>4
  <2>2. /\ Kept(done) => Kept(Now)'
        /\ \A i : AsAsked(done, i) => AsAsked(Now, i)'
        /\ \A k : TellsInterface(k) <=> TellsInterface(k)'
        /\ Now'.slots = done.slots
    BY <1>1, <1>2, BecomesAsked
  <2> QED
    BY <1>2, <2>1, <2>2 DEF PreparedAsked
<1>5. AsksInterface(sig)' <=> AsksInterface(sig)
  BY <1>2
<1> QED
  BY <1>1, <1>2, <1>4, <1>5 DEF AskedInv

\* preparing the sizes brings it to the method,
LEMMA PrepareSizesAsked == CallInv /\ AskedInv /\ PrepareSizes => AskedInv'
<1> SUFFICES ASSUME CallInv, AskedInv, PrepareSizes PROVE AskedInv'
  OBVIOUS
<1> DEFINE N == Len(sig)
           x == TouchSizes(Now)
<1>1. /\ WellTyped(sig) /\ N \in Nat /\ at \in Nat /\ at > N /\ DOMAIN sig = 1..N
      /\ IIDsPlain(sig)
  BY SigFields DEF CallInv, MethodKind, AskedInv, PrepareSizes
<1>2. Becomes(x) /\ pc' = "call" /\ UNCHANGED <<sig, caller>>
  BY DEF PrepareSizes, Goto, Unchanged
<1>3. ASSUME AsksInterface(sig) PROVE PreparedAsked(x, N)
  <2>1. Asking(N) /\ PreparedAsked(Now, at - 1)
    <3>1. Asking(N)
      BY <1>1, <1>3 DEF Asking
    <3>2. PreparedAsked(Now, at - 1)
      BY <1>3 DEF AskedInv, PrepareSizes
    <3> QED
      BY <3>1, <3>2
  <2>2. PreparedAsked(Now, N)
    BY <1>1, <2>1 DEF PreparedAsked
  <2> QED
    BY <2>1, <2>2, TouchSizesAsked
<1> HIDE DEF x
<1>4. ASSUME AsksInterface(sig) PROVE PreparedAsked(Now, Len(sig))' /\ Handing(Now)'
  <2>1. PreparedAsked(x, N)
    BY <1>3, <1>4
  <2>2. /\ Kept(x) => Kept(Now)'
        /\ \A i : AsAsked(x, i) => AsAsked(Now, i)'
        /\ \A k : TellsInterface(k) <=> TellsInterface(k)'
        /\ Now'.slots = x.slots
    BY <1>1, <1>2, BecomesAsked
  <2>3. PreparedAsked(Now, Len(sig))'
    BY <1>2, <2>1, <2>2 DEF PreparedAsked
  <2>4. Handing(Now)'
    BY <1>2, <2>1, <2>2 DEF PreparedAsked, Handing
  <2> QED
    BY <2>3, <2>4
<1>5. AsksInterface(sig)' <=> AsksInterface(sig)
  BY <1>2
<1> QED
  BY <1>1, <1>2, <1>4, <1>5 DEF AskedInv

\* and so does a native caller.
LEMMA NativePrepareAsked == CallInv /\ AskedInv /\ NativePrepare => AskedInv'
<1> SUFFICES ASSUME CallInv, AskedInv, NativePrepare PROVE AskedInv'
  OBVIOUS
<1> DEFINE N == Len(sig)
           start == [Now EXCEPT !.slots = Times(N, NewSlot)]
<1>1. /\ WellTyped(sig) /\ N \in Nat /\ args \in Seq(Given) /\ DOMAIN sig = 1..N
      /\ NativeValues(sig, ArgumentOrder(sig), args) /\ IIDsPlain(sig) /\ mem = <<>>
      /\ caller = "native"
  BY SigFields DEF CallInv, MethodKind, AskedInv, NativePrepare
<1>2. PICK missing : Becomes(StoreAll(WithSpace(Without(start, missing)),
                                      ArgumentOrder(sig), args))
  BY DEF NativePrepare
<1>3. pc' = "call" /\ UNCHANGED <<sig, caller>>
  BY DEF NativePrepare, NativeUnchanged, Goto
<1>4. start \in Blank(N)
  <2>1. PICK M \in {0, N} : Now \in Frames(M)
    BY DEF CallInv, FrameKind
  <2>2. Now.err \in ErrKinds /\ Now.mem = <<>> /\ Now.ok = TRUE
    <3>1. Now.err \in ErrKinds
      BY <1>1, <2>1, FrameFields DEF IsFrame
    <3> QED
      BY <1>1, <3>1 DEF Now
  <2>3. start = [slots |-> Times(N, NewSlot), mem |-> Now.mem, faults |-> Now.faults,
                 err |-> Now.err, ok |-> TRUE]
    <3>1. start = [slots |-> Times(N, NewSlot), mem |-> Now.mem, faults |-> Now.faults,
                   err |-> Now.err, ok |-> Now.ok]
      BY <1>1, <2>1, FrameUpdates
    <3> HIDE DEF start
    <3> QED
      BY <2>2, <3>1
  <2>4. start \in Frames(N)
    <3> HIDE DEF start, N
    <3> QED
      BY <1>1, <2>1, <2>2, <2>3, FreshFrame DEF N
  <2> HIDE DEF start
  <2>5. start.slots = Times(N, NewSlot) /\ start.mem = <<>>
    BY <2>2, <2>3
  <2>6. \A i \in 1..N : start.slots[i].val = Null
    <3>1. \A i \in 1..N : Times(N, NewSlot)[i] = NewSlot
      BY <1>1, SlotKinds, TimesSeq
    <3>2. NewSlot.val = Null
      BY DEF NewSlot
    <3> QED
      BY <2>5, <3>1, <3>2
  <2> QED
    BY <2>4, <2>5, <2>6 DEF Blank
<1> HIDE DEF start
<1> DEFINE x == StoreAll(WithSpace(Without(start, missing)), ArgumentOrder(sig), args)
<1>5. ASSUME AsksInterface(sig) PROVE Handing(x)
  <2>1. Asking(N)
    BY <1>1, <1>5 DEF Asking
  <2>2. Without(start, missing) \in Blank(N)
    BY <1>4, <2>1, WithoutBlank
  <2>3. Handing(WithSpace(Without(start, missing)))
    BY <2>1, <2>2, BlankHanding, WithSpaceHanding
  <2> QED
    BY <1>1, <2>1, <2>3, StoreAllHanding
<1>6. Becomes(x)
  BY <1>2
<1> HIDE DEF x
<1>7. ASSUME AsksInterface(sig) PROVE Handing(Now)'
  <2>1. Handing(x)
    BY <1>5, <1>7
  <2>2. /\ Kept(x) => Kept(Now)' /\ Now'.slots = x.slots
    BY <1>1, <1>3, <1>6, BecomesAsked
  <2> QED
    BY <1>3, <2>1, <2>2 DEF Handing
<1>8. AsksInterface(sig)' <=> AsksInterface(sig)
  BY <1>3
<1> QED
  BY <1>1, <1>3, <1>7, <1>8 DEF AskedInv

\* So does taking them for a Python method whose signature was refused.
LEMMA InsaneReads ==
  ASSUME WellTyped(sig), NEW N, N = Len(sig), Now \in Frames(N), StubMakeArgsInsane,
         pc' = "method"
  PROVE  \E x \in Frames(N) : Becomes(x) /\ x.slots = Now.slots /\ x.mem = Now.mem
<1> DEFINE start == [Now EXCEPT !.err = "error"]
           r == MakePyArgs(start)
           y == r[1]
<1>1. N \in Nat
  BY SigFields
<1>2. "error" \in ErrKinds /\ "none" \in ErrKinds
  BY DEF ErrKinds
<1>3. start \in Frames(N) /\ start.slots = Now.slots /\ start.mem = Now.mem
  <2>1. start \in Frames(N)
    BY <1>1, <1>2, FlagFrame
  <2> QED
    BY <2>1 DEF Now
<1>4. y \in Frames(N) /\ y.slots = Now.slots /\ y.mem = Now.mem
  <2> HIDE DEF start
  <2> QED
    BY <1>1, <1>3, MakePyArgsFrame, MakePyArgsReads
<1>5. \E e \in {"error", "none"} : Becomes([y EXCEPT !.err = e])
  BY DEF StubMakeArgsInsane, StubGoesOn, Goto
<1> HIDE DEF y
<1>6. PICK e \in {"error", "none"} : Becomes([y EXCEPT !.err = e])
  BY <1>5
<1> DEFINE x == [y EXCEPT !.err = e]
<1>7. x \in Frames(N) /\ x.slots = y.slots /\ x.mem = y.mem
  BY <1>1, <1>2, <1>4, FlagFrame, FlagParts
<1>8. Becomes(x)
  BY <1>6
<1> HIDE DEF x
<1> QED
  BY <1>4, <1>7, <1>8

\* The stub keeps it,
LEMMA StubAsked == CallInv /\ AskedInv /\ Pending /\ Stub => AskedInv'
<1> SUFFICES ASSUME CallInv, AskedInv, Pending, Stub PROVE AskedInv'
  OBVIOUS
<1> DEFINE N == Len(sig)
<1>1. /\ WellTyped(sig) /\ N \in Nat /\ IIDsPlain(sig) /\ AnswersGiven
      /\ Now \in Frames(N)
  BY SigFields DEF CallInv, MethodKind, AskedInv, FrameKind, Stub, StubMakeArgs,
     StubMakeArgsInsane, MethodReturns, MethodReturnsCode, MethodRaises, HandleException
<1>2. /\ UNCHANGED <<sig, caller, callee>>
      /\ pc' \in {"method", "crashed", "excepted", "returned"}
      /\ pc' = "method" => StubMakeArgs \/ StubMakeArgsInsane
      /\ StubMakeArgs \/ StubMakeArgsInsane => pc = "call"
  BY DEF Stub, StubMakeArgs, StubMakeArgsInsane, MethodReturns, MethodReturnsCode, MethodRaises,
         HandleException, StubGoesOn, StubUnchanged, Goto
<1>3. ASSUME AsksInterface(sig), pc' = "method", callee = "python" PROVE Handing(Now)'
  <2>1. pc = "call"
    BY <1>2, <1>3
  <2>2. \E x \in Frames(N) : Becomes(x) /\ x.slots = Now.slots /\ x.mem = Now.mem
    <3>1. CASE StubMakeArgs
      <4> DEFINE x == MakePyArgs(Now)[1]
      <4>1. x.slots = Now.slots /\ x.mem = Now.mem /\ x \in Frames(N)
        BY <1>1, MakePyArgsReads, MakePyArgsFrame
      <4>2. (x.ok => Becomes(x)) /\ (~x.ok => pc' # "method")
        BY <3>1 DEF StubMakeArgs, StubGoesOn, Goto
      <4> HIDE DEF x
      <4> QED
        BY <1>3, <4>1, <4>2
    <3>2. CASE StubMakeArgsInsane
      BY <1>1, <1>3, <3>2, InsaneReads
    <3> QED
      BY <1>2, <1>3, <3>1, <3>2
  <2>3. PICK x \in Frames(N) : Becomes(x) /\ x.slots = Now.slots /\ x.mem = Now.mem
    BY <2>2
  <2>4. x.slots = Now.slots /\ x.mem = Now.mem /\ x \in Frames(N)
    BY <2>3
  <2>5. Becomes(x)
    BY <2>3
  <2>6. Handing(x)
    <3>1. Handing(Now) /\ Asking(N)
      BY <1>1, <1>3, <2>1 DEF AskedInv, Asking
    <3>2. Working(N, Now, {}) /\ Now \in Sparing(N, Now, {}) /\ Now \in Sound(N) /\ N \in Nat
      BY <3>1, KeptWorking DEF Handing
    <3>3. x \in Sparing(N, Now, {})
      BY <2>4, <3>2, SpareFlags
    <3> QED
      BY <3>1, <3>3, HandingStays
  <2>7. Kept(x) => Kept(Now)' /\ Now'.slots = x.slots
    BY <1>1, <1>2, <2>5, BecomesAsked
  <2> QED
    BY <1>2, <2>6, <2>7 DEF Handing
<1>4. ASSUME AsksInterface(sig), pc' = "returned", callee = "python", rc' = "ok"
      PROVE  ResultsAsked(Now)'
  <2>1. pc = "method" => Kept(Now) /\ ResultsAsked(Now) /\ Asking(N)
    <3>1. Asking(N)
      BY <1>1, <1>4 DEF Asking
    <3>2. pc = "method" => Handing(Now)
      BY <1>4 DEF AskedInv
    <3> QED
      BY <3>1, <3>2, HandingResults
  <2>2. \E w : Becomes(w) /\ ResultsAsked(w)
    <3>1. CASE StubMakeArgs
      BY <1>4, <3>1 DEF StubMakeArgs, StubGoesOn, Goto
    <3>2. CASE MethodReturns
      <4> DEFINE w == ProcessPythonResult(Now)
      <4>1. pc = "method" /\ StubGoesOn(w, IF w.ok THEN "ok" ELSE "failure")
        BY <3>2 DEF MethodReturns
      <4>2. Answered(w)
        BY <1>1, <2>1, <4>1, ProcessAnswered
      <4> HIDE DEF w
      <4>3. Becomes(w) /\ w.ok
        BY <1>4, <4>1 DEF StubGoesOn
      <4> QED
        BY <4>2, <4>3 DEF Answered
    <3>3. CASE MethodReturnsCode
      <4>1. pc = "method" /\ Becomes(Now)
        BY <3>3 DEF MethodReturnsCode, StubGoesOn
      <4> QED
        BY <2>1, <4>1
    <3>6. CASE StubMakeArgsInsane
      BY <1>4, <3>6 DEF StubMakeArgsInsane, StubGoesOn, Goto
    <3>4. CASE MethodRaises
      BY <1>4, <3>4 DEF MethodRaises, StubGoesOn
    <3>5. CASE HandleException
      <4>1. PICK answer \in HandlerAnswers, ready \in BOOLEAN :
              rc' = ErrorResult(err, answer, ready)
        BY <3>5 DEF HandleException, StubGoesOn
      <4>2. err # "none"
        BY <3>5 DEF HandleException, Pending
      <4> QED
        BY <1>4, <4>1, <4>2, ErrorResultFails
    <3> QED
      BY <3>1, <3>2, <3>3, <3>4, <3>5, <3>6 DEF Stub
  <2>3. PICK w : Becomes(w) /\ ResultsAsked(w)
    BY <2>2
  <2>4. \A i : AsAsked(w, i) => AsAsked(Now, i)'
    BY <1>1, <1>2, <2>3, BecomesAsked
  <2> QED
    BY <1>2, <2>3, <2>4 DEF ResultsAsked
<1>5. AsksInterface(sig)' <=> AsksInterface(sig)
  BY <1>2
<1> QED
  BY <1>1, <1>2, <1>3, <1>4, <1>5 DEF AskedInv

\* and no other step comes to where it says something.
LEMMA OthersAsked ==
  ASSUME AskedInv, BuildResult \/ DestroyHelper \/ NativeFinish \/ NativeFails \/ NativeMethod
  PROVE  AskedInv'
<1>1. UNCHANGED <<sig, callee>>
  BY DEF BuildResult, DestroyHelper, Unchanged, NativeFinish, NativeFails, NativeMethod,
         NativeUnchanged
<1>2. /\ pc' \notin {"init", "prepare", "call", "method"}
      /\ pc' = "returned" => callee # "python"
  BY DEF BuildResult, DestroyHelper, NativeFinish, NativeFails, NativeMethod, Goto
<1> QED
  BY <1>1, <1>2 DEF AskedInv

\* An interface whose IID is another parameter is passed as the interface with
\* that IID, to a method that Python calls and back from one that Python
\* implements (FillInVariant, GetIIDForINTERFACE_ID and BackFillVariant in
\* VariantUtils.cpp), whatever the arguments and the answers are, and whatever
\* else the method takes - if the IIDs are declared as PlainIIDs says.
THEOREM InterfacesAreAsAsked ==
  ASSUME PlainIIDs
  PROVE  Spec => []InterfacesAsAsked
<1>1. Init => CallInv /\ Pending /\ AskedInv
  <2>1. Init => IIDsPlain(sig) /\ pc = "init" /\ mem = <<>>
    BY DEF Init, PlainIIDs
  <2>2. Init => Pending
    BY DEF Init, Pending
  <2> QED
    BY <2>1, <2>2, InitInv DEF AskedInv
<1>2. CallInv /\ Pending /\ AskedInv /\ [Next]_vars => AskedInv'
  <2> SUFFICES ASSUME CallInv, Pending, AskedInv, [Next]_vars PROVE AskedInv'
    OBVIOUS
  <2>1. CASE UNCHANGED vars
    <3>1. /\ sig' = sig /\ caller' = caller /\ callee' = callee /\ pc' = pc /\ at' = at
          /\ slots' = slots /\ mem' = mem /\ faults' = faults /\ err' = err /\ rc' = rc
      BY <2>1 DEF vars, frame
    <3>2. Now' = Now
      BY <3>1 DEF Now
    <3>3. /\ PreparedAsked(Now, at - 1) => PreparedAsked(Now, at - 1)'
          /\ PreparedAsked(Now, Len(sig)) => PreparedAsked(Now, Len(sig))'
          /\ Handing(Now) => Handing(Now)'
          /\ ResultsAsked(Now) => ResultsAsked(Now)'
      BY <3>1, <3>2 DEF PreparedAsked, Handing, ResultsAsked, Kept, Sound, InPlace, Closed,
         HoldsIIDs, HoldsIID, Reached, TellsInterface, AsAsked
    <3> QED
      BY <3>1, <3>3 DEF AskedInv
  <2>2. CASE caller = "python" /\ PythonCaller
    BY <2>2, InitCallAsked, PrepareParamAsked, PrepareSizesAsked, OthersAsked
       DEF PythonCaller
  <2>3. CASE Stub
    BY <2>3, StubAsked
  <2>4. CASE NativePrepare \/ NativeFinish \/ NativeFails \/ NativeMethod
    BY <2>4, NativePrepareAsked, OthersAsked
  <2>5. CASE Finished
    BY <2>1, <2>5 DEF Finished
  <2> QED
    BY <2>1, <2>2, <2>3, <2>4, <2>5 DEF Next
<1> QED
  BY <1>1, <1>2, StepInv, PendingKept, AskedInvAgree, PTL DEF Spec

=============================================================================
