------------------------------ MODULE Gateway ------------------------------
(***************************************************************************)
(* The gateways through which XPCOM reaches one Python instance:           *)
(* PyG_Base, PyXPCOM_XPTStub and PyXPCOM_GatewayWeakReference              *)
(* (xpcom/src/PyGBase.cpp, PyGStub.cpp, PyGWeakReference.cpp).             *)
(*                                                                         *)
(* The first gateway made for the instance is its base object; the others  *)
(* are tear-offs, each for one interface, that hold a reference to the     *)
(* base.  The base owns a weak reference, and the instance keeps that weak *)
(* reference in an attribute ("_com_instance_default_gateway_") so that    *)
(* wrapping the instance again finds the base and not a second one.        *)
(*                                                                         *)
(* Threads interleave between the steps below.  Python code and attribute  *)
(* accesses run under the GIL; reference counts reaching zero, the pointer *)
(* inside a weak reference and the chain of tear-offs are guarded by the   *)
(* framework lock, which is not recursive.                                 *)
(*                                                                         *)
(* A step that touches a gateway that is being destroyed or is already     *)
(* freed is undefined behaviour: it sets "fault" and nothing more happens. *)
(***************************************************************************)
EXTENDS Naturals, FiniteSets

CONSTANTS
  Threads,     \* threads that call into XPCOM or Python
  Wrappers,    \* the threads that auto-wrap the instance
  Gateways,    \* memory cells for gateways
  Weaks,       \* memory cells for weak reference objects
  Iids,        \* interfaces the policy nominates for the instance
  NSISupports, \* the identity interface
  Unsupported, \* an interface the instance does not have
  WrapIids,    \* interfaces for which the instance gets auto-wrapped
  Debug,       \* Python's __debug__: FALSE when it runs optimised
  MaxExt,      \* bound on the references clients hold
  None

ASSUME NoneAssumption ==
  None \notin Threads \cup Gateways \cup Weaks \cup Iids
ASSUME IidAssumption ==
  /\ NSISupports \notin Iids
  /\ Unsupported \notin Iids \cup {NSISupports}
  /\ WrapIids \subseteq Iids \cup {NSISupports, Unsupported}
ASSUME ThreadAssumption == Wrappers \subseteq Threads
ASSUME FiniteAssumption == IsFiniteSet(Threads) /\ IsFiniteSet(Gateways)
ASSUME BoundAssumption == MaxExt \in Nat /\ Debug \in BOOLEAN

VARIABLES
  gil,        \* the thread that holds the Python lock, or None
  framework,  \* the thread that holds the framework lock, or None
  state,      \* "free", "live", or "dying" from the last Release to the free
  refs,       \* mRefCnt
  iid,        \* m_iid
  base,       \* m_pBaseObject
  linked,     \* the tear-offs in the m_pNextObject chain of their base
  weak,       \* m_pWeakRef
  wbase,      \* m_pBase of each weak reference object
  attr,       \* the weak reference in the instance's attribute
  ext,        \* references the clients own and may use or drop at any time
  pc, op,     \* what each thread does next, and as part of which call
  own,        \* the gateway on which the call holds a reference
  want,       \* the interface the call asks for
  wk,         \* the weak reference the call dereferences
  got,        \* the gateway the call found or is constructing
  fault       \* freed memory was touched

locks  == <<gil, framework>>
cells  == <<state, refs, iid, base, linked>>
weaks  == <<weak, wbase>>
local  == <<op, own, want, wk, got>>
vars   == <<locks, cells, weaks, attr, ext, pc, local, fault>>

AskedIids == Iids \cup {NSISupports, Unsupported}

Labels ==
  {"idle", "qr", "qr_check", "qr_addref", "qi", "find", "qi_addref",
   "checked", "wrap", "gd", "gd_check", "gd_addref", "link", "first_ref",
   "add_default", "get_weak", "new_weak", "ret",
   "rel", "rel_dec", "rel_zap", "unlink", "dtor"}

Calls == {"none", "release", "qi", "weak", "referent", "check", "wrap"}

\* XPCOM identity: the gateway whose nsISupports stands for g's object.
BaseOf(g) == IF base[g] = None THEN g ELSE base[g]

Alive(w) == w # None /\ wbase[w] # None

-----------------------------------------------------------------------------
Init ==
  /\ gil = None /\ framework = None
  /\ state = [g \in Gateways |-> "free"]
  /\ refs = [g \in Gateways |-> 0]
  /\ iid = [g \in Gateways |-> None]
  /\ base = [g \in Gateways |-> None]
  /\ linked = {}
  /\ weak = [g \in Gateways |-> None]
  /\ wbase = [w \in Weaks |-> None]
  /\ attr = None
  /\ ext = [g \in Gateways |-> 0]
  /\ pc = [t \in Threads |-> "idle"]
  /\ op = [t \in Threads |-> "none"]
  /\ own = [t \in Threads |-> None]
  /\ want = [t \in Threads |-> None]
  /\ wk = [t \in Threads |-> None]
  /\ got = [t \in Threads |-> None]
  /\ fault = FALSE

-----------------------------------------------------------------------------
\* CEnterLeaveXPCOMFramework: one thread at a time.
FrameworkFree == framework = None
EnterFramework(t) == FrameworkFree /\ framework' = t
LeaveFramework(t) == framework = t /\ framework' = None

\* CEnterLeavePython, for a thread that does not hold the GIL.
EnterPython(t) == gil = None /\ gil' = t
LeavePython(t) == gil = t /\ gil' = None

Go(t, from, to) == pc[t] = from /\ pc' = [pc EXCEPT ![t] = to]

\* Bound: the references clients own, with one result per call in progress.
RoomForResult ==
  Cardinality({r \in Gateways \X (1..MaxExt) : r[2] <= ext[r[1]]})
    + Cardinality({t \in Threads : pc[t] # "idle"}) < MaxExt

Deliver(g) == ext' = [ext EXCEPT ![g] = @ + 1]

\* The call of t starts; the client's reference to g, if any, is lent to it.
Begin(t, call, g, i, w) ==
  /\ op' = [op EXCEPT ![t] = call]
  /\ own' = [own EXCEPT ![t] = g]
  /\ want' = [want EXCEPT ![t] = i]
  /\ wk' = [wk EXCEPT ![t] = w]
  /\ UNCHANGED got

\* The call of t is over: what it lent goes back and its result goes out.
Finish(t) ==
  /\ pc' = [pc EXCEPT ![t] = "idle"]
  /\ op' = [op EXCEPT ![t] = "none"]
  /\ own' = [own EXCEPT ![t] = None]
  /\ want' = [want EXCEPT ![t] = None]
  /\ wk' = [wk EXCEPT ![t] = None]
  /\ got' = [got EXCEPT ![t] = None]

\* A call that drops a reference goes on here once Release has returned.
AfterRelease(t) ==
  IF op[t] = "check"
  THEN /\ pc' = [pc EXCEPT ![t] = "checked"]
       /\ own' = [own EXCEPT ![t] = None]
       /\ UNCHANGED <<op, want, wk, got, ext>>
  ELSE /\ Finish(t)
       /\ IF got[t] # None THEN Deliver(got[t]) ELSE UNCHANGED ext

-----------------------------------------------------------------------------
(* Slips: actions below as a plausible mistake in the code would have them. *)
(* Nothing here is part of the specification; with the action replaced by   *)
(* its slip, model checking finds the properties violated.                  *)

\* A client releases a reference twice.
ReleasedTwice(t, g) ==
  /\ Go(t, "idle", "rel")
  /\ ext' = [ext EXCEPT ![g] = @ - 1]
  /\ Begin(t, "release", g, None, None)
  /\ UNCHANGED <<locks, cells, weaks, attr, fault>>

\* CheckDefaultGateway wipes the attribute whether or not it was of use.
WipedAlways(t) ==
  /\ pc[t] = "checked" /\ gil = None
  /\ attr' = None
  /\ \/ got[t] # None /\ Finish(t) /\ Deliver(got[t])
     \/ got[t] = None /\ pc' = [pc EXCEPT ![t] = "wrap"]
        /\ UNCHANGED <<local, ext>>
  /\ UNCHANGED <<locks, cells, weaks, fault>>

\* CheckDefaultGateway tries the weak reference again when it failed.
TriedAgain(t) ==
  /\ pc[t] = "checked" /\ gil = None
  /\ \/ got[t] # None /\ Finish(t) /\ Deliver(got[t])
     \/ got[t] = None /\ Go(t, "checked", "qr") /\ UNCHANGED <<local, ext>>
  /\ UNCHANGED <<locks, cells, weaks, attr, fault>>

\* QueryReferent takes no keepalive reference.
NotKeptAlive(t) ==
  /\ Go(t, "qr_addref", "qi")
  /\ own' = [own EXCEPT ![t] = wbase[wk[t]]]
  /\ LeaveFramework(t)
  /\ UNCHANGED <<gil, cells, weaks, attr, ext, op, want, wk, got, fault>>

\* GetDefaultGateway misses the gateway that is there.
GatewayMissed(t) ==
  /\ Go(t, "gd_check", "link")
  /\ LeaveFramework(t)
  /\ UNCHANGED <<gil, cells, weaks, attr, ext, local, fault>>

\* m_pBaseObject is set without a reference.
BaseBorrowed(t) ==
  /\ Go(t, "gd_addref", "link")
  /\ base' = [base EXCEPT ![got[t]] = wbase[attr]]
  /\ LeaveFramework(t)
  /\ UNCHANGED <<gil, state, refs, iid, linked, weaks, attr, ext, local,
                 fault>>

\* CreateNew counts the caller's reference twice.
CountedTwice(t) ==
  /\ Go(t, "first_ref", "add_default")
  /\ refs' = [refs EXCEPT ![got[t]] = @ + 2]
  /\ UNCHANGED <<locks, state, iid, base, linked, weaks, attr, ext, local,
                 fault>>

\* WrapObject does not make its gateway the default one.
NotMadeDefault(t) ==
  /\ Go(t, "add_default", "ret")
  /\ LeavePython(t)
  /\ UNCHANGED <<framework, cells, weaks, attr, ext, local, fault>>

\* The last Release does not null the pointer in the weak reference.
NotZapped(t) ==
  /\ Go(t, "rel_zap", "unlink")
  /\ weak' = [weak EXCEPT ![own[t]] = None]
  /\ state' = [state EXCEPT ![own[t]] = "dying"]
  /\ LeaveFramework(t)
  /\ UNCHANGED <<gil, refs, iid, base, linked, wbase, attr, ext, local,
                 fault>>

\* A tear-off goes on to release its base and is never freed itself.
NotFreed(t) ==
  /\ pc[t] = "dtor" /\ gil = None
  /\ base[own[t]] # None
  /\ pc' = [pc EXCEPT ![t] = "rel"]
  /\ own' = [own EXCEPT ![t] = base[own[t]]]
  /\ UNCHANGED <<locks, cells, weaks, attr, ext, op, want, wk, got, fault>>

-----------------------------------------------------------------------------
(* What clients do with the references they own. *)

CallRelease(t, g) ==
  /\ Go(t, "idle", "rel")
  /\ ext[g] > 0
  /\ ext' = [ext EXCEPT ![g] = @ - 1]
  /\ Begin(t, "release", g, None, None)
  /\ UNCHANGED <<locks, cells, weaks, attr, fault>>

CallQueryInterface(t, g, i) ==
  /\ Go(t, "idle", "qi")
  /\ ext[g] > 0 /\ RoomForResult
  /\ ext' = [ext EXCEPT ![g] = @ - 1]
  /\ Begin(t, "qi", g, i, None)
  /\ UNCHANGED <<locks, cells, weaks, attr, fault>>

CallGetWeakReference(t, g) ==
  /\ Go(t, "idle", "get_weak")
  /\ ext[g] > 0
  /\ ext' = [ext EXCEPT ![g] = @ - 1]
  /\ Begin(t, "weak", g, None, None)
  /\ UNCHANGED <<locks, cells, weaks, attr, fault>>

\* A client that got w from GetWeakReference dereferences it.
CallQueryReferent(t, w, i) ==
  /\ Go(t, "idle", "qr")
  /\ RoomForResult
  /\ w = attr \/ \E g \in Gateways : weak[g] = w
  /\ Begin(t, "referent", None, i, w)
  /\ UNCHANGED <<locks, cells, weaks, attr, ext, fault>>

\* AutoWrapPythonInstance up to the first release of the GIL: no attribute,
\* then on to WrapObject; or CheckDefaultGateway dereferences the attribute.
AutoWrap(t, i) ==
  /\ pc[t] = "idle" /\ RoomForResult
  /\ gil = None
  /\ \/ /\ attr = None
        /\ pc' = [pc EXCEPT ![t] = "wrap"]
        /\ Begin(t, "wrap", None, i, None)
     \/ /\ attr # None
        /\ pc' = [pc EXCEPT ![t] = "qr"]
        /\ Begin(t, "check", None, i, attr)
  /\ UNCHANGED <<locks, cells, weaks, attr, ext, fault>>

\* CheckDefaultGateway with the GIL back: use the gateway that was found, or
\* wipe the attribute, whatever it holds by now, and wrap afresh.
Checked(t) ==
  /\ pc[t] = "checked" /\ gil = None
  /\ \/ /\ got[t] # None
        /\ Finish(t) /\ Deliver(got[t])
        /\ UNCHANGED attr
     \/ /\ got[t] = None
        /\ attr' = None
        /\ pc' = [pc EXCEPT ![t] = "wrap"]
        /\ op' = [op EXCEPT ![t] = "wrap"]
        /\ wk' = [wk EXCEPT ![t] = None]
        /\ UNCHANGED <<own, want, got, ext>>
  /\ UNCHANGED <<locks, cells, weaks, fault>>

-----------------------------------------------------------------------------
(* PyXPCOM_GatewayWeakReference::QueryReferent *)

QueryReferent(t) ==
  /\ Go(t, "qr", "qr_check")
  /\ EnterFramework(t)
  /\ UNCHANGED <<gil, cells, weaks, attr, ext, local, fault>>

ReferentGone(t) ==
  /\ pc[t] = "qr_check" /\ wbase[wk[t]] = None
  /\ LeaveFramework(t)
  /\ AfterRelease(t)
  /\ UNCHANGED <<gil, cells, weaks, attr, fault>>

ReferentFound(t) ==
  /\ Go(t, "qr_check", "qr_addref")
  /\ wbase[wk[t]] # None
  /\ UNCHANGED <<locks, cells, weaks, attr, ext, local, fault>>

\* The keepalive reference, taken before the lock is left.
ReferentKeepAlive(t) ==
  LET g == wbase[wk[t]] IN
  /\ Go(t, "qr_addref", "qi")
  /\ state[g] = "live"
  /\ refs' = [refs EXCEPT ![g] = @ + 1]
  /\ own' = [own EXCEPT ![t] = g]
  /\ LeaveFramework(t)
  /\ UNCHANGED <<gil, state, iid, base, linked, weaks, attr, ext,
                 op, want, wk, got, fault>>

-----------------------------------------------------------------------------
(* PyG_Base::QueryInterface and PyXPCOM_XPTStub::ThisAsIID *)

\* What the gateway answers without its chain: its own interface, and
\* nsISupports, which always comes from the base.
Itself(g, i) ==
  IF i = NSISupports THEN BaseOf(g) ELSE IF i = iid[g] THEN g ELSE None

\* The stubs a walk of the chain meets, from the base on.  (The chain's order
\* only decides between two stubs for one interface: either may be returned.)
ChainOf(g) == {BaseOf(g)} \cup {h \in linked : base[h] = BaseOf(g)}
Matches(g, i) ==
  IF iid[BaseOf(g)] = i THEN {BaseOf(g)} ELSE {h \in ChainOf(g) : iid[h] = i}

QueryItself(t) ==
  LET h == Itself(own[t], want[t]) IN
  /\ Go(t, "qi", "ret")
  /\ h # None
  /\ refs' = [refs EXCEPT ![h] = @ + 1]
  /\ got' = [got EXCEPT ![t] = h]
  /\ UNCHANGED <<locks, state, iid, base, linked, weaks, attr, ext,
                 op, own, want, wk, fault>>

QueryOther(t) ==
  /\ Go(t, "qi", "find")
  /\ Itself(own[t], want[t]) = None
  /\ UNCHANGED <<locks, cells, weaks, attr, ext, local, fault>>

\* The walk is under the framework lock; the AddRef in QueryInterface is not.
FindStub(t) ==
  /\ Go(t, "find", "qi_addref")
  /\ FrameworkFree
  /\ \E h \in Matches(own[t], want[t]) : got' = [got EXCEPT ![t] = h]
  /\ UNCHANGED <<locks, cells, weaks, attr, ext, op, own, want, wk, fault>>

AddRefStub(t) ==
  /\ Go(t, "qi_addref", "ret")
  /\ state[got[t]] = "live"
  /\ refs' = [refs EXCEPT ![got[t]] = @ + 1]
  /\ UNCHANGED <<locks, state, iid, base, linked, weaks, attr, ext,
                 local, fault>>

\* No stub: the policy's _QueryInterface_ wraps the instance for a nominated
\* interface, and answers None for any other.
AskPolicy(t) ==
  /\ Go(t, "find", IF want[t] \in Iids THEN "wrap" ELSE "ret")
  /\ FrameworkFree
  /\ Matches(own[t], want[t]) = {}
  /\ UNCHANGED <<locks, cells, weaks, attr, ext, local, fault>>

\* QueryInterface returns: to the client, or to QueryReferent, which drops
\* its keepalive.  A call that wrapped the instance returns here too.
Return(t) ==
  /\ pc[t] = "ret"
  /\ \/ /\ op[t] \in {"referent", "check"}
        /\ pc' = [pc EXCEPT ![t] = "rel"]
        /\ UNCHANGED <<local, ext>>
     \/ /\ op[t] \in {"qi", "wrap", "weak"}
        /\ Finish(t)
        /\ ext' = [g \in Gateways |->
                     ext[g] + (IF g = own[t] THEN 1 ELSE 0)
                            + (IF g = got[t] THEN 1 ELSE 0)]
  /\ UNCHANGED <<locks, cells, weaks, attr, fault>>

-----------------------------------------------------------------------------
(* PyXPCOMMethod_WrapObject: CreateNew, then AddDefaultGateway, all under  *)
(* the GIL.                                                                *)

\* operator new does not fail: at the bound on the number of cells a thread
\* waits for one.  A freed cell that a thread still points to is not reused,
\* so that its use stays visible as a fault.
FreeCells == {g \in Gateways : state[g] = "free"
                               /\ \A t \in Threads : got[t] # g}

\* The check in the policy's constructor that the instance nominates iid,
\* which an optimised Python leaves out.
Refused(i) == Debug /\ i = Unsupported

\* operator new, then PyG_Base's constructor up to GetDefaultGateway.
WrapObject(t) ==
  /\ pc[t] = "wrap" /\ ~Refused(want[t])
  /\ EnterPython(t)
  /\ \E g \in FreeCells :
       /\ state' = [state EXCEPT ![g] = "live"]
       /\ iid' = [iid EXCEPT ![g] = want[t]]
       /\ got' = [got EXCEPT ![t] = g]
  /\ pc' = [pc EXCEPT ![t] = IF attr = None THEN "link" ELSE "gd"]
  /\ UNCHANGED <<framework, refs, base, linked, weaks, attr, ext,
                 op, own, want, wk, fault>>

WrapRefused(t) ==
  /\ Go(t, "wrap", "ret")
  /\ gil = None /\ Refused(want[t])
  /\ UNCHANGED <<locks, cells, weaks, attr, ext, local, fault>>

\* GetDefaultGateway: QueryReferent for nsIInternalPython, with the GIL held.
GetDefaultGateway(t) ==
  /\ Go(t, "gd", "gd_check")
  /\ EnterFramework(t)
  /\ UNCHANGED <<gil, cells, weaks, attr, ext, local, fault>>

NoDefaultGateway(t) ==
  /\ Go(t, "gd_check", "link")
  /\ wbase[attr] = None
  /\ LeaveFramework(t)
  /\ UNCHANGED <<gil, cells, weaks, attr, ext, local, fault>>

DefaultGatewayFound(t) ==
  /\ Go(t, "gd_check", "gd_addref")
  /\ wbase[attr] # None
  /\ UNCHANGED <<locks, cells, weaks, attr, ext, local, fault>>

\* The base answers nsIInternalPython itself, so the reference that the
\* query returns and the keepalive that is dropped come to one AddRef.
SetBaseObject(t) ==
  /\ Go(t, "gd_addref", "link")
  /\ state[wbase[attr]] = "live"
  /\ refs' = [refs EXCEPT ![wbase[attr]] = @ + 1]
  /\ base' = [base EXCEPT ![got[t]] = wbase[attr]]
  /\ LeaveFramework(t)
  /\ UNCHANGED <<gil, state, iid, linked, weaks, attr, ext, local, fault>>

\* PyXPCOM_XPTStub's constructor puts a tear-off into the chain of its base.
LinkStub(t) ==
  /\ Go(t, "link", "first_ref")
  /\ FrameworkFree
  /\ linked' = IF base[got[t]] # None THEN linked \cup {got[t]} ELSE linked
  /\ UNCHANGED <<locks, state, refs, iid, base, weaks, attr, ext,
                 local, fault>>

\* CreateNew: "The first reference for the caller."
FirstReference(t) ==
  /\ Go(t, "first_ref", "add_default")
  /\ state[got[t]] = "live"
  /\ refs' = [refs EXCEPT ![got[t]] = @ + 1]
  /\ UNCHANGED <<locks, state, iid, base, linked, weaks, attr, ext,
                 local, fault>>

\* AddDefaultGateway keeps an attribute whose weak reference is alive.
KeepDefaultGateway(t) ==
  /\ Go(t, "add_default", "ret")
  /\ FrameworkFree /\ Alive(attr)
  /\ LeavePython(t)
  /\ UNCHANGED <<framework, cells, weaks, attr, ext, local, fault>>

AddDefaultGateway(t) ==
  /\ Go(t, "add_default", "get_weak")
  /\ FrameworkFree /\ ~Alive(attr)
  /\ UNCHANGED <<locks, cells, weaks, attr, ext, local, fault>>

\* The gateway whose GetWeakReference runs: the one under construction, or
\* the one the client called, either delegating to its base.
WeakTarget(t) == BaseOf(IF op[t] = "weak" THEN own[t] ELSE got[t])

\* SetAttrString, and the end of WrapObject; a client just gets its pointer.
GiveWeak(t, w) ==
  \/ op[t] = "weak" /\ UNCHANGED <<attr, locks>>
  \/ op[t] # "weak" /\ attr' = w /\ LeavePython(t) /\ UNCHANGED framework

HaveWeakReference(t) ==
  /\ Go(t, "get_weak", "ret")
  /\ weak[WeakTarget(t)] # None
  /\ GiveWeak(t, weak[WeakTarget(t)])
  /\ UNCHANGED <<cells, weaks, ext, local, fault>>

NoWeakReference(t) ==
  /\ Go(t, "get_weak", "new_weak")
  /\ weak[WeakTarget(t)] = None
  /\ UNCHANGED <<locks, cells, weaks, attr, ext, local, fault>>

FreeWeaks == {w \in Weaks : /\ wbase[w] = None /\ w # attr
                            /\ \A g \in Gateways : weak[g] # w
                            /\ \A t \in Threads : wk[t] # w}

\* Which free cell operator new picks makes no difference.
NewWeakReference(t) ==
  LET w == CHOOSE w \in FreeWeaks : TRUE IN
  /\ Go(t, "new_weak", "ret")
  /\ FreeWeaks # {}
  /\ wbase' = [wbase EXCEPT ![w] = WeakTarget(t)]
  /\ weak' = [weak EXCEPT ![WeakTarget(t)] = w]
  /\ GiveWeak(t, w)
  /\ UNCHANGED <<cells, ext, local, fault>>

-----------------------------------------------------------------------------
(* PyG_Base::Release and the destructors *)

Release(t) ==
  /\ Go(t, "rel", "rel_dec")
  /\ EnterFramework(t)
  /\ UNCHANGED <<gil, cells, weaks, attr, ext, local, fault>>

Decrement(t) ==
  LET g == own[t] IN
  /\ pc[t] = "rel_dec" /\ state[g] = "live"
  /\ refs' = [refs EXCEPT ![g] = @ - 1]
  /\ \/ /\ refs[g] > 1
        /\ LeaveFramework(t)
        /\ AfterRelease(t)
        /\ UNCHANGED state
     \/ /\ refs[g] = 1 /\ weak[g] = None
        /\ LeaveFramework(t)
        /\ state' = [state EXCEPT ![g] = "dying"]
        /\ pc' = [pc EXCEPT ![t] = "unlink"]
        /\ UNCHANGED <<local, ext>>
     \/ /\ refs[g] = 1 /\ weak[g] # None
        /\ pc' = [pc EXCEPT ![t] = "rel_zap"]
        /\ UNCHANGED <<state, framework, local, ext>>
  /\ UNCHANGED <<gil, iid, base, linked, weaks, attr, fault>>

\* "We must null out the WeakReference now": still under the lock.
ZapWeakReference(t) ==
  LET g == own[t] IN
  /\ Go(t, "rel_zap", "unlink")
  /\ wbase' = [wbase EXCEPT ![weak[g]] = None]
  /\ weak' = [weak EXCEPT ![g] = None]
  /\ state' = [state EXCEPT ![g] = "dying"]
  /\ LeaveFramework(t)
  /\ UNCHANGED <<gil, refs, iid, base, linked, attr, ext, local, fault>>

\* ~PyXPCOM_XPTStub
Unlink(t) ==
  /\ Go(t, "unlink", "dtor")
  /\ FrameworkFree
  /\ linked' = linked \ {own[t]}
  /\ UNCHANGED <<locks, state, refs, iid, base, weaks, attr, ext,
                 local, fault>>

\* ~PyG_Base: the policy is dropped under the GIL, then the base is released,
\* as the last thing the destructor of a tear-off does.
Destroy(t) ==
  LET g == own[t] IN
  /\ pc[t] = "dtor" /\ gil = None
  /\ state' = [state EXCEPT ![g] = "free"]
  /\ iid' = [iid EXCEPT ![g] = None]
  /\ base' = [base EXCEPT ![g] = None]
  /\ \/ /\ base[g] # None
        /\ pc' = [pc EXCEPT ![t] = "rel"]
        /\ own' = [own EXCEPT ![t] = base[g]]
        /\ UNCHANGED <<op, want, wk, got, ext>>
     \/ /\ base[g] = None
        /\ AfterRelease(t)
  /\ UNCHANGED <<locks, refs, linked, weaks, attr, fault>>

-----------------------------------------------------------------------------
\* The gateway whose memory the next step of t reads and writes.
Touched(t) ==
  CASE pc[t] \in {"qi_addref", "first_ref"} -> got[t]
    [] pc[t] = "qr_addref" -> wbase[wk[t]]
    [] pc[t] = "gd_addref" -> wbase[attr]
    [] pc[t] = "rel_dec" -> own[t]
    [] OTHER -> None

TouchFreed(t) ==
  /\ Touched(t) # None /\ state[Touched(t)] # "live"
  /\ fault' = TRUE
  /\ UNCHANGED <<locks, cells, weaks, attr, ext, pc, local>>

Start(t) ==
  \/ \E g \in Gateways :
       \/ CallRelease(t, g)
       \/ CallGetWeakReference(t, g)
       \/ \E i \in AskedIids : CallQueryInterface(t, g, i)
  \/ \E w \in Weaks, i \in AskedIids : CallQueryReferent(t, w, i)
  \/ t \in Wrappers /\ \E i \in WrapIids : AutoWrap(t, i)

Step(t) ==
  \/ Checked(t)
  \/ QueryReferent(t) \/ ReferentGone(t) \/ ReferentFound(t)
  \/ ReferentKeepAlive(t)
  \/ QueryItself(t) \/ QueryOther(t) \/ FindStub(t) \/ AddRefStub(t)
  \/ AskPolicy(t) \/ Return(t)
  \/ WrapObject(t) \/ WrapRefused(t)
  \/ GetDefaultGateway(t) \/ NoDefaultGateway(t) \/ DefaultGatewayFound(t)
  \/ SetBaseObject(t) \/ LinkStub(t) \/ FirstReference(t)
  \/ KeepDefaultGateway(t) \/ AddDefaultGateway(t)
  \/ HaveWeakReference(t) \/ NoWeakReference(t) \/ NewWeakReference(t)
  \/ Release(t) \/ Decrement(t) \/ ZapWeakReference(t)
  \/ Unlink(t) \/ Destroy(t)
  \/ TouchFreed(t)

Halted == fault /\ UNCHANGED vars

Next ==
  \/ ~fault /\ \E t \in Threads : Start(t) \/ Step(t)
  \/ Halted

Spec == Init /\ [][Next]_vars

\* A thread inside a call keeps running, and gets a lock that is free again
\* and again.  Nobody has to make another call.
FairSpec == Spec /\ \A t \in Threads : SF_vars(~fault /\ Step(t))

-----------------------------------------------------------------------------
(* Properties *)

OrNone(S) == S \cup {None}

\* Every variable stays in its range.
TypeOK ==
  /\ gil \in OrNone(Threads) /\ framework \in OrNone(Threads)
  /\ state \in [Gateways -> {"free", "live", "dying"}]
  /\ refs \in [Gateways -> Nat] /\ ext \in [Gateways -> Nat]
  /\ iid \in [Gateways -> OrNone(AskedIids)]
  /\ base \in [Gateways -> OrNone(Gateways)]
  /\ linked \in SUBSET Gateways
  /\ weak \in [Gateways -> OrNone(Weaks)]
  /\ wbase \in [Weaks -> OrNone(Gateways)]
  /\ attr \in OrNone(Weaks)
  /\ pc \in [Threads -> Labels] /\ op \in [Threads -> Calls]
  /\ own \in [Threads -> OrNone(Gateways)]
  /\ got \in [Threads -> OrNone(Gateways)]
  /\ want \in [Threads -> OrNone(AskedIids)]
  /\ wk \in [Threads -> OrNone(Weaks)]
  /\ fault \in BOOLEAN

\* A weak reference object points to a gateway only while that gateway is
\* live and owns the object: no QueryReferent can reach a gateway that is
\* being destroyed, and no second weak reference is left behind with a stale
\* pointer (PyXPCOM.h: "it zaps the pointer in its corresponding weak
\* reference object").
WeakRefExact ==
  \A w \in Weaks : wbase[w] # None =>
    weak[wbase[w]] = w /\ state[wbase[w]] = "live"

\* The calls that hold a reference to g: to call it, or as their result.
Callers(g) ==
  {t \in Threads : own[t] = g /\ pc[t] \notin {"rel_zap", "unlink", "dtor"}}
Holders(g) ==
  {t \in Threads : got[t] = g /\ pc[t] \in {"add_default", "get_weak",
                                  "new_weak", "ret", "rel", "rel_dec",
                                  "rel_zap", "unlink", "dtor", "checked"}}
TearOffs(g) == {h \in Gateways : base[h] = g}

\* mRefCnt is the number of references there are: the clients', the calls'
\* and the tear-offs' (m_pBaseObject).  Nothing leaks, nothing is released
\* twice, nobody refers to what was destroyed.
RefsExact ==
  \A g \in Gateways :
    refs[g] = ext[g] + Cardinality(Callers(g)) + Cardinality(Holders(g))
              + Cardinality(TearOffs(g))

\* QueryReferent reads m_pBase again after it has left the lock, to query it
\* and to release the keepalive: it still finds the gateway it kept alive.
KeepAliveHolds ==
  \A t \in Threads :
    /\ op[t] \in {"referent", "check"}
    /\ own[t] # None
    /\ pc[t] \notin {"rel_dec", "rel_zap", "unlink", "dtor", "idle"}
    => wbase[wk[t]] = own[t]

\* GetWeakReference tests m_pWeakRef and creates it without a lock ("XXX -
\* this looks like it needs thread safety!?").  It is safe because a base
\* gateway a client can reach, directly or through a tear-off, already has
\* its weak reference.
PublishedHasWeakRef ==
  \A g \in Gateways :
    ext[g] > 0 \/ (\E t \in Threads : own[t] = g /\ pc[t] \in {"qi", "find", "get_weak"})
    => weak[BaseOf(g)] # None

\* A gateway whose count has reached 0 is destroyed, and by one thread only.
DestroyedOnce ==
  /\ \A g \in Gateways : state[g] = "dying" =>
       \E t \in Threads : own[t] = g /\ pc[t] \in {"unlink", "dtor"}
  /\ \A t, u \in Threads :
       /\ own[t] = own[u]
       /\ pc[t] \in {"unlink", "dtor"} /\ pc[u] \in {"unlink", "dtor"}
       => t = u

\* A tear-off keeps its base alive, and is alone in holding a base pointer.
BaseOutlivesTearOffs ==
  \A h \in Gateways : base[h] # None =>
    /\ state[base[h]] = "live" /\ base[base[h]] = None
    /\ refs[base[h]] > 0

\* AddDefaultGateway: NS_ASSERTION(SameCOMIdentity(pSupports2, gateway),
\* "A Python object has a duplicate gateway!").
NoDuplicateAssertion ==
  \A t \in Threads :
    pc[t] = "add_default" /\ Alive(attr) => wbase[attr] = BaseOf(got[t])

\* XPCOM identity: all references clients hold lead to one base object, so
\* that "p1==p2==foo" (PyGBase.cpp, comment on object identity).
OneIdentity ==
  \A g, h \in Gateways : ext[g] > 0 /\ ext[h] > 0 => BaseOf(g) = BaseOf(h)

\* A client, or a call in progress, holds a reference to g.
InUse(g) == ext[g] > 0 \/ Callers(g) # {}

\* The base gateways are the objects that stand for the instance, from the
\* moment they have a weak reference until the last Release zaps it.
Identity == INSTANCE ObjectIdentity WITH
  Objects  <- Gateways,
  standing <- {g \in Gateways :
                 state[g] = "live" /\ base[g] = None /\ weak[g] # None},
  used     <- {BaseOf(g) : g \in {h \in Gateways : InUse(h)}}

\* The gateways of an instance implement its one identity: no second base
\* while there is one, no reference out of a base that is gone, no base that
\* goes while a reference to it or to a tear-off is in use.
ImplementsIdentity == Identity!Spec

\* The attribute never loses or changes a weak reference that is still alive.
LiveAttributeStays == [][Alive(attr) => attr' = attr]_vars

\* ThisAsIID never hands out a tear-off that is being destroyed (PyGStub.cpp:
\* "Ensures some other thread isn't doing a anything with our stub at the
\* same time").
NoTouchOfFreed == ~fault

\* Where a gateway is reached under the framework lock, through m_pBase of a
\* weak reference or by the Release of a reference, it is not being destroyed
\* (PyG_Base::Release: "Need to ensure some other thread isn't doing a
\* QueryReferent on our weak reference at the same time").
LockedUsesSafe ==
  \A t \in Threads : pc[t] \in {"qr_addref", "gd_addref", "rel_dec"} =>
    state[Touched(t)] = "live"

\* Every call returns (unless it touches freed memory): no thread waits for
\* ever for the GIL or the framework lock, and a reference count that reaches
\* 0 does lead to the end of the gateway.
CallsReturn ==
  \A t \in Threads : pc[t] # "idle" ~> pc[t] = "idle" \/ fault

\* "QIing to the same interface returns the same pointer" (PyXPCOM.h): no two
\* live gateways of one identity answer for one interface.
OneStubPerInterface ==
  \A g, h \in linked :
    g # h /\ base[g] = base[h] /\ state[g] = "live" /\ state[h] = "live"
    => iid[g] # iid[h]
=============================================================================
