--------------------------- MODULE GatewayProofs ---------------------------
(***************************************************************************)
(* Proofs about Gateway, for any number of threads, gateways, weak         *)
(* references and interfaces: its lock discipline, the exactness of its    *)
(* reference counts and of its weak references, and that each gateway is   *)
(* destroyed once.                                                         *)
(*                                                                         *)
(* The inductive invariant IInv has three parts that are proved one on top *)
(* of the other: Control (where the threads are, which locks they hold and *)
(* which pointers they follow), the counts (RefsExact), and Links (what    *)
(* the pointers between gateways, weak references and calls mean).         *)
(***************************************************************************)
EXTENDS Gateway, FiniteSetTheorems, TLAPS

-----------------------------------------------------------------------------
(* Control *)

\* The sections between entering a lock and leaving it.
FrameworkSection ==
  {"qr_check", "qr_addref", "gd_check", "gd_addref", "rel_dec", "rel_zap"}
PythonSection ==
  {"gd", "gd_check", "gd_addref", "link", "first_ref", "add_default"}

InPython(t) ==
  \/ pc[t] \in PythonSection
  \/ pc[t] \in {"get_weak", "new_weak"} /\ op[t] # "weak"

\* A thread holds a lock exactly while it is in a section that the lock
\* guards; a client's GetWeakReference takes none.
LocksExact ==
  \A t \in Threads :
    /\ framework = t <=> pc[t] \in FrameworkSection
    /\ gil = t <=> InPython(t)
    /\ op[t] = "weak" => pc[t] \in {"get_weak", "new_weak", "ret"}

\* The pointers that a step follows are not null.
PointersSet ==
  \A t \in Threads :
    /\ pc[t] \in {"qr", "qr_check", "qr_addref"} => wk[t] # None
    /\ pc[t] \in {"qi", "find", "rel", "rel_dec", "rel_zap", "unlink", "dtor"}
         => own[t] # None
    /\ op[t] \in {"referent", "check"}
         /\ pc[t] \notin {"idle", "qr", "qr_check", "qr_addref", "checked"}
         => own[t] # None
    /\ pc[t] \in {"gd", "gd_check", "gd_addref"} => attr # None
    /\ pc[t] = "gd_addref" => wbase[attr] # None
    /\ pc[t] = "qr_addref" => wbase[wk[t]] # None
    /\ pc[t] \in PythonSection \cup {"qi_addref"} => got[t] # None
    /\ pc[t] \in {"get_weak", "new_weak"} =>
         IF op[t] = "weak" THEN own[t] # None ELSE got[t] # None

\* The gateway a destructor runs on is not live any more.
Dying ==
  \A t \in Threads :
    /\ pc[t] = "rel_zap" => state[own[t]] = "live" /\ weak[own[t]] # None
    /\ pc[t] \in {"unlink", "dtor"} => state[own[t]] = "dying"

Control == TypeOK /\ LocksExact /\ PointersSet /\ Dying /\ DestroyedOnce

-----------------------------------------------------------------------------
(* Links *)

\* Slots of a call that are not in use yet are empty.
SlotsEmpty ==
  \A t \in Threads :
    /\ pc[t] \in {"idle", "qr", "qr_check", "qr_addref", "checked"}
         => own[t] = None
    /\ pc[t] \in {"idle", "qr", "qr_check", "qr_addref", "qi", "find", "wrap"}
         \/ op[t] = "weak"
         => got[t] = None

\* A gateway that is not live has no reference; a free cell has no base and
\* is in no chain.
DeadUnreferenced ==
  /\ \A g \in Gateways :
       /\ state[g] # "live" => refs[g] = 0
       /\ state[g] = "free" => base[g] = None /\ g \notin linked
  /\ \A t \in Threads : pc[t] = "dtor" => own[t] \notin linked

\* The last Release found no other reference, and none appears.
ZappedUnreferenced ==
  \A t \in Threads : pc[t] = "rel_zap" => refs[own[t]] = 0

\* A weak reference and its base point at each other; only bases have one.
WeakRefsPaired ==
  \A g \in Gateways : weak[g] # None => wbase[weak[g]] = g /\ base[g] = None

\* The base of a tear-off has its weak reference.
BasesHaveWeakRef == \A h \in Gateways : base[h] # None => weak[base[h]] # None

\* The references a call holds, as its callee and as its result.
InCall(t, g) == own[t] = g /\ pc[t] \notin {"rel_zap", "unlink", "dtor"}
Holds(t, g) ==
  got[t] = g /\ pc[t] \in {"add_default", "get_weak", "new_weak", "ret", "rel",
                          "rel_dec", "rel_zap", "unlink", "dtor", "checked"}

\* Someone other than the thread that constructs g refers to it.
Used(g) ==
  \/ ext[g] > 0
  \/ \E t \in Threads : InCall(t, g) \/ (Holds(t, g) /\ ~InPython(t))

UsedHasWeakRef == \A g \in Gateways : Used(g) => weak[BaseOf(g)] # None

\* WrapObject under construction: nobody refers to the gateway before it is
\* linked, and it becomes either a tear-off of the default gateway or a base
\* without a weak reference.
Unlinked(t) == pc[t] \in {"gd", "gd_check", "gd_addref", "link"}

Constructing ==
  \A t \in Threads : InPython(t) =>
    /\ Unlinked(t) =>
         /\ state[got[t]] = "live" /\ refs[got[t]] = 0
         /\ got[t] \notin linked
         /\ \A u \in Threads : pc[u] = "qi_addref" => got[u] # got[t]
    /\ pc[t] \in {"gd", "gd_check", "gd_addref"} => base[got[t]] = None
    /\ state[got[t]] = "live" /\ base[got[t]] = None => weak[got[t]] = None
    /\ state[got[t]] = "live" /\ pc[t] \in {"link", "first_ref", "add_default"}
         => base[got[t]] = IF Alive(attr) THEN wbase[attr] ELSE None

\* A client's GetWeakReference never creates a weak reference.
OnlyNewBasesLackWeakRef ==
  \A t \in Threads : pc[t] = "new_weak" =>
    op[t] # "weak" /\ base[got[t]] = None

\* What a walk of the chain found belongs to the object that was asked, or
\* has been destroyed since.
FoundInChain ==
  \A t \in Threads : pc[t] = "qi_addref" =>
    /\ own[t] # None
    /\ \/ got[t] = BaseOf(own[t])
       \/ base[got[t]] = BaseOf(own[t])
       \/ state[got[t]] # "live"

\* QueryReferent holds a base gateway.
ReferentIsBase ==
  \A t \in Threads : op[t] \in {"referent", "check"} /\ own[t] # None
    => base[own[t]] = None

Links ==
  /\ SlotsEmpty /\ DeadUnreferenced /\ ZappedUnreferenced
  /\ WeakRefsPaired /\ WeakRefExact /\ BasesHaveWeakRef /\ UsedHasWeakRef
  /\ Constructing /\ OnlyNewBasesLackWeakRef
  /\ FoundInChain /\ ReferentIsBase /\ KeepAliveHolds

IInv == Control /\ RefsExact /\ Links

-----------------------------------------------------------------------------
(* Counting *)

One(b) == IF b THEN 1 ELSE 0

\* Two sets that agree but for x differ in size by x's membership.
LEMMA CountChange ==
  ASSUME NEW S, IsFiniteSet(S), NEW A \in SUBSET S, NEW B \in SUBSET S,
         NEW x \in S, A \ {x} = B \ {x}
  PROVE  /\ Cardinality(A) \in Nat /\ Cardinality(B) \in Nat
         /\ Cardinality(B) + One(x \in A) = Cardinality(A) + One(x \in B)
<1> DEFINE C == A \ {x}
<1>1. IsFiniteSet(A) /\ IsFiniteSet(B) /\ IsFiniteSet(C)
  BY FS_Subset
<1>2. Cardinality(A) \in Nat /\ Cardinality(B) \in Nat /\ Cardinality(C) \in Nat
  BY <1>1, FS_CardinalityType
<1>3. Cardinality(C) = IF x \in A THEN Cardinality(A) - 1 ELSE Cardinality(A)
  BY <1>1, FS_RemoveElement
<1>4. Cardinality(C) = IF x \in B THEN Cardinality(B) - 1 ELSE Cardinality(B)
  BY <1>1, FS_RemoveElement
<1> QED
  BY <1>2, <1>3, <1>4 DEF One

\* Only t's call, and only the base pointer of h, change.
OnlyChanges(t, h) ==
  /\ \A u \in Threads \ {t} :
       pc'[u] = pc[u] /\ own'[u] = own[u] /\ got'[u] = got[u]
  /\ \A k \in Gateways \ {h} : base'[k] = base[k]

\* What one step adds to mRefCnt of g is what it adds to the references.
Balanced(t, g, h) ==
  refs'[g] + ext[g] + One(InCall(t, g)) + One(Holds(t, g)) + One(base[h] = g)
   = refs[g] + ext'[g] + One(InCall(t, g)') + One(Holds(t, g)') + One(base'[h] = g)

Counted(g) ==
  refs[g] = ext[g] + Cardinality(Callers(g)) + Cardinality(Holders(g))
            + Cardinality(TearOffs(g))

\* A balanced step keeps the count of g exact.
LEMMA CountKept ==
  ASSUME TypeOK, TypeOK', NEW t \in Threads, NEW g \in Gateways,
         NEW h \in Gateways, OnlyChanges(t, h), Balanced(t, g, h), Counted(g)
  PROVE  Counted(g)'
<1>1. Cardinality(Callers(g)) \in Nat /\ Cardinality(Callers(g)') \in Nat
      /\ Cardinality(Callers(g)') + One(InCall(t, g))
           = Cardinality(Callers(g)) + One(InCall(t, g)')
  <2>1. Callers(g) \in SUBSET Threads /\ Callers(g)' \in SUBSET Threads
    BY DEF Callers
  <2>2. Callers(g) \ {t} = Callers(g)' \ {t}
    BY DEF Callers, OnlyChanges
  <2>3. (t \in Callers(g) <=> InCall(t, g)) /\ (t \in Callers(g)' <=> InCall(t, g)')
    BY DEF Callers, InCall
  <2> QED
    BY <2>1, <2>2, <2>3, CountChange, FiniteAssumption DEF One
<1>2. Cardinality(Holders(g)) \in Nat /\ Cardinality(Holders(g)') \in Nat
      /\ Cardinality(Holders(g)') + One(Holds(t, g))
           = Cardinality(Holders(g)) + One(Holds(t, g)')
  <2>1. Holders(g) \in SUBSET Threads /\ Holders(g)' \in SUBSET Threads
    BY DEF Holders
  <2>2. Holders(g) \ {t} = Holders(g)' \ {t}
    BY DEF Holders, OnlyChanges
  <2>3. (t \in Holders(g) <=> Holds(t, g)) /\ (t \in Holders(g)' <=> Holds(t, g)')
    BY DEF Holders, Holds
  <2> QED
    BY <2>1, <2>2, <2>3, CountChange, FiniteAssumption DEF One
<1>3. Cardinality(TearOffs(g)) \in Nat /\ Cardinality(TearOffs(g)') \in Nat
      /\ Cardinality(TearOffs(g)') + One(base[h] = g)
           = Cardinality(TearOffs(g)) + One(base'[h] = g)
  <2>1. TearOffs(g) \in SUBSET Gateways /\ TearOffs(g)' \in SUBSET Gateways
    BY DEF TearOffs
  <2>2. TearOffs(g) \ {h} = TearOffs(g)' \ {h}
    BY DEF TearOffs, OnlyChanges
  <2>3. (h \in TearOffs(g) <=> base[h] = g) /\ (h \in TearOffs(g)' <=> base'[h] = g)
    BY DEF TearOffs
  <2> QED
    BY <2>1, <2>2, <2>3, CountChange, FiniteAssumption DEF One
<1>4. refs[g] \in Nat /\ refs'[g] \in Nat /\ ext[g] \in Nat /\ ext'[g] \in Nat
  BY DEF TypeOK
<1>5. /\ One(InCall(t, g)) \in Nat /\ One(InCall(t, g)') \in Nat
      /\ One(Holds(t, g)) \in Nat /\ One(Holds(t, g)') \in Nat
      /\ One(base[h] = g) \in Nat /\ One(base'[h] = g) \in Nat
  BY DEF One
<1>6. refs'[g] + ext[g] + One(InCall(t, g)) + One(Holds(t, g)) + One(base[h] = g)
       = refs[g] + ext'[g] + One(InCall(t, g)') + One(Holds(t, g)') + One(base'[h] = g)
  BY DEF Balanced
<1>7. refs[g] = ext[g] + Cardinality(Callers(g)) + Cardinality(Holders(g))
            + Cardinality(TearOffs(g))
  BY DEF Counted
<1>8. refs'[g] = ext'[g] + Cardinality(Callers(g)') + Cardinality(Holders(g)')
            + Cardinality(TearOffs(g)')
  BY <1>1, <1>2, <1>3, <1>4, <1>5, <1>6, <1>7
<1> QED
  BY <1>8 DEF Counted

\* Nothing refers to g but, perhaps, the call of t.
NoOther(g, t) ==
  /\ ext[g] = 0
  /\ \A u \in Threads \ {t} : ~InCall(u, g)
  /\ \A u \in Threads : ~Holds(u, g)
  /\ \A h \in Gateways : base[h] # g

\* A count of 0 means that nothing refers to the gateway.
LEMMA NoReference ==
  ASSUME TypeOK, RefsExact, NEW g \in Gateways, refs[g] = 0
  PROVE  NoOther(g, None)
<1>1. IsFiniteSet(Callers(g)) /\ IsFiniteSet(Holders(g)) /\ IsFiniteSet(TearOffs(g))
  BY FS_Subset, FiniteAssumption DEF Callers, Holders, TearOffs
<1>2. Cardinality(Callers(g)) \in Nat /\ Cardinality(Holders(g)) \in Nat
      /\ Cardinality(TearOffs(g)) \in Nat /\ ext[g] \in Nat
  BY <1>1, FS_CardinalityType DEF TypeOK
<1>3. Counted(g)
  BY DEF RefsExact, Counted
<1>4. ext[g] = 0 /\ Cardinality(Callers(g)) = 0 /\ Cardinality(Holders(g)) = 0
      /\ Cardinality(TearOffs(g)) = 0
  BY <1>2, <1>3 DEF Counted
<1>5. Callers(g) = {} /\ Holders(g) = {} /\ TearOffs(g) = {}
  BY <1>1, <1>4, FS_EmptySet
<1> QED
  BY <1>4, <1>5 DEF NoOther, Callers, Holders, TearOffs, InCall, Holds

\* A count of 1 that t's call owns means that nothing else does.
LEMMA LastReference ==
  ASSUME TypeOK, RefsExact, NEW g \in Gateways, refs[g] = 1,
         NEW t \in Threads, InCall(t, g)
  PROVE  NoOther(g, t)
<1>1. IsFiniteSet(Callers(g)) /\ IsFiniteSet(Holders(g)) /\ IsFiniteSet(TearOffs(g))
  BY FS_Subset, FiniteAssumption DEF Callers, Holders, TearOffs
<1>2. Cardinality(Callers(g)) \in Nat /\ Cardinality(Holders(g)) \in Nat
      /\ Cardinality(TearOffs(g)) \in Nat /\ ext[g] \in Nat
  BY <1>1, FS_CardinalityType DEF TypeOK
<1>3. Counted(g)
  BY DEF RefsExact, Counted
<1>4. t \in Callers(g)
  BY DEF Callers, InCall
<1>5. Cardinality(Callers(g)) # 0
  BY <1>1, <1>4, FS_EmptySet
<1>6. ext[g] = 0 /\ Cardinality(Callers(g)) = 1 /\ Cardinality(Holders(g)) = 0
      /\ Cardinality(TearOffs(g)) = 0
  BY <1>2, <1>3, <1>5 DEF Counted
<1>7. Holders(g) = {} /\ TearOffs(g) = {}
  BY <1>1, <1>6, FS_EmptySet
<1>8. Callers(g) = {t}
  BY <1>1, <1>4, <1>6, FS_Singleton
<1> QED
  BY <1>6, <1>7, <1>8 DEF NoOther, Callers, Holders, TearOffs, InCall, Holds

-----------------------------------------------------------------------------
(* Control is inductive on its own. *)

LEMMA ControlInit == Init => Control
<1> SUFFICES ASSUME Init PROVE Control
  OBVIOUS
<1>1. TypeOK
  BY DEF Init, TypeOK, OrNone, Labels, Calls
<1>2. LocksExact
  BY NoneAssumption
     DEF Init, LocksExact, InPython, FrameworkSection, PythonSection
<1>3. PointersSet /\ Dying /\ DestroyedOnce
  BY DEF Init, PointersSet, Dying, DestroyedOnce, PythonSection
<1> QED
  BY <1>1, <1>2, <1>3 DEF Control

\* What a call knows stays in its range when it begins, drops a reference or
\* ends.
LocalTypes ==
  /\ pc \in [Threads -> Labels] /\ op \in [Threads -> Calls]
  /\ own \in [Threads -> OrNone(Gateways)]
  /\ got \in [Threads -> OrNone(Gateways)]
  /\ want \in [Threads -> OrNone(AskedIids)]
  /\ wk \in [Threads -> OrNone(Weaks)]

LEMMA BeginTypes ==
  ASSUME LocalTypes, NEW t \in Threads, NEW call \in Calls,
         NEW g \in OrNone(Gateways), NEW i \in OrNone(AskedIids),
         NEW w \in OrNone(Weaks), NEW l \in Labels,
         Begin(t, call, g, i, w), pc' = [pc EXCEPT ![t] = l]
  PROVE  LocalTypes'
BY DEF LocalTypes, Begin

LEMMA FinishTypes ==
  ASSUME LocalTypes, NEW t \in Threads, Finish(t)
  PROVE  LocalTypes'
BY DEF LocalTypes, Finish, OrNone, Labels, Calls

LEMMA AfterReleaseTypes ==
  ASSUME LocalTypes, ext \in [Gateways -> Nat], NEW t \in Threads,
         AfterRelease(t)
  PROVE  LocalTypes' /\ ext' \in [Gateways -> Nat]
<1>1. CASE op[t] = "check"
  BY <1>1 DEF LocalTypes, AfterRelease, OrNone, Labels
<1>2. CASE op[t] # "check"
  <2>1. LocalTypes'
    BY <1>2, FinishTypes DEF AfterRelease
  <2>2. CASE got[t] # None
    BY <1>2, <2>1, <2>2 DEF AfterRelease, Deliver, LocalTypes, OrNone
  <2>3. CASE got[t] = None
    BY <1>2, <2>1, <2>3 DEF AfterRelease
  <2> QED
    BY <2>2, <2>3
<1> QED
  BY <1>1, <1>2

\* Every variable stays in its range when a call begins, drops a reference
\* or ends.
LEMMA CallTypes ==
  ASSUME Control, NEW t \in Threads,
         \/ \E i \in WrapIids : AutoWrap(t, i)
         \/ Checked(t) \/ ReferentGone(t) \/ Return(t) \/ Decrement(t)
         \/ Destroy(t)
  PROVE  TypeOK'
<1>1. TypeOK /\ LocalTypes /\ ext \in [Gateways -> Nat]
  BY DEF Control, TypeOK, LocalTypes
<1>2. ASSUME gil' \in OrNone(Threads), framework' \in OrNone(Threads),
             state' \in [Gateways -> {"free", "live", "dying"}],
             refs' \in [Gateways -> Nat], ext' \in [Gateways -> Nat],
             iid' \in [Gateways -> OrNone(AskedIids)],
             base' \in [Gateways -> OrNone(Gateways)],
             linked' = linked, UNCHANGED weaks, attr' \in OrNone(Weaks),
             LocalTypes', fault' = fault
      PROVE  TypeOK'
  BY <1>1, <1>2 DEF TypeOK, LocalTypes, weaks
<1>3. ASSUME NEW i \in WrapIids, AutoWrap(t, i) PROVE TypeOK'
  <2>1. i \in OrNone(AskedIids) /\ None \in OrNone(Gateways)
        /\ None \in OrNone(Weaks) /\ attr \in OrNone(Weaks)
        /\ {"wrap", "check"} \subseteq Calls /\ {"wrap", "qr"} \subseteq Labels
    BY <1>1, IidAssumption DEF OrNone, AskedIids, Calls, Labels, TypeOK
  <2>2. LocalTypes'
    BY <1>1, <1>3, <2>1, BeginTypes DEF AutoWrap
  <2> QED
    BY <1>1, <1>2, <1>3, <2>2 DEF AutoWrap, locks, cells, weaks, TypeOK
<1>4. ASSUME Checked(t) PROVE TypeOK'
  <2>1. CASE got[t] # None
    <3>1. LocalTypes'
      BY <1>1, <1>4, <2>1, FinishTypes DEF Checked
    <3>2. ext' \in [Gateways -> Nat]
      BY <1>1, <1>4, <2>1 DEF Checked, Deliver, TypeOK, OrNone
    <3> QED
      BY <1>1, <1>2, <1>4, <2>1, <3>1, <3>2
         DEF Checked, locks, cells, weaks, TypeOK
  <2>2. CASE got[t] = None
    <3>1. LocalTypes'
      BY <1>1, <1>4, <2>2 DEF Checked, LocalTypes, OrNone, Labels, Calls
    <3>2. attr' \in OrNone(Weaks)
      BY <1>4, <2>2 DEF Checked, OrNone
    <3> QED
      BY <1>1, <1>2, <1>4, <2>2, <3>1, <3>2
         DEF Checked, locks, cells, weaks, TypeOK
  <2> QED
    BY <2>1, <2>2
<1>5. ASSUME ReferentGone(t) PROVE TypeOK'
  <2>1. LocalTypes' /\ ext' \in [Gateways -> Nat]
    BY <1>1, <1>5, AfterReleaseTypes DEF ReferentGone
  <2>2. framework' \in OrNone(Threads)
    BY <1>5 DEF ReferentGone, LeaveFramework, OrNone
  <2> QED
    BY <1>1, <1>2, <1>5, <2>1, <2>2 DEF ReferentGone, cells, weaks, TypeOK
<1>6. ASSUME Return(t) PROVE TypeOK'
  <2>1. CASE op[t] \in {"referent", "check"}
    <3>1. LocalTypes' /\ ext' = ext
      BY <1>1, <1>6, <2>1 DEF Return, local, LocalTypes, Labels
    <3> QED
      BY <1>1, <1>2, <1>6, <3>1 DEF Return, locks, cells, weaks, TypeOK
  <2>2. CASE op[t] \in {"qi", "wrap", "weak"}
    <3>1. LocalTypes'
      BY <1>1, <1>6, <2>2, FinishTypes DEF Return
    <3>2. ext' \in [Gateways -> Nat]
      BY <1>1, <1>6, <2>2 DEF Return
    <3> QED
      BY <1>1, <1>2, <1>6, <3>1, <3>2 DEF Return, locks, cells, weaks, TypeOK
  <2> QED
    BY <1>6, <2>1, <2>2 DEF Return
<1>7. ASSUME Decrement(t) PROVE TypeOK'
  <2>1. own[t] \in Gateways
    BY <1>7 DEF Decrement, Control, PointersSet, TypeOK, OrNone
  <2>2. refs' \in [Gateways -> Nat]
    BY <1>1, <1>7, <2>1 DEF Decrement, TypeOK
  <2>3. state' \in [Gateways -> {"free", "live", "dying"}]
    BY <1>1, <1>7, <2>1 DEF Decrement, TypeOK
  <2>4. framework' \in OrNone(Threads)
    BY <1>1, <1>7 DEF Decrement, LeaveFramework, OrNone, TypeOK
  <2>5. LocalTypes' /\ ext' \in [Gateways -> Nat]
    <3>1. CASE AfterRelease(t)
      BY <1>1, <3>1, AfterReleaseTypes
    <3>2. CASE ~AfterRelease(t)
      BY <1>1, <1>7, <3>2 DEF Decrement, local, LocalTypes, Labels
    <3> QED
      BY <3>1, <3>2
  <2> QED
    BY <1>1, <1>2, <1>7, <2>2, <2>3, <2>4, <2>5 DEF Decrement, weaks, TypeOK
<1>8. ASSUME Destroy(t) PROVE TypeOK'
  <2>1. own[t] \in Gateways
    BY <1>8 DEF Destroy, Control, PointersSet, TypeOK, OrNone
  <2>2. /\ state' \in [Gateways -> {"free", "live", "dying"}]
        /\ iid' \in [Gateways -> OrNone(AskedIids)]
        /\ base' \in [Gateways -> OrNone(Gateways)]
    BY <1>1, <1>8, <2>1 DEF Destroy, TypeOK, OrNone
  <2>3. LocalTypes' /\ ext' \in [Gateways -> Nat]
    <3>1. CASE base[own[t]] = None
      BY <1>1, <1>8, <3>1, AfterReleaseTypes DEF Destroy
    <3>2. CASE base[own[t]] # None
      BY <1>1, <1>8, <2>1, <3>2 DEF Destroy, LocalTypes, Labels, TypeOK
    <3> QED
      BY <3>1, <3>2
  <2> QED
    BY <1>1, <1>2, <1>8, <2>2, <2>3 DEF Destroy, locks, weaks, TypeOK
<1> QED
  BY <1>3, <1>4, <1>5, <1>6, <1>7, <1>8

LEMMA ControlKept ==
  ASSUME Control, NEW t \in Threads, Start(t) \/ Step(t)
  PROVE  Control'
<1> USE NoneAssumption, IidAssumption
<1> USE DEF Control, TypeOK, LocksExact, PointersSet, Dying, DestroyedOnce,
            InPython, FrameworkSection, PythonSection,
            OrNone, AskedIids, Labels, Calls,
            Go, Begin, Finish, AfterRelease, Deliver, EnterFramework,
            LeaveFramework, FrameworkFree, EnterPython, LeavePython, GiveWeak,
            locks, cells, weaks, local
<1>1. ASSUME NEW g \in Gateways, CallRelease(t, g)
     PROVE  Control'
  BY <1>1 DEF CallRelease
<1>2. ASSUME NEW g \in Gateways, NEW i \in AskedIids,
              CallQueryInterface(t, g, i)
     PROVE  Control'
  BY <1>2 DEF CallQueryInterface
<1>3. ASSUME NEW g \in Gateways, CallGetWeakReference(t, g)
     PROVE  Control'
  BY <1>3 DEF CallGetWeakReference
<1>4. ASSUME NEW w \in Weaks, NEW i \in AskedIids,
              CallQueryReferent(t, w, i)
     PROVE  Control'
  BY <1>4 DEF CallQueryReferent
<1>5. ASSUME NEW i \in WrapIids, AutoWrap(t, i)
     PROVE  Control'
  <2>1. TypeOK'
    BY <1>5, CallTypes
  <2>2. LocksExact' /\ PointersSet'
    BY <1>5, SMTT(30) DEF AutoWrap
  <2>3. Dying'
    BY <1>5, SMTT(30) DEF AutoWrap
  <2>4. DestroyedOnce'
    BY <1>5, SMTT(30) DEF AutoWrap
  <2> QED
    BY <2>1, <2>2, <2>3, <2>4
<1>6. ASSUME Checked(t)
     PROVE  Control'
  <2>1. TypeOK'
    BY <1>6, CallTypes
  <2>2. LocksExact' /\ PointersSet'
    BY <1>6, SMTT(30) DEF Checked
  <2>3. Dying'
    BY <1>6, SMTT(30) DEF Checked
  <2>4. DestroyedOnce'
    BY <1>6, SMTT(30) DEF Checked
  <2> QED
    BY <2>1, <2>2, <2>3, <2>4
<1>7. ASSUME QueryReferent(t)
     PROVE  Control'
  BY <1>7 DEF QueryReferent
<1>8. ASSUME ReferentGone(t)
     PROVE  Control'
  <2>1. TypeOK'
    BY <1>8, CallTypes
  <2>2. LocksExact' /\ PointersSet'
    BY <1>8, SMTT(30) DEF ReferentGone
  <2>3. Dying'
    BY <1>8, SMTT(30) DEF ReferentGone
  <2>4. DestroyedOnce'
    BY <1>8, SMTT(30) DEF ReferentGone
  <2> QED
    BY <2>1, <2>2, <2>3, <2>4
<1>9. ASSUME ReferentFound(t)
     PROVE  Control'
  BY <1>9 DEF ReferentFound
<1>10. ASSUME ReferentKeepAlive(t)
     PROVE  Control'
  BY <1>10 DEF ReferentKeepAlive
<1>11. ASSUME QueryItself(t)
     PROVE  Control'
  BY <1>11 DEF QueryItself, BaseOf, Itself
<1>12. ASSUME QueryOther(t)
     PROVE  Control'
  BY <1>12 DEF QueryOther, BaseOf, Itself
<1>13. ASSUME FindStub(t)
     PROVE  Control'
  BY <1>13 DEF FindStub, BaseOf, ChainOf, Matches
<1>14. ASSUME AddRefStub(t)
     PROVE  Control'
  BY <1>14 DEF AddRefStub
<1>15. ASSUME AskPolicy(t)
     PROVE  Control'
  BY <1>15 DEF AskPolicy, BaseOf, ChainOf, Matches
<1>16. ASSUME Return(t)
     PROVE  Control'
  <2>1. TypeOK'
    BY <1>16, CallTypes
  <2>2. LocksExact' /\ PointersSet'
    BY <1>16, SMTT(30) DEF Return
  <2>3. Dying'
    BY <1>16, SMTT(30) DEF Return
  <2>4. DestroyedOnce'
    BY <1>16, SMTT(30) DEF Return
  <2> QED
    BY <2>1, <2>2, <2>3, <2>4
<1>17. ASSUME WrapObject(t)
     PROVE  Control'
  BY <1>17 DEF WrapObject, FreeCells
<1>18. ASSUME WrapRefused(t)
     PROVE  Control'
  BY <1>18 DEF WrapRefused
<1>19. ASSUME GetDefaultGateway(t)
     PROVE  Control'
  BY <1>19 DEF GetDefaultGateway
<1>20. ASSUME NoDefaultGateway(t)
     PROVE  Control'
  BY <1>20 DEF NoDefaultGateway
<1>21. ASSUME DefaultGatewayFound(t)
     PROVE  Control'
  BY <1>21 DEF DefaultGatewayFound
<1>22. ASSUME SetBaseObject(t)
     PROVE  Control'
  BY <1>22 DEF SetBaseObject
<1>23. ASSUME LinkStub(t)
     PROVE  Control'
  BY <1>23 DEF LinkStub
<1>24. ASSUME FirstReference(t)
     PROVE  Control'
  BY <1>24 DEF FirstReference
<1>25. ASSUME KeepDefaultGateway(t)
     PROVE  Control'
  BY <1>25 DEF KeepDefaultGateway, Alive
<1>26. ASSUME AddDefaultGateway(t)
     PROVE  Control'
  BY <1>26 DEF AddDefaultGateway, Alive
<1>27. ASSUME HaveWeakReference(t)
     PROVE  Control'
  BY <1>27 DEF HaveWeakReference, BaseOf, WeakTarget
<1>28. ASSUME NoWeakReference(t)
     PROVE  Control'
  BY <1>28 DEF NoWeakReference, BaseOf, WeakTarget
<1>29. ASSUME NewWeakReference(t)
     PROVE  Control'
  BY <1>29 DEF NewWeakReference, BaseOf, FreeWeaks, WeakTarget
<1>30. ASSUME Release(t)
     PROVE  Control'
  BY <1>30 DEF Release
<1>31. ASSUME Decrement(t)
     PROVE  Control'
  <2>1. TypeOK'
    BY <1>31, CallTypes
  <2>2. LocksExact' /\ PointersSet'
    BY <1>31, SMTT(30) DEF Decrement
  <2>3. Dying'
    BY <1>31, SMTT(30) DEF Decrement
  <2>4. DestroyedOnce'
    BY <1>31, SMTT(30) DEF Decrement
  <2> QED
    BY <2>1, <2>2, <2>3, <2>4
<1>32. ASSUME ZapWeakReference(t)
     PROVE  Control'
  BY <1>32 DEF ZapWeakReference
<1>33. ASSUME Unlink(t)
     PROVE  Control'
  BY <1>33 DEF Unlink
<1>34. ASSUME Destroy(t)
     PROVE  Control'
  <2>1. TypeOK'
    BY <1>34, CallTypes
  <2>2. LocksExact' /\ PointersSet'
    BY <1>34, SMTT(30) DEF Destroy
  <2>3. Dying'
    BY <1>34, SMTT(30) DEF Destroy
  <2>4. DestroyedOnce'
    BY <1>34, SMTT(30) DEF Destroy
  <2> QED
    BY <2>1, <2>2, <2>3, <2>4
<1>35. ASSUME TouchFreed(t)
     PROVE  Control'
  BY <1>35 DEF TouchFreed, Touched
<1> QED
  BY <1>1, <1>2, <1>3, <1>4, <1>5, <1>6, <1>7, <1>8, <1>9, <1>10, <1>11,
     <1>12, <1>13, <1>14, <1>15, <1>16, <1>17, <1>18, <1>19, <1>20, <1>21,
     <1>22, <1>23, <1>24, <1>25, <1>26, <1>27, <1>28, <1>29, <1>30, <1>31,
     <1>32, <1>33, <1>34, <1>35
     DEF Start, Step

-----------------------------------------------------------------------------
(* The reference counts are exact. *)

LEMMA RefsInit == Init => RefsExact
<1> SUFFICES ASSUME Init, NEW g \in Gateways PROVE Counted(g)
  BY DEF RefsExact, Counted
<1>1. Callers(g) = {} /\ Holders(g) = {} /\ TearOffs(g) = {}
  BY NoneAssumption DEF Init, Callers, Holders, TearOffs
<1>2. refs[g] = 0 /\ ext[g] = 0
  BY DEF Init
<1> QED
  BY <1>1, <1>2, FS_EmptySet DEF Counted

\* The gateway whose base pointer the step may change.
Rebased(t, g) ==
  IF pc[t] = "gd_addref" THEN got[t] ELSE IF pc[t] = "dtor" THEN own[t] ELSE g

LEMMA StepBalanced ==
  ASSUME Control, SlotsEmpty, Constructing, NEW t \in Threads,
         Start(t) \/ Step(t), NEW k \in Gateways
  PROVE  OnlyChanges(t, Rebased(t, k)) /\ Balanced(t, k, Rebased(t, k))
<1> USE NoneAssumption
<1> USE DEF Control, TypeOK, LocksExact, PointersSet, Dying, SlotsEmpty,
            Constructing, InPython, FrameworkSection, PythonSection, OrNone,
            Rebased, OnlyChanges, Balanced, InCall, Holds, One,
            Go, Begin, Finish, AfterRelease, Deliver, EnterFramework,
            LeaveFramework, FrameworkFree, EnterPython, LeavePython, GiveWeak,
            locks, cells, weaks, local
<1>1. ASSUME NEW g \in Gateways, CallRelease(t, g)
     PROVE  OnlyChanges(t, Rebased(t, k)) /\ Balanced(t, k, Rebased(t, k))
  BY <1>1 DEF CallRelease
<1>2. ASSUME NEW g \in Gateways, NEW i \in AskedIids,
              CallQueryInterface(t, g, i)
     PROVE  OnlyChanges(t, Rebased(t, k)) /\ Balanced(t, k, Rebased(t, k))
  BY <1>2 DEF CallQueryInterface
<1>3. ASSUME NEW g \in Gateways, CallGetWeakReference(t, g)
     PROVE  OnlyChanges(t, Rebased(t, k)) /\ Balanced(t, k, Rebased(t, k))
  BY <1>3 DEF CallGetWeakReference
<1>4. ASSUME NEW w \in Weaks, NEW i \in AskedIids,
              CallQueryReferent(t, w, i)
     PROVE  OnlyChanges(t, Rebased(t, k)) /\ Balanced(t, k, Rebased(t, k))
  BY <1>4 DEF CallQueryReferent
<1>5. ASSUME NEW i \in WrapIids, AutoWrap(t, i)
     PROVE  OnlyChanges(t, Rebased(t, k)) /\ Balanced(t, k, Rebased(t, k))
  BY <1>5 DEF AutoWrap
<1>6. ASSUME Checked(t)
     PROVE  OnlyChanges(t, Rebased(t, k)) /\ Balanced(t, k, Rebased(t, k))
  BY <1>6 DEF Checked
<1>7. ASSUME QueryReferent(t)
     PROVE  OnlyChanges(t, Rebased(t, k)) /\ Balanced(t, k, Rebased(t, k))
  BY <1>7 DEF QueryReferent
<1>8. ASSUME ReferentGone(t)
     PROVE  OnlyChanges(t, Rebased(t, k)) /\ Balanced(t, k, Rebased(t, k))
  BY <1>8 DEF ReferentGone
<1>9. ASSUME ReferentFound(t)
     PROVE  OnlyChanges(t, Rebased(t, k)) /\ Balanced(t, k, Rebased(t, k))
  BY <1>9 DEF ReferentFound
<1>10. ASSUME ReferentKeepAlive(t)
     PROVE  OnlyChanges(t, Rebased(t, k)) /\ Balanced(t, k, Rebased(t, k))
  BY <1>10 DEF ReferentKeepAlive
<1>11. ASSUME QueryItself(t)
     PROVE  OnlyChanges(t, Rebased(t, k)) /\ Balanced(t, k, Rebased(t, k))
  BY <1>11 DEF QueryItself, BaseOf, Itself
<1>12. ASSUME QueryOther(t)
     PROVE  OnlyChanges(t, Rebased(t, k)) /\ Balanced(t, k, Rebased(t, k))
  BY <1>12 DEF QueryOther, BaseOf, Itself
<1>13. ASSUME FindStub(t)
     PROVE  OnlyChanges(t, Rebased(t, k)) /\ Balanced(t, k, Rebased(t, k))
  BY <1>13 DEF FindStub, BaseOf, ChainOf, Matches
<1>14. ASSUME AddRefStub(t)
     PROVE  OnlyChanges(t, Rebased(t, k)) /\ Balanced(t, k, Rebased(t, k))
  BY <1>14 DEF AddRefStub
<1>15. ASSUME AskPolicy(t)
     PROVE  OnlyChanges(t, Rebased(t, k)) /\ Balanced(t, k, Rebased(t, k))
  BY <1>15 DEF AskPolicy, BaseOf, ChainOf, Matches
<1>16. ASSUME Return(t)
     PROVE  OnlyChanges(t, Rebased(t, k)) /\ Balanced(t, k, Rebased(t, k))
  BY <1>16 DEF Return
<1>17. ASSUME WrapObject(t)
     PROVE  OnlyChanges(t, Rebased(t, k)) /\ Balanced(t, k, Rebased(t, k))
  BY <1>17 DEF WrapObject, FreeCells
<1>18. ASSUME WrapRefused(t)
     PROVE  OnlyChanges(t, Rebased(t, k)) /\ Balanced(t, k, Rebased(t, k))
  BY <1>18 DEF WrapRefused
<1>19. ASSUME GetDefaultGateway(t)
     PROVE  OnlyChanges(t, Rebased(t, k)) /\ Balanced(t, k, Rebased(t, k))
  BY <1>19 DEF GetDefaultGateway
<1>20. ASSUME NoDefaultGateway(t)
     PROVE  OnlyChanges(t, Rebased(t, k)) /\ Balanced(t, k, Rebased(t, k))
  BY <1>20 DEF NoDefaultGateway
<1>21. ASSUME DefaultGatewayFound(t)
     PROVE  OnlyChanges(t, Rebased(t, k)) /\ Balanced(t, k, Rebased(t, k))
  BY <1>21 DEF DefaultGatewayFound
<1>22. ASSUME SetBaseObject(t)
     PROVE  OnlyChanges(t, Rebased(t, k)) /\ Balanced(t, k, Rebased(t, k))
  BY <1>22 DEF SetBaseObject
<1>23. ASSUME LinkStub(t)
     PROVE  OnlyChanges(t, Rebased(t, k)) /\ Balanced(t, k, Rebased(t, k))
  BY <1>23 DEF LinkStub
<1>24. ASSUME FirstReference(t)
     PROVE  OnlyChanges(t, Rebased(t, k)) /\ Balanced(t, k, Rebased(t, k))
  BY <1>24 DEF FirstReference
<1>25. ASSUME KeepDefaultGateway(t)
     PROVE  OnlyChanges(t, Rebased(t, k)) /\ Balanced(t, k, Rebased(t, k))
  BY <1>25 DEF KeepDefaultGateway, Alive
<1>26. ASSUME AddDefaultGateway(t)
     PROVE  OnlyChanges(t, Rebased(t, k)) /\ Balanced(t, k, Rebased(t, k))
  BY <1>26 DEF AddDefaultGateway, Alive
<1>27. ASSUME HaveWeakReference(t)
     PROVE  OnlyChanges(t, Rebased(t, k)) /\ Balanced(t, k, Rebased(t, k))
  BY <1>27 DEF HaveWeakReference, BaseOf, WeakTarget
<1>28. ASSUME NoWeakReference(t)
     PROVE  OnlyChanges(t, Rebased(t, k)) /\ Balanced(t, k, Rebased(t, k))
  BY <1>28 DEF NoWeakReference, BaseOf, WeakTarget
<1>29. ASSUME NewWeakReference(t)
     PROVE  OnlyChanges(t, Rebased(t, k)) /\ Balanced(t, k, Rebased(t, k))
  BY <1>29 DEF NewWeakReference, BaseOf, FreeWeaks, WeakTarget
<1>30. ASSUME Release(t)
     PROVE  OnlyChanges(t, Rebased(t, k)) /\ Balanced(t, k, Rebased(t, k))
  BY <1>30 DEF Release
<1>31. ASSUME Decrement(t)
     PROVE  OnlyChanges(t, Rebased(t, k)) /\ Balanced(t, k, Rebased(t, k))
  <2>1. CASE refs[own[t]] = 1
    BY <1>31, <2>1, SMTT(30) DEF Decrement
  <2>2. CASE refs[own[t]] > 1 /\ op[t] = "check"
    BY <1>31, <2>2, SMTT(30) DEF Decrement
  <2>3. CASE refs[own[t]] > 1 /\ op[t] # "check"
    <3>1. OnlyChanges(t, Rebased(t, k)) /\ Rebased(t, k) = k /\ base' = base
      BY <1>31, <2>3 DEF Decrement
    <3>2. /\ InCall(t, k) <=> own[t] = k
          /\ Holds(t, k) <=> got[t] = k
          /\ ~InCall(t, k)' /\ ~Holds(t, k)'
      BY <1>31, <2>3 DEF Decrement
    <3>3. refs'[k] = refs[k] - One(own[t] = k)
      BY <1>31, <2>3 DEF Decrement
    <3>4. ext'[k] = ext[k] + One(got[t] = k)
      BY <1>31, <2>3 DEF Decrement
    <3> QED
      BY <3>1, <3>2, <3>3, <3>4
  <2> QED
    BY <1>31, <2>1, <2>2, <2>3 DEF Decrement
<1>32. ASSUME ZapWeakReference(t)
     PROVE  OnlyChanges(t, Rebased(t, k)) /\ Balanced(t, k, Rebased(t, k))
  BY <1>32 DEF ZapWeakReference
<1>33. ASSUME Unlink(t)
     PROVE  OnlyChanges(t, Rebased(t, k)) /\ Balanced(t, k, Rebased(t, k))
  BY <1>33 DEF Unlink
<1>34. ASSUME Destroy(t)
     PROVE  OnlyChanges(t, Rebased(t, k)) /\ Balanced(t, k, Rebased(t, k))
  BY <1>34 DEF Destroy
<1>35. ASSUME TouchFreed(t)
     PROVE  OnlyChanges(t, Rebased(t, k)) /\ Balanced(t, k, Rebased(t, k))
  BY <1>35 DEF TouchFreed, Touched
<1> QED
  BY <1>1, <1>2, <1>3, <1>4, <1>5, <1>6, <1>7, <1>8, <1>9, <1>10, <1>11,
     <1>12, <1>13, <1>14, <1>15, <1>16, <1>17, <1>18, <1>19, <1>20, <1>21,
     <1>22, <1>23, <1>24, <1>25, <1>26, <1>27, <1>28, <1>29, <1>30, <1>31,
     <1>32, <1>33, <1>34, <1>35
     DEF Start, Step

LEMMA RefsKept ==
  ASSUME Control, SlotsEmpty, Constructing, RefsExact, NEW t \in Threads,
         Start(t) \/ Step(t)
  PROVE  RefsExact'
<1> SUFFICES ASSUME NEW g \in Gateways PROVE Counted(g)'
  BY DEF RefsExact, Counted
<1>1. TypeOK /\ TypeOK'
  BY ControlKept DEF Control
<1>2. Rebased(t, g) \in Gateways
  BY NoneAssumption DEF Rebased, Control, TypeOK, PointersSet, PythonSection, OrNone
<1>3. OnlyChanges(t, Rebased(t, g)) /\ Balanced(t, g, Rebased(t, g))
  BY StepBalanced
<1>4. Counted(g)
  BY DEF RefsExact, Counted
<1> QED
  BY <1>1, <1>2, <1>3, <1>4, CountKept

-----------------------------------------------------------------------------
(* Links *)

LEMMA LinksInit == Init => Links
BY NoneAssumption
   DEF Init, Links, SlotsEmpty, DeadUnreferenced, ZappedUnreferenced,
       WeakRefsPaired, WeakRefExact, BasesHaveWeakRef, UsedHasWeakRef, Used,
       InCall, Holds, Constructing, InPython, PythonSection, Unlinked,
       OnlyNewBasesLackWeakRef, FoundInChain, ReferentIsBase, KeepAliveHolds

LEMMA LinksKept ==
  ASSUME IInv, NEW t \in Threads, Start(t) \/ Step(t)
  PROVE  Links'
<1>a. \A g \in Gateways : refs[g] \in Nat
  BY DEF IInv, Control, TypeOK
<1>b. \A g \in Gateways : refs[g] = 0 => NoOther(g, None)
  BY NoReference DEF IInv, Control
<1>c. \A g \in Gateways, u \in Threads :
        refs[g] = 1 /\ InCall(u, g) => NoOther(g, u)
  BY LastReference DEF IInv, Control
<1> USE NoneAssumption, <1>a, <1>b, <1>c
<1> USE DEF IInv, Control, TypeOK, LocksExact, PointersSet, Dying, DestroyedOnce,
            InPython, FrameworkSection, PythonSection, OrNone,
            Links, SlotsEmpty, DeadUnreferenced, ZappedUnreferenced,
            WeakRefsPaired, WeakRefExact, BasesHaveWeakRef, UsedHasWeakRef,
            Used, InCall, Holds, NoOther, BaseOf, Alive, Constructing,
            Unlinked, OnlyNewBasesLackWeakRef, FoundInChain, ReferentIsBase,
            KeepAliveHolds,
            Go, Begin, Finish, AfterRelease, Deliver, EnterFramework,
            LeaveFramework, FrameworkFree, EnterPython, LeavePython, GiveWeak,
            locks, cells, weaks, local
<1>1. ASSUME NEW g \in Gateways, CallRelease(t, g)
     PROVE  Links'
  BY <1>1 DEF CallRelease
<1>2. ASSUME NEW g \in Gateways, NEW i \in AskedIids,
              CallQueryInterface(t, g, i)
     PROVE  Links'
  BY <1>2 DEF CallQueryInterface
<1>3. ASSUME NEW g \in Gateways, CallGetWeakReference(t, g)
     PROVE  Links'
  BY <1>3 DEF CallGetWeakReference
<1>4. ASSUME NEW w \in Weaks, NEW i \in AskedIids,
              CallQueryReferent(t, w, i)
     PROVE  Links'
  BY <1>4 DEF CallQueryReferent
<1>5. ASSUME NEW i \in WrapIids, AutoWrap(t, i)
     PROVE  Links'
  <2>1. SlotsEmpty' /\ DeadUnreferenced' /\ ZappedUnreferenced'
    <3>1. SlotsEmpty'
      BY <1>5, SMTT(30) DEF AutoWrap
    <3>2. DeadUnreferenced'
      BY <1>5, SMTT(30) DEF AutoWrap
    <3>3. ZappedUnreferenced'
      BY <1>5, SMTT(30) DEF AutoWrap
    <3> QED
      BY <3>1, <3>2, <3>3
  <2>2. WeakRefsPaired' /\ WeakRefExact' /\ BasesHaveWeakRef'
    <3>1. WeakRefsPaired'
      BY <1>5, SMTT(30) DEF AutoWrap
    <3>2. WeakRefExact'
      BY <1>5, SMTT(30) DEF AutoWrap
    <3>3. BasesHaveWeakRef'
      BY <1>5, SMTT(30) DEF AutoWrap
    <3> QED
      BY <3>1, <3>2, <3>3
  <2>3. UsedHasWeakRef'
    BY <1>5, SMTT(30) DEF AutoWrap
  <2>4. Constructing' /\ OnlyNewBasesLackWeakRef'
    <3>1. Constructing'
      BY <1>5, SMTT(30) DEF AutoWrap
    <3>2. OnlyNewBasesLackWeakRef'
      BY <1>5, SMTT(30) DEF AutoWrap
    <3> QED
      BY <3>1, <3>2
  <2>5. FoundInChain' /\ ReferentIsBase' /\ KeepAliveHolds'
    <3>1. FoundInChain'
      BY <1>5, SMTT(30) DEF AutoWrap
    <3>2. ReferentIsBase'
      BY <1>5, SMTT(30) DEF AutoWrap
    <3>3. KeepAliveHolds'
      BY <1>5, SMTT(30) DEF AutoWrap
    <3> QED
      BY <3>1, <3>2, <3>3
  <2> QED
    BY <2>1, <2>2, <2>3, <2>4, <2>5
<1>6. ASSUME Checked(t)
     PROVE  Links'
  <2>1. SlotsEmpty' /\ DeadUnreferenced' /\ ZappedUnreferenced'
    <3>1. SlotsEmpty'
      BY <1>6, SMTT(30) DEF Checked
    <3>2. DeadUnreferenced'
      BY <1>6, SMTT(30) DEF Checked
    <3>3. ZappedUnreferenced'
      BY <1>6, SMTT(30) DEF Checked
    <3> QED
      BY <3>1, <3>2, <3>3
  <2>2. WeakRefsPaired' /\ WeakRefExact' /\ BasesHaveWeakRef'
    <3>1. WeakRefsPaired'
      BY <1>6, SMTT(30) DEF Checked
    <3>2. WeakRefExact'
      BY <1>6, SMTT(30) DEF Checked
    <3>3. BasesHaveWeakRef'
      BY <1>6, SMTT(30) DEF Checked
    <3> QED
      BY <3>1, <3>2, <3>3
  <2>3. UsedHasWeakRef'
    <3>1. ASSUME NEW g \in Gateways, Used(g)' PROVE Used(g)
      BY <1>6, <3>1, SMTT(30) DEF Checked
    <3>2. weak' = weak /\ base' = base
      BY <1>6 DEF Checked
    <3> QED
      BY <3>1, <3>2
  <2>4. Constructing' /\ OnlyNewBasesLackWeakRef'
    <3>1. Constructing'
      BY <1>6, SMTT(30) DEF Checked
    <3>2. OnlyNewBasesLackWeakRef'
      BY <1>6, SMTT(30) DEF Checked
    <3> QED
      BY <3>1, <3>2
  <2>5. FoundInChain' /\ ReferentIsBase' /\ KeepAliveHolds'
    <3>1. FoundInChain'
      BY <1>6, SMTT(30) DEF Checked
    <3>2. ReferentIsBase'
      BY <1>6, SMTT(30) DEF Checked
    <3>3. KeepAliveHolds'
      BY <1>6, SMTT(30) DEF Checked
    <3> QED
      BY <3>1, <3>2, <3>3
  <2> QED
    BY <2>1, <2>2, <2>3, <2>4, <2>5
<1>7. ASSUME QueryReferent(t)
     PROVE  Links'
  BY <1>7 DEF QueryReferent
<1>8. ASSUME ReferentGone(t)
     PROVE  Links'
  <2>1. SlotsEmpty' /\ DeadUnreferenced' /\ ZappedUnreferenced'
    <3>1. SlotsEmpty'
      BY <1>8, SMTT(30) DEF ReferentGone
    <3>2. DeadUnreferenced'
      BY <1>8, SMTT(30) DEF ReferentGone
    <3>3. ZappedUnreferenced'
      BY <1>8, SMTT(30) DEF ReferentGone
    <3> QED
      BY <3>1, <3>2, <3>3
  <2>2. WeakRefsPaired' /\ WeakRefExact' /\ BasesHaveWeakRef'
    <3>1. WeakRefsPaired'
      BY <1>8, SMTT(30) DEF ReferentGone
    <3>2. WeakRefExact'
      BY <1>8, SMTT(30) DEF ReferentGone
    <3>3. BasesHaveWeakRef'
      BY <1>8, SMTT(30) DEF ReferentGone
    <3> QED
      BY <3>1, <3>2, <3>3
  <2>3. UsedHasWeakRef'
    <3>1. ASSUME NEW g \in Gateways, Used(g)' PROVE Used(g)
      BY <1>8, <3>1, SMTT(30) DEF ReferentGone
    <3>2. weak' = weak /\ base' = base
      BY <1>8 DEF ReferentGone
    <3> QED
      BY <3>1, <3>2
  <2>4. Constructing' /\ OnlyNewBasesLackWeakRef'
    <3>1. Constructing'
      BY <1>8, SMTT(30) DEF ReferentGone
    <3>2. OnlyNewBasesLackWeakRef'
      BY <1>8, SMTT(30) DEF ReferentGone
    <3> QED
      BY <3>1, <3>2
  <2>5. FoundInChain' /\ ReferentIsBase' /\ KeepAliveHolds'
    <3>1. FoundInChain'
      BY <1>8, SMTT(30) DEF ReferentGone
    <3>2. ReferentIsBase'
      BY <1>8, SMTT(30) DEF ReferentGone
    <3>3. KeepAliveHolds'
      BY <1>8, SMTT(30) DEF ReferentGone
    <3> QED
      BY <3>1, <3>2, <3>3
  <2> QED
    BY <2>1, <2>2, <2>3, <2>4, <2>5
<1>9. ASSUME ReferentFound(t)
     PROVE  Links'
  BY <1>9 DEF ReferentFound
<1>10. ASSUME ReferentKeepAlive(t)
     PROVE  Links'
  BY <1>10 DEF ReferentKeepAlive
<1>11. ASSUME QueryItself(t)
     PROVE  Links'
  <2>1. SlotsEmpty' /\ DeadUnreferenced' /\ ZappedUnreferenced'
    <3>1. SlotsEmpty'
      BY <1>11, SMTT(30) DEF QueryItself, Itself
    <3>2. DeadUnreferenced'
      BY <1>11, SMTT(30) DEF QueryItself, Itself
    <3>3. ZappedUnreferenced'
      BY <1>11, SMTT(30) DEF QueryItself, Itself
    <3> QED
      BY <3>1, <3>2, <3>3
  <2>2. WeakRefsPaired' /\ WeakRefExact' /\ BasesHaveWeakRef'
    <3>1. WeakRefsPaired'
      BY <1>11, SMTT(30) DEF QueryItself, Itself
    <3>2. WeakRefExact'
      BY <1>11, SMTT(30) DEF QueryItself, Itself
    <3>3. BasesHaveWeakRef'
      BY <1>11, SMTT(30) DEF QueryItself, Itself
    <3> QED
      BY <3>1, <3>2, <3>3
  <2>3. UsedHasWeakRef'
    BY <1>11, SMTT(30) DEF QueryItself, Itself
  <2>4. Constructing' /\ OnlyNewBasesLackWeakRef'
    <3>1. Constructing'
      BY <1>11, SMTT(30) DEF QueryItself, Itself
    <3>2. OnlyNewBasesLackWeakRef'
      BY <1>11, SMTT(30) DEF QueryItself, Itself
    <3> QED
      BY <3>1, <3>2
  <2>5. FoundInChain' /\ ReferentIsBase' /\ KeepAliveHolds'
    <3>1. FoundInChain'
      BY <1>11, SMTT(30) DEF QueryItself, Itself
    <3>2. ReferentIsBase'
      BY <1>11, SMTT(30) DEF QueryItself, Itself
    <3>3. KeepAliveHolds'
      BY <1>11, SMTT(30) DEF QueryItself, Itself
    <3> QED
      BY <3>1, <3>2, <3>3
  <2> QED
    BY <2>1, <2>2, <2>3, <2>4, <2>5
<1>12. ASSUME QueryOther(t)
     PROVE  Links'
  BY <1>12 DEF QueryOther, BaseOf, Itself
<1>13. ASSUME FindStub(t)
     PROVE  Links'
  BY <1>13 DEF FindStub, BaseOf, ChainOf, Matches
<1>14. ASSUME AddRefStub(t)
     PROVE  Links'
  BY <1>14 DEF AddRefStub
<1>15. ASSUME AskPolicy(t)
     PROVE  Links'
  BY <1>15 DEF AskPolicy, BaseOf, ChainOf, Matches
<1>16. ASSUME Return(t)
     PROVE  Links'
  <2>1. SlotsEmpty' /\ DeadUnreferenced' /\ ZappedUnreferenced'
    <3>1. SlotsEmpty'
      BY <1>16, SMTT(30) DEF Return
    <3>2. DeadUnreferenced'
      BY <1>16, SMTT(30) DEF Return
    <3>3. ZappedUnreferenced'
      BY <1>16, SMTT(30) DEF Return
    <3> QED
      BY <3>1, <3>2, <3>3
  <2>2. WeakRefsPaired' /\ WeakRefExact' /\ BasesHaveWeakRef'
    <3>1. WeakRefsPaired'
      BY <1>16, SMTT(30) DEF Return
    <3>2. WeakRefExact'
      BY <1>16, SMTT(30) DEF Return
    <3>3. BasesHaveWeakRef'
      BY <1>16, SMTT(30) DEF Return
    <3> QED
      BY <3>1, <3>2, <3>3
  <2>3. UsedHasWeakRef'
    <3>1. ASSUME NEW g \in Gateways, Used(g)' PROVE Used(g)
      BY <1>16, <3>1, SMTT(30) DEF Return
    <3>2. weak' = weak /\ base' = base
      BY <1>16 DEF Return
    <3> QED
      BY <3>1, <3>2
  <2>4. Constructing' /\ OnlyNewBasesLackWeakRef'
    <3>1. Constructing'
      BY <1>16, SMTT(30) DEF Return
    <3>2. OnlyNewBasesLackWeakRef'
      BY <1>16, SMTT(30) DEF Return
    <3> QED
      BY <3>1, <3>2
  <2>5. FoundInChain' /\ ReferentIsBase' /\ KeepAliveHolds'
    <3>1. FoundInChain'
      BY <1>16, SMTT(30) DEF Return
    <3>2. ReferentIsBase'
      BY <1>16, SMTT(30) DEF Return
    <3>3. KeepAliveHolds'
      BY <1>16, SMTT(30) DEF Return
    <3> QED
      BY <3>1, <3>2, <3>3
  <2> QED
    BY <2>1, <2>2, <2>3, <2>4, <2>5
<1>17. ASSUME WrapObject(t)
     PROVE  Links'
  BY <1>17 DEF WrapObject, FreeCells
<1>18. ASSUME WrapRefused(t)
     PROVE  Links'
  BY <1>18 DEF WrapRefused
<1>19. ASSUME GetDefaultGateway(t)
     PROVE  Links'
  BY <1>19 DEF GetDefaultGateway
<1>20. ASSUME NoDefaultGateway(t)
     PROVE  Links'
  BY <1>20 DEF NoDefaultGateway
<1>21. ASSUME DefaultGatewayFound(t)
     PROVE  Links'
  BY <1>21 DEF DefaultGatewayFound
<1>22. ASSUME SetBaseObject(t)
     PROVE  Links'
  <2>1. SlotsEmpty' /\ DeadUnreferenced' /\ ZappedUnreferenced'
    <3>1. SlotsEmpty'
      BY <1>22, SMTT(30) DEF SetBaseObject
    <3>2. DeadUnreferenced'
      BY <1>22, SMTT(30) DEF SetBaseObject
    <3>3. ZappedUnreferenced'
      BY <1>22, SMTT(30) DEF SetBaseObject
    <3> QED
      BY <3>1, <3>2, <3>3
  <2>2. WeakRefsPaired' /\ WeakRefExact' /\ BasesHaveWeakRef'
    <3>1. WeakRefsPaired'
      BY <1>22, SMTT(30) DEF SetBaseObject
    <3>2. WeakRefExact'
      BY <1>22, SMTT(30) DEF SetBaseObject
    <3>3. BasesHaveWeakRef'
      BY <1>22, SMTT(30) DEF SetBaseObject
    <3> QED
      BY <3>1, <3>2, <3>3
  <2>3. UsedHasWeakRef'
    BY <1>22, SMTT(30) DEF SetBaseObject
  <2>4. Constructing' /\ OnlyNewBasesLackWeakRef'
    <3>1. Constructing'
      BY <1>22, SMTT(30) DEF SetBaseObject
    <3>2. OnlyNewBasesLackWeakRef'
      BY <1>22, SMTT(30) DEF SetBaseObject
    <3> QED
      BY <3>1, <3>2
  <2>5. FoundInChain' /\ ReferentIsBase' /\ KeepAliveHolds'
    <3>1. FoundInChain'
      BY <1>22, SMTT(30) DEF SetBaseObject
    <3>2. ReferentIsBase'
      BY <1>22, SMTT(30) DEF SetBaseObject
    <3>3. KeepAliveHolds'
      BY <1>22, SMTT(30) DEF SetBaseObject
    <3> QED
      BY <3>1, <3>2, <3>3
  <2> QED
    BY <2>1, <2>2, <2>3, <2>4, <2>5
<1>23. ASSUME LinkStub(t)
     PROVE  Links'
  BY <1>23 DEF LinkStub
<1>24. ASSUME FirstReference(t)
     PROVE  Links'
  BY <1>24 DEF FirstReference
<1>25. ASSUME KeepDefaultGateway(t)
     PROVE  Links'
  <2>1. SlotsEmpty' /\ DeadUnreferenced' /\ ZappedUnreferenced'
    BY <1>25, SMTT(30) DEF KeepDefaultGateway
  <2>2. WeakRefsPaired' /\ WeakRefExact' /\ BasesHaveWeakRef'
    BY <1>25, SMTT(30) DEF KeepDefaultGateway
  <2>3. UsedHasWeakRef'
    BY <1>25, SMTT(30) DEF KeepDefaultGateway
  <2>4. Constructing' /\ OnlyNewBasesLackWeakRef'
    BY <1>25, SMTT(30) DEF KeepDefaultGateway
  <2>5. FoundInChain' /\ ReferentIsBase' /\ KeepAliveHolds'
    BY <1>25, SMTT(30) DEF KeepDefaultGateway
  <2> QED
    BY <2>1, <2>2, <2>3, <2>4, <2>5
<1>26. ASSUME AddDefaultGateway(t)
     PROVE  Links'
  BY <1>26 DEF AddDefaultGateway, Alive
<1>27. ASSUME HaveWeakReference(t)
     PROVE  Links'
  <2>1. SlotsEmpty' /\ DeadUnreferenced' /\ ZappedUnreferenced'
    <3>1. SlotsEmpty'
      BY <1>27, SMTT(30) DEF HaveWeakReference, WeakTarget
    <3>2. DeadUnreferenced'
      BY <1>27, SMTT(30) DEF HaveWeakReference, WeakTarget
    <3>3. ZappedUnreferenced'
      BY <1>27, SMTT(30) DEF HaveWeakReference, WeakTarget
    <3> QED
      BY <3>1, <3>2, <3>3
  <2>2. WeakRefsPaired' /\ WeakRefExact' /\ BasesHaveWeakRef'
    <3>1. WeakRefsPaired'
      BY <1>27, SMTT(30) DEF HaveWeakReference, WeakTarget
    <3>2. WeakRefExact'
      BY <1>27, SMTT(30) DEF HaveWeakReference, WeakTarget
    <3>3. BasesHaveWeakRef'
      BY <1>27, SMTT(30) DEF HaveWeakReference, WeakTarget
    <3> QED
      BY <3>1, <3>2, <3>3
  <2>3. UsedHasWeakRef'
    BY <1>27, SMTT(30) DEF HaveWeakReference, WeakTarget
  <2>4. Constructing' /\ OnlyNewBasesLackWeakRef'
    <3>1. Constructing'
      BY <1>27, SMTT(30) DEF HaveWeakReference, WeakTarget
    <3>2. OnlyNewBasesLackWeakRef'
      BY <1>27, SMTT(30) DEF HaveWeakReference, WeakTarget
    <3> QED
      BY <3>1, <3>2
  <2>5. FoundInChain' /\ ReferentIsBase' /\ KeepAliveHolds'
    <3>1. FoundInChain'
      BY <1>27, SMTT(30) DEF HaveWeakReference, WeakTarget
    <3>2. ReferentIsBase'
      BY <1>27, SMTT(30) DEF HaveWeakReference, WeakTarget
    <3>3. KeepAliveHolds'
      BY <1>27, SMTT(30) DEF HaveWeakReference, WeakTarget
    <3> QED
      BY <3>1, <3>2, <3>3
  <2> QED
    BY <2>1, <2>2, <2>3, <2>4, <2>5
<1>28. ASSUME NoWeakReference(t)
     PROVE  Links'
  BY <1>28 DEF NoWeakReference, BaseOf, WeakTarget
<1>29. ASSUME NewWeakReference(t)
     PROVE  Links'
  <2>1. SlotsEmpty' /\ DeadUnreferenced' /\ ZappedUnreferenced'
    <3>1. SlotsEmpty'
      BY <1>29, SMTT(30) DEF NewWeakReference, FreeWeaks, WeakTarget
    <3>2. DeadUnreferenced'
      BY <1>29, SMTT(30) DEF NewWeakReference, FreeWeaks, WeakTarget
    <3>3. ZappedUnreferenced'
      BY <1>29, SMTT(30) DEF NewWeakReference, FreeWeaks, WeakTarget
    <3> QED
      BY <3>1, <3>2, <3>3
  <2>2. WeakRefsPaired' /\ WeakRefExact' /\ BasesHaveWeakRef'
    <3>1. WeakRefsPaired'
      <4> DEFINE w == CHOOSE w \in FreeWeaks : TRUE
                 b == WeakTarget(t)
      <4>0. w \in FreeWeaks
        BY <1>29 DEF NewWeakReference
      <4>1. w \in Weaks /\ \A g \in Gateways : weak[g] # w
        BY <4>0 DEF FreeWeaks
      <4>3. b \in Gateways /\ base[b] = None
        BY <1>29 DEF NewWeakReference, WeakTarget
      <4>2. /\ wbase' = [wbase EXCEPT ![w] = b]
            /\ weak' = [weak EXCEPT ![b] = w]
            /\ base' = base
        BY <1>29 DEF NewWeakReference
      <4> HIDE DEF w, b
      <4> QED
        BY <4>1, <4>2, <4>3
    <3>2. WeakRefExact'
      BY <1>29, SMTT(30) DEF NewWeakReference, FreeWeaks, WeakTarget
    <3>3. BasesHaveWeakRef'
      BY <1>29, SMTT(30) DEF NewWeakReference, FreeWeaks, WeakTarget
    <3> QED
      BY <3>1, <3>2, <3>3
  <2>3. UsedHasWeakRef'
    BY <1>29, SMTT(30) DEF NewWeakReference, FreeWeaks, WeakTarget
  <2>4. Constructing' /\ OnlyNewBasesLackWeakRef'
    <3>1. Constructing'
      BY <1>29, SMTT(30) DEF NewWeakReference, FreeWeaks, WeakTarget
    <3>2. OnlyNewBasesLackWeakRef'
      BY <1>29, SMTT(30) DEF NewWeakReference, FreeWeaks, WeakTarget
    <3> QED
      BY <3>1, <3>2
  <2>5. FoundInChain' /\ ReferentIsBase' /\ KeepAliveHolds'
    <3>1. FoundInChain'
      BY <1>29, SMTT(30) DEF NewWeakReference, FreeWeaks, WeakTarget
    <3>2. ReferentIsBase'
      BY <1>29, SMTT(30) DEF NewWeakReference, FreeWeaks, WeakTarget
    <3>3. KeepAliveHolds'
      BY <1>29, SMTT(30) DEF NewWeakReference, FreeWeaks, WeakTarget
    <3> QED
      BY <3>1, <3>2, <3>3
  <2> QED
    BY <2>1, <2>2, <2>3, <2>4, <2>5
<1>30. ASSUME Release(t)
     PROVE  Links'
  BY <1>30 DEF Release
<1>31. ASSUME Decrement(t)
     PROVE  Links'
  <2>1. SlotsEmpty' /\ DeadUnreferenced' /\ ZappedUnreferenced'
    <3>1. SlotsEmpty'
      BY <1>31, SMTT(30) DEF Decrement
    <3>2. DeadUnreferenced'
      BY <1>31, SMTT(30) DEF Decrement
    <3>3. ZappedUnreferenced'
      BY <1>31, SMTT(30) DEF Decrement
    <3> QED
      BY <3>1, <3>2, <3>3
  <2>2. WeakRefsPaired' /\ WeakRefExact' /\ BasesHaveWeakRef'
    <3>1. WeakRefsPaired'
      BY <1>31, SMTT(30) DEF Decrement
    <3>2. WeakRefExact'
      BY <1>31, SMTT(30) DEF Decrement
    <3>3. BasesHaveWeakRef'
      BY <1>31, SMTT(30) DEF Decrement
    <3> QED
      BY <3>1, <3>2, <3>3
  <2>3. UsedHasWeakRef'
    <3>1. ASSUME NEW g \in Gateways, Used(g)' PROVE Used(g)
      BY <1>31, <3>1, SMTT(30) DEF Decrement
    <3>2. weak' = weak /\ base' = base
      BY <1>31 DEF Decrement
    <3> QED
      BY <3>1, <3>2
  <2>4. Constructing' /\ OnlyNewBasesLackWeakRef'
    <3>1. Constructing'
      BY <1>31, SMTT(30) DEF Decrement
    <3>2. OnlyNewBasesLackWeakRef'
      BY <1>31, SMTT(30) DEF Decrement
    <3> QED
      BY <3>1, <3>2
  <2>5. FoundInChain' /\ ReferentIsBase' /\ KeepAliveHolds'
    <3>1. FoundInChain'
      BY <1>31, SMTT(30) DEF Decrement
    <3>2. ReferentIsBase'
      BY <1>31, SMTT(30) DEF Decrement
    <3>3. KeepAliveHolds'
      BY <1>31, SMTT(30) DEF Decrement
    <3> QED
      BY <3>1, <3>2, <3>3
  <2> QED
    BY <2>1, <2>2, <2>3, <2>4, <2>5
<1>32. ASSUME ZapWeakReference(t)
     PROVE  Links'
  BY <1>32 DEF ZapWeakReference
<1>33. ASSUME Unlink(t)
     PROVE  Links'
  BY <1>33 DEF Unlink
<1>34. ASSUME Destroy(t)
     PROVE  Links'
  <2>1. SlotsEmpty' /\ DeadUnreferenced' /\ ZappedUnreferenced'
    <3>1. SlotsEmpty'
      BY <1>34, SMTT(30) DEF Destroy
    <3>2. DeadUnreferenced'
      <4> DEFINE d == own[t]
      <4>1. /\ d \in Gateways /\ state[d] = "dying" /\ d \notin linked
            /\ refs[d] = 0
        BY <1>34 DEF Destroy
      <4>2. /\ state' = [state EXCEPT ![d] = "free"]
            /\ base' = [base EXCEPT ![d] = None]
            /\ refs' = refs /\ linked' = linked
        BY <1>34 DEF Destroy
      <4>3. \A u \in Threads : pc'[u] = "dtor" =>
              pc[u] = "dtor" /\ own'[u] = own[u]
        BY <1>34 DEF Destroy
      <4> QED
        BY <4>1, <4>2, <4>3
    <3>3. ZappedUnreferenced'
      BY <1>34, SMTT(30) DEF Destroy
    <3> QED
      BY <3>1, <3>2, <3>3
  <2>2. WeakRefsPaired' /\ WeakRefExact' /\ BasesHaveWeakRef'
    BY <1>34, SMTT(30) DEF Destroy
  <2>3. UsedHasWeakRef'
    <3> DEFINE d == own[t]
    <3>1. NoOther(d, None) /\ d \in Gateways /\ base' = [base EXCEPT ![d] =
       None]
          /\ weak' = weak
      BY <1>34 DEF Destroy
    <3>2. \A h \in Gateways : h # d => BaseOf(h)' = BaseOf(h)
      BY <3>1
    <3>3. base[d] # None => weak[base[d]] # None /\ base[base[d]] = None
      BY <3>1
    <3>4. ASSUME NEW g \in Gateways, Used(g)' PROVE g # d /\ (Used(g) \/ g =
       base[d])
      BY <1>34, <3>1, <3>4, SMTT(30) DEF Destroy
    <3> QED
      BY <3>1, <3>2, <3>3, <3>4
  <2>4. Constructing' /\ OnlyNewBasesLackWeakRef'
    BY <1>34, SMTT(30) DEF Destroy
  <2>5. FoundInChain' /\ ReferentIsBase' /\ KeepAliveHolds'
    <3>1. FoundInChain'
      BY <1>34, SMTT(30) DEF Destroy
    <3>2. ReferentIsBase'
      BY <1>34, SMTT(30) DEF Destroy
    <3>3. KeepAliveHolds'
      BY <1>34, SMTT(30) DEF Destroy
    <3> QED
      BY <3>1, <3>2, <3>3
  <2> QED
    BY <2>1, <2>2, <2>3, <2>4, <2>5
<1>35. ASSUME TouchFreed(t)
     PROVE  Links'
  BY <1>35 DEF TouchFreed, Touched
<1> QED
  BY <1>1, <1>2, <1>3, <1>4, <1>5, <1>6, <1>7, <1>8, <1>9, <1>10, <1>11,
     <1>12, <1>13, <1>14, <1>15, <1>16, <1>17, <1>18, <1>19, <1>20, <1>21,
     <1>22, <1>23, <1>24, <1>25, <1>26, <1>27, <1>28, <1>29, <1>30, <1>31,
     <1>32, <1>33, <1>34, <1>35
     DEF Start, Step

-----------------------------------------------------------------------------
(* The invariant, and what follows from it. *)

LEMMA StutterKeeps == IInv /\ UNCHANGED vars => IInv'
BY DEF IInv, Control, TypeOK, LocksExact, PointersSet, Dying, DestroyedOnce,
       InPython, RefsExact, Callers, Holders, TearOffs, Links, SlotsEmpty,
       DeadUnreferenced, ZappedUnreferenced, WeakRefsPaired, WeakRefExact,
       BasesHaveWeakRef, UsedHasWeakRef, Used, InCall, Holds, BaseOf, Alive,
       Constructing, Unlinked, OnlyNewBasesLackWeakRef, FoundInChain,
       ReferentIsBase, KeepAliveHolds, vars, locks, cells, weaks, local

LEMMA IInvKept == IInv /\ [Next]_vars => IInv'
<1> SUFFICES ASSUME IInv, [Next]_vars PROVE IInv'
  OBVIOUS
<1>1. ASSUME NEW t \in Threads, Start(t) \/ Step(t) PROVE IInv'
  <2>1. Control'
    BY <1>1, ControlKept DEF IInv
  <2>2. RefsExact'
    BY <1>1, RefsKept DEF IInv, Links
  <2>3. Links'
    BY <1>1, LinksKept
  <2> QED
    BY <2>1, <2>2, <2>3 DEF IInv
<1>2. CASE UNCHANGED vars
  BY <1>2, StutterKeeps
<1> QED
  BY <1>1, <1>2 DEF Next, Halted

\* IInv holds in every reachable state.
THEOREM Inductive == Spec => []IInv
<1>1. Init => IInv
  BY ControlInit, RefsInit, LinksInit DEF IInv
<1> QED
  BY <1>1, IInvKept, PTL DEF Spec

\* Every variable stays in its range.
THEOREM TypeCorrect == Spec => []TypeOK
<1>1. IInv => TypeOK
  BY DEF IInv, Control
<1> QED
  BY <1>1, Inductive, PTL

\* mRefCnt of every gateway is the number of references to it (AddRef and
\* Release, PyGBase.cpp).
THEOREM RefCountsExact == Spec => []RefsExact
<1>1. IInv => RefsExact
  BY DEF IInv
<1> QED
  BY <1>1, Inductive, PTL

\* A weak reference points to a gateway only while the gateway is live and
\* owns it (PyG_Base::Release, PyXPCOM_GatewayWeakReference).
THEOREM WeakRefsExact == Spec => []WeakRefExact
<1>1. IInv => WeakRefExact
  BY DEF IInv, Links
<1> QED
  BY <1>1, Inductive, PTL

\* QueryReferent finds the gateway it kept alive (PyGWeakReference.cpp).
THEOREM KeptAlive == Spec => []KeepAliveHolds
<1>1. IInv => KeepAliveHolds
  BY DEF IInv, Links
<1> QED
  BY <1>1, Inductive, PTL

\* A gateway whose count reaches 0 is deleted, and once.
THEOREM DeletedOnce == Spec => []DestroyedOnce
<1>1. IInv => DestroyedOnce
  BY DEF IInv, Control
<1> QED
  BY <1>1, Inductive, PTL

\* The unguarded creation of the weak reference (PyG_Base::GetWeakReference)
\* is safe: a base that a client can reach has one already.
THEOREM UnguardedWeakRefSafe == Spec => []PublishedHasWeakRef
<1>1. ASSUME IInv PROVE PublishedHasWeakRef
  <2> SUFFICES ASSUME NEW g \in Gateways,
                      \/ ext[g] > 0
                      \/ \E t \in Threads :
                           own[t] = g /\ pc[t] \in {"qi", "find", "get_weak"}
               PROVE  weak[BaseOf(g)] # None
    BY DEF PublishedHasWeakRef
  <2>1. Used(g)
    BY DEF Used, InCall
  <2> QED
    BY <1>1, <2>1 DEF IInv, Links, UsedHasWeakRef
<1> QED
  BY <1>1, Inductive, PTL

\* A tear-off's m_pBaseObject is a live base gateway.
THEOREM BasesOutlive == Spec => []BaseOutlivesTearOffs
<1>1. ASSUME IInv PROVE BaseOutlivesTearOffs
  <2> SUFFICES ASSUME NEW h \in Gateways, base[h] # None
               PROVE  /\ state[base[h]] = "live" /\ base[base[h]] = None
                      /\ refs[base[h]] > 0
    BY DEF BaseOutlivesTearOffs
  <2> DEFINE b == base[h]
  <2>1. b \in Gateways /\ refs[b] \in Nat
    BY <1>1 DEF IInv, Control, TypeOK, OrNone
  <2>2. weak[b] # None
    BY <1>1 DEF IInv, Links, BasesHaveWeakRef
  <2>3. weak[b] \in Weaks /\ wbase[weak[b]] = b /\ base[b] = None
    BY <1>1, <2>1, <2>2
       DEF IInv, Links, WeakRefsPaired, Control, TypeOK, OrNone
  <2>4. state[b] = "live"
    BY <1>1, <2>1, <2>3, NoneAssumption DEF IInv, Links, WeakRefExact
  <2>5. refs[b] # 0
    BY <1>1, <2>1, NoReference DEF IInv, Control, NoOther
  <2> QED
    BY <2>1, <2>3, <2>4, <2>5
<1> QED
  BY <1>1, Inductive, PTL

\* The assertion of AddDefaultGateway, "A Python object has a duplicate
\* gateway!", never fires.
THEOREM NoDuplicateGateway == Spec => []NoDuplicateAssertion
<1>1. ASSUME IInv PROVE NoDuplicateAssertion
  <2> SUFFICES ASSUME NEW t \in Threads, pc[t] = "add_default", Alive(attr)
               PROVE  wbase[attr] = BaseOf(got[t])
    BY DEF NoDuplicateAssertion
  <2>1. got[t] \in Gateways /\ refs[got[t]] # 0
    BY <1>1, NoReference
       DEF IInv, Control, TypeOK, PointersSet, PythonSection, OrNone, NoOther,
           Holds
  <2>2. state[got[t]] = "live"
    BY <1>1, <2>1 DEF IInv, Links, DeadUnreferenced
  <2>3. base[got[t]] = wbase[attr]
    BY <1>1, <2>2
       DEF IInv, Links, Constructing, InPython, PythonSection
  <2> QED
    BY <2>3 DEF Alive, BaseOf
<1> QED
  BY <1>1, Inductive, PTL

\* What QueryReferent and GetDefaultGateway are about to AddRef is what a weak
\* reference still leads to; the reference that Release gives up is counted yet.
LEMMA IInvSafeUnderLock == IInv => LockedUsesSafe
<1> SUFFICES ASSUME IInv, NEW t \in Threads,
                    pc[t] \in {"qr_addref", "gd_addref", "rel_dec"}
             PROVE  state[Touched(t)] = "live"
  BY DEF LockedUsesSafe
<1>1. CASE pc[t] = "qr_addref"
  <2>1. wk[t] \in Weaks /\ wbase[wk[t]] # None
    BY <1>1 DEF IInv, Control, TypeOK, PointersSet, OrNone
  <2>2. state[wbase[wk[t]]] = "live"
    BY <2>1 DEF IInv, Links, WeakRefExact
  <2> QED
    BY <1>1, <2>2 DEF Touched
<1>2. CASE pc[t] = "gd_addref"
  <2>1. attr \in Weaks /\ wbase[attr] # None
    BY <1>2 DEF IInv, Control, TypeOK, PointersSet, OrNone
  <2>2. state[wbase[attr]] = "live"
    BY <2>1 DEF IInv, Links, WeakRefExact
  <2> QED
    BY <1>2, <2>2 DEF Touched
<1>3. CASE pc[t] = "rel_dec"
  <2>1. own[t] \in Gateways /\ InCall(t, own[t])
    BY <1>3
       DEF IInv, Control, TypeOK, PointersSet, OrNone, InCall
  <2>2. refs[own[t]] # 0
    BY <2>1, NoReference, NoneAssumption
       DEF IInv, Control, NoOther
  <2>3. state[own[t]] = "live"
    BY <2>1, <2>2 DEF IInv, Links, DeadUnreferenced
  <2> QED
    BY <1>3, <2>3 DEF Touched
<1> QED
  BY <1>1, <1>2, <1>3

\* Under the framework lock nobody reaches a gateway that is being destroyed
\* (PyG_Base::Release, PyXPCOM_GatewayWeakReference::QueryReferent).
THEOREM SafeUnderLock == Spec => []LockedUsesSafe
BY IInvSafeUnderLock, Inductive, PTL
=============================================================================
