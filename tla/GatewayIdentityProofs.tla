----------------------- MODULE GatewayIdentityProofs -----------------------
(***************************************************************************)
(* Proofs that the gateways of one Python instance keep its identity: that *)
(* Gateway implements ObjectIdentity, for any number of threads, gateways, *)
(* weak references and interfaces.                                         *)
(*                                                                         *)
(* It is not so without hypotheses (OneCareful below), and model checking  *)
(* shows an instance that gets two identities without each of them: the    *)
(* wiped attribute of CheckDefaultGateway, by two threads at once or after *)
(* an interface was refused.                                               *)
(*                                                                         *)
(* At the end: one thread alone, auto-wrapping as it likes, never touches  *)
(* what was freed and (with OneCareful) gets one stub for an interface.    *)
(***************************************************************************)
EXTENDS GatewayProofs

\* At most one thread auto-wraps the instance (others may wrap it only by
\* asking a gateway for an interface), and only for interfaces that it has.
OneCareful ==
  /\ \A t, u \in Wrappers : t = u
  /\ Unsupported \notin WrapIids

-----------------------------------------------------------------------------
(* The invariant *)

\* The attribute holds the weak reference of each base there is.
AttributeIsDefault == \A g \in Gateways : weak[g] # None => attr = weak[g]

\* QueryInterface has returned to QueryReferent.
Answered == {"ret", "rel", "rel_dec", "rel_zap", "unlink", "dtor"}

\* Auto-wrapping looks at the attribute as it still is, and finds nothing
\* only when there is nothing; a call that wraps the instance has a gateway
\* of it, or comes from auto-wrapping; and a new base is made the default
\* only when the attribute is dead.
CallSound(t) ==
  /\ op[t] \in {"check", "wrap"} => t \in Wrappers /\ want[t] \in WrapIids
  /\ pc[t] = "find" => want[t] # NSISupports
  /\ pc[t] = "checked" => op[t] = "check"
  /\ op[t] = "check" => wk[t] = attr
  /\ op[t] = "check" /\ pc[t] \in Answered => got[t] # None
  /\ op[t] = "check" /\ pc[t] = "checked" /\ got[t] = None => ~Alive(attr)
  /\ pc[t] = "wrap" \/ InPython(t) => op[t] = "wrap" \/ own[t] # None
  /\ InPython(t) /\ pc[t] \in {"get_weak", "new_weak"} => ~Alive(attr)

CallsSound == \A t \in Threads : CallSound(t)

IdInv == IInv /\ AttributeIsDefault /\ CallsSound

-----------------------------------------------------------------------------
(* What the invariant says of the gateways in use *)

\* A gateway with a weak reference stands for the instance, and the weak
\* reference leads to it.
LEMMA OwnerStands ==
  ASSUME IInv, NEW g \in Gateways, weak[g] # None
  PROVE  /\ state[g] = "live" /\ base[g] = None
         /\ weak[g] \in Weaks /\ wbase[weak[g]] = g
<1>1. weak[g] \in Weaks /\ wbase[weak[g]] = g /\ base[g] = None
  BY DEF IInv, Links, WeakRefsPaired, Control, TypeOK, OrNone
<1>2. g # None
  BY NoneAssumption
<1> QED
  BY <1>1, <1>2 DEF IInv, Links, WeakRefExact

\* While a gateway is in use the attribute is alive, and leads to its base.
LEMMA UsedLeadsToDefault ==
  ASSUME IdInv, NEW g \in Gateways, Used(g)
  PROVE  /\ BaseOf(g) \in Gateways /\ weak[BaseOf(g)] # None
         /\ Alive(attr) /\ wbase[attr] = BaseOf(g)
<1>1. BaseOf(g) \in Gateways
  BY DEF BaseOf, IdInv, IInv, Control, TypeOK, OrNone
<1>2. weak[BaseOf(g)] # None
  BY DEF IdInv, IInv, Links, UsedHasWeakRef
<1>3. attr = weak[BaseOf(g)] /\ wbase[attr] = BaseOf(g)
  BY <1>1, <1>2, OwnerStands DEF IdInv, AttributeIsDefault
<1> QED
  BY <1>1, <1>2, <1>3, NoneAssumption DEF Alive

\* A call that wraps the instance through a gateway finds the attribute
\* alive.
LEMMA WrapsThroughDefault ==
  ASSUME IdInv, NEW t \in Threads, InPython(t), op[t] # "wrap"
  PROVE  Alive(attr)
<1>1. own[t] # None /\ own[t] \in Gateways
  BY DEF IdInv, CallsSound, CallSound, IInv, Control, TypeOK, OrNone
<1>2. Used(own[t])
  BY <1>1 DEF Used, InCall, InPython, PythonSection
<1> QED
  BY <1>1, <1>2, UsedLeadsToDefault

\* Only the thread that auto-wraps gives the instance another attribute, and
\* only when the one it has is dead.
LEMMA OnlyDeadReplaced ==
  ASSUME IdInv, NEW t \in Threads, InPython(t),
         pc[t] \in {"get_weak", "new_weak"}
  PROVE  /\ ~Alive(attr) /\ op[t] = "wrap" /\ t \in Wrappers
         /\ \A g \in Gateways : weak[g] = None
<1>1. ~Alive(attr) /\ op[t] = "wrap" /\ t \in Wrappers
  BY WrapsThroughDefault DEF IdInv, CallsSound, CallSound
<1>2. ASSUME NEW g \in Gateways, weak[g] # None PROVE FALSE
  BY <1>1, <1>2, OwnerStands, NoneAssumption
     DEF IdInv, AttributeIsDefault, Alive
<1> QED
  BY <1>1, <1>2

-----------------------------------------------------------------------------
(* The steps *)

\* The other calls stay as they are.
OnlyCall(t) ==
  \A u \in Threads \ {t} :
    /\ pc'[u] = pc[u] /\ op'[u] = op[u] /\ own'[u] = own[u]
    /\ want'[u] = want[u] /\ wk'[u] = wk[u] /\ got'[u] = got[u]

\* A step that leaves the weak references and the attribute alone.
LEMMA QuietKeeps ==
  ASSUME IdInv, NEW t \in Threads, UNCHANGED <<weak, wbase, attr>>,
         OnlyCall(t), CallSound(t)'
  PROVE  AttributeIsDefault' /\ CallsSound'
<1>1. AttributeIsDefault'
  BY DEF IdInv, AttributeIsDefault
<1>2. ASSUME NEW u \in Threads, u # t PROVE CallSound(u)'
  BY <1>2
     DEF IdInv, CallsSound, CallSound, OnlyCall, InPython, Alive
<1> QED
  BY <1>1, <1>2 DEF CallsSound

LEMMA SoundKept ==
  ASSUME OneCareful, IdInv, IInv', NEW t \in Threads, Start(t) \/ Step(t)
  PROVE  AttributeIsDefault' /\ CallsSound'
<1> USE NoneAssumption, IidAssumption
<1> USE DEF Go, Begin, Finish, AfterRelease, GiveWeak, locks, cells, weaks,
            local, OnlyCall, CallSound, Answered, InPython, PythonSection,
            TypeOK, Labels, Calls, OrNone
<1>0. CallSound(t) /\ TypeOK /\ LocksExact /\ PointersSet /\ SlotsEmpty
  BY DEF IdInv, CallsSound, IInv, Control, Links
<1>1. ASSUME NEW g \in Gateways, CallRelease(t, g)
      PROVE  AttributeIsDefault' /\ CallsSound'
  <2>1. UNCHANGED <<weak, wbase, attr>> /\ OnlyCall(t)
    BY <1>0, <1>1 DEF CallRelease
  <2>2. CallSound(t)'
    BY <1>0, <1>1 DEF CallRelease
  <2> QED
    BY <2>1, <2>2, QuietKeeps
<1>2. ASSUME NEW g \in Gateways, NEW i \in AskedIids,
             CallQueryInterface(t, g, i)
      PROVE  AttributeIsDefault' /\ CallsSound'
  <2>1. UNCHANGED <<weak, wbase, attr>> /\ OnlyCall(t)
    BY <1>0, <1>2 DEF CallQueryInterface
  <2>2. CallSound(t)'
    BY <1>0, <1>2 DEF CallQueryInterface
  <2> QED
    BY <2>1, <2>2, QuietKeeps
<1>3. ASSUME NEW g \in Gateways, CallGetWeakReference(t, g)
      PROVE  AttributeIsDefault' /\ CallsSound'
  <2>1. UNCHANGED <<weak, wbase, attr>> /\ OnlyCall(t)
    BY <1>0, <1>3 DEF CallGetWeakReference
  <2>2. CallSound(t)'
    BY <1>0, <1>3 DEF CallGetWeakReference
  <2> QED
    BY <2>1, <2>2, QuietKeeps
<1>4. ASSUME NEW w \in Weaks, NEW i \in AskedIids,
             CallQueryReferent(t, w, i)
      PROVE  AttributeIsDefault' /\ CallsSound'
  <2>1. UNCHANGED <<weak, wbase, attr>> /\ OnlyCall(t)
    BY <1>0, <1>4 DEF CallQueryReferent
  <2>2. CallSound(t)'
    BY <1>0, <1>4 DEF CallQueryReferent
  <2> QED
    BY <2>1, <2>2, QuietKeeps
<1>5. ASSUME t \in Wrappers, NEW i \in WrapIids, AutoWrap(t, i)
      PROVE  AttributeIsDefault' /\ CallsSound'
  <2>1. UNCHANGED <<weak, wbase, attr>> /\ OnlyCall(t)
    BY <1>0, <1>5 DEF AutoWrap
  <2>2. CallSound(t)'
    BY <1>0, <1>5 DEF AutoWrap
  <2> QED
    BY <2>1, <2>2, QuietKeeps
<1>6. ASSUME Checked(t)
      PROVE  AttributeIsDefault' /\ CallsSound'
  <2>1. CASE got[t] # None
    <3>1. UNCHANGED <<weak, wbase, attr>> /\ OnlyCall(t)
      BY <1>0, <1>6, <2>1 DEF Checked
    <3>2. CallSound(t)'
      BY <1>0, <1>6, <2>1 DEF Checked
    <3> QED
      BY <3>1, <3>2, QuietKeeps
  <2>2. CASE got[t] = None
    <3>1. op[t] = "check" /\ t \in Wrappers /\ ~Alive(attr)
      BY <1>0, <1>6, <2>2 DEF Checked
    <3>2. \A g \in Gateways : weak[g] = None
      BY <3>1, OwnerStands DEF IdInv, AttributeIsDefault, Alive
    <3>3. OnlyCall(t) /\ UNCHANGED <<weak, wbase>> /\ ~Alive(attr')
      BY <1>0, <1>6, <2>2 DEF Checked, Alive
    <3>4. CallSound(t)'
      BY <1>0, <1>6, <2>2, <3>1 DEF Checked
    <3>5. ASSUME NEW u \in Threads, u # t PROVE CallSound(u)'
      <4>1. CallSound(u) /\ op[u] \notin {"check", "wrap"}
        BY <3>1, <3>5 DEF IdInv, CallsSound, OneCareful
      <4> QED
        BY <3>3, <3>5, <4>1 DEF Alive
    <3> QED
      BY <3>2, <3>3, <3>4, <3>5 DEF AttributeIsDefault, CallsSound
  <2> QED
    BY <2>1, <2>2
<1>7. ASSUME QueryReferent(t)
      PROVE  AttributeIsDefault' /\ CallsSound'
  <2>1. UNCHANGED <<weak, wbase, attr>> /\ OnlyCall(t)
    BY <1>0, <1>7 DEF QueryReferent
  <2>2. CallSound(t)'
    BY <1>0, <1>7 DEF QueryReferent
  <2> QED
    BY <2>1, <2>2, QuietKeeps
<1>8. ASSUME ReferentGone(t)
      PROVE  AttributeIsDefault' /\ CallsSound'
  <2>1. UNCHANGED <<weak, wbase, attr>> /\ OnlyCall(t)
    BY <1>0, <1>8 DEF ReferentGone
  <2>2. CallSound(t)'
    BY <1>0, <1>8 DEF ReferentGone, Alive
  <2> QED
    BY <2>1, <2>2, QuietKeeps
<1>9. ASSUME ReferentFound(t)
      PROVE  AttributeIsDefault' /\ CallsSound'
  <2>1. UNCHANGED <<weak, wbase, attr>> /\ OnlyCall(t)
    BY <1>0, <1>9 DEF ReferentFound
  <2>2. CallSound(t)'
    BY <1>0, <1>9 DEF ReferentFound
  <2> QED
    BY <2>1, <2>2, QuietKeeps
<1>10. ASSUME ReferentKeepAlive(t)
      PROVE  AttributeIsDefault' /\ CallsSound'
  <2>1. UNCHANGED <<weak, wbase, attr>> /\ OnlyCall(t)
    BY <1>0, <1>10 DEF ReferentKeepAlive
  <2>2. CallSound(t)'
    BY <1>0, <1>10 DEF ReferentKeepAlive
  <2> QED
    BY <2>1, <2>2, QuietKeeps
<1>11. ASSUME QueryItself(t)
      PROVE  AttributeIsDefault' /\ CallsSound'
  <2>1. UNCHANGED <<weak, wbase, attr>> /\ OnlyCall(t)
    BY <1>0, <1>11 DEF QueryItself
  <2>2. CallSound(t)'
    BY <1>0, <1>11 DEF QueryItself
  <2> QED
    BY <2>1, <2>2, QuietKeeps
<1>12. ASSUME QueryOther(t)
      PROVE  AttributeIsDefault' /\ CallsSound'
  <2>1. UNCHANGED <<weak, wbase, attr>> /\ OnlyCall(t)
    BY <1>0, <1>12 DEF QueryOther
  <2>2. CallSound(t)'
    BY <1>0, <1>12 DEF QueryOther, Itself, BaseOf, PointersSet
  <2> QED
    BY <2>1, <2>2, QuietKeeps
<1>13. ASSUME FindStub(t)
      PROVE  AttributeIsDefault' /\ CallsSound'
  <2>1. UNCHANGED <<weak, wbase, attr>> /\ OnlyCall(t)
    BY <1>0, <1>13 DEF FindStub
  <2>2. CallSound(t)'
    BY <1>0, <1>13 DEF FindStub
  <2> QED
    BY <2>1, <2>2, QuietKeeps
<1>14. ASSUME AddRefStub(t)
      PROVE  AttributeIsDefault' /\ CallsSound'
  <2>1. UNCHANGED <<weak, wbase, attr>> /\ OnlyCall(t)
    BY <1>0, <1>14 DEF AddRefStub
  <2>2. CallSound(t)'
    BY <1>0, <1>14 DEF AddRefStub, PointersSet
  <2> QED
    BY <2>1, <2>2, QuietKeeps
<1>15. ASSUME AskPolicy(t)
      PROVE  AttributeIsDefault' /\ CallsSound'
  <2>1. UNCHANGED <<weak, wbase, attr>> /\ OnlyCall(t)
    BY <1>0, <1>15 DEF AskPolicy
  <2>2. CallSound(t)'
    BY <1>0, <1>15 DEF AskPolicy, AskedIids, OneCareful, PointersSet
  <2> QED
    BY <2>1, <2>2, QuietKeeps
<1>16. ASSUME Return(t)
      PROVE  AttributeIsDefault' /\ CallsSound'
  <2>1. UNCHANGED <<weak, wbase, attr>> /\ OnlyCall(t)
    BY <1>0, <1>16 DEF Return
  <2>2. CallSound(t)'
    BY <1>0, <1>16 DEF Return
  <2> QED
    BY <2>1, <2>2, QuietKeeps
<1>17. ASSUME WrapObject(t)
      PROVE  AttributeIsDefault' /\ CallsSound'
  <2>1. UNCHANGED <<weak, wbase, attr>> /\ OnlyCall(t)
    BY <1>0, <1>17 DEF WrapObject
  <2>2. CallSound(t)'
    BY <1>0, <1>17 DEF WrapObject
  <2> QED
    BY <2>1, <2>2, QuietKeeps
<1>18. ASSUME WrapRefused(t)
      PROVE  AttributeIsDefault' /\ CallsSound'
  <2>1. UNCHANGED <<weak, wbase, attr>> /\ OnlyCall(t)
    BY <1>0, <1>18 DEF WrapRefused
  <2>2. CallSound(t)'
    BY <1>0, <1>18 DEF WrapRefused, Refused, OneCareful
  <2> QED
    BY <2>1, <2>2, QuietKeeps
<1>19. ASSUME GetDefaultGateway(t)
      PROVE  AttributeIsDefault' /\ CallsSound'
  <2>1. UNCHANGED <<weak, wbase, attr>> /\ OnlyCall(t)
    BY <1>0, <1>19 DEF GetDefaultGateway
  <2>2. CallSound(t)'
    BY <1>0, <1>19 DEF GetDefaultGateway
  <2> QED
    BY <2>1, <2>2, QuietKeeps
<1>20. ASSUME NoDefaultGateway(t)
      PROVE  AttributeIsDefault' /\ CallsSound'
  <2>1. UNCHANGED <<weak, wbase, attr>> /\ OnlyCall(t)
    BY <1>0, <1>20 DEF NoDefaultGateway
  <2>2. CallSound(t)'
    BY <1>0, <1>20 DEF NoDefaultGateway
  <2> QED
    BY <2>1, <2>2, QuietKeeps
<1>21. ASSUME DefaultGatewayFound(t)
      PROVE  AttributeIsDefault' /\ CallsSound'
  <2>1. UNCHANGED <<weak, wbase, attr>> /\ OnlyCall(t)
    BY <1>0, <1>21 DEF DefaultGatewayFound
  <2>2. CallSound(t)'
    BY <1>0, <1>21 DEF DefaultGatewayFound
  <2> QED
    BY <2>1, <2>2, QuietKeeps
<1>22. ASSUME SetBaseObject(t)
      PROVE  AttributeIsDefault' /\ CallsSound'
  <2>1. UNCHANGED <<weak, wbase, attr>> /\ OnlyCall(t)
    BY <1>0, <1>22 DEF SetBaseObject
  <2>2. CallSound(t)'
    BY <1>0, <1>22 DEF SetBaseObject
  <2> QED
    BY <2>1, <2>2, QuietKeeps
<1>23. ASSUME LinkStub(t)
      PROVE  AttributeIsDefault' /\ CallsSound'
  <2>1. UNCHANGED <<weak, wbase, attr>> /\ OnlyCall(t)
    BY <1>0, <1>23 DEF LinkStub
  <2>2. CallSound(t)'
    BY <1>0, <1>23 DEF LinkStub
  <2> QED
    BY <2>1, <2>2, QuietKeeps
<1>24. ASSUME FirstReference(t)
      PROVE  AttributeIsDefault' /\ CallsSound'
  <2>1. UNCHANGED <<weak, wbase, attr>> /\ OnlyCall(t)
    BY <1>0, <1>24 DEF FirstReference
  <2>2. CallSound(t)'
    BY <1>0, <1>24 DEF FirstReference
  <2> QED
    BY <2>1, <2>2, QuietKeeps
<1>25. ASSUME KeepDefaultGateway(t)
      PROVE  AttributeIsDefault' /\ CallsSound'
  <2>1. UNCHANGED <<weak, wbase, attr>> /\ OnlyCall(t)
    BY <1>0, <1>25 DEF KeepDefaultGateway
  <2>2. CallSound(t)'
    BY <1>0, <1>25 DEF KeepDefaultGateway, PointersSet
  <2> QED
    BY <2>1, <2>2, QuietKeeps
<1>26. ASSUME AddDefaultGateway(t)
      PROVE  AttributeIsDefault' /\ CallsSound'
  <2>1. UNCHANGED <<weak, wbase, attr>> /\ OnlyCall(t)
    BY <1>0, <1>26 DEF AddDefaultGateway
  <2>2. CallSound(t)'
    BY <1>0, <1>26 DEF AddDefaultGateway, Alive
  <2> QED
    BY <2>1, <2>2, QuietKeeps
<1>27. ASSUME HaveWeakReference(t)
      PROVE  AttributeIsDefault' /\ CallsSound'
  <2>1. CASE op[t] = "weak"
    <3>1. UNCHANGED <<weak, wbase, attr>> /\ OnlyCall(t)
      BY <1>0, <1>27, <2>1 DEF HaveWeakReference
    <3>2. CallSound(t)'
      BY <1>0, <1>27, <2>1 DEF HaveWeakReference
    <3> QED
      BY <3>1, <3>2, QuietKeeps
  <2>2. CASE op[t] # "weak"
    <3>1. pc[t] = "get_weak" /\ InPython(t) /\ weak[WeakTarget(t)] # None
      BY <1>27, <2>2 DEF HaveWeakReference
    <3>2. WeakTarget(t) \in Gateways
      BY <1>0, <2>2, <3>1 DEF WeakTarget, BaseOf, PointersSet
    <3> QED
      BY <3>1, <3>2, OnlyDeadReplaced
  <2> QED
    BY <2>1, <2>2
<1>28. ASSUME NoWeakReference(t)
      PROVE  AttributeIsDefault' /\ CallsSound'
  <2>1. UNCHANGED <<weak, wbase, attr>> /\ OnlyCall(t)
    BY <1>0, <1>28 DEF NoWeakReference
  <2>2. CallSound(t)'
    BY <1>0, <1>28 DEF NoWeakReference, Alive
  <2> QED
    BY <2>1, <2>2, QuietKeeps
<1>29. ASSUME NewWeakReference(t)
      PROVE  AttributeIsDefault' /\ CallsSound'
  <2> DEFINE w == CHOOSE x \in FreeWeaks : TRUE
  <2>1. w \in FreeWeaks /\ w \in Weaks /\ w # None
    BY <1>29 DEF NewWeakReference, FreeWeaks
  <2>2. op[t] # "weak" /\ pc[t] = "new_weak" /\ base[got[t]] = None
        /\ got[t] \in Gateways
    BY <1>0, <1>29
       DEF NewWeakReference, IdInv, IInv, Links, OnlyNewBasesLackWeakRef,
           PointersSet
  <2>3. /\ op[t] = "wrap" /\ t \in Wrappers
        /\ \A g \in Gateways : weak[g] = None
    BY <2>2, OnlyDeadReplaced
  <2>4. WeakTarget(t) = got[t]
    BY <2>2 DEF WeakTarget, BaseOf
  <2>5. /\ weak' = [weak EXCEPT ![got[t]] = w] /\ attr' = w
        /\ pc' = [pc EXCEPT ![t] = "ret"] /\ UNCHANGED local
    BY <1>29, <2>2, <2>4 DEF NewWeakReference
  <2>6. AttributeIsDefault'
    BY <1>0, <2>2, <2>3, <2>5 DEF AttributeIsDefault
  <2>7. CallSound(t)'
    BY <1>0, <2>2, <2>3, <2>5
  <2>8. ASSUME NEW u \in Threads, u # t PROVE CallSound(u)'
    <3>1. CallSound(u) /\ op[u] \notin {"check", "wrap"} /\ ~InPython(u)
      BY <1>0, <2>2, <2>3, <2>8 DEF IdInv, CallsSound, OneCareful, LocksExact
    <3> QED
      BY <1>0, <2>5, <2>8, <3>1
  <2> QED
    BY <2>6, <2>7, <2>8 DEF CallsSound
<1>30. ASSUME Release(t)
      PROVE  AttributeIsDefault' /\ CallsSound'
  <2>1. UNCHANGED <<weak, wbase, attr>> /\ OnlyCall(t)
    BY <1>0, <1>30 DEF Release
  <2>2. CallSound(t)'
    BY <1>0, <1>30 DEF Release
  <2> QED
    BY <2>1, <2>2, QuietKeeps
<1>31. ASSUME Decrement(t)
      PROVE  AttributeIsDefault' /\ CallsSound'
  <2>1. UNCHANGED <<weak, wbase, attr>> /\ OnlyCall(t)
    BY <1>0, <1>31 DEF Decrement
  <2>2. CallSound(t)'
    BY <1>0, <1>31 DEF Decrement
  <2> QED
    BY <2>1, <2>2, QuietKeeps
<1>32. ASSUME ZapWeakReference(t)
      PROVE  AttributeIsDefault' /\ CallsSound'
  <2>1. own[t] \in Gateways /\ weak[own[t]] # None
    BY <1>0, <1>32
       DEF ZapWeakReference, PointersSet, IdInv, IInv, Control, Dying
  <2>2. weak[own[t]] \in Weaks
    BY <1>0, <2>1
  <2>3. /\ wbase' = [wbase EXCEPT ![weak[own[t]]] = None]
        /\ weak' = [weak EXCEPT ![own[t]] = None] /\ attr' = attr
        /\ pc' = [pc EXCEPT ![t] = "unlink"] /\ UNCHANGED local
    BY <1>32 DEF ZapWeakReference
  <2>4. AttributeIsDefault'
    BY <1>0, <2>1, <2>3 DEF IdInv, AttributeIsDefault
  <2>5. Alive(attr)' => Alive(attr)
    BY <1>0, <2>2, <2>3 DEF Alive
  <2>6. CallSound(t)'
    BY <1>0, <1>32, <2>3, <2>5 DEF ZapWeakReference
  <2>7. ASSUME NEW u \in Threads, u # t PROVE CallSound(u)'
    <3>1. CallSound(u)
      BY DEF IdInv, CallsSound
    <3> QED
      BY <1>0, <2>3, <2>5, <2>7, <3>1
  <2> QED
    BY <2>4, <2>6, <2>7 DEF CallsSound
<1>33. ASSUME Unlink(t)
      PROVE  AttributeIsDefault' /\ CallsSound'
  <2>1. UNCHANGED <<weak, wbase, attr>> /\ OnlyCall(t)
    BY <1>0, <1>33 DEF Unlink
  <2>2. CallSound(t)'
    BY <1>0, <1>33 DEF Unlink
  <2> QED
    BY <2>1, <2>2, QuietKeeps
<1>34. ASSUME Destroy(t)
      PROVE  AttributeIsDefault' /\ CallsSound'
  <2>1. UNCHANGED <<weak, wbase, attr>> /\ OnlyCall(t)
    BY <1>0, <1>34 DEF Destroy
  <2>2. CallSound(t)'
    BY <1>0, <1>34 DEF Destroy
  <2> QED
    BY <2>1, <2>2, QuietKeeps
<1>35. ASSUME TouchFreed(t)
      PROVE  AttributeIsDefault' /\ CallsSound'
  <2>1. UNCHANGED <<weak, wbase, attr>> /\ OnlyCall(t)
    BY <1>0, <1>35 DEF TouchFreed
  <2>2. CallSound(t)'
    BY <1>0, <1>35 DEF TouchFreed, Alive
  <2> QED
    BY <2>1, <2>2, QuietKeeps
<1> QED
  BY <1>1, <1>2, <1>3, <1>4, <1>5, <1>6, <1>7, <1>8, <1>9, <1>10, <1>11,
     <1>12, <1>13, <1>14, <1>15, <1>16, <1>17, <1>18, <1>19, <1>20, <1>21,
     <1>22, <1>23, <1>24, <1>25, <1>26, <1>27, <1>28, <1>29, <1>30, <1>31,
     <1>32, <1>33, <1>34, <1>35
     DEF Start, Step

LEMMA IdInvKept ==
  ASSUME OneCareful
  PROVE  IdInv /\ [Next]_vars => IdInv'
<1> SUFFICES ASSUME IdInv, [Next]_vars PROVE IdInv'
  OBVIOUS
<1>1. IInv'
  BY IInvKept DEF IdInv
<1>2. ASSUME NEW t \in Threads, Start(t) \/ Step(t) PROVE IdInv'
  BY <1>1, <1>2, SoundKept DEF IdInv
<1>3. CASE UNCHANGED vars
  <2>1. AttributeIsDefault'
    BY <1>3 DEF IdInv, AttributeIsDefault, vars, weaks
  <2>2. CallsSound'
    BY <1>3
       DEF IdInv, CallsSound, CallSound, InPython, Alive, vars, weaks, local
  <2> QED
    BY <1>1, <2>1, <2>2 DEF IdInv
<1> QED
  BY <1>2, <1>3 DEF Next, Halted

LEMMA IdInvAlways ==
  ASSUME OneCareful
  PROVE  Spec => []IdInv
<1>1. Init => IdInv
  <2> SUFFICES ASSUME Init PROVE IdInv
    OBVIOUS
  <2>1. IInv
    BY ControlInit, RefsInit, LinksInit DEF IInv
  <2>2. AttributeIsDefault
    BY DEF Init, AttributeIsDefault
  <2>3. CallsSound
    BY DEF Init, CallsSound, CallSound, InPython, PythonSection, Answered
  <2> QED
    BY <2>1, <2>2, <2>3 DEF IdInv
<1> QED
  BY <1>1, IdInvKept, PTL DEF Spec

-----------------------------------------------------------------------------
(* The theorems *)

\* All references clients hold lead to one base object: "p1==p2==foo"
\* (PyGBase.cpp, comment on object identity).
THEOREM SameIdentity ==
  ASSUME OneCareful
  PROVE  Spec => []OneIdentity
<1>1. ASSUME IdInv PROVE OneIdentity
  <2> SUFFICES ASSUME NEW g \in Gateways, NEW h \in Gateways,
                      ext[g] > 0, ext[h] > 0
               PROVE  BaseOf(g) = BaseOf(h)
    BY DEF OneIdentity
  <2>1. Used(g) /\ Used(h)
    BY DEF Used
  <2> QED
    BY <1>1, <2>1, UsedLeadsToDefault
<1> QED
  BY <1>1, IdInvAlways, PTL

\* The attribute never loses or changes a weak reference that is still alive:
\* CheckDefaultGateway wipes, and AddDefaultGateway replaces, dead ones only.
THEOREM DefaultStays ==
  ASSUME OneCareful
  PROVE  Spec => LiveAttributeStays
<1>1. ASSUME IdInv, [Next]_vars, Alive(attr) PROVE attr' = attr
  <2>1. CASE UNCHANGED vars
    BY <2>1 DEF vars
  <2>2. ASSUME NEW t \in Threads, Start(t) PROVE attr' = attr
    BY <2>2
       DEF Start, CallRelease, CallGetWeakReference, CallQueryInterface,
           CallQueryReferent, AutoWrap
  <2>3. ASSUME NEW t \in Threads, Step(t) PROVE attr' = attr
    <3>1. CASE Checked(t)
      BY <1>1, <3>1 DEF Checked, IdInv, CallsSound, CallSound
    <3>2. CASE HaveWeakReference(t) \/ NewWeakReference(t)
      <4>1. op[t] # "weak" => FALSE
        BY <1>1, <3>2, OnlyDeadReplaced
           DEF HaveWeakReference, NewWeakReference, InPython, Go
      <4> QED
        BY <3>2, <4>1 DEF HaveWeakReference, NewWeakReference, GiveWeak
    <3> QED
      BY <2>3, <3>1, <3>2
         DEF Step, QueryReferent, ReferentGone, ReferentFound,
             ReferentKeepAlive, QueryItself, QueryOther, FindStub, AddRefStub,
             AskPolicy, Return, WrapObject, WrapRefused, GetDefaultGateway,
             NoDefaultGateway, DefaultGatewayFound, SetBaseObject, LinkStub,
             FirstReference, KeepDefaultGateway, AddDefaultGateway,
             NoWeakReference, Release, Decrement, ZapWeakReference, Unlink,
             Destroy, TouchFreed
  <2> QED
    BY <1>1, <2>1, <2>2, <2>3 DEF Next, Halted
<1>2. IdInv /\ [Next]_vars => [Alive(attr) => attr' = attr]_vars
  BY <1>1
<1> QED
  BY <1>2, IdInvAlways, PTL DEF Spec, LiveAttributeStays

-----------------------------------------------------------------------------
(* The refinement of ObjectIdentity *)

\* What Gateway substitutes for the variables of ObjectIdentity.
Standing ==
  {g \in Gateways : state[g] = "live" /\ base[g] = None /\ weak[g] # None}
UsedBases == {BaseOf(g) : g \in {h \in Gateways : InUse(h)}}

\* The owners of weak references are those that stand; there is at most one,
\* and whoever uses a gateway uses that one.
OneStands ==
  /\ Standing = {g \in Gateways : weak[g] # None}
  /\ \A g, h \in Standing : g = h
  /\ UsedBases \subseteq Standing

LEMMA IdInvOneStands == IdInv => OneStands
<1> SUFFICES ASSUME IdInv PROVE OneStands
  OBVIOUS
<1>1. Standing = {g \in Gateways : weak[g] # None}
  BY OwnerStands DEF IdInv, Standing
<1>2. ASSUME NEW g \in Gateways, NEW h \in Gateways,
             weak[g] # None, weak[h] # None
      PROVE  g = h
  BY <1>2, OwnerStands DEF IdInv, AttributeIsDefault
<1>3. ASSUME NEW g \in Gateways, InUse(g) PROVE BaseOf(g) \in Standing
  <2>1. Used(g)
    BY <1>3 DEF InUse, Used, Callers, InCall
  <2> QED
    BY <1>1, <2>1, UsedLeadsToDefault
<1> QED
  BY <1>1, <1>2, <1>3 DEF OneStands, UsedBases

\* The steps that change who stands for the instance.
LEMMA StandingChanges ==
  ASSUME NEW t \in Threads, Start(t) \/ Step(t)
  PROVE  weak' = weak \/ NewWeakReference(t) \/ ZapWeakReference(t)
<1>1. CASE Start(t)
  BY <1>1
     DEF Start, CallRelease, CallGetWeakReference, CallQueryInterface,
         CallQueryReferent, AutoWrap, weaks
<1>2. CASE Step(t)
  BY <1>2
     DEF Step, Checked, QueryReferent, ReferentGone, ReferentFound,
         ReferentKeepAlive, QueryItself, QueryOther, FindStub, AddRefStub,
         AskPolicy, Return, WrapObject, WrapRefused, GetDefaultGateway,
         NoDefaultGateway, DefaultGatewayFound, SetBaseObject, LinkStub,
         FirstReference, KeepDefaultGateway, AddDefaultGateway,
         HaveWeakReference, NoWeakReference, Release, Decrement, Unlink,
         Destroy, TouchFreed, weaks
<1> QED
  BY <1>1, <1>2

\* The first weak reference of a base makes it stand, when nothing stands.
LEMMA NewWeakReferenceCreates ==
  ASSUME IdInv, OneStands, OneStands', NEW t \in Threads, NewWeakReference(t)
  PROVE  /\ Standing = {} /\ UsedBases' = UsedBases
         /\ \E g \in Gateways : Standing' = {g}
<1>1. pc[t] = "new_weak" /\ op[t] # "weak" /\ base[got[t]] = None
      /\ got[t] \in Gateways
  BY DEF NewWeakReference, Go, OnlyNewBasesLackWeakRef, PointersSet, TypeOK,
         OrNone, IdInv, IInv, Control, Links
<1>2. \A g \in Gateways : weak[g] = None
  BY <1>1, OnlyDeadReplaced DEF InPython
<1>3. WeakTarget(t) = got[t]
  BY <1>1 DEF WeakTarget, BaseOf
<1>4. PICK w \in FreeWeaks : weak' = [weak EXCEPT ![got[t]] = w]
  BY <1>3 DEF NewWeakReference
<1>5. w # None
  BY NoneAssumption DEF FreeWeaks
<1>6. Standing = {} /\ Standing' = {got[t]}
  BY <1>1, <1>2, <1>4, <1>5 DEF OneStands, IdInv, IInv, Control, TypeOK
<1>7. /\ pc' = [pc EXCEPT ![t] = "ret"]
      /\ base' = base /\ ext' = ext /\ own' = own
  BY DEF NewWeakReference, Go, cells, local
<1>8. ASSUME NEW g \in Gateways
      PROVE  InUse(g)' = InUse(g) /\ BaseOf(g)' = BaseOf(g)
  BY <1>1, <1>7 DEF InUse, Callers, BaseOf, IdInv, IInv, Control, TypeOK
<1>9. UsedBases' = UsedBases
  BY <1>8 DEF UsedBases
<1> QED
  BY <1>1, <1>6, <1>9

\* The last Release ends what stands, and nobody uses it.
LEMMA ZapWeakReferenceEnds ==
  ASSUME IdInv, OneStands, OneStands', NEW t \in Threads, ZapWeakReference(t)
  PROVE  /\ UsedBases' = UsedBases
         /\ \E g \in Gateways \ UsedBases : Standing' = Standing \ {g}
<1>1. TypeOK /\ pc[t] = "rel_zap" /\ own[t] \in Gateways
  BY DEF ZapWeakReference, Go, PointersSet, TypeOK, OrNone, IdInv, IInv,
         Control
<1>2. weak' = [weak EXCEPT ![own[t]] = None]
  BY DEF ZapWeakReference
<1>3. Standing' = Standing \ {own[t]}
  BY <1>1, <1>2 DEF OneStands, TypeOK
<1>4. NoOther(own[t], None)
  BY <1>1, NoReference
     DEF IdInv, IInv, Control, Links, ZappedUnreferenced
<1>5. own[t] \notin UsedBases
  <2> SUFFICES ASSUME NEW g \in Gateways, InUse(g), BaseOf(g) = own[t]
               PROVE  FALSE
    BY DEF UsedBases
  <2>1. g = own[t]
    BY <1>4 DEF BaseOf, NoOther
  <2> QED
    BY <1>4, <2>1, NoneAssumption DEF NoOther, InUse, Callers, InCall
<1>6. /\ pc' = [pc EXCEPT ![t] = "unlink"]
      /\ base' = base /\ ext' = ext /\ own' = own
  BY DEF ZapWeakReference, Go, local
<1>7. ASSUME NEW g \in Gateways
      PROVE  InUse(g)' = InUse(g) /\ BaseOf(g)' = BaseOf(g)
  BY <1>1, <1>6 DEF InUse, Callers, BaseOf, TypeOK
<1>8. UsedBases' = UsedBases
  BY <1>7 DEF UsedBases
<1> QED
  BY <1>1, <1>3, <1>5, <1>8

\* The gateways implement one identity: a base becomes the one that stands
\* when none does, only the one that stands is used, and it does not end
\* while it, or a tear-off of it, is in use (PyGBase.cpp, comment on object
\* identity).
THEOREM GatewaysImplementIdentity ==
  ASSUME OneCareful
  PROVE  Spec => ImplementsIdentity
<1> USE DEF Identity!vars, Identity!Next, Identity!Create, Identity!Use,
            Identity!LeaveAlone, Identity!Die
<1>1. Init => Identity!Init
  <2> SUFFICES ASSUME Init PROVE Standing = {} /\ UsedBases = {}
    BY DEF Identity!Init, Standing, UsedBases
  <2>1. ASSUME NEW g \in Gateways PROVE ~InUse(g)
    BY NoneAssumption DEF Init, InUse, Callers
  <2> QED
    BY <2>1 DEF Init, Standing, UsedBases
<1>2. IdInv /\ OneStands /\ OneStands' /\ [Next]_vars
        => [Identity!Next]_(Identity!vars)
  <2> SUFFICES ASSUME IdInv, OneStands, OneStands', [Next]_vars
               PROVE  \/ Standing' = Standing /\ UsedBases' = UsedBases
                      \/ \E o \in Gateways :
                           \/ /\ Standing = {} /\ Standing' = {o}
                              /\ UsedBases' = UsedBases
                           \/ /\ o \in Standing
                              /\ UsedBases' = UsedBases \cup {o}
                              /\ Standing' = Standing
                           \/ /\ UsedBases' = UsedBases \ {o}
                              /\ Standing' = Standing
                           \/ /\ o \notin UsedBases
                              /\ Standing' = Standing \ {o}
                              /\ UsedBases' = UsedBases
    BY DEF Standing, UsedBases
  <2>1. CASE weak' = weak
    <3>1. Standing' = Standing /\ Standing \subseteq Gateways
      BY <2>1 DEF OneStands
    <3>2. ASSUME NEW o \in UsedBases', o \notin UsedBases
          PROVE  o \in Standing /\ UsedBases' = UsedBases \cup {o}
      BY <3>1, <3>2 DEF OneStands
    <3>3. ASSUME NEW o \in UsedBases, o \notin UsedBases'
          PROVE  o \in Standing /\ UsedBases' = UsedBases \ {o}
      BY <3>1, <3>3 DEF OneStands
    <3> QED
      BY <3>1, <3>2, <3>3
  <2>2. CASE \E t \in Threads : NewWeakReference(t)
    BY <2>2, NewWeakReferenceCreates
  <2>3. CASE \E t \in Threads : ZapWeakReference(t)
    BY <2>3, ZapWeakReferenceEnds
  <2>4. CASE UNCHANGED vars
    BY <2>1, <2>4 DEF vars, weaks
  <2> QED
    BY <2>1, <2>2, <2>3, <2>4, StandingChanges DEF Next, Halted
<1> QED
  BY <1>1, <1>2, IdInvAlways, IdInvOneStands, PTL
     DEF Spec, ImplementsIdentity, Identity!Spec

-----------------------------------------------------------------------------
(* One thread: what the races between threads spoil holds of each alone. *)

Alone == \A t, u \in Threads : t = u

\* The two AddRefs that run without the framework lock, of a stub the walk has
\* found and of a new one that is in the chain already, have it live.
FoundLive ==
  \A t \in Threads : pc[t] \in {"qi_addref", "first_ref"} =>
    state[got[t]] = "live"

\* How a thread comes to one of the two.
LEMMA WaysToAddRef ==
  ASSUME TypeOK, NEW t \in Threads, Start(t) \/ Step(t),
         pc'[t] \in {"qi_addref", "first_ref"}
  PROVE  FindStub(t) \/ LinkStub(t) \/ TouchFreed(t)
<1> USE DEF Go, Finish, AfterRelease, TypeOK
<1>1. CASE Start(t)
  BY <1>1
     DEF Start, CallRelease, CallGetWeakReference, CallQueryInterface,
         CallQueryReferent, AutoWrap
<1>2. CASE \/ Checked(t) \/ QueryReferent(t) \/ ReferentGone(t)
           \/ ReferentFound(t) \/ ReferentKeepAlive(t)
  BY <1>2
     DEF Checked, QueryReferent, ReferentGone, ReferentFound,
         ReferentKeepAlive
<1>3. CASE \/ QueryItself(t) \/ QueryOther(t) \/ AddRefStub(t) \/ AskPolicy(t)
           \/ Return(t) \/ WrapObject(t) \/ WrapRefused(t)
  BY <1>3
     DEF QueryItself, QueryOther, AddRefStub, AskPolicy, Return, WrapObject,
         WrapRefused
<1>4. CASE \/ GetDefaultGateway(t) \/ NoDefaultGateway(t)
           \/ DefaultGatewayFound(t) \/ SetBaseObject(t) \/ FirstReference(t)
           \/ KeepDefaultGateway(t) \/ AddDefaultGateway(t)
  BY <1>4
     DEF GetDefaultGateway, NoDefaultGateway, DefaultGatewayFound,
         SetBaseObject, FirstReference, KeepDefaultGateway, AddDefaultGateway
<1>5. CASE \/ HaveWeakReference(t) \/ NoWeakReference(t)
           \/ NewWeakReference(t) \/ Release(t) \/ Decrement(t)
           \/ ZapWeakReference(t) \/ Unlink(t) \/ Destroy(t)
  BY <1>5
     DEF HaveWeakReference, NoWeakReference, NewWeakReference, Release,
         Decrement, ZapWeakReference, Unlink, Destroy
<1> QED
  BY <1>1, <1>2, <1>3, <1>4, <1>5 DEF Step

LEMMA FoundLiveKept ==
  ASSUME Alone, IInv, FoundLive, NEW t \in Threads, Start(t) \/ Step(t)
  PROVE  FoundLive'
<1>1. TypeOK /\ PointersSet /\ Links
  BY DEF IInv, Control
<1>2. SUFFICES ASSUME pc'[t] \in {"qi_addref", "first_ref"}
               PROVE  state'[got'[t]] = "live"
  BY DEF Alone, FoundLive
<1>3. CASE FindStub(t)
  <2>1. pc[t] = "find" /\ state' = state /\ own[t] \in Gateways
    BY <1>1, <1>3 DEF FindStub, Go, cells, PointersSet, TypeOK, OrNone
  <2>2. PICK h \in Matches(own[t], want[t]) : got'[t] = h
    BY <1>1, <1>3 DEF FindStub, TypeOK
  <2>3. BaseOf(own[t]) \in Gateways /\ state[BaseOf(own[t])] = "live"
    <3>1. BaseOf(own[t]) \in Gateways
      BY <1>1, <2>1 DEF BaseOf, TypeOK, OrNone
    <3>2. Used(own[t])
      BY <2>1 DEF Used, InCall
    <3>3. weak[BaseOf(own[t])] # None
      BY <1>1, <2>1, <3>2 DEF Links, UsedHasWeakRef
    <3> QED
      BY <3>1, <3>3, OwnerStands
  <2>4. h = BaseOf(own[t]) \/ h \in linked
    BY <2>2 DEF Matches, ChainOf
  <2>5. ASSUME h \in linked PROVE state[h] = "live"
    <3>1. h \in Gateways /\ state[h] # "free"
      BY <1>1, <2>5 DEF TypeOK, Links, DeadUnreferenced
    <3>2. state[h] # "dying"
      BY <2>1, <3>1 DEF IInv, Control, DestroyedOnce, Alone
    <3> QED
      BY <1>1, <3>1, <3>2 DEF TypeOK
  <2> QED
    BY <2>1, <2>2, <2>3, <2>4, <2>5
<1>4. CASE LinkStub(t)
  BY <1>1, <1>4
     DEF LinkStub, Go, local, Links, Constructing, Unlinked, InPython,
         PythonSection
<1>5. CASE TouchFreed(t)
  BY <1>2, <1>5 DEF TouchFreed, cells, local, FoundLive
<1> QED
  BY <1>1, <1>2, <1>3, <1>4, <1>5, WaysToAddRef

\* A thread that is alone never touches a gateway that is being destroyed: it
\* takes a second thread to release a stub between the walk of the chain and
\* the AddRef (PyGStub.cpp, PyG_Base::QueryInterface).
THEOREM SafeAlone ==
  ASSUME Alone
  PROVE  Spec => []NoTouchOfFreed
<1> DEFINE Inv == IInv /\ FoundLive /\ NoTouchOfFreed
<1>1. Init => Inv
  <2>1. Init => IInv
    BY ControlInit, RefsInit, LinksInit DEF IInv
  <2>2. Init => FoundLive /\ NoTouchOfFreed
    BY DEF Init, FoundLive, NoTouchOfFreed
  <2> QED
    BY <2>1, <2>2
<1>2. ASSUME IInv, FoundLive, NEW t \in Threads, TouchFreed(t) PROVE FALSE
  <2>1. LockedUsesSafe
    BY <1>2, IInvSafeUnderLock
  <2> QED
    BY <1>2, <2>1 DEF TouchFreed, Touched, FoundLive, LockedUsesSafe
<1>3. ASSUME Inv, [Next]_vars PROVE Inv'
  <2>1. IInv'
    BY <1>3, IInvKept
  <2>2. CASE UNCHANGED vars
    BY <1>3, <2>1, <2>2
       DEF vars, cells, local, FoundLive, NoTouchOfFreed
  <2>3. ASSUME NEW t \in Threads, Start(t) \/ Step(t) PROVE Inv'
    <3>1. FoundLive'
      BY <1>3, <2>3, FoundLiveKept
    <3>2. fault' = fault
      BY <1>2, <1>3, <2>3
         DEF Start, CallRelease, CallGetWeakReference, CallQueryInterface,
             CallQueryReferent, AutoWrap,
             Step, Checked, QueryReferent, ReferentGone, ReferentFound,
             ReferentKeepAlive, QueryItself, QueryOther, FindStub, AddRefStub,
             AskPolicy, Return, WrapObject, WrapRefused, GetDefaultGateway,
             NoDefaultGateway, DefaultGatewayFound, SetBaseObject, LinkStub,
             FirstReference, KeepDefaultGateway, AddDefaultGateway,
             HaveWeakReference, NoWeakReference, NewWeakReference, Release,
             Decrement, ZapWeakReference, Unlink, Destroy
    <3> QED
      BY <1>3, <2>1, <3>1, <3>2 DEF NoTouchOfFreed
  <2> QED
    BY <1>3, <2>2, <2>3 DEF Next, Halted
<1> QED
  BY <1>1, <1>3, PTL DEF Spec

\* Of one base, the stubs in the chain are for different interfaces.
Distinct ==
  \A g, h \in linked : g # h /\ base[g] = base[h] => iid[g] # iid[h]

\* Between the walk that found no stub and the new stub's constructor the
\* chain still has none for the interface; and where nothing was found to
\* wrap through, there is nothing.
StubSound(t) ==
  /\ pc[t] = "wrap" \/ Unlinked(t) =>
       op[t] = "wrap" \/ \A h \in linked :
                           base[h] = BaseOf(own[t]) => iid[h] # want[t]
  /\ Unlinked(t) => iid[got[t]] = want[t]
  /\ op[t] = "wrap" =>
       /\ pc[t] \in {"wrap", "ret"} \/ InPython(t)
       /\ pc[t] # "ret" => ~Alive(attr)

LEMMA StubsKept ==
  ASSUME Alone, OneCareful, IdInv, Distinct, NEW t \in Threads, StubSound(t),
         Start(t) \/ Step(t)
  PROVE  Distinct' /\ StubSound(t)'
<1> USE NoneAssumption, IidAssumption
<1> USE DEF Distinct, StubSound, Go, Begin, Finish, AfterRelease, GiveWeak,
            locks, cells, weaks, local, InPython, PythonSection, Unlinked,
            TypeOK, Labels, Calls, OrNone
<1>0. TypeOK /\ LocksExact /\ PointersSet /\ IInv
      /\ (pc[t] = "checked" => op[t] = "check")
  BY DEF IdInv, IInv, Control, CallsSound, CallSound
<1>1. ASSUME NEW g \in Gateways, CallRelease(t, g)
      PROVE  Distinct' /\ StubSound(t)'
  <2>1. Distinct'
    BY <1>0, <1>1 DEF CallRelease
  <2>2. StubSound(t)'
    BY <1>0, <1>1 DEF CallRelease, BaseOf, Alive
  <2> QED
    BY <2>1, <2>2
<1>2. ASSUME NEW g \in Gateways, NEW i \in AskedIids,
             CallQueryInterface(t, g, i)
      PROVE  Distinct' /\ StubSound(t)'
  <2>1. Distinct'
    BY <1>0, <1>2 DEF CallQueryInterface
  <2>2. StubSound(t)'
    BY <1>0, <1>2 DEF CallQueryInterface, BaseOf, Alive
  <2> QED
    BY <2>1, <2>2
<1>3. ASSUME NEW g \in Gateways, CallGetWeakReference(t, g)
      PROVE  Distinct' /\ StubSound(t)'
  <2>1. Distinct'
    BY <1>0, <1>3 DEF CallGetWeakReference
  <2>2. StubSound(t)'
    BY <1>0, <1>3 DEF CallGetWeakReference, BaseOf, Alive
  <2> QED
    BY <2>1, <2>2
<1>4. ASSUME NEW w \in Weaks, NEW i \in AskedIids,
             CallQueryReferent(t, w, i)
      PROVE  Distinct' /\ StubSound(t)'
  <2>1. Distinct'
    BY <1>0, <1>4 DEF CallQueryReferent
  <2>2. StubSound(t)'
    BY <1>0, <1>4 DEF CallQueryReferent, BaseOf, Alive
  <2> QED
    BY <2>1, <2>2
<1>5. ASSUME NEW i \in WrapIids, AutoWrap(t, i)
      PROVE  Distinct' /\ StubSound(t)'
  <2>1. Distinct'
    BY <1>0, <1>5 DEF AutoWrap
  <2>2. StubSound(t)'
    BY <1>0, <1>5 DEF AutoWrap, BaseOf, Alive
  <2> QED
    BY <2>1, <2>2
<1>6. ASSUME Checked(t)
      PROVE  Distinct' /\ StubSound(t)'
  <2>1. Distinct'
    BY <1>0, <1>6 DEF Checked
  <2>2. StubSound(t)'
    BY <1>0, <1>6 DEF Checked, BaseOf, Alive
  <2> QED
    BY <2>1, <2>2
<1>7. ASSUME QueryReferent(t)
      PROVE  Distinct' /\ StubSound(t)'
  <2>1. Distinct'
    BY <1>0, <1>7 DEF QueryReferent
  <2>2. StubSound(t)'
    BY <1>0, <1>7 DEF QueryReferent, BaseOf, Alive
  <2> QED
    BY <2>1, <2>2
<1>8. ASSUME ReferentGone(t)
      PROVE  Distinct' /\ StubSound(t)'
  <2>1. Distinct'
    BY <1>0, <1>8 DEF ReferentGone
  <2>2. StubSound(t)'
    BY <1>0, <1>8 DEF ReferentGone, BaseOf, Alive
  <2> QED
    BY <2>1, <2>2
<1>9. ASSUME ReferentFound(t)
      PROVE  Distinct' /\ StubSound(t)'
  <2>1. Distinct'
    BY <1>0, <1>9 DEF ReferentFound
  <2>2. StubSound(t)'
    BY <1>0, <1>9 DEF ReferentFound, BaseOf, Alive
  <2> QED
    BY <2>1, <2>2
<1>10. ASSUME ReferentKeepAlive(t)
      PROVE  Distinct' /\ StubSound(t)'
  <2>1. Distinct'
    BY <1>0, <1>10 DEF ReferentKeepAlive
  <2>2. StubSound(t)'
    BY <1>0, <1>10 DEF ReferentKeepAlive, BaseOf, Alive
  <2> QED
    BY <2>1, <2>2
<1>11. ASSUME QueryItself(t)
      PROVE  Distinct' /\ StubSound(t)'
  <2>1. Distinct'
    BY <1>0, <1>11 DEF QueryItself
  <2>2. StubSound(t)'
    BY <1>0, <1>11 DEF QueryItself, BaseOf, Alive
  <2> QED
    BY <2>1, <2>2
<1>12. ASSUME QueryOther(t)
      PROVE  Distinct' /\ StubSound(t)'
  <2>1. Distinct'
    BY <1>0, <1>12 DEF QueryOther
  <2>2. StubSound(t)'
    BY <1>0, <1>12 DEF QueryOther, BaseOf, Alive
  <2> QED
    BY <2>1, <2>2
<1>13. ASSUME FindStub(t)
      PROVE  Distinct' /\ StubSound(t)'
  <2>1. Distinct'
    BY <1>0, <1>13 DEF FindStub
  <2>2. StubSound(t)'
    BY <1>0, <1>13 DEF FindStub, BaseOf, Alive
  <2> QED
    BY <2>1, <2>2
<1>14. ASSUME AddRefStub(t)
      PROVE  Distinct' /\ StubSound(t)'
  <2>1. Distinct'
    BY <1>0, <1>14 DEF AddRefStub
  <2>2. StubSound(t)'
    BY <1>0, <1>14 DEF AddRefStub, BaseOf, Alive
  <2> QED
    BY <2>1, <2>2
<1>15. ASSUME AskPolicy(t)
      PROVE  Distinct' /\ StubSound(t)'
  <2>1. Matches(own[t], want[t]) = {} /\ op[t] # "wrap" /\ own[t] # None
        /\ UNCHANGED <<iid, base, linked, op, own, want, attr, wbase, got>>
        /\ pc'[t] \in {"wrap", "ret"}
    BY <1>0, <1>15 DEF AskPolicy, PointersSet
  <2>2. \A h \in linked : base[h] = BaseOf(own[t]) => iid[h] # want[t]
    BY <2>1 DEF Matches, ChainOf
  <2> QED
    BY <1>0, <2>1, <2>2 DEF BaseOf
<1>16. ASSUME Return(t)
      PROVE  Distinct' /\ StubSound(t)'
  <2>1. Distinct'
    BY <1>0, <1>16 DEF Return
  <2>2. StubSound(t)'
    BY <1>0, <1>16 DEF Return, BaseOf, Alive
  <2> QED
    BY <2>1, <2>2
<1>17. ASSUME WrapObject(t)
      PROVE  Distinct' /\ StubSound(t)'
  <2>1. PICK g \in FreeCells : /\ iid' = [iid EXCEPT ![g] = want[t]]
                              /\ got' = [got EXCEPT ![t] = g]
    BY <1>17 DEF WrapObject
  <2>2. g \in Gateways /\ g \notin linked
    BY <2>1 DEF FreeCells, IdInv, IInv, Links, DeadUnreferenced
  <2>3. UNCHANGED <<base, linked, op, own, want, attr, wbase>>
        /\ pc[t] = "wrap" /\ pc'[t] \in {"link", "gd"}
    BY <1>0, <1>17 DEF WrapObject
  <2>4. Distinct'
    BY <1>0, <2>1, <2>2, <2>3
  <2>5. StubSound(t)'
    BY <1>0, <2>1, <2>2, <2>3 DEF BaseOf, Alive
  <2> QED
    BY <2>4, <2>5
<1>18. ASSUME WrapRefused(t)
      PROVE  Distinct' /\ StubSound(t)'
  <2>1. Distinct'
    BY <1>0, <1>18 DEF WrapRefused
  <2>2. StubSound(t)'
    BY <1>0, <1>18 DEF WrapRefused, BaseOf, Alive
  <2> QED
    BY <2>1, <2>2
<1>19. ASSUME GetDefaultGateway(t)
      PROVE  Distinct' /\ StubSound(t)'
  <2>1. Distinct'
    BY <1>0, <1>19 DEF GetDefaultGateway
  <2>2. StubSound(t)'
    BY <1>0, <1>19 DEF GetDefaultGateway, BaseOf, Alive
  <2> QED
    BY <2>1, <2>2
<1>20. ASSUME NoDefaultGateway(t)
      PROVE  Distinct' /\ StubSound(t)'
  <2>1. Distinct'
    BY <1>0, <1>20 DEF NoDefaultGateway
  <2>2. StubSound(t)'
    BY <1>0, <1>20 DEF NoDefaultGateway, BaseOf, Alive
  <2> QED
    BY <2>1, <2>2
<1>21. ASSUME DefaultGatewayFound(t)
      PROVE  Distinct' /\ StubSound(t)'
  <2>1. Distinct'
    BY <1>0, <1>21 DEF DefaultGatewayFound
  <2>2. StubSound(t)'
    BY <1>0, <1>21 DEF DefaultGatewayFound, BaseOf, Alive
  <2> QED
    BY <2>1, <2>2
<1>22. ASSUME SetBaseObject(t)
      PROVE  Distinct' /\ StubSound(t)'
  <2>1. got[t] \in Gateways /\ got[t] \notin linked
        /\ UNCHANGED <<iid, linked, op, own, want, attr, wbase, got>>
        /\ base' = [base EXCEPT ![got[t]] = wbase[attr]]
        /\ pc[t] = "gd_addref" /\ pc'[t] = "link"
    BY <1>0, <1>22
       DEF SetBaseObject, PointersSet, IdInv, IInv, Links, Constructing
  <2>2. Distinct'
    BY <1>0, <2>1
  <2>3. own[t] = got[t] => FALSE
    <3>1. own[t] # None => Used(own[t])
      BY <2>1 DEF Used, InCall
    <3>2. base[got[t]] = None /\ weak[got[t]] = None
      BY <1>0, <2>1 DEF IdInv, IInv, Links, Constructing
    <3> QED
      BY <1>0, <2>1, <3>1, <3>2, UsedLeadsToDefault DEF BaseOf
  <2>4. StubSound(t)'
    BY <1>0, <2>1, <2>3 DEF BaseOf, Alive
  <2> QED
    BY <2>2, <2>4
<1>23. ASSUME LinkStub(t)
      PROVE  Distinct' /\ StubSound(t)'
  <2> DEFINE g == got[t]
  <2>1. /\ g \in Gateways /\ state[g] = "live" /\ iid[g] = want[t]
        /\ base[g] = IF Alive(attr) THEN wbase[attr] ELSE None
    BY <1>0, <1>23 DEF LinkStub, PointersSet, IInv, Links, Constructing
  <2>2. UNCHANGED <<iid, base, op, own, want, attr, wbase>>
        /\ pc'[t] = "first_ref" /\ InPython(t)
        /\ linked' = IF base[g] # None THEN linked \cup {g} ELSE linked
    BY <1>0, <1>23 DEF LinkStub
  <2>3. StubSound(t)'
    BY <1>0, <2>2 DEF Alive
  <2>4. CASE base[g] = None
    BY <1>0, <2>2, <2>3, <2>4
  <2>5. CASE base[g] # None
    <3>1. Alive(attr) /\ base[g] = wbase[attr] /\ op[t] # "wrap"
      BY <1>0, <2>1, <2>2, <2>5
    <3>2. own[t] \in Gateways /\ Used(own[t])
      BY <1>0, <1>23, <2>2, <3>1
         DEF LinkStub, IdInv, CallsSound, CallSound, Used, InCall
    <3>3. base[g] = BaseOf(own[t])
      BY <3>1, <3>2, UsedLeadsToDefault
    <3>4. \A h \in linked : base[h] = base[g] => iid[h] # iid[g]
      BY <1>0, <1>23, <2>1, <3>1, <3>3 DEF LinkStub
    <3>5. Distinct'
      BY <1>0, <2>2, <3>4
    <3> QED
      BY <2>3, <3>5
  <2> QED
    BY <2>4, <2>5
<1>24. ASSUME FirstReference(t)
      PROVE  Distinct' /\ StubSound(t)'
  <2>1. Distinct'
    BY <1>0, <1>24 DEF FirstReference
  <2>2. StubSound(t)'
    BY <1>0, <1>24 DEF FirstReference, BaseOf, Alive
  <2> QED
    BY <2>1, <2>2
<1>25. ASSUME KeepDefaultGateway(t)
      PROVE  Distinct' /\ StubSound(t)'
  <2>1. Distinct'
    BY <1>0, <1>25 DEF KeepDefaultGateway
  <2>2. StubSound(t)'
    BY <1>0, <1>25 DEF KeepDefaultGateway, BaseOf, Alive
  <2> QED
    BY <2>1, <2>2
<1>26. ASSUME AddDefaultGateway(t)
      PROVE  Distinct' /\ StubSound(t)'
  <2>1. Distinct'
    BY <1>0, <1>26 DEF AddDefaultGateway
  <2>2. StubSound(t)'
    BY <1>0, <1>26 DEF AddDefaultGateway, BaseOf, Alive
  <2> QED
    BY <2>1, <2>2
<1>27. ASSUME HaveWeakReference(t)
      PROVE  Distinct' /\ StubSound(t)'
  <2>1. Distinct'
    BY <1>0, <1>27 DEF HaveWeakReference
  <2>2. StubSound(t)'
    BY <1>0, <1>27 DEF HaveWeakReference, BaseOf, Alive
  <2> QED
    BY <2>1, <2>2
<1>28. ASSUME NoWeakReference(t)
      PROVE  Distinct' /\ StubSound(t)'
  <2>1. Distinct'
    BY <1>0, <1>28 DEF NoWeakReference
  <2>2. StubSound(t)'
    BY <1>0, <1>28 DEF NoWeakReference, BaseOf, Alive
  <2> QED
    BY <2>1, <2>2
<1>29. ASSUME NewWeakReference(t)
      PROVE  Distinct' /\ StubSound(t)'
  <2>1. Distinct'
    BY <1>0, <1>29 DEF NewWeakReference
  <2>2. StubSound(t)'
    BY <1>0, <1>29 DEF NewWeakReference, BaseOf, Alive
  <2> QED
    BY <2>1, <2>2
<1>30. ASSUME Release(t)
      PROVE  Distinct' /\ StubSound(t)'
  <2>1. Distinct'
    BY <1>0, <1>30 DEF Release
  <2>2. StubSound(t)'
    BY <1>0, <1>30 DEF Release, BaseOf, Alive
  <2> QED
    BY <2>1, <2>2
<1>31. ASSUME Decrement(t)
      PROVE  Distinct' /\ StubSound(t)'
  <2>1. Distinct'
    BY <1>0, <1>31 DEF Decrement
  <2>2. StubSound(t)'
    BY <1>0, <1>31 DEF Decrement, BaseOf, Alive
  <2> QED
    BY <2>1, <2>2
<1>32. ASSUME ZapWeakReference(t)
      PROVE  Distinct' /\ StubSound(t)'
  <2>1. Distinct'
    BY <1>0, <1>32 DEF ZapWeakReference
  <2>2. StubSound(t)'
    BY <1>0, <1>32 DEF ZapWeakReference, BaseOf, Alive
  <2> QED
    BY <2>1, <2>2
<1>33. ASSUME Unlink(t)
      PROVE  Distinct' /\ StubSound(t)'
  <2>1. Distinct'
    BY <1>0, <1>33 DEF Unlink
  <2>2. StubSound(t)'
    BY <1>0, <1>33 DEF Unlink, BaseOf, Alive
  <2> QED
    BY <2>1, <2>2
<1>34. ASSUME Destroy(t)
      PROVE  Distinct' /\ StubSound(t)'
  <2>1. own[t] \in Gateways /\ own[t] \notin linked /\ linked' = linked
        /\ iid' = [iid EXCEPT ![own[t]] = None]
        /\ base' = [base EXCEPT ![own[t]] = None]
    BY <1>0, <1>34
       DEF Destroy, PointersSet, IdInv, IInv, Links, DeadUnreferenced
  <2>2. Distinct'
    BY <1>0, <2>1
  <2>3. pc'[t] \in {"rel", "checked", "idle"} /\ pc[t] = "dtor"
        /\ op'[t] \in {op[t], "none"}
    BY <1>0, <1>34 DEF Destroy
  <2>4. StubSound(t)'
    BY <1>0, <2>3
  <2> QED
    BY <2>2, <2>4
<1>35. ASSUME TouchFreed(t)
      PROVE  Distinct' /\ StubSound(t)'
  <2>1. Distinct'
    BY <1>0, <1>35 DEF TouchFreed
  <2>2. StubSound(t)'
    BY <1>0, <1>35 DEF TouchFreed, BaseOf, Alive
  <2> QED
    BY <2>1, <2>2
<1> QED
  BY <1>1, <1>2, <1>3, <1>4, <1>5, <1>6, <1>7, <1>8, <1>9, <1>10, <1>11,
     <1>12, <1>13, <1>14, <1>15, <1>16, <1>17, <1>18, <1>19, <1>20, <1>21,
     <1>22, <1>23, <1>24, <1>25, <1>26, <1>27, <1>28, <1>29, <1>30, <1>31,
     <1>32, <1>33, <1>34, <1>35
     DEF Start, Step

\* The chain keeps its promise to a thread that is alone: "QIing to the same
\* interface returns the same pointer" (PyXPCOM.h).
THEOREM OneStubAlone ==
  ASSUME Alone, OneCareful
  PROVE  Spec => []OneStubPerInterface
<1> DEFINE Inv == Distinct /\ \A t \in Threads : StubSound(t)
<1>1. Init => Inv
  BY DEF Init, Distinct, StubSound, Unlinked
<1>2. ASSUME IdInv, Inv, [Next]_vars PROVE Inv'
  <2>1. CASE UNCHANGED vars
    BY <1>2, <2>1
       DEF vars, cells, weaks, local, Distinct, StubSound, Unlinked, InPython,
           BaseOf, Alive
  <2>2. ASSUME NEW t \in Threads, Start(t) \/ Step(t) PROVE Inv'
    <3>1. Distinct' /\ StubSound(t)'
      BY <1>2, <2>2, StubsKept
    <3>2. \A u \in Threads : u = t
      BY DEF Alone
    <3> QED
      BY <3>1, <3>2
  <2> QED
    BY <1>2, <2>1, <2>2 DEF Next, Halted
<1>3. Inv => OneStubPerInterface
  BY DEF Distinct, OneStubPerInterface
<1> QED
  BY <1>1, <1>2, <1>3, IdInvAlways, PTL DEF Spec
=============================================================================
