--------------------------- MODULE ClientsProofs ---------------------------
(***************************************************************************)
(* Proofs about Clients, for any number of threads, Components, interfaces *)
(* and handlers.  One invariant, IInv, has seven parts, each of which is   *)
(* kept with the help of some of those before it:                          *)
(*   TypeOK   the types;                                                   *)
(*   ShutdownInv  where the handlers are;                                  *)
(*   Control  the code that a call is in fits what was asked for, and a    *)
(*            Component is used by others only when it has been made;      *)
(*   Truth    the answers remembered are those of the objects, and what is *)
(*            held has been described;                                     *)
(*   Learnt   a name belongs to an interface that has it, and that this    *)
(*            object, or another of its contract, has;                     *)
(*   Delivery what a call is about to reach, and what it returns;          *)
(*   Reading  what a Component has of its class info, and what the threads *)
(*            that read it have still to do.                               *)
(***************************************************************************)
EXTENDS Clients, SequenceTheorems, TLAPS

-----------------------------------------------------------------------------
(* Types *)

\* What a call that is going on has at hand.
LEMMA AtHand ==
  ASSUME TypeOK, NEW t \in Threads
  PROVE  /\ ~At(t, "idle") => comp[t] \in Components
         /\ pc[t] \in Querying \cup {"deliver", "fetch"} => iid[t] \in Iids
         /\ pc[t] \in Querying => back[t] \in {"return", "nominate", "fetch"}
  BY NoneAssumption DEF TypeOK, CallTypes, CallsSet

\* What the cache has for the contract of a Component.
LEMMA CacheType ==
  ASSUME TypeOK, NEW c \in Components, Contract[c] # None,
         contractid_info_cache[Contract[c]] # None
  PROVE  Contract[c] \in Contracts /\ contractid_info_cache[Contract[c]] \in Components
<1>1. Contract[c] \in Contracts
  BY ObjectsAssumption
<1> QED
  BY <1>1 DEF TypeOK, ClientTypes

\* A request is one of AllRequests.
LEMMA RequestType ==
  ASSUME NEW t \in Threads, NEW r \in Requests[t]
  PROVE  /\ r.comp \in Components
         /\ r.attr \in Names \cup Iids \cup {None}
         /\ r.iid \in Iids \cup {None}
         /\ r.op \in {"make", "query", "get", "set", "repr", "dir"}
         /\ r.op \in {"make", "query"} => r.iid \in Iids
         /\ r.op \in {"get", "set"} => r.attr \in Names \cup Iids
<1>1. r \in AllRequests
  BY RequestsAssumption
<1> QED
  BY <1>1 DEF AllRequests

\* Where a step leads, and with what.
LEMMA GotoType ==
  ASSUME CallTypes, NEW t \in Threads, NEW l \in Labels, Goto(t, l)
  PROVE  pc' \in [Threads -> Labels]
  BY DEF CallTypes, Goto

LEMMA ReturnType ==
  ASSUME CallTypes, NEW t \in Threads, NEW what \in Results, Return(t, what)
  PROVE  pc' \in [Threads -> Labels] /\ result' \in [Threads -> Results]
  BY DEF CallTypes, Return, Goto, Labels

\* The names of a Component change to others.
LEMMA NamesType ==
  ASSUME ClientTypes, NEW c \in Components, NEW g \in [Names -> Iids \cup {None}],
         names' = [names EXCEPT ![c] = g]
  PROVE  names' \in [Components -> [Names -> Iids \cup {None}]]
  BY DEF ClientTypes

\* One answer is remembered.
LEMMA InterfacesType ==
  ASSUME ClientTypes, NEW c \in Components, NEW i \in Iids,
         NEW said \in {"unknown", "held", "refused"},
         interfaces' = [interfaces EXCEPT ![c][i] = said]
  PROVE  interfaces' \in [Components -> [Iids -> {"unknown", "held", "refused"}]]
  BY DEF ClientTypes

LEMMA BuildRaisesType ==
  ASSUME TypeOK, NEW t \in Threads, comp[t] \in Components, NEW exc \in Results,
         BuildRaises(t, exc)
  PROVE  /\ tried' \in [Components -> BOOLEAN]
         /\ result' \in [Threads -> Results]
         /\ pc' = [pc EXCEPT ![t] = "return"]
<1>1. tried' \in [Components -> BOOLEAN]
  BY DEF TypeOK, ClientTypes, BuildRaises
<1>2. PICK what \in Results : Return(t, what)
  BY DEF BuildRaises, Results
<1>3. result' \in [Threads -> Results]
  BY <1>2 DEF TypeOK, CallTypes, Return
<1> QED
  BY <1>1, <1>2, <1>3 DEF Return, Goto

LEMMA RaiseType ==
  ASSUME TypeOK, NEW t \in Threads, comp[t] \in Components, NEW exc \in Results,
         Raise(t, exc)
  PROVE  /\ tried' \in [Components -> BOOLEAN]
         /\ result' \in [Threads -> Results]
         /\ \E l \in {"nominate", "return"} : pc' = [pc EXCEPT ![t] = l]
<1>1. CASE BuildRaises(t, exc)
  BY <1>1, BuildRaisesType
<1>2. CASE ~BuildRaises(t, exc)
  <2>1. tried' \in [Components -> BOOLEAN]
    BY <1>2 DEF TypeOK, ClientTypes, Raise
  <2>2. result' \in [Threads -> Results]
    BY <1>2 DEF TypeOK, CallTypes, Raise, Return
  <2> QED
    BY <1>2, <2>1, <2>2 DEF Raise, Return, Goto
<1> QED
  BY <1>1, <1>2

LEMMA InitType == Init => TypeOK
<1> SUFFICES ASSUME Init PROVE TypeOK
  OBVIOUS
<1>1. ClientTypes
  <2>1. failures \in 0..MaxFailures
    BY FailuresAssumption DEF Init
  <2>2. interfaces \in [Components -> [Iids -> {"unknown", "held", "refused"}]]
    BY DEF Init, Unasked
  <2>3. names \in [Components -> [Names -> Iids \cup {None}]]
    BY DEF Init, Nothing
  <2> QED
    BY <2>1, <2>2, <2>3 DEF Init, ClientTypes
<1>2. ShutdownTypes
  <2>1. <<Ours>> \in Seq(Handlers \cup {Ours})
    OBVIOUS
  <2> QED
    BY <2>1 DEF Init, ShutdownTypes
<1>3. CallTypes
  BY DEF Init, CallTypes, Labels, Results
<1>4. CallsSet
  BY DEF Init, CallsSet, Querying, At
<1> QED
  BY <1>1, <1>2, <1>3, <1>4 DEF TypeOK

LEMMA StepType == TypeOK /\ [Next]_vars => TypeOK'
<1> SUFFICES ASSUME TypeOK, [Next]_vars PROVE TypeOK'
  OBVIOUS
<1>1. ASSUME NEW t \in Threads, Make(t) PROVE TypeOK'
  <2>1. ClientTypes'
    <3>1. interfaces' \in [Components -> [Iids -> {"unknown", "held", "refused"}]]
      BY <1>1, RequestType DEF Make, TypeOK, ClientTypes, Unasked
    <3>2. names' \in [Components -> [Names -> Iids \cup {None}]]
      BY <1>1, RequestType DEF Make, TypeOK, ClientTypes, Nothing
    <3>3. infos' \in [Components -> SUBSET Iids] /\ tried' \in [Components -> BOOLEAN]
      BY <1>1, RequestType DEF Make, TypeOK, ClientTypes
    <3> QED
      BY <1>1, <3>1, <3>2, <3>3 DEF Make, Call, caches, TypeOK, ClientTypes
  <2>2. ShutdownTypes'
    BY <1>1 DEF Make, Call, TypeOK, ShutdownTypes, shutdown
  <2>3. CallTypes'
    <3>1. pc' \in [Threads -> Labels]
      BY <1>1 DEF Make, Goto, Labels, TypeOK, CallTypes
    <3>2. op' \in [Threads -> {"none", "make", "query", "get", "set", "repr", "dir"}]
      BY <1>1, RequestType DEF Make, Call, TypeOK, CallTypes
    <3>3. /\ comp' \in [Threads -> Components \cup {None}]
          /\ attr' \in [Threads -> Names \cup Iids \cup {None}]
      BY <1>1, RequestType DEF Make, Call, TypeOK, CallTypes
    <3>4. /\ iid' \in [Threads -> Iids \cup {None}]
          /\ back' \in [Threads -> {"none", "return", "nominate", "fetch"}]
      BY <1>1, RequestType DEF Make, Call, TypeOK, CallTypes
    <3>5. result' \in [Threads -> Results]
      BY <1>1 DEF Make, Call, Results, TypeOK, CallTypes
    <3> QED
      BY <1>1, <3>1, <3>2, <3>3, <3>4, <3>5 DEF Make, Call, TypeOK, CallTypes
  <2>4. CallsSet'
    BY <1>1, RequestType, NoneAssumption DEF Make, Call, Goto, Querying, TypeOK,
       CallsSet, CallTypes, At
  <2> QED
    BY <2>1, <2>2, <2>3, <2>4 DEF TypeOK
<1>2. ASSUME NEW t \in Threads, Use(t) PROVE TypeOK'
  <2>1. ClientTypes'
    BY <1>2 DEF Use, Call, caches, TypeOK, ClientTypes
  <2>2. ShutdownTypes'
    BY <1>2 DEF Use, Call, TypeOK, ShutdownTypes, shutdown
  <2>3. CallTypes'
    <3>1. pc' \in [Threads -> Labels]
      BY <1>2 DEF Use, Goto, Labels, TypeOK, CallTypes
    <3>2. op' \in [Threads -> {"none", "make", "query", "get", "set", "repr", "dir"}]
      BY <1>2, RequestType DEF Use, Call, TypeOK, CallTypes
    <3>3. /\ comp' \in [Threads -> Components \cup {None}]
          /\ attr' \in [Threads -> Names \cup Iids \cup {None}]
      BY <1>2, RequestType DEF Use, Call, TypeOK, CallTypes
    <3>4. /\ iid' \in [Threads -> Iids \cup {None}]
          /\ back' \in [Threads -> {"none", "return", "nominate", "fetch"}]
      BY <1>2, RequestType DEF Use, Call, TypeOK, CallTypes
    <3>5. result' \in [Threads -> Results]
      BY <1>2 DEF Use, Call, Results, TypeOK, CallTypes
    <3> QED
      BY <1>2, <3>1, <3>2, <3>3, <3>4, <3>5 DEF Use, Call, TypeOK, CallTypes
  <2>4. CallsSet'
    BY <1>2, RequestType, NoneAssumption DEF Use, Call, Goto, Querying, TypeOK,
       CallsSet, CallTypes, At
  <2> QED
    BY <2>1, <2>2, <2>3, <2>4 DEF TypeOK
<1>3. ASSUME NEW t \in Threads, Finish(t) PROVE TypeOK'
  <2>1. comp[t] \in Components
    BY <1>3, AtHand DEF Finish, At, Querying
  <2>2. ClientTypes'
    BY <1>3, <2>1 DEF Finish, caches, TypeOK, ClientTypes
  <2>3. ShutdownTypes'
    BY <1>3 DEF Finish, TypeOK, ShutdownTypes, shutdown
  <2>4. CallTypes'
    <3>1. pc' \in [Threads -> Labels]
      BY <1>3, <2>1 DEF Finish, Goto, Labels, TypeOK, CallTypes
    <3> QED
      BY <1>3, <2>1, <3>1 DEF Finish, Results, TypeOK, CallTypes
  <2>5. CallsSet'
    BY <1>3, <2>1, NoneAssumption DEF Finish, Goto, Return, Querying, TypeOK,
       CallsSet, CallTypes, At
  <2> QED
    BY <2>2, <2>3, <2>4, <2>5 DEF TypeOK
<1>4. ASSUME NEW t \in Threads, QueryInterface(t) PROVE TypeOK'
  <2>1. /\ comp[t] \in Components
        /\ iid[t] \in Iids
        /\ back[t] \in {"return", "nominate", "fetch"}
    BY <1>4, AtHand DEF QueryInterface, At, Querying
  <2>2. ClientTypes'
    <3>1. tried' \in [Components -> BOOLEAN]
      BY <1>4, <2>1, RaiseType DEF QueryInterface, TypeOK, ClientTypes, Results,
         COMExceptions
    <3> QED
      BY <1>4, <2>1, <3>1 DEF QueryInterface, caches, TypeOK, ClientTypes
  <2>3. ShutdownTypes'
    BY <1>4 DEF QueryInterface, TypeOK, ShutdownTypes, shutdown
  <2>4. CallTypes'
    <3>1. \E l \in Labels : pc' = [pc EXCEPT ![t] = l]
      BY <1>4, <2>1, RaiseType DEF QueryInterface, Results, COMExceptions, Labels, Goto
    <3>2. result' \in [Threads -> Results]
      BY <1>4, <2>1, RaiseType DEF QueryInterface, TypeOK, CallTypes, Results,
         COMExceptions
    <3> QED
      BY <1>4, <2>1, <3>1, <3>2 DEF QueryInterface, locals, TypeOK, CallTypes
  <2>5. CallsSet'
    <3>1. \E l \in {back[t], "nominate", "return", "answer"} : pc' = [pc EXCEPT ![t] = l]
      BY <1>4, <2>1, RaiseType DEF QueryInterface, Goto, Results, COMExceptions
    <3> QED
      BY <1>4, <2>1, <3>1, NoneAssumption DEF QueryInterface, Querying, locals,
         TypeOK, CallsSet, CallTypes, At
  <2> QED
    BY <2>2, <2>3, <2>4, <2>5 DEF TypeOK
<1>5. ASSUME NEW t \in Threads, RealQI(t) PROVE TypeOK'
  <2>1. /\ comp[t] \in Components
        /\ iid[t] \in Iids
        /\ back[t] \in {"return", "nominate", "fetch"}
    BY <1>5, AtHand DEF RealQI, At, Querying
  <2>2. ClientTypes'
    <3>1. tried' \in [Components -> BOOLEAN]
      BY <1>5, <2>1, RaiseType DEF RealQI, TypeOK, ClientTypes, Results, COMExceptions
    <3>2. UNCHANGED failures \/ Fails
      BY <1>5, <2>1 DEF RealQI
    <3>3. failures' \in 0..MaxFailures
      BY <2>1, <3>2, FailuresAssumption DEF Fails, TypeOK, ClientTypes
    <3>4. \/ UNCHANGED interfaces
        \/ interfaces' = [interfaces EXCEPT ![comp[t]][iid[t]] = "refused"]
      BY <1>5, <2>1 DEF RealQI
    <3>5. interfaces' \in [Components -> [Iids -> {"unknown", "held", "refused"}]]
      BY <2>1, <3>4, InterfacesType DEF TypeOK, ClientTypes
    <3> QED
      BY <1>5, <2>1, <3>1, <3>2, <3>3, <3>4, <3>5 DEF RealQI, caches, TypeOK, ClientTypes
  <2>3. ShutdownTypes'
    BY <1>5 DEF RealQI, TypeOK, ShutdownTypes, shutdown
  <2>4. CallTypes'
    <3>1. \E l \in Labels : pc' = [pc EXCEPT ![t] = l]
      BY <1>5, <2>1, RaiseType DEF RealQI, Results, COMExceptions, Labels, Goto
    <3>2. result' \in [Threads -> Results]
      BY <1>5, <2>1, RaiseType DEF RealQI, TypeOK, CallTypes, Results, COMExceptions
    <3> QED
      BY <1>5, <2>1, <3>1, <3>2 DEF RealQI, locals, TypeOK, CallTypes
  <2>5. CallsSet'
    <3>1. \E l \in {"nominate", "return", "build"} : pc' = [pc EXCEPT ![t] = l]
      BY <1>5, <2>1, RaiseType DEF RealQI, Goto, Results, COMExceptions
    <3> QED
      BY <1>5, <2>1, <3>1, NoneAssumption DEF RealQI, Querying, locals, TypeOK,
         CallsSet, CallTypes, At
  <2> QED
    BY <2>2, <2>3, <2>4, <2>5 DEF TypeOK
<1>6. ASSUME NEW t \in Threads, BuildInterfaceInfo(t) PROVE TypeOK'
  <2>1. /\ comp[t] \in Components
        /\ iid[t] \in Iids
        /\ back[t] \in {"return", "nominate", "fetch"}
    BY <1>6, AtHand DEF BuildInterfaceInfo, At, Querying
  <2>2. ClientTypes'
    <3>1. tried' \in [Components -> BOOLEAN]
      BY <1>6, <2>1, RaiseType DEF BuildInterfaceInfo, TypeOK, ClientTypes, Results,
         COMExceptions
    <3> QED
      BY <1>6, <2>1, <3>1 DEF BuildInterfaceInfo, caches, TypeOK, ClientTypes
  <2>3. ShutdownTypes'
    BY <1>6 DEF BuildInterfaceInfo, TypeOK, ShutdownTypes, shutdown
  <2>4. CallTypes'
    <3>1. \E l \in Labels : pc' = [pc EXCEPT ![t] = l]
      BY <1>6, <2>1, RaiseType DEF BuildInterfaceInfo, Results, COMExceptions, Labels,
         Goto
    <3>2. result' \in [Threads -> Results]
      BY <1>6, <2>1, RaiseType DEF BuildInterfaceInfo, TypeOK, CallTypes, Results,
         COMExceptions
    <3> QED
      BY <1>6, <3>1, <3>2 DEF BuildInterfaceInfo, locals, TypeOK, CallTypes
  <2>5. CallsSet'
    <3>1. \E l \in {"nominate", "return", "remember", "describe"} : pc' = [pc EXCEPT ![t] = l]
      BY <1>6, <2>1, RaiseType DEF BuildInterfaceInfo, Goto, Results, COMExceptions
    <3> QED
      BY <1>6, <2>1, <3>1, NoneAssumption DEF BuildInterfaceInfo, Querying, locals,
         TypeOK, CallsSet, CallTypes, At
  <2> QED
    BY <2>2, <2>3, <2>4, <2>5 DEF TypeOK
<1>7. ASSUME NEW t \in Threads, Describe(t) PROVE TypeOK'
  <2>1. /\ comp[t] \in Components
        /\ iid[t] \in Iids
        /\ back[t] \in {"return", "nominate", "fetch"}
    BY <1>7, AtHand DEF Describe, At, Querying
  <2>2. ClientTypes'
    <3>1. failures' \in 0..MaxFailures
      BY <1>7, <2>1, FailuresAssumption DEF Describe, Fails, TypeOK, ClientTypes
    <3>2. /\ infos' = infos \/ infos' = [infos EXCEPT ![comp[t]] = @ \cup {iid[t]}]
          /\ interface_cache' \subseteq interface_cache \cup {iid[t]}
      BY <1>7 DEF Describe
    <3>3. infos' \in [Components -> SUBSET Iids]
      BY <2>1, <3>2 DEF TypeOK, ClientTypes
    <3>4. interface_cache' \subseteq Iids
      BY <2>1, <3>2 DEF TypeOK, ClientTypes
    <3> QED
      BY <1>7, <3>1, <3>3, <3>4 DEF Describe, TypeOK, ClientTypes
  <2>3. ShutdownTypes'
    BY <1>7 DEF Describe, TypeOK, ShutdownTypes, shutdown
  <2>4. CallTypes'
    <3>1. pc' \in [Threads -> Labels]
      BY <1>7, <2>1, GotoType DEF Describe, TypeOK, Labels
    <3> QED
      BY <1>7, <2>1, <3>1 DEF Describe, locals, TypeOK, CallTypes
  <2>5. CallsSet'
    BY <1>7, <2>1, NoneAssumption DEF Describe, Goto, Querying, locals, TypeOK,
       CallsSet, CallTypes, At
  <2> QED
    BY <2>2, <2>3, <2>4, <2>5 DEF TypeOK
<1>8. ASSUME NEW t \in Threads, Remember(t) PROVE TypeOK'
  <2>1. comp[t] \in Components /\ iid[t] \in Iids
    BY <1>8, AtHand DEF Remember, At, Querying
  <2>2. ClientTypes'
    <3>1. names' \in [Components -> [Names -> Iids \cup {None}]]
      BY <1>8, <2>1 DEF Remember, TypeOK, ClientTypes, WithMembers
    <3> QED
      BY <1>8, <2>1, <3>1 DEF Remember, caches, TypeOK, ClientTypes
  <2>3. ShutdownTypes'
    BY <1>8 DEF Remember, TypeOK, ShutdownTypes, shutdown
  <2>4. CallTypes'
    <3>1. pc' \in [Threads -> Labels]
      BY <1>8, <2>1, GotoType DEF Remember, TypeOK, Labels
    <3> QED
      BY <1>8, <2>1, <3>1 DEF Remember, locals, TypeOK, CallTypes
  <2>5. CallsSet'
    BY <1>8, <2>1 DEF Remember, Goto, Querying, locals, TypeOK, CallsSet, CallTypes, At
  <2> QED
    BY <2>2, <2>3, <2>4, <2>5 DEF TypeOK
<1>9. ASSUME NEW t \in Threads, Keep(t) PROVE TypeOK'
  <2>1. /\ comp[t] \in Components
        /\ iid[t] \in Iids
        /\ back[t] \in {"return", "nominate", "fetch"}
    BY <1>9, AtHand DEF Keep, At, Querying
  <2>2. ClientTypes'
    BY <1>9, <2>1 DEF Keep, caches, TypeOK, ClientTypes
  <2>3. ShutdownTypes'
    BY <1>9 DEF Keep, TypeOK, ShutdownTypes, shutdown
  <2>4. CallTypes'
    <3>1. pc' \in [Threads -> Labels]
      BY <1>9, <2>1, GotoType DEF Keep, TypeOK, Labels
    <3> QED
      BY <1>9, <2>1, <3>1 DEF Keep, locals, TypeOK, CallTypes
  <2>5. CallsSet'
    BY <1>9, <2>1, NoneAssumption DEF Keep, Goto, Querying, locals, TypeOK, CallsSet,
       CallTypes, At
  <2> QED
    BY <2>2, <2>3, <2>4, <2>5 DEF TypeOK
<1>10. ASSUME NEW t \in Threads, TryClassInfo(t) PROVE TypeOK'
  <2>1. comp[t] \in Components
    BY <1>10, AtHand DEF TryClassInfo, At, Querying
  <2>2. ClientTypes'
    <3>1. tried' \in [Components -> BOOLEAN]
      BY <1>10, <2>1, BuildRaisesType DEF TryClassInfo, TypeOK, ClientTypes, Results
    <3> QED
      BY <1>10, <2>1, <3>1 DEF TryClassInfo, caches, TypeOK, ClientTypes
  <2>3. ShutdownTypes'
    BY <1>10 DEF TryClassInfo, TypeOK, ShutdownTypes, shutdown
  <2>4. CallTypes'
    <3>1. pc' \in [Threads -> Labels] /\ result' \in [Threads -> Results]
      BY <1>10, <2>1, BuildRaisesType DEF TryClassInfo, TypeOK, CallTypes, Results,
         Labels, Goto
    <3> QED
      BY <1>10, <2>1, <3>1 DEF TryClassInfo, locals, TypeOK, CallTypes
  <2>5. CallsSet'
    <3>1. \E l \in {"return", "ask"} : pc' = [pc EXCEPT ![t] = l]
      BY <1>10, <2>1, BuildRaisesType DEF TryClassInfo, Goto, Results
    <3> QED
      BY <1>10, <2>1, <3>1, NoneAssumption DEF TryClassInfo, Querying, locals, TypeOK,
         CallsSet, CallTypes, At
  <2> QED
    BY <2>2, <2>3, <2>4, <2>5 DEF TypeOK
<1>11. ASSUME NEW t \in Threads, AskClassInfo(t) PROVE TypeOK'
  <2>1. comp[t] \in Components
    BY <1>11, AtHand DEF AskClassInfo, At, Querying
  <2>2. ClientTypes'
    <3>1. failures' \in 0..MaxFailures
      BY <1>11, <2>1, FailuresAssumption DEF AskClassInfo, Fails, TypeOK, ClientTypes
    <3>2. \/ UNCHANGED <<infos, names>>
        \/ \E d \in Components :
             /\ infos' = [infos EXCEPT ![comp[t]] = @ \cup infos[d]]
             /\ names' = [names EXCEPT ![comp[t]] = WithNames(@, names[d])]
      BY <1>11, <2>1, CacheType DEF AskClassInfo, List
    <3>3. infos' \in [Components -> SUBSET Iids]
      <4>1. ASSUME NEW d \in Components PROVE infos[comp[t]] \cup infos[d] \subseteq Iids
        BY <2>1 DEF TypeOK, ClientTypes
      <4>2. \/ infos' = infos
            \/ \E s \in SUBSET Iids : infos' = [infos EXCEPT ![comp[t]] = s]
        BY <3>2, <4>1
      <4>3. infos \in [Components -> SUBSET Iids]
        BY DEF TypeOK, ClientTypes
      <4> QED
        BY <2>1, <4>2, <4>3
    <3>4. \A d \in Components :
         WithNames(names[comp[t]], names[d]) \in [Names -> Iids \cup {None}]
      BY <2>1 DEF TypeOK, ClientTypes, WithNames
    <3>5. names' \in [Components -> [Names -> Iids \cup {None}]]
      BY <2>1, <3>2, <3>4, NamesType DEF TypeOK, ClientTypes
    <3> QED
      BY <1>11, <2>1, <3>1, <3>2, <3>3, <3>4, <3>5 DEF AskClassInfo, caches, TypeOK,
         ClientTypes
  <2>3. ShutdownTypes'
    BY <1>11 DEF AskClassInfo, TypeOK, ShutdownTypes, shutdown
  <2>4. CallTypes'
    <3>1. /\ todo' \in [Threads -> SUBSET Iids]
          /\ cid' \in [Threads -> Contracts \cup {None}]
      BY <1>11, <2>1, ObjectsAssumption DEF AskClassInfo, TypeOK, CallTypes, List
    <3>2. pc' \in [Threads -> Labels]
      BY <1>11, <2>1, GotoType DEF AskClassInfo, TypeOK, List, Labels
    <3> QED
      BY <1>11, <2>1, <3>1, <3>2 DEF AskClassInfo, TypeOK, CallTypes
  <2>5. CallsSet'
    <3>1. \E l \in {"nominate", "built"} : pc' = [pc EXCEPT ![t] = l]
      BY <1>11, <2>1 DEF AskClassInfo, Goto, List
    <3> QED
      BY <1>11, <2>1, <3>1 DEF AskClassInfo, Querying, TypeOK, CallsSet, CallTypes, At
  <2> QED
    BY <2>2, <2>3, <2>4, <2>5 DEF TypeOK
<1>12. ASSUME NEW t \in Threads, Nominate(t) PROVE TypeOK'
  <2>1. comp[t] \in Components
    BY <1>12, AtHand DEF Nominate, At, Querying
  <2>2. ClientTypes'
    BY <1>12, <2>1 DEF Nominate, client, caches, TypeOK, ClientTypes
  <2>3. ShutdownTypes'
    BY <1>12 DEF Nominate, TypeOK, ShutdownTypes, shutdown
  <2>4. CallTypes'
    <3>1. iid' \in [Threads -> Iids \cup {None}] /\ todo' \in [Threads -> SUBSET Iids]
      BY <1>12, <2>1 DEF Nominate, TypeOK, CallTypes
    <3>2. back' \in [Threads -> {"none", "return", "nominate", "fetch"}]
      BY <1>12, <2>1 DEF Nominate, TypeOK, CallTypes
    <3>3. pc' \in [Threads -> Labels]
      BY <1>12, <2>1, GotoType DEF Nominate, TypeOK, CallTypes, Labels
    <3> QED
      BY <1>12, <2>1, <3>1, <3>2, <3>3 DEF Nominate, TypeOK, CallTypes
  <2>5. CallsSet'
    BY <1>12, <2>1, NoneAssumption DEF Nominate, Goto, Querying, TypeOK, CallsSet,
       CallTypes, At
  <2> QED
    BY <2>2, <2>3, <2>4, <2>5 DEF TypeOK
<1>13. ASSUME NEW t \in Threads, CacheClassInfo(t) PROVE TypeOK'
  <2>1. comp[t] \in Components
    BY <1>13, AtHand DEF CacheClassInfo, At, Querying
  <2>2. ClientTypes'
    BY <1>13, <2>1 DEF CacheClassInfo, client, TypeOK, ClientTypes
  <2>3. ShutdownTypes'
    BY <1>13 DEF CacheClassInfo, TypeOK, ShutdownTypes, shutdown
  <2>4. CallTypes'
    <3>1. pc' \in [Threads -> Labels]
      BY <1>13, <2>1, GotoType DEF CacheClassInfo, TypeOK, Labels
    <3> QED
      BY <1>13, <2>1, <3>1 DEF CacheClassInfo, TypeOK, CallTypes
  <2>5. CallsSet'
    BY <1>13, <2>1, NoneAssumption DEF CacheClassInfo, Goto, Return, Querying, TypeOK,
       CallsSet, CallTypes, At
  <2> QED
    BY <2>2, <2>3, <2>4, <2>5 DEF TypeOK
<1>14. ASSUME NEW t \in Threads, LookUp(t) PROVE TypeOK'
  <2>1. comp[t] \in Components
    BY <1>14, AtHand DEF LookUp, At, Querying
  <2>2. ClientTypes'
    BY <1>14, <2>1 DEF LookUp, client, caches, TypeOK, ClientTypes
  <2>3. ShutdownTypes'
    BY <1>14 DEF LookUp, TypeOK, ShutdownTypes, shutdown
  <2>4. CallTypes'
    <3>1. iid' \in [Threads -> Iids \cup {None}]
      BY <1>14, <2>1 DEF LookUp, TypeOK, ClientTypes, CallTypes, IidOf
    <3>2. pc' \in [Threads -> Labels] /\ result' \in [Threads -> Results]
      BY <1>14, <2>1, GotoType, ReturnType DEF LookUp, TypeOK, CallTypes, Labels, Results
    <3> QED
      BY <1>14, <2>1, <3>1, <3>2 DEF LookUp, TypeOK, CallTypes
  <2>5. CallsSet'
    <3>1. iid'[t] # None \/ iid' = iid
      BY <1>14, <2>1 DEF LookUp, TypeOK, CallTypes
    <3>2. \E l \in {"return", "deliver", "classinfo", "search"} :
            /\ pc' = [pc EXCEPT ![t] = l]
            /\ (l = "deliver" => iid'[t] # None)
      BY <1>14, <2>1, NoneAssumption DEF LookUp, Goto, Return, TypeOK, CallTypes
    <3>3. \A u \in Threads \ {t} : iid'[u] = iid[u]
      BY <1>14, <2>1 DEF LookUp, TypeOK, CallTypes
    <3> QED
      BY <1>14, <2>1, <3>1, <3>2, <3>3 DEF LookUp, Querying, TypeOK, CallsSet,
         CallTypes, At
  <2> QED
    BY <2>2, <2>3, <2>4, <2>5 DEF TypeOK
<1>15. ASSUME NEW t \in Threads, Built(t) PROVE TypeOK'
  <2>1. comp[t] \in Components
    BY <1>15, AtHand DEF Built, At, Querying
  <2>2. ClientTypes'
    BY <1>15, <2>1 DEF Built, client, caches, TypeOK, ClientTypes
  <2>3. ShutdownTypes'
    BY <1>15 DEF Built, TypeOK, ShutdownTypes, shutdown
  <2>4. CallTypes'
    <3>1. iid' \in [Threads -> Iids \cup {None}]
      BY <1>15, <2>1 DEF Built, TypeOK, ClientTypes, CallTypes, IidOf
    <3>2. pc' \in [Threads -> Labels] /\ result' \in [Threads -> Results]
      BY <1>15, <2>1, GotoType, ReturnType DEF Built, TypeOK, CallTypes, Labels, Results
    <3> QED
      BY <1>15, <2>1, <3>1, <3>2 DEF Built, TypeOK, CallTypes
  <2>5. CallsSet'
    <3>1. \E l \in {"return", "deliver", "search"} :
            /\ pc' = [pc EXCEPT ![t] = l]
            /\ (l = "deliver" => iid'[t] # None)
      BY <1>15, <2>1, NoneAssumption DEF Built, Goto, Return, TypeOK, CallTypes
    <3>2. \A u \in Threads \ {t} : iid'[u] = iid[u]
      BY <1>15, <2>1 DEF Built, TypeOK, CallTypes
    <3> QED
      BY <1>15, <2>1, <3>1, <3>2 DEF Built, Querying, TypeOK, CallsSet, CallTypes, At
  <2> QED
    BY <2>2, <2>3, <2>4, <2>5 DEF TypeOK
<1>16. ASSUME NEW t \in Threads, Deliver(t) PROVE TypeOK'
  <2>1. comp[t] \in Components /\ iid[t] \in Iids
    BY <1>16, AtHand DEF Deliver, At, Querying
  <2>2. ClientTypes'
    BY <1>16, <2>1 DEF Deliver, client, caches, TypeOK, ClientTypes
  <2>3. ShutdownTypes'
    BY <1>16 DEF Deliver, TypeOK, ShutdownTypes, shutdown
  <2>4. CallTypes'
    <3>1. pc' \in [Threads -> Labels] /\ result' \in [Threads -> Results]
      BY <1>16, <2>1, GotoType, ReturnType DEF Deliver, TypeOK, CallTypes, Labels, Results
    <3> QED
      BY <1>16, <2>1, <3>1 DEF Deliver, TypeOK, CallTypes
  <2>5. CallsSet'
    BY <1>16, <2>1, NoneAssumption DEF Deliver, Goto, Return, Querying, TypeOK,
       CallsSet, CallTypes, At
  <2> QED
    BY <2>2, <2>3, <2>4, <2>5 DEF TypeOK
<1>17. ASSUME NEW t \in Threads, Fetch(t) PROVE TypeOK'
  <2>1. comp[t] \in Components /\ iid[t] \in Iids
    BY <1>17, AtHand DEF Fetch, At, Querying
  <2>2. ClientTypes'
    BY <1>17, <2>1 DEF Fetch, client, caches, TypeOK, ClientTypes
  <2>3. ShutdownTypes'
    BY <1>17 DEF Fetch, TypeOK, ShutdownTypes, shutdown
  <2>4. CallTypes'
    <3>1. pc' \in [Threads -> Labels] /\ result' \in [Threads -> Results]
      BY <1>17, <2>1, ReturnType DEF Fetch, TypeOK, Labels, Results
    <3> QED
      BY <1>17, <2>1, <3>1 DEF Fetch, locals, TypeOK, CallTypes
  <2>5. CallsSet'
    BY <1>17, <2>1, NoneAssumption DEF Fetch, Goto, Return, Querying, locals, TypeOK,
       CallsSet, CallTypes, At
  <2> QED
    BY <2>2, <2>3, <2>4, <2>5 DEF TypeOK
<1>18. ASSUME NEW t \in Threads, Search(t) PROVE TypeOK'
  <2>1. comp[t] \in Components
    BY <1>18, AtHand DEF Search, At, Querying
  <2>2. ClientTypes'
    <3>1. \/ names' = names
        \/ \E i \in Iids, a \in Names : 
             names' = [names EXCEPT ![comp[t]] = [@ EXCEPT ![a] = i]]
      BY <1>18, <2>1, InterfacesAssumption DEF Search
    <3>2. names' \in [Components -> [Names -> Iids \cup {None}]]
      BY <2>1, <3>1, NamesType DEF TypeOK, ClientTypes
    <3> QED
      BY <1>18, <2>1, <3>1, <3>2 DEF Search, caches, TypeOK, ClientTypes
  <2>3. ShutdownTypes'
    BY <1>18 DEF Search, TypeOK, ShutdownTypes, shutdown
  <2>4. CallTypes'
    <3>1. pc' \in [Threads -> Labels] /\ result' \in [Threads -> Results]
      BY <1>18, <2>1, ReturnType DEF Search, TypeOK, Labels, Results
    <3> QED
      BY <1>18, <2>1, <3>1 DEF Search, TypeOK, CallTypes
  <2>5. CallsSet'
    <3>1. pc' = [pc EXCEPT ![t] = "return"]
      BY <1>18, <2>1 DEF Search, Goto, Return
    <3>2. \A u \in Threads \ {t} : iid'[u] = iid[u]
      BY <1>18, <2>1 DEF Search, TypeOK, CallTypes
    <3> QED
      BY <1>18, <2>1, <3>1, <3>2 DEF Search, Querying, TypeOK, CallsSet, CallTypes, At
  <2> QED
    BY <2>2, <2>3, <2>4, <2>5 DEF TypeOK
<1>19. ASSUME Shutdown \/ Observe \/ (\E h \in Handlers : Register(h)) PROVE TypeOK'
  <2>1. /\ UNCHANGED <<client, pc, locals, result>>
        /\ failures' = failures \/ Fails
        /\ caches' \in {caches, <<{}, [k \in Contracts |-> None]>>}
    BY <1>19 DEF Shutdown, TakeHandler, HandlerEnds, ClearCaches, SetFlag, NoMoreHandlers,
       Observe, Register, ClientUnchanged, client, caches
  <2>2. ClientTypes'
    <3>1. failures' \in 0..MaxFailures
      BY <2>1, FailuresAssumption DEF Fails, TypeOK, ClientTypes
    <3> QED
      BY <2>1, <3>1 DEF TypeOK, ClientTypes, client, caches
  <2>3. ShutdownTypes'
    <3>1. CASE TakeHandler
      <4>1. handlers # <<>> /\ Len(handlers) \in 1..Len(handlers)
        BY <3>1 DEF TakeHandler, TypeOK, ShutdownTypes
      <4> QED
        BY <3>1, <4>1 DEF TakeHandler, TypeOK, ShutdownTypes
    <3>2. CASE HandlerEnds \/ ClearCaches \/ SetFlag \/ NoMoreHandlers \/ Observe
      BY <3>2 DEF HandlerEnds, ClearCaches, SetFlag, NoMoreHandlers, Observe,
         TypeOK, ShutdownTypes
    <3>3. CASE \E h \in Handlers : Register(h)
      BY <3>3 DEF Register, TypeOK, ShutdownTypes
    <3> QED
      BY <1>19, <3>1, <3>2, <3>3 DEF Shutdown
  <2>4. CallTypes'
    BY <2>1 DEF TypeOK, CallTypes, locals
  <2>5. CallsSet'
    BY <2>1 DEF TypeOK, CallsSet, locals, At
  <2> QED
    BY <2>2, <2>3, <2>4, <2>5 DEF TypeOK
<1>20. ASSUME UNCHANGED vars PROVE TypeOK'
  BY <1>20 DEF vars, client, caches, shutdown, locals, TypeOK, ClientTypes,
     ShutdownTypes, CallTypes, CallsSet, At
<1> QED
  BY <1>1, <1>2, <1>3, <1>4, <1>5, <1>6, <1>7, <1>8, <1>9, <1>10, <1>11, <1>12, <1>13,
     <1>14, <1>15, <1>16, <1>17, <1>18, <1>19, <1>20
  DEF Next, Step

\* Every variable has its type in every state.
THEOREM TypeCorrect == Spec => []TypeOK
  BY InitType, StepType, PTL DEF Spec

-----------------------------------------------------------------------------
(* Shutdown *)

\* Nobody is registered before components._on_shutdown, and it is waiting,
\* running or done.
OursFirst == \A j \in DOMAIN handlers : handlers[j] = Ours => j = 1

ShutdownInv ==
  /\ OursFirst
  /\ Ours \in Pending \cup ran \cup {current}
  /\ have_shutdown => cleared

\* A step leaves the shutdown alone, or takes the last handler.
LEMMA ShutdownStep ==
  ASSUME TypeOK, ShutdownInv, [Next]_vars
  PROVE  /\ ShutdownInv'
         /\ current' = Ours /\ current # Ours => handlers' = <<>>
         /\ observer = "popping" /\ observer' # "popping" => Pending = {} /\ Ours \in ran
<1> USE OursAssumption, NoneAssumption
<1>1. CASE UNCHANGED shutdown
  BY <1>1 DEF shutdown, ShutdownInv, OursFirst, Pending
<1>2. CASE TakeHandler
  <2>1. handlers \in Seq(Handlers \cup {Ours}) /\ Len(handlers) \in Nat \ {0}
    BY <1>2 DEF TakeHandler, TypeOK, ShutdownTypes
  <2>2. /\ Len(handlers') = Len(handlers) - 1
        /\ \A j \in 1..Len(handlers') : handlers'[j] = handlers[j]
        /\ DOMAIN handlers' = 1..Len(handlers') /\ DOMAIN handlers = 1..Len(handlers)
    <3>1. handlers' = SubSeq(handlers, 1, Len(handlers) - 1)
      BY <1>2 DEF TakeHandler
    <3>2. \A j \in 1..(Len(handlers) - 1) : handlers[j] \in Handlers \cup {Ours}
      BY <2>1
    <3> DEFINE n == Len(handlers) - 1
    <3>3. n \in Nat /\ handlers' = SubSeq(handlers, 1, n)
      BY <2>1, <3>1
    <3> HIDE DEF n
    <3>4. /\ handlers' \in Seq(Handlers \cup {Ours}) /\ Len(handlers') = n
          /\ \A j \in 1..n : handlers'[j] = handlers[j]
      <4>1. \A j \in 1..n : handlers[j] \in Handlers \cup {Ours}
        BY <3>2 DEF n
      <4>2. /\ SubSeq(handlers, 1, n) \in Seq(Handlers \cup {Ours})
            /\ Len(SubSeq(handlers, 1, n)) = IF 1 <= n THEN n - 1 + 1 ELSE 0
            /\ \A j \in 1..n - 1 + 1 : SubSeq(handlers, 1, n)[j] = handlers[1 + j - 1]
        BY <3>3, <4>1, SubSeqProperties
      <4> QED
        BY <3>3, <4>2
    <3> QED
      BY <2>1, <3>3, <3>4 DEF n
  <2>3. OursFirst'
    BY <2>1, <2>2 DEF ShutdownInv, OursFirst
  <2>4. current' = Ours => handlers' = <<>>
    <3>1. current' = Ours => Len(handlers) = 1
      <4>1. current' = handlers[Len(handlers)]
        BY <1>2 DEF TakeHandler
      <4>2. Len(handlers) \in DOMAIN handlers
        BY <2>1, <2>2
      <4> QED
        BY <4>1, <4>2 DEF ShutdownInv, OursFirst
    <3> QED
      BY <1>2, <2>1, <3>1 DEF TakeHandler
  <2>5. (Ours \in Pending \cup ran \cup {current})'
    <3>1. CASE Ours \in ran
      BY <1>2, <3>1 DEF TakeHandler
    <3>2. CASE Ours \in Pending
      <4>1. PICK j \in DOMAIN handlers : handlers[j] = Ours
        BY <3>2 DEF Pending
      <4>2. CASE j = Len(handlers)
        BY <1>2, <4>1, <4>2 DEF TakeHandler
      <4>3. CASE j # Len(handlers)
        <5>1. j \in DOMAIN handlers' /\ handlers'[j] = Ours
          BY <2>1, <2>2, <4>1, <4>3
        <5> QED
          BY <5>1 DEF Pending
      <4> QED
        BY <4>2, <4>3
    <3> QED
      BY <1>2, <3>1, <3>2 DEF TakeHandler, ShutdownInv
  <2> QED
    BY <1>2, <2>3, <2>4, <2>5 DEF TakeHandler, ShutdownInv
<1>3. CASE HandlerEnds \/ ClearCaches \/ SetFlag \/ NoMoreHandlers \/ Observe
  <2>1. handlers' = handlers
    BY <1>3 DEF HandlerEnds, ClearCaches, SetFlag, NoMoreHandlers, Observe
  <2>2. OursFirst' /\ Pending' = Pending
    BY <2>1 DEF ShutdownInv, OursFirst, Pending
  <2>3. NoMoreHandlers => Pending = {}
    BY DEF NoMoreHandlers, Pending
  <2> QED
    BY <1>3, <2>2, <2>3 DEF HandlerEnds, ClearCaches, SetFlag, NoMoreHandlers, Observe,
       ShutdownInv
<1>4. ASSUME NEW h \in Handlers, Register(h) PROVE ShutdownInv' /\ UNCHANGED <<current, observer>>
  <2>1. handlers \in Seq(Handlers \cup {Ours}) /\ handlers' = Append(handlers, h)
    BY <1>4 DEF Register, TypeOK, ShutdownTypes
  <2>2. /\ DOMAIN handlers' = 1..(Len(handlers) + 1) /\ DOMAIN handlers = 1..Len(handlers)
        /\ handlers'[Len(handlers) + 1] = h
        /\ \A j \in 1..Len(handlers) : handlers'[j] = handlers[j]
        /\ Len(handlers) \in Nat
    BY <2>1
  <2>3. OursFirst'
    BY <2>2 DEF ShutdownInv, OursFirst
  <2>4. Pending \subseteq Pending'
    BY <2>2 DEF Pending
  <2> QED
    BY <1>4, <2>3, <2>4 DEF Register, ShutdownInv
<1>5. UNCHANGED shutdown \/ Observe \/ Shutdown \/ \E h \in Handlers : Register(h)
  <2>1. ASSUME NEW t \in Threads, Make(t) \/ Use(t) \/ Step(t) PROVE UNCHANGED shutdown
    BY <2>1 DEF Step, Call, Make, Use, Finish, QueryInterface, RealQI,
       BuildInterfaceInfo, Describe, Remember, Keep, TryClassInfo, AskClassInfo,
       Nominate, CacheClassInfo, LookUp, Built, Deliver, Fetch, Search
  <2> QED
    BY <2>1 DEF Next, vars
<1> QED
  BY <1>1, <1>2, <1>3, <1>4, <1>5 DEF Shutdown

LEMMA InitShutdown == Init => ShutdownInv
  BY DEF Init, ShutdownInv, OursFirst, Pending

\* components._on_shutdown runs when all other handlers have run.
THEOREM ComponentsLast == Spec => OursComesLast
  BY InitType, StepType, InitShutdown, ShutdownStep, PTL DEF Spec, OursComesLast

\* An observer that has begun to run the handlers does not stop while one is in
\* the list.
THEOREM HandlersRun == Spec => NoneForgotten
  BY InitType, StepType, InitShutdown, ShutdownStep, PTL DEF Spec, NoneForgotten

-----------------------------------------------------------------------------
(* Where the calls are *)

\* The name of attr[t] has been found to belong to iid[t], or t is on its way
\* to that interface.
Delivering(t) ==
  \/ pc[t] \in {"deliver", "fetch"}
  \/ pc[t] \in Querying /\ back[t] = "fetch"

\* t reads the class info.
Reads(t) ==
  \/ pc[t] \in {"ask", "nominate"}
  \/ pc[t] \in Querying /\ back[t] = "nominate"

UsesAttribute == {"get", "set", "repr", "dir"}

\* What a call does fits what was asked for.
CallsAgree ==
  \A t \in Threads :
    /\ At(t, "idle") => comp[t] = None
    /\ pc[t] \in {"classinfo", "ask", "nominate", "lookup", "built", "deliver",
                  "fetch", "search"} => op[t] \in UsesAttribute
    /\ pc[t] \in {"classinfo", "ask", "lookup", "built", "deliver", "search"}
         => back[t] = "return"
    /\ pc[t] \in Querying =>
         IF back[t] = "return" THEN op[t] \in {"make", "query"}
                               ELSE op[t] \in UsesAttribute
    /\ Delivering(t) => op[t] \in {"get", "set"} /\ attr[t] \in Names

\* A Component is used when it has been made, and made by one thread.
MadeWhenUsed ==
  \A t \in Threads : ~At(t, "idle") =>
    /\ op[t] # "make" => comp[t] \in made
    /\ op[t] = "make" => comp[t] \notin made

MadeByOne ==
  \A t, u \in Threads :
    ~At(t, "idle") /\ ~At(u, "idle") /\ op[t] = "make" /\ comp[u] = comp[t] => u = t

Control == CallsAgree /\ MadeWhenUsed /\ MadeByOne

\* Where an exception leads.
LEMMA Raised ==
  ASSUME TypeOK, NEW t \in Threads, NEW exc \in Results, Raise(t, exc)
  PROVE  \/ back[t] = "nominate" /\ pc'[t] = "nominate" /\ result' = result
         \/ back[t] # "nominate" /\ pc'[t] = "return" /\ result'[t] = exc
         \/ /\ back[t] = "nominate" /\ exc \notin COMExceptions
            /\ pc'[t] = "return" /\ (result'[t] = exc \/ (op[t] = "dir" /\ result'[t] = "done"))
<1>1. ASSUME NEW what \in Results, Return(t, what) PROVE pc'[t] = "return" /\ result'[t] = what
  BY <1>1 DEF Return, Goto, TypeOK, CallTypes
<1>2. ASSUME BuildRaises(t, exc)
      PROVE  pc'[t] = "return" /\ (result'[t] = exc \/ (op[t] = "dir" /\ result'[t] = "done"))
  <2>1. CASE op[t] = "dir" /\ Return(t, "done")
    BY <1>1, <2>1 DEF Results
  <2>2. CASE Return(t, exc)
    BY <1>1, <2>2
  <2> QED
    BY <1>2, <2>1, <2>2 DEF BuildRaises
<1>3. Goto(t, "nominate") => pc'[t] = "nominate"
  BY DEF Goto, TypeOK, CallTypes
<1> QED
  BY <1>1, <1>2, <1>3 DEF Raise

\* Where QueryInterface goes on, as long as it may raise an exception.
LEMMA Queried ==
  ASSUME TypeOK, NEW t \in Threads,
         QueryInterface(t) \/ RealQI(t) \/ BuildInterfaceInfo(t)
  PROVE  /\ UNCHANGED locals
         /\ pc[t] \in {"query", "answer", "build"}
         /\ pc'[t] \in {"answer", "build", "describe", "remember", "return", back[t]}
         /\ pc'[t] \in {"answer", "build", "describe", "remember", back[t]} \ {"return"}
              => result' = result
         /\ \/ QueryInterface(t) /\ pc'[t] = "answer" /\ result' = result
            \/ /\ QueryInterface(t) /\ pc'[t] = back[t] /\ result' = result
               /\ interfaces[comp[t]][iid[t]] = "held" /\ UNCHANGED interfaces
            \/ RealQI(t) /\ pc'[t] = "build" /\ result' = result
            \/ /\ BuildInterfaceInfo(t) /\ result' = result /\ ~have_shutdown
               /\ pc'[t] = IF iid[t] \in interface_cache THEN "remember" ELSE "describe"
               /\ UNCHANGED interface_cache
            \/ back[t] = "nominate" /\ pc'[t] = "nominate" /\ result' = result
            \/ /\ pc'[t] = "return" /\ result'[t] \in {"failure", "AssertionError", "done"}
               /\ result'[t] = "done" => op[t] = "dir"
            \/ /\ pc'[t] = "return" /\ result'[t] = "no interface"
               /\ back[t] # "nominate"
               /\ \/ RealQI(t) /\ iid[t] \notin Answers[comp[t]]
                  \/ QueryInterface(t) /\ interfaces[comp[t]][iid[t]] = "refused"
<1>1. CASE QueryInterface(t)
  <2>1. \/ Raise(t, "no interface") /\ interfaces[comp[t]][iid[t]] = "refused"
        \/ /\ interfaces[comp[t]][iid[t]] = "held"
           /\ pc' = [pc EXCEPT ![t] = back[t]] /\ result' = result
        \/ pc' = [pc EXCEPT ![t] = "answer"] /\ result' = result
    BY <1>1 DEF QueryInterface, Goto
  <2>2. UNCHANGED <<interfaces, locals>> /\ pc[t] = "query"
    BY <1>1 DEF QueryInterface, At
  <2> QED
    BY <1>1, <2>1, <2>2, Raised DEF Results, COMExceptions, TypeOK, CallTypes
<1>2. CASE RealQI(t)
  <2>1. \/ Raise(t, "no interface") /\ iid[t] \notin Answers[comp[t]]
        \/ Raise(t, "failure")
        \/ pc' = [pc EXCEPT ![t] = "build"] /\ result' = result
    BY <1>2 DEF RealQI, Goto
  <2>2. UNCHANGED locals /\ pc[t] = "answer"
    BY <1>2 DEF RealQI, At
  <2> QED
    BY <1>2, <2>1, <2>2, Raised DEF Results, COMExceptions, TypeOK, CallTypes
<1>3. CASE BuildInterfaceInfo(t)
  <2>1. \/ Raise(t, "AssertionError")
        \/ /\ ~have_shutdown /\ result' = result
           /\ pc' = [pc EXCEPT ![t] = IF iid[t] \in interface_cache
                                        THEN "remember" ELSE "describe"]
    BY <1>3 DEF BuildInterfaceInfo, Goto
  <2>2. UNCHANGED <<interface_cache, locals>> /\ pc[t] = "build"
    BY <1>3 DEF BuildInterfaceInfo, At, caches
  <2>3. CASE Raise(t, "AssertionError")
    <3>1. "AssertionError" \in Results \ COMExceptions
      BY DEF Results, COMExceptions
    <3> QED
      BY <2>2, <2>3, <3>1, Raised
  <2>4. CASE /\ ~have_shutdown /\ result' = result
             /\ pc' = [pc EXCEPT ![t] = IF iid[t] \in interface_cache
                                          THEN "remember" ELSE "describe"]
    BY <1>3, <2>2, <2>4 DEF TypeOK, CallTypes
  <2> QED
    BY <2>1, <2>3, <2>4
<1> QED
  BY <1>1, <1>2, <1>3

LEMMA InitControl == Init => Control
  BY DEF Init, Control, CallsAgree, MadeWhenUsed, MadeByOne, At, Delivering, Querying

\* Only t moves.
LEMMA OthersStay ==
  ASSUME TypeOK, NEW t \in Threads, Make(t) \/ Use(t) \/ Step(t),
         NEW u \in Threads, u # t
  PROVE  /\ pc'[u] = pc[u] /\ op'[u] = op[u] /\ comp'[u] = comp[u] /\ attr'[u] = attr[u]
         /\ iid'[u] = iid[u] /\ back'[u] = back[u] /\ todo'[u] = todo[u]
         /\ cid'[u] = cid[u] /\ result'[u] = result[u]
<1>1. CASE Make(t)
  BY <1>1 DEF Make, Call, Goto, Return, TypeOK, CallTypes, locals
<1>2. CASE Use(t)
  BY <1>2 DEF Use, Call, Goto, Return, TypeOK, CallTypes, locals
<1>3. CASE Finish(t)
  BY <1>3 DEF Finish, Goto, Return, TypeOK, CallTypes, locals
<1>4. CASE QueryInterface(t)
  BY <1>4 DEF QueryInterface, Raise, BuildRaises, Goto, Return, TypeOK, CallTypes,
     locals
<1>5. CASE RealQI(t)
  BY <1>5 DEF RealQI, Raise, BuildRaises, Goto, Return, TypeOK, CallTypes, locals
<1>6. CASE BuildInterfaceInfo(t)
  BY <1>6 DEF BuildInterfaceInfo, Raise, BuildRaises, Goto, Return, TypeOK,
     CallTypes, locals
<1>7. CASE Describe(t)
  BY <1>7 DEF Describe, Goto, Return, TypeOK, CallTypes, locals
<1>8. CASE Remember(t)
  BY <1>8 DEF Remember, Goto, Return, TypeOK, CallTypes, locals
<1>9. CASE Keep(t)
  BY <1>9 DEF Keep, Goto, Return, TypeOK, CallTypes, locals
<1>10. CASE TryClassInfo(t)
  BY <1>10 DEF TryClassInfo, BuildRaises, Goto, Return, TypeOK, CallTypes, locals
<1>11. CASE AskClassInfo(t)
  BY <1>11 DEF AskClassInfo, List, Goto, Return, TypeOK, CallTypes, locals
<1>12. CASE Nominate(t)
  BY <1>12 DEF Nominate, Goto, Return, TypeOK, CallTypes, locals
<1>13. CASE CacheClassInfo(t)
  BY <1>13 DEF CacheClassInfo, Goto, Return, TypeOK, CallTypes, locals
<1>14. CASE LookUp(t)
  BY <1>14 DEF LookUp, Goto, Return, TypeOK, CallTypes, locals
<1>15. CASE Built(t)
  BY <1>15 DEF Built, Goto, Return, TypeOK, CallTypes, locals
<1>16. CASE Deliver(t)
  BY <1>16 DEF Deliver, Goto, Return, TypeOK, CallTypes, locals
<1>17. CASE Fetch(t)
  BY <1>17 DEF Fetch, Goto, Return, TypeOK, CallTypes, locals
<1>18. CASE Search(t)
  BY <1>18 DEF Search, Goto, Return, TypeOK, CallTypes, locals
<1> QED
  BY <1>1, <1>2, <1>3, <1>4, <1>5, <1>6, <1>7, <1>8, <1>9, <1>10, <1>11, <1>12,
     <1>13, <1>14, <1>15, <1>16, <1>17, <1>18 DEF Step

LEMMA StepControl == TypeOK /\ Control /\ [Next]_vars => Control'
<1> SUFFICES ASSUME TypeOK, Control, [Next]_vars PROVE Control'
  OBVIOUS
<1>1. ASSUME NEW t \in Threads, Make(t) \/ Use(t) \/ Step(t) PROVE Control'
  <2>1. \A u \in Threads \ {t} :
          /\ pc'[u] = pc[u] /\ op'[u] = op[u] /\ comp'[u] = comp[u]
          /\ attr'[u] = attr[u] /\ back'[u] = back[u]
    BY <1>1, OthersStay
  <2>2. made \subseteq made'
    BY <1>1 DEF Step, Call, Make, Use, Finish, QueryInterface, RealQI,
       BuildInterfaceInfo, Describe, Remember, Keep, TryClassInfo, AskClassInfo,
       Nominate, CacheClassInfo, LookUp, Built, Deliver, Fetch, Search, client
  <2>3. /\ At(t, "idle")' => comp'[t] = None
        /\ pc'[t] \in {"classinfo", "ask", "nominate", "lookup", "built", "deliver",
                       "fetch", "search"} => op'[t] \in UsesAttribute
        /\ pc'[t] \in {"classinfo", "ask", "lookup", "built", "deliver", "search"}
             => back'[t] = "return"
        /\ pc'[t] \in Querying =>
             IF back'[t] = "return" THEN op'[t] \in {"make", "query"}
                                    ELSE op'[t] \in UsesAttribute
        /\ Delivering(t)' => op'[t] \in {"get", "set"} /\ attr'[t] \in Names
    <3>1. CASE Make(t)
      BY <3>1, RequestType DEF Make, Call, Goto, Return, At, Querying, Delivering,
         UsesAttribute, TypeOK, CallTypes, CallsSet, Control, CallsAgree, locals
    <3>2. CASE Use(t)
      BY <3>2, RequestType DEF Use, Call, Goto, Return, At, Querying, Delivering,
         UsesAttribute, TypeOK, CallTypes, CallsSet, Control, CallsAgree, locals
    <3>3. CASE Finish(t)
      BY <3>3, NoneAssumption DEF Finish, Goto, Return, At, Querying, Delivering,
         UsesAttribute, TypeOK, CallTypes, CallsSet, Control, CallsAgree, locals
    <3>4. CASE QueryInterface(t) \/ RealQI(t) \/ BuildInterfaceInfo(t)
      <4>1. /\ UNCHANGED locals /\ pc[t] \in {"query", "answer", "build"}
            /\ pc'[t] \in {"answer", "build", "describe", "remember", "return", back[t]}
        BY <3>4, Queried
      <4>2. back[t] \in {"return", "nominate", "fetch"}
        BY <4>1, AtHand DEF Querying
      <4> QED
        BY <4>1, <4>2 DEF At, Querying, Delivering, UsesAttribute, Control, CallsAgree, locals
    <3>7. CASE Describe(t)
      BY <3>7 DEF Describe, Goto, Return, At, Querying, Delivering, UsesAttribute,
         TypeOK, CallTypes, CallsSet, Control, CallsAgree, locals
    <3>8. CASE Remember(t)
      BY <3>8 DEF Remember, Goto, Return, At, Querying, Delivering, UsesAttribute,
         TypeOK, CallTypes, CallsSet, Control, CallsAgree, locals
    <3>9. CASE Keep(t)
      BY <3>9 DEF Keep, Goto, Return, At, Querying, Delivering, UsesAttribute,
         TypeOK, CallTypes, CallsSet, Control, CallsAgree, locals
    <3>10. CASE TryClassInfo(t)
      BY <3>10 DEF TryClassInfo, BuildRaises, Goto, Return, At, Querying,
         Delivering, UsesAttribute, TypeOK, CallTypes, CallsSet, Control,
         CallsAgree, locals
    <3>11. CASE AskClassInfo(t)
      BY <3>11 DEF AskClassInfo, List, Goto, Return, At, Querying, Delivering,
         UsesAttribute, TypeOK, CallTypes, CallsSet, Control, CallsAgree, locals
    <3>12. CASE Nominate(t)
      BY <3>12 DEF Nominate, Goto, Return, At, Querying, Delivering, UsesAttribute,
         TypeOK, CallTypes, CallsSet, Control, CallsAgree, locals
    <3>13. CASE CacheClassInfo(t)
      BY <3>13 DEF CacheClassInfo, Goto, Return, At, Querying, Delivering,
         UsesAttribute, TypeOK, CallTypes, CallsSet, Control, CallsAgree, locals
    <3>14. CASE LookUp(t)
      BY <3>14, NoneAssumption DEF LookUp, IidOf, Goto, Return, At, Querying,
         Delivering, UsesAttribute, TypeOK, CallTypes, CallsSet, Control,
         CallsAgree, locals
    <3>15. CASE Built(t)
      BY <3>15, NoneAssumption DEF Built, IidOf, Goto, Return, At, Querying,
         Delivering, UsesAttribute, TypeOK, CallTypes, CallsSet, Control,
         CallsAgree, locals
    <3>16. CASE Deliver(t)
      BY <3>16, NoneAssumption DEF Deliver, Goto, Return, At, Querying, Delivering,
         UsesAttribute, TypeOK, CallTypes, CallsSet, Control, CallsAgree, locals
    <3>17. CASE Fetch(t)
      BY <3>17 DEF Fetch, Goto, Return, At, Querying, Delivering, UsesAttribute,
         TypeOK, CallTypes, CallsSet, Control, CallsAgree, locals
    <3>18. CASE Search(t)
      BY <3>18, NoneAssumption DEF Search, Goto, Return, At, Querying, Delivering,
         UsesAttribute, TypeOK, CallTypes, CallsSet, Control, CallsAgree, locals
    <3> QED
      BY <1>1, <3>1, <3>2, <3>3, <3>4, <3>7, <3>8, <3>9, <3>10, <3>11, <3>12, <3>13,
         <3>14, <3>15, <3>16, <3>17, <3>18 DEF Step
  <2>4. CallsAgree'
    BY <2>1, <2>3 DEF Control, CallsAgree, At, Delivering
  <2>5. \/ At(t, "idle")'
        \/ Make(t) \/ Use(t)
        \/ ~At(t, "idle") /\ op'[t] = op[t] /\ comp'[t] = comp[t] /\ made' = made
    BY <1>1 DEF Step, At, Goto, TypeOK, CallTypes, client, locals, Finish,
       QueryInterface, RealQI, BuildInterfaceInfo, Describe, Remember, Keep,
       TryClassInfo, AskClassInfo, Nominate, CacheClassInfo, LookUp, Built, Deliver,
       Fetch, Search
  <2>6. ASSUME At(t, "idle")' PROVE MadeWhenUsed' /\ MadeByOne'
    <3>1. made' \subseteq made \cup {comp[t]}
          /\ (made' # made => ~At(t, "idle") /\ op[t] = "make")
      BY <1>1, NoneAssumption DEF Step, At, Call, client, Make, Use, Finish,
         QueryInterface, RealQI, BuildInterfaceInfo, Describe, Remember, Keep,
         TryClassInfo, AskClassInfo, Nominate, CacheClassInfo, LookUp, Built, Deliver,
         Fetch, Search
    <3>2. \A u \in Threads : ~At(u, "idle")' =>
            u # t /\ ~At(u, "idle") /\ op'[u] = op[u] /\ comp'[u] = comp[u]
      BY <2>1, <2>6 DEF At
    <3>3. MadeByOne'
      BY <3>2 DEF Control, MadeByOne
    <3>4. MadeWhenUsed'
      BY <2>2, <3>1, <3>2 DEF Control, MadeWhenUsed, MadeByOne
    <3> QED
      BY <3>3, <3>4
  <2>7. ASSUME Make(t) PROVE MadeWhenUsed' /\ MadeByOne'
    <3>1. PICK r \in Requests[t] :
            r.op = "make" /\ r.comp \notin made /\ ~Making(r.comp) /\ Call(t, r)
      BY <2>7 DEF Make
    <3>2. op'[t] = "make" /\ comp'[t] = r.comp /\ made' = made
      BY <3>1 DEF Call, TypeOK, CallTypes
    <3>3. \A u \in Threads \ {t} : ~At(u, "idle") => comp[u] # r.comp
      BY <3>1 DEF Making, Control, MadeWhenUsed
    <3> QED
      BY <2>1, <3>1, <3>2, <3>3 DEF Control, MadeWhenUsed, MadeByOne, At
  <2>8. ASSUME Use(t) PROVE MadeWhenUsed' /\ MadeByOne'
    <3>1. op'[t] # "make" /\ comp'[t] \in made /\ made' = made
      BY <2>8 DEF Use, Call, TypeOK, CallTypes
    <3> QED
      BY <2>1, <3>1 DEF Control, MadeWhenUsed, MadeByOne, At
  <2>9. ASSUME ~At(t, "idle"), op'[t] = op[t], comp'[t] = comp[t], made' = made
        PROVE  MadeWhenUsed' /\ MadeByOne'
    BY <2>1, <2>9 DEF Control, MadeWhenUsed, MadeByOne, At
  <2>10. MadeWhenUsed' /\ MadeByOne'
    BY <2>5, <2>6, <2>7, <2>8, <2>9 DEF Control
  <2> QED
    BY <2>4, <2>10 DEF Control
<1>2. CASE UNCHANGED <<client, pc, locals>>
  BY <1>2 DEF Control, CallsAgree, MadeWhenUsed, MadeByOne, At, Delivering, client, locals
<1>3. \/ UNCHANGED <<client, pc, locals>>
      \/ \E t \in Threads : Make(t) \/ Use(t) \/ Step(t)
  BY DEF Next, vars, Shutdown, TakeHandler, HandlerEnds, ClearCaches, SetFlag,
     NoMoreHandlers, Observe, Register, ClientUnchanged
<1> QED
  BY <1>1, <1>2, <1>3

-----------------------------------------------------------------------------
(* What is remembered is true *)

CacheScriptable == interface_cache \subseteq Scriptable

\* The interface at hand was given by the object, and has been described.
AtInterface ==
  \A t \in Threads :
    /\ pc[t] \in {"build", "describe", "remember", "keep"} => iid[t] \in Answers[comp[t]]
    /\ pc[t] \in {"remember", "keep"} => iid[t] \in Scriptable
    /\ pc[t] = "keep" => iid[t] \in infos[comp[t]]

HeldHasInfo ==
  \A c \in Components, i \in Iids : interfaces[c][i] = "held" => i \in infos[c]

Truth == AnswersTrue /\ CacheScriptable /\ AtInterface /\ HeldHasInfo

LEMMA InitTruth == Init => Truth
  BY DEF Init, Truth, AnswersTrue, CacheScriptable, AtInterface, HeldHasInfo, Unasked

\* The step is one of the shutdown, or one that changes nothing.
OfShutdown ==
  /\ UNCHANGED <<client, pc, locals, result>>
  /\ failures' = failures \/ Fails
  /\ cleared => cleared'
  /\ \/ UNCHANGED caches
     \/ /\ interface_cache' = {} /\ contractid_info_cache' = [k \in Contracts |-> None]
        /\ cleared'

LEMMA StepKinds ==
  ASSUME [Next]_vars
  PROVE  OfShutdown \/ \E t \in Threads : Make(t) \/ Use(t) \/ Step(t)
  BY DEF Next, vars, Shutdown, TakeHandler, HandlerEnds, ClearCaches, SetFlag, shutdown,
     NoMoreHandlers, Observe, Register, ClientUnchanged, OfShutdown, caches

LEMMA ShutdownUnchanged ==
  ASSUME NEW t \in Threads, Make(t) \/ Use(t) \/ Step(t)
  PROVE  UNCHANGED shutdown
  BY DEF Step, Call, Make, Use, Finish, QueryInterface, RealQI, BuildInterfaceInfo,
     Describe, Remember, Keep, TryClassInfo, AskClassInfo, Nominate,
     CacheClassInfo, LookUp, Built, Deliver, Fetch, Search

\* What a step of t does to the infos and the answers of the Components.
LEMMA InfosStep ==
  ASSUME TypeOK, NEW t \in Threads, Make(t) \/ Use(t) \/ Step(t)
  PROVE  \A c \in Components :
           \/ Make(t) /\ comp'[t] = c /\ c \notin made /\ infos'[c] = {}
           \/ infos[c] \subseteq infos'[c]
<1>1. CASE Make(t)
  <2>1. PICK r \in Requests[t] :
          /\ r.comp \notin made /\ Call(t, r)
          /\ infos' = [infos EXCEPT ![r.comp] = {}]
    BY <1>1 DEF Make
  <2>2. comp'[t] = r.comp
    BY <2>1 DEF Call, TypeOK, CallTypes
  <2> QED
    BY <1>1, <2>1, <2>2 DEF TypeOK, ClientTypes
<1>2. CASE Use(t)
  BY <1>2, AtHand DEF Use, Call, TypeOK, ClientTypes, client, CallTypes
<1>3. CASE Finish(t)
  BY <1>3, AtHand DEF Finish, TypeOK, ClientTypes, client, CallTypes
<1>4. CASE QueryInterface(t)
  BY <1>4, AtHand DEF QueryInterface, Raise, BuildRaises, COMExceptions, TypeOK,
     ClientTypes, client, CallTypes
<1>5. CASE RealQI(t)
  BY <1>5, AtHand DEF RealQI, Raise, BuildRaises, COMExceptions, TypeOK,
     ClientTypes, client, CallTypes
<1>6. CASE BuildInterfaceInfo(t)
  BY <1>6, AtHand DEF BuildInterfaceInfo, Raise, BuildRaises, COMExceptions,
     TypeOK, ClientTypes, client, CallTypes
<1>7. CASE Describe(t)
  BY <1>7, AtHand DEF Describe, TypeOK, ClientTypes, client, CallTypes
<1>8. CASE Remember(t)
  BY <1>8, AtHand DEF Remember, TypeOK, ClientTypes, client, CallTypes
<1>9. CASE Keep(t)
  BY <1>9, AtHand DEF Keep, TypeOK, ClientTypes, client, CallTypes
<1>10. CASE TryClassInfo(t)
  BY <1>10, AtHand DEF TryClassInfo, BuildRaises, TypeOK, ClientTypes, client,
     CallTypes
<1>11. CASE AskClassInfo(t)
  BY <1>11, AtHand DEF AskClassInfo, List, TypeOK, ClientTypes, client, CallTypes
<1>12. CASE Nominate(t)
  BY <1>12, AtHand DEF Nominate, TypeOK, ClientTypes, client, CallTypes
<1>13. CASE CacheClassInfo(t)
  BY <1>13, AtHand DEF CacheClassInfo, TypeOK, ClientTypes, client, CallTypes
<1>14. CASE LookUp(t)
  BY <1>14, AtHand DEF LookUp, TypeOK, ClientTypes, client, CallTypes
<1>15. CASE Built(t)
  BY <1>15, AtHand DEF Built, TypeOK, ClientTypes, client, CallTypes
<1>16. CASE Deliver(t)
  BY <1>16, AtHand DEF Deliver, TypeOK, ClientTypes, client, CallTypes
<1>17. CASE Fetch(t)
  BY <1>17, AtHand DEF Fetch, TypeOK, ClientTypes, client, CallTypes
<1>18. CASE Search(t)
  BY <1>18, AtHand DEF Search, TypeOK, ClientTypes, client, CallTypes
<1> QED
  BY <1>1, <1>2, <1>3, <1>4, <1>5, <1>6, <1>7, <1>8, <1>9, <1>10, <1>11, <1>12,
     <1>13, <1>14, <1>15, <1>16, <1>17, <1>18 DEF Step

LEMMA InterfacesStep ==
  ASSUME TypeOK, NEW t \in Threads, Make(t) \/ Use(t) \/ Step(t),
         NEW c \in Components, NEW i \in Iids
  PROVE  \/ Make(t) /\ comp'[t] = c /\ c \notin made /\ interfaces'[c][i] = "unknown"
         \/ interfaces'[c][i] = interfaces[c][i]
         \/ /\ comp[t] = c /\ iid[t] = i
            /\ \/ RealQI(t) /\ i \notin Answers[c] /\ interfaces'[c][i] = "refused"
               \/ Keep(t) /\ interfaces'[c][i] = "held"
<1>1. CASE Make(t)
  <2>1. PICK r \in Requests[t] :
          /\ r.comp \notin made /\ Call(t, r)
          /\ interfaces' = [interfaces EXCEPT ![r.comp] = Unasked]
    BY <1>1 DEF Make
  <2>2. comp'[t] = r.comp
    BY <2>1 DEF Call, TypeOK, CallTypes
  <2> QED
    BY <1>1, <2>1, <2>2 DEF TypeOK, ClientTypes, Unasked
<1>2. CASE Use(t)
  BY <1>2, AtHand DEF Use, Call, TypeOK, ClientTypes, client
<1>3. CASE Finish(t)
  BY <1>3, AtHand DEF Finish, TypeOK, ClientTypes, client
<1>4. CASE QueryInterface(t)
  BY <1>4, AtHand DEF QueryInterface, Raise, BuildRaises, COMExceptions, TypeOK,
     ClientTypes, client
<1>5. CASE RealQI(t)
  <2>1. \/ UNCHANGED interfaces
        \/ /\ iid[t] \notin Answers[comp[t]]
           /\ interfaces' = [interfaces EXCEPT ![comp[t]][iid[t]] = "refused"]
    BY <1>5 DEF RealQI
  <2> QED
    <3>1. comp[t] \in Components /\ iid[t] \in Iids
      BY <1>5, AtHand DEF RealQI, At, Querying
    <3>2. CASE interfaces' = [interfaces EXCEPT ![comp[t]][iid[t]] = "refused"]
      <4>1. CASE comp[t] = c /\ iid[t] = i
        BY <1>5, <2>1, <3>1, <3>2, <4>1 DEF TypeOK, ClientTypes
      <4>2. CASE ~(comp[t] = c /\ iid[t] = i)
        BY <3>1, <3>2, <4>2 DEF TypeOK, ClientTypes
      <4> QED
        BY <4>1, <4>2
    <3> QED
      BY <2>1, <3>2
<1>6. CASE BuildInterfaceInfo(t)
  BY <1>6, AtHand DEF BuildInterfaceInfo, Raise, BuildRaises, COMExceptions,
     TypeOK, ClientTypes, client
<1>7. CASE Describe(t)
  BY <1>7, AtHand DEF Describe, TypeOK, ClientTypes, client
<1>8. CASE Remember(t)
  BY <1>8, AtHand DEF Remember, TypeOK, ClientTypes, client
<1>9. CASE Keep(t)
  BY <1>9, AtHand DEF Keep, At, Querying, TypeOK, ClientTypes, client
<1>10. CASE TryClassInfo(t)
  BY <1>10, AtHand DEF TryClassInfo, BuildRaises, TypeOK, ClientTypes, client
<1>11. CASE AskClassInfo(t)
  BY <1>11, AtHand DEF AskClassInfo, List, TypeOK, ClientTypes, client
<1>12. CASE Nominate(t)
  BY <1>12, AtHand DEF Nominate, TypeOK, ClientTypes, client
<1>13. CASE CacheClassInfo(t)
  BY <1>13, AtHand DEF CacheClassInfo, TypeOK, ClientTypes, client
<1>14. CASE LookUp(t)
  BY <1>14, AtHand DEF LookUp, TypeOK, ClientTypes, client
<1>15. CASE Built(t)
  BY <1>15, AtHand DEF Built, TypeOK, ClientTypes, client
<1>16. CASE Deliver(t)
  BY <1>16, AtHand DEF Deliver, TypeOK, ClientTypes, client
<1>17. CASE Fetch(t)
  BY <1>17, AtHand DEF Fetch, TypeOK, ClientTypes, client
<1>18. CASE Search(t)
  BY <1>18, AtHand DEF Search, TypeOK, ClientTypes, client
<1> QED
  BY <1>1, <1>2, <1>3, <1>4, <1>5, <1>6, <1>7, <1>8, <1>9, <1>10, <1>11, <1>12,
     <1>13, <1>14, <1>15, <1>16, <1>17, <1>18 DEF Step

LEMMA StepTruth == TypeOK /\ Control /\ Truth /\ [Next]_vars => Truth'
<1> SUFFICES ASSUME TypeOK, Control, Truth, [Next]_vars PROVE Truth'
  OBVIOUS
<1>1. ASSUME NEW t \in Threads, Make(t) \/ Use(t) \/ Step(t) PROVE Truth'
  <2>1. AnswersTrue'
    <3>1. SUFFICES ASSUME NEW c \in Components, NEW i \in Iids
                   PROVE  /\ interfaces'[c][i] = "held" => i \in Answers[c] \cap Scriptable
                          /\ interfaces'[c][i] = "refused" => i \notin Answers[c]
      BY DEF AnswersTrue
    <3>2. Keep(t) => iid[t] \in Answers[comp[t]] \cap Scriptable
      BY DEF Keep, At, Truth, AtInterface
    <3> QED
      BY <1>1, <3>2, InterfacesStep DEF Truth, AnswersTrue
  <2>2. HeldHasInfo'
    <3>1. SUFFICES ASSUME NEW c \in Components, NEW i \in Iids, interfaces'[c][i] = "held"
                   PROVE  i \in infos'[c]
      BY DEF HeldHasInfo
    <3>2. Keep(t) => iid[t] \in infos[comp[t]] /\ infos' = infos
      BY DEF Keep, At, Truth, AtInterface
    <3>3. ~(Make(t) /\ Keep(t))
      BY DEF Make, Keep, At
    <3>4. CASE Make(t) /\ comp'[t] = c
      <4>1. interfaces'[c][i] = "unknown"
        <5>1. PICK r \in Requests[t] :
                Call(t, r) /\ interfaces' = [interfaces EXCEPT ![r.comp] = Unasked]
          BY <3>4 DEF Make
        <5>2. r.comp = c
          BY <3>4, <5>1 DEF Call, TypeOK, CallTypes
        <5> QED
          BY <5>1, <5>2 DEF TypeOK, ClientTypes, Unasked
      <4> QED
        BY <3>1, <4>1
    <3>5. CASE ~(Make(t) /\ comp'[t] = c)
      <4>1. infos[c] \subseteq infos'[c]
        BY <1>1, <3>5, InfosStep
      <4>2. interfaces[c][i] = "held" \/ (Keep(t) /\ comp[t] = c /\ iid[t] = i)
        BY <1>1, <3>1, <3>5, InterfacesStep
      <4> QED
        BY <3>2, <4>1, <4>2 DEF Truth, HeldHasInfo
    <3> QED
      BY <3>4, <3>5
  <2>3. interface_cache' \subseteq interface_cache \cup Scriptable
    BY <1>1 DEF Step, Call, caches, Make, Use, Finish, QueryInterface, RealQI,
       BuildInterfaceInfo, Describe, Remember, Keep, TryClassInfo, AskClassInfo,
       Nominate, CacheClassInfo, LookUp, Built, Deliver, Fetch, Search
  <2>4. /\ pc'[t] \in {"build", "describe", "remember", "keep"} => iid'[t] \in Answers[comp'[t]]
        /\ pc'[t] \in {"remember", "keep"} => iid'[t] \in Scriptable
        /\ pc'[t] = "keep" => iid'[t] \in infos'[comp'[t]]
    <3>1. CASE Make(t)
      BY <3>1 DEF Make, Call, Goto, Return, At, TypeOK, CallTypes, CallsSet, Truth,
         AtInterface, locals
    <3>2. CASE Use(t)
      BY <3>2 DEF Use, Call, Goto, Return, At, TypeOK, CallTypes, CallsSet, Truth,
         AtInterface, locals
    <3>3. CASE Finish(t)
      BY <3>3 DEF Finish, Goto, Return, At, TypeOK, CallTypes, CallsSet, Truth,
         AtInterface, locals
    <3>4. CASE QueryInterface(t)
      BY <3>4, AtHand DEF QueryInterface, Raise, BuildRaises, COMExceptions,
         Querying, Goto, Return, At, TypeOK, CallTypes, CallsSet, Truth,
         AtInterface, locals
    <3>5. CASE RealQI(t)
      BY <3>5 DEF RealQI, Raise, BuildRaises, COMExceptions, Goto, Return, At,
         TypeOK, CallTypes, CallsSet, Truth, AtInterface, locals
    <3>6. CASE BuildInterfaceInfo(t)
      BY <3>6 DEF BuildInterfaceInfo, Raise, BuildRaises, COMExceptions,
         CacheScriptable, Goto, Return, At, TypeOK, CallTypes, CallsSet, Truth,
         AtInterface, locals
    <3>7. CASE Describe(t)
      BY <3>7, AtHand DEF Describe, Querying, Goto, Return, At, TypeOK, CallTypes,
         CallsSet, Truth, AtInterface, locals
    <3>8. CASE Remember(t)
      BY <3>8, AtHand DEF Remember, ClientTypes, Querying, Goto, Return, At,
         TypeOK, CallTypes, CallsSet, Truth, AtInterface, locals
    <3>9. CASE Keep(t)
      BY <3>9, AtHand DEF Keep, Querying, Goto, Return, At, TypeOK, CallTypes,
         CallsSet, Truth, AtInterface, locals
    <3>10. CASE TryClassInfo(t)
      BY <3>10 DEF TryClassInfo, BuildRaises, Goto, Return, At, TypeOK, CallTypes,
         CallsSet, Truth, AtInterface, locals
    <3>11. CASE AskClassInfo(t)
      BY <3>11 DEF AskClassInfo, List, Goto, Return, At, TypeOK, CallTypes,
         CallsSet, Truth, AtInterface, locals
    <3>12. CASE Nominate(t)
      BY <3>12 DEF Nominate, Goto, Return, At, TypeOK, CallTypes, CallsSet, Truth,
         AtInterface, locals
    <3>13. CASE CacheClassInfo(t)
      BY <3>13 DEF CacheClassInfo, Goto, Return, At, TypeOK, CallTypes, CallsSet,
         Truth, AtInterface, locals
    <3>14. CASE LookUp(t)
      BY <3>14 DEF LookUp, Goto, Return, At, TypeOK, CallTypes, CallsSet, Truth,
         AtInterface, locals
    <3>15. CASE Built(t)
      BY <3>15 DEF Built, Goto, Return, At, TypeOK, CallTypes, CallsSet, Truth,
         AtInterface, locals
    <3>16. CASE Deliver(t)
      BY <3>16 DEF Deliver, Goto, Return, At, TypeOK, CallTypes, CallsSet, Truth,
         AtInterface, locals
    <3>17. CASE Fetch(t)
      BY <3>17 DEF Fetch, Goto, Return, At, TypeOK, CallTypes, CallsSet, Truth,
         AtInterface, locals
    <3>18. CASE Search(t)
      BY <3>18 DEF Search, Goto, Return, At, TypeOK, CallTypes, CallsSet, Truth,
         AtInterface, locals
    <3> QED
      BY <1>1, <3>1, <3>2, <3>3, <3>4, <3>5, <3>6, <3>7, <3>8, <3>9, <3>10, <3>11,
         <3>12, <3>13, <3>14, <3>15, <3>16, <3>17, <3>18 DEF Step
  <2>5. AtInterface'
    <3>1. SUFFICES ASSUME NEW u \in Threads, u # t
                   PROVE  /\ pc'[u] \in {"build", "describe", "remember", "keep"}
                               => iid'[u] \in Answers[comp'[u]]
                          /\ pc'[u] \in {"remember", "keep"} => iid'[u] \in Scriptable
                          /\ pc'[u] = "keep" => iid'[u] \in infos'[comp'[u]]
      BY <2>4 DEF AtInterface
    <3>2. pc'[u] = pc[u] /\ iid'[u] = iid[u] /\ comp'[u] = comp[u]
      BY <1>1, <3>1, OthersStay
    <3>3. ASSUME pc[u] = "keep" PROVE infos[comp[u]] \subseteq infos'[comp[u]]
      <4>1. comp[u] \in Components
        BY <3>3, AtHand DEF At
      <4>2. Make(t) => comp'[t] # comp[u]
        <5>1. (Make(t) => op'[t] = "make" /\ ~At(t, "idle")') /\ ~At(u, "idle")'
          BY <3>2, <3>3 DEF Make, Call, At, Goto, TypeOK, CallTypes
        <5> QED
          BY <3>1, <3>2, <5>1, StepControl DEF Control, MadeByOne
      <4> QED
        BY <1>1, <4>1, <4>2, InfosStep
    <3> QED
      BY <3>2, <3>3 DEF Truth, AtInterface
  <2> QED
    BY <2>1, <2>2, <2>3, <2>5 DEF Truth, CacheScriptable
<1>2. CASE OfShutdown
  BY <1>2 DEF OfShutdown, Truth, AnswersTrue, CacheScriptable, AtInterface, HeldHasInfo,
     client, caches, locals
<1> QED
  BY <1>1, <1>2, StepKinds

-----------------------------------------------------------------------------
(* Names *)

\* i comes from c, or from a Component of the same contract.
Known(c, i) ==
  \E d \in Components :
    /\ d = c \/ (d \in made /\ Contract[d] = Contract[c] /\ Contract[d] # None)
    /\ i \in Answers[d] \cap infos[d]

\* i has the name n, and has been described unless the caches are empty again.
Provides(c, n, i) ==
  /\ n \in Members[i] \cup Native[i]
  /\ i \in Scriptable
  /\ i \in interface_cache \/ cleared
  /\ Known(c, i)

NamesTrue ==
  \A c \in Components, n \in Names :
    names[c][n] # None => Provides(c, n, names[c][n])

\* What is being, or has been, put into _interfaces_ has been described.
DescribedWhenHeld ==
  /\ \A c \in Components, i \in Iids :
       interfaces[c][i] = "held" => i \in interface_cache \/ cleared
  /\ \A t \in Threads :
       pc[t] \in {"remember", "keep"} => iid[t] \in interface_cache \/ cleared

\* The cache has the Components of a contract under it.
CacheOfContract ==
  /\ \A t \in Threads : Reads(t) => At(t, "ask") \/ cid[t] \in {None, Contract[comp[t]]}
  /\ \A k \in Contracts : contractid_info_cache[k] # None =>
       /\ contractid_info_cache[k] \in made
       /\ Contract[contractid_info_cache[k]] = k

Learnt == NamesTrue /\ DescribedWhenHeld /\ CacheOfContract

LEMMA InitLearnt == Init => Learnt
  BY DEF Init, Learnt, NamesTrue, DescribedWhenHeld, CacheOfContract, Nothing, Unasked,
     Reads, Querying, At

\* What no step takes from a Component that has been made.
Grows ==
  /\ made \subseteq made'
  /\ cleared => cleared'
  /\ interface_cache \subseteq interface_cache' \/ cleared'
  /\ \A c \in made :
       /\ infos[c] \subseteq infos'[c]
       /\ \A i \in Iids :
            /\ interfaces[c][i] = "held" => interfaces'[c][i] = "held"
            /\ interfaces[c][i] # "unknown" => interfaces'[c][i] # "unknown"
       /\ \A n \in Names : names[c][n] # None => names'[c][n] # None

\* What a step of t does to the names of a Component.
LEMMA NamesStep ==
  ASSUME TypeOK, NEW t \in Threads, Make(t) \/ Use(t) \/ Step(t),
         NEW c \in Components, NEW n \in Names
  PROVE  \/ Make(t) /\ comp'[t] = c /\ c \notin made /\ names'[c][n] = None
         \/ names'[c][n] = names[c][n]
         \/ /\ comp[t] = c
            /\ \/ /\ Remember(t) /\ n \in Members[iid[t]]
                  /\ names'[c][n] = iid[t]
               \/ /\ AskClassInfo(t) /\ Contract[c] # None
                  /\ contractid_info_cache[Contract[c]] # None
                  /\ names[contractid_info_cache[Contract[c]]][n] # None
                  /\ names'[c][n] = names[contractid_info_cache[Contract[c]]][n]
               \/ \E i \in Iids :
                    /\ Search(t) /\ interfaces[c][i] = "held"
                    /\ n \in Members[i] \cup Native[i]
                    /\ names'[c][n] = i
<1>1. CASE Make(t)
  <2>1. PICK r \in Requests[t] :
          /\ r.comp \notin made /\ Call(t, r)
          /\ names' = [names EXCEPT ![r.comp] = Nothing]
    BY <1>1 DEF Make
  <2>2. comp'[t] = r.comp
    BY <2>1 DEF Call, TypeOK, CallTypes
  <2> QED
    BY <1>1, <2>1, <2>2 DEF TypeOK, ClientTypes, Nothing
<1>2. CASE Remember(t)
  <2>1. /\ comp[t] \in Components
        /\ names' = [names EXCEPT ![comp[t]] = WithMembers(@, iid[t])]
    BY <1>2, AtHand DEF Remember, At
  <2>2. CASE comp[t] = c
    <3>1. names'[c][n] = IF n \in Members[iid[t]] THEN iid[t] ELSE names[c][n]
      BY <2>1, <2>2 DEF TypeOK, ClientTypes, WithMembers
    <3> QED
      BY <1>2, <2>2, <3>1
  <2>3. CASE comp[t] # c
    BY <2>1, <2>3 DEF TypeOK, ClientTypes
  <2> QED
    BY <2>2, <2>3
<1>3. CASE AskClassInfo(t)
  <2> DEFINE d == contractid_info_cache[Contract[comp[t]]]
  <2>1. comp[t] \in Components
    BY <1>3, AtHand DEF AskClassInfo, At
  <2>2. \/ names' = names
        \/ /\ Contract[comp[t]] # None /\ d # None
           /\ names' = [names EXCEPT ![comp[t]] = WithNames(@, names[d])]
    BY <1>3 DEF AskClassInfo, List
  <2>3. CASE comp[t] = c /\ names' # names
    <3>1. names'[c][n] = IF names[d][n] # None THEN names[d][n] ELSE names[c][n]
      BY <2>1, <2>2, <2>3 DEF TypeOK, ClientTypes, WithNames
    <3> QED
      BY <1>3, <2>2, <2>3, <3>1
  <2>4. CASE comp[t] # c \/ names' = names
    BY <2>1, <2>2, <2>4 DEF TypeOK, ClientTypes
  <2> QED
    BY <2>3, <2>4
<1>4. CASE Search(t)
  <2>1. comp[t] \in Components
    BY <1>4, AtHand DEF Search, At
  <2>2. \/ names' = names
        \/ \E i \in Iids :
             /\ interfaces[comp[t]][i] = "held"
             /\ attr[t] \in Members[i] \cup Native[i]
             /\ names' = [names EXCEPT ![comp[t]] = [@ EXCEPT ![attr[t]] = i]]
    BY <1>4 DEF Search
  <2>3. CASE names' = names
    BY <2>3
  <2>4. CASE names' # names
    <3>1. PICK i \in Iids :
             /\ interfaces[comp[t]][i] = "held"
             /\ attr[t] \in Members[i] \cup Native[i]
             /\ names' = [names EXCEPT ![comp[t]] = [@ EXCEPT ![attr[t]] = i]]
      BY <2>2, <2>4
    <3>2. CASE comp[t] = c /\ attr[t] = n
      <4>1. names'[c][n] = i
        BY <2>1, <3>1, <3>2 DEF TypeOK, ClientTypes
      <4> QED
        BY <1>4, <3>1, <3>2, <4>1
    <3>3. CASE ~(comp[t] = c /\ attr[t] = n)
      <4>1. names'[c][n] = names[c][n]
        BY <2>1, <3>1, <3>3 DEF TypeOK, ClientTypes
      <4> QED
        BY <4>1
    <3> QED
      BY <3>2, <3>3
  <2> QED
    BY <2>3, <2>4
<1>5. CASE names' = names
  BY <1>5
<1>6. names' = names \/ Make(t) \/ Remember(t) \/ AskClassInfo(t) \/ Search(t)
  BY DEF Step, client, Use, Finish, QueryInterface, RealQI, BuildInterfaceInfo,
     Describe, Keep, TryClassInfo, Nominate, CacheClassInfo, LookUp, Built,
     Deliver, Fetch
<1> QED
  BY <1>1, <1>2, <1>3, <1>4, <1>5, <1>6

LEMMA StepGrows ==
  ASSUME TypeOK, Control, Truth, Learnt, [Next]_vars
  PROVE  Grows
<1>1. ASSUME NEW t \in Threads, Make(t) \/ Use(t) \/ Step(t) PROVE Grows
  <2>1. /\ made \subseteq made' /\ cleared' = cleared
        /\ interface_cache \subseteq interface_cache'
    BY <1>1, ShutdownUnchanged DEF Step, Call, shutdown, client, caches, Make, Use,
       Finish, QueryInterface, RealQI, BuildInterfaceInfo, Describe, Remember, Keep,
       TryClassInfo, AskClassInfo, Nominate, CacheClassInfo, LookUp, Built, Deliver,
       Fetch, Search
  <2>2. SUFFICES ASSUME NEW c \in made
                 PROVE  /\ infos[c] \subseteq infos'[c]
                        /\ \A i \in Iids :
                             /\ interfaces[c][i] = "held" => interfaces'[c][i] = "held"
                             /\ interfaces[c][i] # "unknown" => interfaces'[c][i] # "unknown"
                        /\ \A n \in Names : names[c][n] # None => names'[c][n] # None
    BY <2>1 DEF Grows
  <2>3. c \in Components
    BY DEF TypeOK, ClientTypes
  <2>4. infos[c] \subseteq infos'[c]
    BY <1>1, <2>3, InfosStep
  <2>5. ASSUME NEW i \in Iids
        PROVE  /\ interfaces[c][i] = "held" => interfaces'[c][i] = "held"
               /\ interfaces[c][i] # "unknown" => interfaces'[c][i] # "unknown"
    BY <1>1, <2>3, InterfacesStep DEF Truth, AnswersTrue
  <2>6. ASSUME NEW n \in Names, names[c][n] # None PROVE names'[c][n] # None
    <3>1. Remember(t) => iid[t] # None
      BY AtHand, NoneAssumption DEF Remember, At, Querying
    <3> QED
      BY <1>1, <2>3, <2>6, <3>1, NamesStep, NoneAssumption
  <2> QED
    BY <2>4, <2>5, <2>6
<1>2. CASE OfShutdown
  BY <1>2 DEF OfShutdown, Grows, client, caches
<1> QED
  BY <1>1, <1>2, StepKinds

\* What provides a name goes on providing it.
LEMMA ProvidesKept ==
  ASSUME Grows, NEW c \in Components, NEW n \in Names, NEW i \in Iids,
         infos[c] \subseteq infos'[c], Provides(c, n, i)
  PROVE  Provides(c, n, i)'
<1>1. PICK d \in Components :
         /\ d = c \/ (d \in made /\ Contract[d] = Contract[c] /\ Contract[d] # None)
         /\ i \in Answers[d] \cap infos[d]
  BY DEF Provides, Known
<1>2. infos[d] \subseteq infos'[d] /\ (d \in made => d \in made')
  BY <1>1 DEF Grows
<1>3. Known(c, i)'
  BY <1>1, <1>2 DEF Known
<1> QED
  BY <1>3 DEF Provides, Grows

\* An object of the same contract passes on what it has.
LEMMA ProvidesPassed ==
  ASSUME NEW c \in Components, NEW d \in made, Contract[d] = Contract[c],
         Contract[d] # None, NEW n, NEW i, d \in Components, Provides(d, n, i)
  PROVE  Provides(c, n, i)
<1>1. PICK e \in Components :
         /\ e = d \/ (e \in made /\ Contract[e] = Contract[d] /\ Contract[e] # None)
         /\ i \in Answers[e] \cap infos[e]
  BY DEF Provides, Known
<1>2. Known(c, i)
  BY <1>1 DEF Known
<1> QED
  BY <1>2 DEF Provides

LEMMA StepLearnt == TypeOK /\ Control /\ Truth /\ Learnt /\ [Next]_vars => Learnt'
<1> SUFFICES ASSUME TypeOK, Control, Truth, Learnt, [Next]_vars PROVE Learnt'
  OBVIOUS
<1>1. Grows /\ TypeOK' /\ Control'
  BY StepGrows, StepType, StepControl
<1>2. ASSUME NEW t \in Threads, Make(t) \/ Use(t) \/ Step(t) PROVE Learnt'
  <2>1. NamesTrue'
    <3>1. SUFFICES ASSUME NEW c \in Components, NEW n \in Names, NEW i \in Iids,
                          names'[c][n] = i
                   PROVE  Provides(c, n, i)'
      BY <1>1 DEF NamesTrue, TypeOK, ClientTypes
    <3>2. i # None
      BY NoneAssumption
    <3>3. infos[c] \subseteq infos'[c]
      <4>1. CASE Make(t) /\ comp'[t] = c
        <5>1. PICK r \in Requests[t] :
                Call(t, r) /\ names' = [names EXCEPT ![r.comp] = Nothing]
          BY <4>1 DEF Make
        <5>2. r.comp = c
          BY <4>1, <5>1 DEF Call, TypeOK, CallTypes
        <5> QED
          BY <3>1, <3>2, <5>1, <5>2 DEF TypeOK, ClientTypes, Nothing
      <4> QED
        BY <1>2, <4>1, InfosStep
    <3>4. CASE names'[c][n] = names[c][n]
      <4>1. Provides(c, n, i)
        BY <3>1, <3>2, <3>4 DEF Learnt, NamesTrue
      <4> QED
        BY <1>1, <3>3, <4>1, ProvidesKept
    <3>5. CASE Remember(t) /\ comp[t] = c /\ n \in Members[iid[t]] /\ names'[c][n] = iid[t]
      <4>1. /\ iid[t] \in Iids /\ iid[t] \in Answers[c] \cap Scriptable
            /\ iid[t] \in interface_cache \/ cleared
        BY <3>5, AtHand DEF Remember, At, Querying, Truth, AtInterface, Learnt,
           DescribedWhenHeld
      <4>2. iid[t] \in infos'[c]
        BY <3>5 DEF Remember, TypeOK, ClientTypes
      <4>3. iid[t] \in interface_cache' \/ cleared'
        BY <1>1, <4>1 DEF Grows
      <4> QED
        BY <3>1, <3>5, <4>1, <4>2, <4>3 DEF Provides, Known
    <3>6. CASE /\ AskClassInfo(t) /\ comp[t] = c /\ Contract[c] # None
               /\ contractid_info_cache[Contract[c]] # None
               /\ names[contractid_info_cache[Contract[c]]][n] # None
               /\ names'[c][n] = names[contractid_info_cache[Contract[c]]][n]
      <4> DEFINE d == contractid_info_cache[Contract[c]]
      <4>1. d \in made /\ Contract[d] = Contract[c] /\ d \in Components
        BY <3>6, ObjectsAssumption DEF Learnt, CacheOfContract, TypeOK, ClientTypes
      <4>2. Provides(d, n, names[d][n])
        BY <3>6, <4>1 DEF Learnt, NamesTrue
      <4>3. Provides(c, n, names[d][n])
        BY <3>6, <4>1, <4>2, ProvidesPassed
      <4> QED
        BY <1>1, <3>1, <3>3, <3>6, <4>3, ProvidesKept
    <3>7. CASE /\ Search(t) /\ interfaces[c][i] = "held"
               /\ n \in Members[i] \cup Native[i]
      <4>1. i \in Answers[c] \cap Scriptable \cap infos[c]
        BY <3>7 DEF Truth, AnswersTrue, HeldHasInfo
      <4>2. i \in interface_cache \/ cleared
        BY <3>7 DEF Learnt, DescribedWhenHeld
      <4>3. Provides(c, n, i)
        BY <3>7, <4>1, <4>2 DEF Provides, Known
      <4> QED
        BY <1>1, <3>3, <4>3, ProvidesKept
    <3> QED
      BY <1>2, <3>1, <3>2, <3>4, <3>5, <3>6, <3>7, NamesStep
  <2>2. DescribedWhenHeld'
    <3>1. Keep(t) => iid[t] \in interface_cache \/ cleared
      BY DEF Keep, At, Learnt, DescribedWhenHeld
    <3>2. ASSUME NEW c \in Components, NEW i \in Iids, interfaces'[c][i] = "held"
          PROVE  i \in interface_cache' \/ cleared'
      <4>1. interfaces[c][i] = "held" \/ (Keep(t) /\ iid[t] = i)
        BY <1>2, <3>2, InterfacesStep
      <4> QED
        BY <1>1, <3>1, <4>1 DEF Grows, Learnt, DescribedWhenHeld
    <3>3. pc'[t] \in {"remember", "keep"} => iid'[t] \in interface_cache' \/ cleared'
      <4>1. pc'[t] \in {"remember", "keep"}
              => BuildInterfaceInfo(t) \/ Describe(t) \/ Remember(t)
        <5>1. CASE Make(t)
          BY <5>1 DEF Make, Call, Goto, Return, At, Querying, TypeOK, CallTypes,
             locals
        <5>2. CASE Use(t)
          BY <5>2 DEF Use, Call, Goto, Return, At, Querying, TypeOK, CallTypes,
             locals
        <5>3. CASE Finish(t)
          BY <5>3 DEF Finish, Goto, Return, At, Querying, TypeOK, CallTypes, locals
        <5>4. CASE QueryInterface(t)
          BY <5>4, AtHand DEF QueryInterface, Raise, BuildRaises, COMExceptions,
             Goto, Return, At, Querying, TypeOK, CallTypes, locals
        <5>5. CASE RealQI(t)
          BY <5>5 DEF RealQI, Raise, BuildRaises, COMExceptions, Goto, Return, At,
             Querying, TypeOK, CallTypes, locals
        <5>6. CASE Keep(t)
          BY <5>6, AtHand DEF Keep, Goto, Return, At, Querying, TypeOK, CallTypes,
             locals
        <5>7. CASE TryClassInfo(t)
          BY <5>7 DEF TryClassInfo, BuildRaises, Goto, Return, At, Querying,
             TypeOK, CallTypes, locals
        <5>8. CASE AskClassInfo(t)
          BY <5>8 DEF AskClassInfo, List, Goto, Return, At, Querying, TypeOK,
             CallTypes, locals
        <5>9. CASE Nominate(t)
          BY <5>9 DEF Nominate, Goto, Return, At, Querying, TypeOK, CallTypes,
             locals
        <5>10. CASE CacheClassInfo(t)
          BY <5>10 DEF CacheClassInfo, Goto, Return, At, Querying, TypeOK,
             CallTypes, locals
        <5>11. CASE LookUp(t)
          BY <5>11 DEF LookUp, Goto, Return, At, Querying, TypeOK, CallTypes,
             locals
        <5>12. CASE Built(t)
          BY <5>12 DEF Built, Goto, Return, At, Querying, TypeOK, CallTypes, locals
        <5>13. CASE Deliver(t)
          BY <5>13 DEF Deliver, Goto, Return, At, Querying, TypeOK, CallTypes,
             locals
        <5>14. CASE Fetch(t)
          BY <5>14 DEF Fetch, Goto, Return, At, Querying, TypeOK, CallTypes, locals
        <5>15. CASE Search(t)
          BY <5>15 DEF Search, Goto, Return, At, Querying, TypeOK, CallTypes,
             locals
        <5> QED
          BY <1>2, <5>1, <5>2, <5>3, <5>4, <5>5, <5>6, <5>7, <5>8, <5>9, <5>10,
             <5>11, <5>12, <5>13, <5>14, <5>15 DEF Step
      <4>2. CASE BuildInterfaceInfo(t)
        BY <4>2 DEF BuildInterfaceInfo, Raise, BuildRaises, Goto, Return, At, TypeOK,
           CallTypes, locals, caches
      <4>3. CASE Describe(t)
        BY <4>3, AtHand DEF Describe, Goto, At, Querying, TypeOK, CallTypes, locals
      <4>4. CASE Remember(t)
        BY <4>4 DEF Remember, Goto, At, locals, caches, shutdown, Learnt,
           DescribedWhenHeld
      <4> QED
        BY <4>1, <4>2, <4>3, <4>4
    <3>4. ASSUME NEW u \in Threads, u # t, pc'[u] \in {"remember", "keep"}
          PROVE  iid'[u] \in interface_cache' \/ cleared'
      BY <1>1, <1>2, <3>4, OthersStay DEF Grows, Learnt, DescribedWhenHeld
    <3> QED
      BY <3>2, <3>3, <3>4 DEF DescribedWhenHeld
  <2>3. CacheOfContract'
    <3>1. Reads(t)' => At(t, "ask")' \/ cid'[t] \in {None, Contract[comp'[t]]}
      <4>1. CASE Make(t)
        BY <4>1 DEF Make, Call, Goto, Return, At, Reads, Querying, TypeOK,
           CallTypes, Control, CallsAgree, Learnt, CacheOfContract, locals
      <4>2. CASE Use(t)
        BY <4>2 DEF Use, Call, Goto, Return, At, Reads, Querying, TypeOK,
           CallTypes, Control, CallsAgree, Learnt, CacheOfContract, locals
      <4>3. CASE Finish(t)
        BY <4>3 DEF Finish, Goto, Return, At, Reads, Querying, TypeOK, CallTypes,
           Control, CallsAgree, Learnt, CacheOfContract, locals
      <4>4. CASE QueryInterface(t) \/ RealQI(t) \/ BuildInterfaceInfo(t)
        <5>1. /\ UNCHANGED locals /\ pc[t] \in {"query", "answer", "build"}
              /\ pc'[t] \in {"answer", "build", "describe", "remember", "return", back[t]}
          BY <4>4, Queried
        <5>2. back[t] \in {"return", "nominate", "fetch"}
          BY <5>1, AtHand DEF Querying
        <5> QED
          BY <5>1, <5>2 DEF At, Reads, Querying, Learnt, CacheOfContract, locals
      <4>7. CASE Describe(t)
        BY <4>7 DEF Describe, Goto, Return, At, Reads, Querying, TypeOK, CallTypes,
           Control, CallsAgree, Learnt, CacheOfContract, locals
      <4>8. CASE Remember(t)
        BY <4>8 DEF Remember, Goto, Return, At, Reads, Querying, TypeOK, CallTypes,
           Control, CallsAgree, Learnt, CacheOfContract, locals
      <4>9. CASE Keep(t)
        BY <4>9 DEF Keep, Goto, Return, At, Reads, Querying, TypeOK, CallTypes,
           Control, CallsAgree, Learnt, CacheOfContract, locals
      <4>10. CASE TryClassInfo(t)
        BY <4>10 DEF TryClassInfo, BuildRaises, Goto, Return, At, Reads, Querying,
           TypeOK, CallTypes, Control, CallsAgree, Learnt, CacheOfContract, locals
      <4>11. CASE AskClassInfo(t)
        BY <4>11 DEF AskClassInfo, List, Goto, Return, At, Reads, Querying, TypeOK,
           CallTypes, Control, CallsAgree, Learnt, CacheOfContract, locals
      <4>12. CASE Nominate(t)
        BY <4>12 DEF Nominate, Goto, Return, At, Reads, Querying, TypeOK,
           CallTypes, Control, CallsAgree, Learnt, CacheOfContract, locals
      <4>13. CASE CacheClassInfo(t)
        BY <4>13 DEF CacheClassInfo, Goto, Return, At, Reads, Querying, TypeOK,
           CallTypes, Control, CallsAgree, Learnt, CacheOfContract, locals
      <4>14. CASE LookUp(t)
        BY <4>14 DEF LookUp, Goto, Return, At, Reads, Querying, TypeOK, CallTypes,
           Control, CallsAgree, Learnt, CacheOfContract, locals
      <4>15. CASE Built(t)
        BY <4>15 DEF Built, Goto, Return, At, Reads, Querying, TypeOK, CallTypes,
           Control, CallsAgree, Learnt, CacheOfContract, locals
      <4>16. CASE Deliver(t)
        BY <4>16 DEF Deliver, Goto, Return, At, Reads, Querying, TypeOK, CallTypes,
           Control, CallsAgree, Learnt, CacheOfContract, locals
      <4>17. CASE Fetch(t)
        BY <4>17 DEF Fetch, Goto, Return, At, Reads, Querying, TypeOK, CallTypes,
           Control, CallsAgree, Learnt, CacheOfContract, locals
      <4>18. CASE Search(t)
        BY <4>18 DEF Search, Goto, Return, At, Reads, Querying, TypeOK, CallTypes,
           Control, CallsAgree, Learnt, CacheOfContract, locals
      <4> QED
        BY <1>2, <4>1, <4>2, <4>3, <4>4, <4>7, <4>8, <4>9, <4>10, <4>11, <4>12,
           <4>13, <4>14, <4>15, <4>16, <4>17, <4>18 DEF Step
    <3>2. ASSUME NEW u \in Threads, u # t, Reads(u)'
          PROVE  At(u, "ask")' \/ cid'[u] \in {None, Contract[comp'[u]]}
      BY <1>2, <3>2, OthersStay DEF Reads, At, Learnt, CacheOfContract
    <3>3. ASSUME NEW k \in Contracts, contractid_info_cache'[k] # None
          PROVE  /\ contractid_info_cache'[k] \in made'
                 /\ Contract[contractid_info_cache'[k]] = k
      <4>1. CASE contractid_info_cache' = contractid_info_cache
        BY <1>1, <3>3, <4>1 DEF Grows, Learnt, CacheOfContract
      <4>2. CASE CacheClassInfo(t)
        <5>1. contractid_info_cache'[k] \in {contractid_info_cache[k], comp[t]}
              /\ (contractid_info_cache'[k] # contractid_info_cache[k] => k = cid[t])
          BY <4>2 DEF CacheClassInfo
        <5>2. comp[t] \in made /\ cid[t] \in {None, Contract[comp[t]]}
          BY <4>2 DEF CacheClassInfo, At, Control, CallsAgree, MadeWhenUsed,
             UsesAttribute,
             Learnt, CacheOfContract, Reads
        <5> QED
          BY <1>1, <3>3, <5>1, <5>2, NoneAssumption DEF Grows, Learnt, CacheOfContract
      <4>3. contractid_info_cache' = contractid_info_cache \/ CacheClassInfo(t)
        BY <1>2 DEF Step, Call, caches, Make, Use, Finish, QueryInterface, RealQI,
           BuildInterfaceInfo, Describe, Remember, Keep, TryClassInfo, AskClassInfo,
           Nominate, LookUp, Built, Deliver, Fetch, Search
      <4> QED
        BY <4>1, <4>2, <4>3
    <3> QED
      BY <3>1, <3>2, <3>3 DEF CacheOfContract
  <2> QED
    BY <2>1, <2>2, <2>3 DEF Learnt
<1>3. CASE OfShutdown
  <2>1. UNCHANGED <<made, infos, names, interfaces, pc, iid, comp, cid, back>>
    BY <1>3 DEF OfShutdown, client, locals
  <2>2. NamesTrue'
    <3>1. SUFFICES ASSUME NEW c \in Components, NEW n \in Names, NEW i \in Iids,
                          names'[c][n] = i
                   PROVE  Provides(c, n, i)'
      BY <1>1 DEF NamesTrue, TypeOK, ClientTypes
    <3>2. Provides(c, n, i)
      BY <2>1, <3>1, NoneAssumption DEF Learnt, NamesTrue
    <3> QED
      BY <1>1, <2>1, <3>2, ProvidesKept
  <2>3. DescribedWhenHeld'
    BY <1>1, <2>1 DEF Grows, Learnt, DescribedWhenHeld
  <2>4. CacheOfContract'
    BY <1>3, <2>1 DEF OfShutdown, caches, Learnt, CacheOfContract, Reads, At
  <2> QED
    BY <2>2, <2>3, <2>4 DEF Learnt
<1> QED
  BY <1>2, <1>3, StepKinds

-----------------------------------------------------------------------------
(* Attributes *)

\* What t is about to reach has the name, and what it returns is explained.
Delivered(t) ==
  /\ ~At(t, "idle") /\ ~At(t, "return") => result[t] = "done"
  /\ Delivering(t) => Provides(comp[t], attr[t], iid[t])
  /\ At(t, "describe") /\ back[t] = "fetch" => cleared
  /\ At(t, "fetch") => cleared \/ interfaces[comp[t]][iid[t]] # "unknown"
  /\ At(t, "return") /\ op[t] \in {"get", "set"} /\ result[t] = "no interface" =>
       /\ attr[t] \in Names
       /\ iid[t] \notin Answers[comp[t]] /\ Provides(comp[t], attr[t], iid[t])
  /\ At(t, "return") /\ op[t] \in {"get", "set"} /\ attr[t] \in Names
       /\ result[t] \in {"done", "no interface"} => iid[t] \in Iids

Delivery == (\A t \in Threads : Delivered(t)) /\ RightInterface /\ NoKeyError

LEMMA InitDelivery == Init => Delivery
  BY DEF Init, Delivery, Delivered, RightInterface, NoKeyError, At, Delivering, Querying

\* How a step of t changes what t is at.
LEMMA DeliveringStep ==
  ASSUME TypeOK, Control, Truth, NEW t \in Threads, Make(t) \/ Use(t) \/ Step(t),
         Delivering(t)'
  PROVE  /\ comp'[t] = comp[t] /\ attr'[t] = attr[t]
         /\ attr[t] \in Names /\ comp[t] \in Components /\ comp[t] \in made
         /\ \/ Delivering(t) /\ iid'[t] = iid[t]
            \/ iid'[t] # None /\ iid'[t] = names[comp[t]][attr[t]] /\ UNCHANGED names
<1>2. CASE Make(t)
  BY <1>2, AtHand DEF Make, Call, Goto, Return, At, Delivering, Querying, TypeOK,
     CallTypes, Control, CallsAgree, MadeWhenUsed, client, locals
<1>3. CASE Use(t)
  BY <1>3, AtHand DEF Use, Call, Goto, Return, At, Delivering, Querying, TypeOK,
     CallTypes, Control, CallsAgree, MadeWhenUsed, client, locals
<1>4. CASE Finish(t)
  BY <1>4, AtHand DEF Finish, Goto, Return, At, Delivering, Querying, TypeOK,
     CallTypes, Control, CallsAgree, MadeWhenUsed, client, locals
<1>5. CASE QueryInterface(t)
  BY <1>5, AtHand DEF QueryInterface, Raise, BuildRaises, COMExceptions, Goto,
     Return, At, Delivering, Querying, TypeOK, CallTypes, Control, CallsAgree,
     MadeWhenUsed, client, locals
<1>6. CASE RealQI(t)
  BY <1>6, AtHand DEF RealQI, Raise, BuildRaises, COMExceptions, Goto, Return, At,
     Delivering, Querying, TypeOK, CallTypes, Control, CallsAgree, MadeWhenUsed,
     client, locals
<1>7. CASE BuildInterfaceInfo(t)
  BY <1>7, AtHand DEF BuildInterfaceInfo, Raise, BuildRaises, COMExceptions, Goto,
     Return, At, Delivering, Querying, TypeOK, CallTypes, Control, CallsAgree,
     MadeWhenUsed, client, locals
<1>8. CASE Describe(t)
  BY <1>8, AtHand DEF Describe, Goto, Return, At, Delivering, Querying, TypeOK,
     CallTypes, Control, CallsAgree, MadeWhenUsed, client, locals
<1>9. CASE Remember(t)
  BY <1>9, AtHand DEF Remember, Goto, Return, At, Delivering, Querying, TypeOK,
     CallTypes, Control, CallsAgree, MadeWhenUsed, client, locals
<1>10. CASE Keep(t)
  BY <1>10, AtHand DEF Keep, Goto, Return, At, Delivering, Querying, TypeOK,
     CallTypes, Control, CallsAgree, MadeWhenUsed, client, locals
<1>11. CASE TryClassInfo(t)
  BY <1>11, AtHand DEF TryClassInfo, BuildRaises, Goto, Return, At, Delivering,
     Querying, TypeOK, CallTypes, Control, CallsAgree, MadeWhenUsed, client, locals
<1>12. CASE AskClassInfo(t)
  BY <1>12, AtHand DEF AskClassInfo, List, Goto, Return, At, Delivering, Querying,
     TypeOK, CallTypes, Control, CallsAgree, MadeWhenUsed, client, locals
<1>13. CASE Nominate(t)
  BY <1>13, AtHand, NoneAssumption DEF Nominate, Goto, Return, At, Delivering,
     Querying, TypeOK, CallTypes, Control, CallsAgree, MadeWhenUsed, client, locals
<1>14. CASE CacheClassInfo(t)
  BY <1>14, AtHand DEF CacheClassInfo, Goto, Return, At, Delivering, Querying,
     TypeOK, CallTypes, Control, CallsAgree, MadeWhenUsed, client, locals
<1>15. CASE LookUp(t)
  BY <1>15, AtHand, NoneAssumption DEF LookUp, IidOf, Goto, Return, At, Delivering,
     Querying, TypeOK, CallTypes, Control, CallsAgree, MadeWhenUsed, client, locals
<1>16. CASE Built(t)
  BY <1>16, AtHand, NoneAssumption DEF Built, IidOf, Goto, Return, At, Delivering,
     Querying, TypeOK, CallTypes, Control, CallsAgree, MadeWhenUsed, client, locals
<1>17. CASE Deliver(t)
  BY <1>17, AtHand, NoneAssumption DEF Deliver, Goto, Return, At, Delivering,
     Querying, TypeOK, CallTypes, Control, CallsAgree, MadeWhenUsed, client, locals
<1>18. CASE Fetch(t)
  BY <1>18, AtHand DEF Fetch, Goto, Return, At, Delivering, Querying, TypeOK,
     CallTypes, Control, CallsAgree, MadeWhenUsed, client, locals
<1>19. CASE Search(t)
  BY <1>19, AtHand DEF Search, Goto, Return, At, Delivering, Querying, TypeOK,
     CallTypes, Control, CallsAgree, MadeWhenUsed, client, locals
<1> QED
  BY <1>2, <1>3, <1>4, <1>5, <1>6, <1>7, <1>8, <1>9, <1>10, <1>11, <1>12, <1>13,
     <1>14, <1>15, <1>16, <1>17, <1>18, <1>19 DEF Step

LEMMA ReturnStep ==
  ASSUME TypeOK, Control, Truth, Learnt, Delivery, NEW t \in Threads,
         Make(t) \/ Use(t) \/ Step(t)
  PROVE  /\ ~At(t, "idle")' /\ ~At(t, "return")' => result'[t] = "done"
         /\ At(t, "return")' /\ result'[t] = "KeyError" => Fetch(t)
         /\ At(t, "return")' /\ op'[t] \in {"get", "set"} /\ result'[t] = "no interface" =>
              /\ Delivering(t) /\ iid[t] \notin Answers[comp[t]]
              /\ UNCHANGED locals
         /\ At(t, "return")' /\ op'[t] \in {"get", "set"} /\ result'[t] = "done"
              /\ attr'[t] \in Names => Deliver(t) \/ Fetch(t) \/ Search(t)
<1>1. CASE Make(t) \/ Use(t)
  <2>1. pc'[t] \in {"query", "lookup"}
    BY <1>1 DEF Make, Use, Goto, TypeOK, CallTypes
  <2>2. result'[t] = "done"
    BY <1>1 DEF Make, Use, Call, TypeOK, CallTypes
  <2> QED
    BY <2>1, <2>2 DEF At
<1>3. CASE Finish(t)
  BY <1>3 DEF Finish, Goto, At, TypeOK, CallTypes
<1>4. CASE QueryInterface(t) \/ RealQI(t) \/ BuildInterfaceInfo(t)
  <2>1. /\ UNCHANGED locals /\ pc[t] \in Querying
        /\ ~At(t, "idle") /\ ~At(t, "return")
    BY <1>4, Queried DEF Querying, At
  <2>2. /\ comp[t] \in Components /\ iid[t] \in Iids
        /\ back[t] \in {"return", "nominate", "fetch"}
    BY <2>1, AtHand
  <2>3. result[t] = "done"
    BY <2>1 DEF Delivery, Delivered
  <2>4. back[t] = "return" => op[t] \in {"make", "query"}
    BY <2>1 DEF Control, CallsAgree
  <2>6. /\ pc'[t] # "return" => result' = result
        /\ pc'[t] = "return" => result'[t] # "KeyError"
        /\ pc'[t] = "return" /\ result'[t] = "no interface" =>
             back[t] # "nominate" /\ iid[t] \notin Answers[comp[t]]
    <3>1. interfaces[comp[t]][iid[t]] = "refused" => iid[t] \notin Answers[comp[t]]
      BY <2>2 DEF Truth, AnswersTrue
    <3> QED
      BY <1>4, <2>2, <2>3, <3>1, Queried
  <2>7. pc'[t] = "return" /\ op[t] \in {"get", "set"} => result'[t] # "done"
    BY <1>4, <2>2, <2>4, Queried
  <2> QED
    BY <2>1, <2>2, <2>3, <2>4, <2>6, <2>7 DEF At, Delivering, locals
<1>7. CASE Describe(t)
  BY <1>7 DEF Describe, Goto, Return, At, Delivering, Querying, UsesAttribute,
     TypeOK, CallTypes, Control, CallsAgree, Delivery, Delivered, locals
<1>8. CASE Remember(t)
  BY <1>8 DEF Remember, Goto, Return, At, Delivering, Querying, UsesAttribute,
     TypeOK, CallTypes, Control, CallsAgree, Delivery, Delivered, locals
<1>9. CASE Keep(t)
  BY <1>9 DEF Keep, Goto, Return, At, Delivering, Querying, UsesAttribute, TypeOK,
     CallTypes, Control, CallsAgree, Delivery, Delivered, locals
<1>10. CASE TryClassInfo(t)
  <2>1. /\ UNCHANGED locals /\ pc[t] = "classinfo"
        /\ \/ pc'[t] = "ask" /\ result' = result
           \/ pc'[t] = "return" /\ result'[t] = "AssertionError"
           \/ pc'[t] = "return" /\ op[t] = "dir" /\ result'[t] = "done"
    BY <1>10 DEF TryClassInfo, BuildRaises, Return, Goto, At, TypeOK, CallTypes
  <2>2. result[t] = "done"
    BY <2>1 DEF Delivery, Delivered, At
  <2> QED
    BY <2>1, <2>2 DEF At, locals
<1>11. CASE AskClassInfo(t)
  BY <1>11 DEF AskClassInfo, List, Goto, Return, At, Delivering, Querying,
     UsesAttribute, TypeOK, CallTypes, Control, CallsAgree, Delivery, Delivered,
     locals
<1>12. CASE Nominate(t)
  BY <1>12 DEF Nominate, Goto, Return, At, Delivering, Querying, UsesAttribute,
     TypeOK, CallTypes, Control, CallsAgree, Delivery, Delivered, locals
<1>13. CASE CacheClassInfo(t)
  BY <1>13 DEF CacheClassInfo, Goto, Return, At, Delivering, Querying,
     UsesAttribute, TypeOK, CallTypes, Control, CallsAgree, Delivery, Delivered,
     locals
<1>14. CASE LookUp(t)
  <2>1. \/ \E l \in {"deliver", "classinfo", "search"} : Goto(t, l) /\ UNCHANGED result
        \/ op[t] = "get" /\ attr[t] \in Iids /\ Return(t, "done")
        \/ op[t] = "set" /\ Return(t, "AttributeError")
        \/ op[t] \notin {"get", "set"} /\ Return(t, "done")
    BY <1>14 DEF LookUp, IsInterfaceName, Control, CallsAgree, At, UsesAttribute
  <2>2. op' = op /\ attr' = attr
    BY <1>14 DEF LookUp
  <2>3. result[t] = "done"
    BY <1>14 DEF LookUp, At, Delivery, Delivered
  <2>4. \/ pc'[t] \in {"deliver", "classinfo", "search"} /\ result'[t] = "done"
        \/ /\ pc'[t] = "return" /\ result'[t] \in {"done", "AttributeError"}
           /\ result'[t] = "done" => op[t] \notin {"get", "set"} \/ attr[t] \in Iids
    BY <2>1, <2>3 DEF Goto, Return, TypeOK, CallTypes
  <2> QED
    BY <2>2, <2>4, DisjointAssumption DEF At
<1>15. CASE Built(t)
  <2>1. \/ \E l \in {"deliver", "search"} : Goto(t, l) /\ UNCHANGED result
        \/ op[t] = "get" /\ attr[t] \in Iids /\ Return(t, "done")
        \/ \E what \in {"AttributeError", "AssertionError"} : Return(t, what)
        \/ op[t] \notin {"get", "set"} /\ Return(t, "done")
    BY <1>15 DEF Built, IsInterfaceName
  <2>2. op' = op /\ attr' = attr
    BY <1>15 DEF Built
  <2>3. result[t] = "done"
    BY <1>15 DEF Built, At, Delivery, Delivered
  <2>4. \/ pc'[t] \in {"deliver", "search"} /\ result'[t] = "done"
        \/ /\ pc'[t] = "return"
           /\ result'[t] \in {"done", "AttributeError", "AssertionError"}
           /\ result'[t] = "done" => op[t] \notin {"get", "set"} \/ attr[t] \in Iids
    BY <2>1, <2>3 DEF Goto, Return, TypeOK, CallTypes
  <2> QED
    BY <2>2, <2>4, DisjointAssumption DEF At
<1>16. CASE Deliver(t)
  <2>1. result[t] = "done"
    BY <1>16 DEF Deliver, At, Delivery, Delivered
  <2>2. result'[t] = "done" /\ (pc'[t] = "query" \/ pc'[t] = "return")
    BY <1>16, <2>1 DEF Deliver, Goto, Return, TypeOK, CallTypes
  <2> QED
    BY <1>16, <2>2 DEF At
<1>17. CASE Fetch(t)
  BY <1>17 DEF Fetch, Goto, Return, At, Delivering, Querying, UsesAttribute,
     TypeOK, CallTypes, Control, CallsAgree, Delivery, Delivered, locals
<1>18. CASE Search(t)
  BY <1>18 DEF Search, Goto, Return, At, Delivering, Querying, UsesAttribute,
     TypeOK, CallTypes, Control, CallsAgree, Delivery, Delivered, locals
<1> QED
  BY <1>1, <1>3, <1>4, <1>7, <1>8, <1>9, <1>10, <1>11, <1>12, <1>13, <1>14, <1>15,
     <1>16, <1>17, <1>18 DEF Step

\* Where a call that is done has got what it returns.
LEMMA DoneStep ==
  ASSUME TypeOK, Control, Truth, Learnt, Delivery, NEW t \in Threads,
         Deliver(t) \/ Fetch(t) \/ Search(t),
         At(t, "return")', result'[t] = "done", attr'[t] \in Names
  PROVE  /\ iid'[t] \in Iids
         /\ attr'[t] \in Members[iid'[t]] \cup Native[iid'[t]]
         /\ interfaces'[comp'[t]][iid'[t]] = "held"
<1>1. CASE Deliver(t)
  BY <1>1, AtHand DEF Deliver, client, Goto, Return, At, Delivering, TypeOK, CallTypes,
     Delivery, Delivered, Provides
<1>2. CASE Fetch(t)
  BY <1>2, AtHand DEF Fetch, client, locals, Goto, Return, At, Delivering, TypeOK,
     CallTypes, Delivery, Delivered, Provides
<1>3. CASE Search(t)
  BY <1>3, AtHand DEF Search, Goto, Return, At, TypeOK, CallTypes
<1> QED
  BY <1>1, <1>2, <1>3

\* An interface that is wanted for a name is described, unless the shutdown
\* has come; and it is in _interfaces_, one way or the other, in the end.
LEMMA DescribesFetched ==
  ASSUME TypeOK, Control, Truth, Learnt, Delivery, NEW t \in Threads,
         Make(t) \/ Use(t) \/ Step(t)
  PROVE  /\ At(t, "describe")' /\ back'[t] = "fetch" => cleared'
         /\ At(t, "fetch")' => cleared' \/ interfaces'[comp'[t]][iid'[t]] # "unknown"
<1>0. cleared' = cleared
  BY ShutdownUnchanged DEF shutdown
<1>1. CASE Make(t) \/ Use(t) \/ Finish(t) \/ Remember(t) \/ TryClassInfo(t)
             \/ AskClassInfo(t) \/ Nominate(t) \/ CacheClassInfo(t) \/ LookUp(t)
             \/ Built(t) \/ Deliver(t) \/ Fetch(t) \/ Search(t)
  <2>1. pc'[t] \notin {"describe", "fetch"}
    <3>1. CASE Make(t) \/ Use(t) \/ Finish(t) \/ Remember(t)
      BY <3>1 DEF Make, Use, Finish, Remember, Goto, TypeOK, CallTypes
    <3>2. CASE TryClassInfo(t) \/ AskClassInfo(t)
      BY <3>2 DEF TryClassInfo, AskClassInfo, BuildRaises, List, Return, Goto, TypeOK,
         CallTypes
    <3>3. CASE Nominate(t) \/ CacheClassInfo(t)
      BY <3>3 DEF Nominate, CacheClassInfo, At, Goto, TypeOK, CallTypes
    <3>4. CASE LookUp(t) \/ Built(t)
      BY <3>4 DEF LookUp, Built, Return, Goto, TypeOK, CallTypes
    <3>5. CASE Deliver(t) \/ Fetch(t) \/ Search(t)
      BY <3>5 DEF Deliver, Fetch, Search, Return, Goto, TypeOK, CallTypes
    <3> QED
      BY <1>1, <3>1, <3>2, <3>3, <3>4, <3>5
  <2> QED
    BY <2>1 DEF At
<1>2. CASE QueryInterface(t) \/ RealQI(t) \/ BuildInterfaceInfo(t)
  <2>1. UNCHANGED locals /\ pc[t] \in Querying
    BY <1>2, Queried DEF Querying
  <2>2. back[t] \in {"return", "nominate", "fetch"}
    BY <2>1, AtHand
  <2>3. ASSUME pc'[t] = "describe", back[t] = "fetch" PROVE cleared
    <3>1. iid[t] \notin interface_cache
      BY <1>2, <2>2, <2>3, Queried
    <3> QED
      BY <2>1, <2>3, <3>1 DEF Delivery, Delivered, Delivering, Provides
  <2>4. ASSUME pc'[t] = "fetch" PROVE interfaces'[comp[t]][iid[t]] = "held"
    <3>1. interfaces[comp[t]][iid[t]] = "held" /\ UNCHANGED interfaces
      BY <1>2, <2>2, <2>4, Queried
    <3> QED
      BY <3>1
  <2> QED
    BY <1>0, <2>1, <2>3, <2>4 DEF At, locals
<1>7. CASE Describe(t)
  <2>1. /\ UNCHANGED locals /\ pc[t] = "describe"
        /\ pc'[t] = "remember" \/ pc'[t] = back[t]
    BY <1>7 DEF Describe, At, Goto, TypeOK, CallTypes
  <2>2. back[t] \in {"return", "nominate", "fetch"}
    BY <2>1, AtHand DEF Querying
  <2> QED
    BY <1>0, <2>1, <2>2 DEF At, Delivery, Delivered, locals
<1>9. CASE Keep(t)
  <2>1. comp[t] \in Components /\ iid[t] \in Iids
    BY <1>9, AtHand DEF Keep, At, Querying
  <2>2. interfaces'[comp[t]][iid[t]] = "held"
    BY <1>9, <2>1 DEF Keep, TypeOK, ClientTypes
  <2>3. pc'[t] = back[t] /\ back[t] \in {"return", "nominate", "fetch"} /\ UNCHANGED locals
    BY <1>9, AtHand DEF Keep, At, Querying, Goto, TypeOK, CallTypes
  <2> QED
    BY <2>2, <2>3 DEF At, locals
<1> QED
  BY <1>1, <1>2, <1>7, <1>9 DEF Step

LEMMA StepDelivery ==
  TypeOK /\ Control /\ Truth /\ Learnt /\ Delivery /\ [Next]_vars => Delivery'
<1> SUFFICES ASSUME TypeOK, Control, Truth, Learnt, Delivery, [Next]_vars
             PROVE  Delivery'
  OBVIOUS
<1>1. Grows
  BY StepGrows
<1>2. ASSUME NEW u \in Threads,
             UNCHANGED <<pc[u], op[u], comp[u], attr[u], iid[u], back[u], result[u]>>
      PROVE  /\ Delivered(u)'
             /\ At(u, "return")' /\ result'[u] = "KeyError" => cleared'
             /\ At(u, "return")' /\ op'[u] \in {"get", "set"} /\ result'[u] = "done"
                  /\ attr'[u] \in Names =>
                    /\ attr'[u] \in Members[iid'[u]] \cup Native[iid'[u]]
                    /\ interfaces'[comp'[u]][iid'[u]] = "held"
  <2>1. ~At(u, "idle") /\ op[u] \in {"get", "set"} => comp[u] \in made
    BY DEF Control, MadeWhenUsed
  <2>2. ASSUME comp[u] \in made, attr[u] \in Names, iid[u] \in Iids,
               Provides(comp[u], attr[u], iid[u])
        PROVE  Provides(comp[u], attr[u], iid[u])'
    <3>1. infos[comp[u]] \subseteq infos'[comp[u]] /\ comp[u] \in Components
      BY <1>1, <2>2 DEF Grows, TypeOK, ClientTypes
    <3>2. Provides(comp[u], attr[u], iid[u])
      BY <2>2
    <3> DEFINE c == comp[u]
               n == attr[u]
               i == iid[u]
    <3>3. c \in Components /\ n \in Names /\ i \in Iids /\ infos[c] \subseteq infos'[c]
          /\ Provides(c, n, i)
      BY <2>2, <3>1, <3>2
    <3>4. c' = c /\ n' = n /\ i' = i
      BY <1>2
    <3> QED
      BY <1>1, <1>2, <3>1, <3>2, <2>2, ProvidesKept DEF Provides, Known
  <2>3. Delivering(u)' = Delivering(u) /\ (At(u, "fetch") => Delivering(u))
    BY <1>2 DEF Delivering, At
  <2>4. Delivering(u) => /\ comp[u] \in made /\ attr[u] \in Names /\ iid[u] \in Iids
                         /\ Provides(comp[u], attr[u], iid[u])
    BY <2>1, AtHand DEF Delivering, At, Querying, Control, CallsAgree, Delivery, Delivered
  <2>5. At(u, "fetch") => cleared' \/ interfaces'[comp[u]][iid[u]] # "unknown"
    BY <1>1, <2>3, <2>4 DEF Grows, Delivery, Delivered
  <2>6. Delivered(u)'
    <3>1. Delivering(u)' => Provides(comp[u], attr[u], iid[u])'
      BY <2>2, <2>3, <2>4
    <3>2. At(u, "return") /\ op[u] \in {"get", "set"} /\ result[u] = "no interface" =>
            /\ attr[u] \in Names /\ iid[u] \in Iids
            /\ iid[u] \notin Answers[comp[u]] /\ Provides(comp[u], attr[u], iid[u])'
      BY <2>1, <2>2 DEF Delivery, Delivered, At
    <3> QED
      BY <1>1, <1>2, <2>5, <3>1, <3>2 DEF Delivery, Delivered, At, Grows
  <2>7. At(u, "return") /\ op[u] \in {"get", "set"} /\ result[u] = "done"
          /\ attr[u] \in Names =>
            /\ attr[u] \in Members[iid[u]] \cup Native[iid[u]]
            /\ interfaces'[comp[u]][iid[u]] = "held"
    BY <1>1, <2>1 DEF Grows, Delivery, Delivered, RightInterface, At
  <2> QED
    BY <1>1, <1>2, <2>6, <2>7 DEF Delivery, NoKeyError, At, Grows
<1>3. ASSUME NEW t \in Threads, Make(t) \/ Use(t) \/ Step(t) PROVE Delivery'
  <2>1. \A u \in Threads \ {t} :
          UNCHANGED <<pc[u], op[u], comp[u], attr[u], iid[u], back[u], result[u]>>
    BY <1>3, OthersStay
  <2>2. TypeOK' /\ Control' /\ Truth' /\ Learnt'
    BY StepType, StepControl, StepTruth, StepLearnt
  <2>3. Delivering(t)' => Provides(comp[t], attr[t], iid[t])'
    <3>1. SUFFICES ASSUME Delivering(t)', NEW c \in Components, NEW n \in Names,
                          NEW i \in Iids, comp'[t] = c, attr'[t] = n, iid'[t] = i
                   PROVE  Provides(c, n, i)'
      <4>1. Delivering(t)' => /\ comp'[t] \in Components /\ attr'[t] \in Names
                              /\ iid'[t] \in Iids
        BY <2>2, AtHand DEF Control, CallsAgree, Delivering, At, Querying, TypeOK,
           CallTypes, CallsSet
      <4> QED
        BY <4>1 DEF Provides, Known
    <3>2. c \in made /\ comp[t] = c /\ attr[t] = n
      BY <1>3, <3>1, DeliveringStep
    <3>3. infos[c] \subseteq infos'[c]
      BY <1>1, <3>2 DEF Grows
    <3>4. Provides(c, n, i)
      BY <1>3, <3>1, <3>2, DeliveringStep DEF Delivery, Delivered, Learnt, NamesTrue
    <3> QED
      BY <1>1, <3>3, <3>4, ProvidesKept
  <2>4. /\ At(t, "describe")' /\ back'[t] = "fetch" => cleared'
        /\ At(t, "fetch")' => cleared' \/ interfaces'[comp'[t]][iid'[t]] # "unknown"
    BY <1>3, <2>2, <2>3, DescribesFetched
  <2>5. cleared' = cleared
    BY <1>3, ShutdownUnchanged DEF shutdown
  <2>6. At(t, "return")' /\ op'[t] \in {"get", "set"} /\ result'[t] = "no interface" =>
          /\ attr'[t] \in Names /\ iid'[t] \in Iids
          /\ iid'[t] \notin Answers[comp'[t]] /\ Provides(comp[t], attr[t], iid[t])'
    <3> SUFFICES ASSUME At(t, "return")', op'[t] \in {"get", "set"},
                        result'[t] = "no interface",
                        NEW c, NEW n, NEW i, comp[t] = c, attr[t] = n, iid[t] = i
                 PROVE  /\ attr'[t] \in Names /\ iid'[t] \in Iids
                        /\ iid'[t] \notin Answers[comp'[t]]
                        /\ Provides(comp[t], attr[t], iid[t])'
      OBVIOUS
    <3>1. /\ Delivering(t)
          /\ i \notin Answers[c]
          /\ comp'[t] = c
          /\ attr'[t] = n
          /\ iid'[t] = i
      BY <1>3, ReturnStep DEF locals
    <3>2. c \in made /\ c \in Components /\ n \in Names /\ i \in Iids /\ Provides(c, n, i)
      BY <3>1, AtHand DEF Delivery, Delivered, Delivering, At, Querying, Control,
         CallsAgree, MadeWhenUsed
    <3>3. Provides(c, n, i)'
      BY <1>1, <3>2, ProvidesKept DEF Grows
    <3> QED
      BY <3>1, <3>2, <3>3 DEF Provides, Known
  <2>7. At(t, "return")' /\ op'[t] \in {"get", "set"} /\ attr'[t] \in Names
          /\ result'[t] = "done" =>
            /\ iid'[t] \in Iids
            /\ attr'[t] \in Members[iid'[t]] \cup Native[iid'[t]]
            /\ interfaces'[comp'[t]][iid'[t]] = "held"
    BY <1>3, ReturnStep, DoneStep
  <2>8. At(t, "return")' /\ result'[t] = "KeyError" => cleared'
    <3> SUFFICES ASSUME At(t, "return")', result'[t] = "KeyError" PROVE cleared'
      OBVIOUS
    <3>1. Fetch(t)
      BY <1>3, ReturnStep
    <3> QED
      BY <2>5, <3>1 DEF Fetch, Return, Goto, At, TypeOK, CallTypes, Delivery, Delivered
  <2>9. Delivered(t)'
    <3>1. ~At(t, "idle")' /\ ~At(t, "return")' => result'[t] = "done"
      BY <1>3, ReturnStep
    <3> QED
      BY <2>3, <2>4, <2>6, <2>7, <3>1 DEF Delivered, At, Delivering
  <2> QED
    BY <1>2, <2>1, <2>7, <2>8, <2>9 DEF Delivery, RightInterface, NoKeyError, At
<1>4. CASE OfShutdown
  <2>1. \A u \in Threads :
          UNCHANGED <<pc[u], op[u], comp[u], attr[u], iid[u], back[u], result[u]>>
    BY <1>4 DEF OfShutdown, locals
  <2> QED
    BY <1>2, <2>1 DEF Delivery, RightInterface, NoKeyError
<1> QED
  BY <1>3, <1>4, StepKinds

-----------------------------------------------------------------------------
(* The class info *)

\* The interfaces whose names a Component is to learn from its class info.
Wanted(c) == Nominated[c] \cap Answers[c] \cap Scriptable

Complete(c) == Wanted(c) \subseteq infos[c]

\* What has been described has left its names.
LearntAll ==
  \A c \in Components : \A i \in infos[c] \cap Scriptable : \A n \in Members[i] :
    names[c][n] # None

\* The loop over the list has still to do, has done, or is at, what is wanted.
Ahead(t) == todo[t] \cup infos[comp[t]] \cup {i \in {iid[t]} : pc[t] \in Querying}

NoneLost ==
  \A t \in Threads :
    Reads(t) /\ ~At(t, "ask") => Wanted(comp[t]) \subseteq Ahead(t)

\* What is in the cache is complete,
CacheComplete ==
  \A k \in Contracts :
    contractid_info_cache[k] # None => Complete(contractid_info_cache[k])

\* and so is a Component that has tried, unless somebody is reading.
TriedComplete ==
  \A c \in Components \cap Informed :
    tried[c] => Complete(c) \/ \E t \in Threads : comp[t] = c /\ Reads(t)

NothingMissed ==
  LearntAll /\ NoneLost /\ CacheComplete /\ TriedComplete

\* Unless a call has failed, or the shutdown has come.
Reading == failures = 0 /\ ~cleared => NothingMissed

LEMMA InitReading == Init => Reading
  BY DEF Init, Reading, NothingMissed, LearntAll, NoneLost, CacheComplete, TriedComplete,
     Reads, Querying

\* What t reads, after a step of t in which nothing fails.
LEMMA ReadsStep ==
  ASSUME TypeOK, Control, Truth, Learnt, NothingMissed, failures = 0, failures' = 0,
         ~have_shutdown, NEW t \in Threads, Make(t) \/ Use(t) \/ Step(t)
  PROVE  /\ (Reads(t) /\ ~At(t, "ask"))' => Wanted(comp'[t]) \subseteq Ahead(t)'
         /\ Reads(t) /\ comp[t] \in Informed =>
              comp'[t] = comp[t] /\ (Complete(comp[t])' \/ Reads(t)')
<1>1. ~Fails
  BY DEF Fails
<1>2. CASE Make(t) \/ Use(t) \/ Finish(t) \/ LookUp(t) \/ Built(t) \/ Deliver(t)
             \/ Fetch(t) \/ Search(t)
  <2>1. ~Reads(t)
    BY <1>2 DEF Make, Use, Finish, LookUp, Built, Deliver, Fetch, Search, At, Reads,
       Querying
  <2>2. ~Reads(t)'
    <3>1. CASE Make(t) \/ Use(t)
      BY <3>1 DEF Make, Use, Call, Goto, Reads, Querying, TypeOK, CallTypes
    <3>2. CASE ~(Make(t) \/ Use(t))
      BY <1>2, <3>2 DEF Finish, LookUp, Built, Deliver, Fetch, Search, Goto, Return,
         Reads, Querying, TypeOK, CallTypes
    <3> QED
      BY <3>1, <3>2
  <2> QED
    BY <2>1, <2>2
<1>3. CASE TryClassInfo(t)
  BY <1>3, AtHand DEF TryClassInfo, BuildRaises, Goto, Return, At, Reads, Querying,
     TypeOK, CallTypes
<1>4. CASE AskClassInfo(t)
  <2>1. comp[t] \in Components /\ comp' = comp /\ iid' = iid
    BY <1>4, AtHand DEF AskClassInfo, At
  <2> DEFINE c == comp[t]
             k == Contract[c]
             d == contractid_info_cache[k]
  <2>2. \/ c \notin Informed /\ pc' = [pc EXCEPT ![t] = "built"]
        \/ /\ k # None /\ d # None
           /\ infos' = [infos EXCEPT ![c] = @ \cup infos[d]]
           /\ pc' = [pc EXCEPT ![t] = "built"]
        \/ /\ pc' = [pc EXCEPT ![t] = "nominate"]
           /\ todo' = [todo EXCEPT ![t] = Nominated[c]]
    BY <1>1, <1>4 DEF AskClassInfo, List, Goto
  <2>3. CASE c \notin Informed /\ pc' = [pc EXCEPT ![t] = "built"]
    BY <2>3 DEF Reads, Querying, TypeOK, CallTypes
  <2>4. CASE /\ k # None /\ d # None
             /\ infos' = [infos EXCEPT ![c] = @ \cup infos[d]]
             /\ pc' = [pc EXCEPT ![t] = "built"]
    <3>1. k \in Contracts /\ d \in Components /\ Contract[d] = k /\ Complete(d)
      BY <2>1, <2>4, CacheType DEF Learnt, CacheOfContract, NothingMissed, CacheComplete
    <3>2. Wanted(c) = Wanted(d)
      BY <2>1, <2>4, <3>1, ContractAssumption DEF Wanted
    <3>3. Complete(c)'
      BY <2>1, <2>4, <3>1, <3>2 DEF Complete, Wanted, TypeOK, ClientTypes
    <3> QED
      BY <2>1, <2>4, <3>3 DEF Reads, Querying, TypeOK, CallTypes
  <2>5. CASE /\ pc' = [pc EXCEPT ![t] = "nominate"]
             /\ todo' = [todo EXCEPT ![t] = Nominated[c]]
    BY <2>1, <2>5 DEF Reads, Querying, TypeOK, CallTypes, Wanted, Ahead
  <2> QED
    BY <2>2, <2>3, <2>4, <2>5
<1>5. CASE Nominate(t)
  <2>1. PICK i \in todo[t] :
          /\ todo' = [todo EXCEPT ![t] = @ \ {i}]
          /\ \/ i \in infos[comp[t]] /\ UNCHANGED <<iid, back, pc>>
             \/ /\ iid' = [iid EXCEPT ![t] = i]
                /\ back' = [back EXCEPT ![t] = "nominate"]
                /\ pc' = [pc EXCEPT ![t] = "query"]
    BY <1>5 DEF Nominate, Goto
  <2>2. comp' = comp /\ infos' = infos /\ pc[t] = "nominate"
    BY <1>5 DEF Nominate, client, At
  <2>3. Reads(t) /\ Reads(t)' /\ Wanted(comp[t]) \subseteq todo[t] \cup infos[comp[t]]
    BY <2>1, <2>2 DEF Reads, Querying, NothingMissed, NoneLost, Ahead, At, TypeOK, CallTypes
  <2>4. todo[t] \cup infos[comp[t]] \subseteq Ahead(t)'
    BY <2>1, <2>2 DEF Ahead, Querying, TypeOK, CallTypes
  <2> QED
    BY <2>2, <2>3, <2>4
<1>6. CASE CacheClassInfo(t)
  BY <1>6 DEF CacheClassInfo, client, Goto, At, Reads, Querying, NothingMissed, NoneLost, Ahead,
     Complete, TypeOK, CallTypes
<1>7. CASE QueryInterface(t) \/ RealQI(t) \/ BuildInterfaceInfo(t) \/ Describe(t)
             \/ Remember(t) \/ Keep(t)
  <2>0. pc[t] \in Querying /\ comp[t] \in Components /\ iid[t] \in Iids
    BY <1>7, AtHand DEF QueryInterface, RealQI, BuildInterfaceInfo, Describe, Remember,
       Keep, At, Querying
  <2>1. comp' = comp /\ iid' = iid /\ todo' = todo /\ back' = back
    BY <1>7 DEF QueryInterface, RealQI, BuildInterfaceInfo, Describe, Remember, Keep,
       locals
  <2>2. infos[comp[t]] \subseteq infos'[comp[t]]
    BY <1>7, <2>0, InfosStep DEF Make, QueryInterface, RealQI, BuildInterfaceInfo,
       Describe, Remember, Keep, At, Step
  <2>3. ASSUME back[t] # "nominate" PROVE ~Reads(t) /\ ~Reads(t)'
    BY <1>7, <2>0, <2>1, <2>3 DEF QueryInterface, RealQI, BuildInterfaceInfo, Describe,
       Remember, Keep, Raise, Return, Goto, Reads, Querying, TypeOK, CallTypes
  <2>4. ASSUME back[t] = "nominate"
        PROVE  \/ pc' = [pc EXCEPT ![t] = "nominate"]
                    /\ (iid[t] \in Wanted(comp[t]) => iid[t] \in infos'[comp[t]])
               \/ pc'[t] \in Querying
    <3>1. CASE QueryInterface(t)
      BY <2>0, <2>4, <3>1 DEF QueryInterface, Raise, COMExceptions, Goto, Querying,
         TypeOK, CallTypes, ClientTypes, Wanted, Truth, AnswersTrue, HeldHasInfo
    <3>2. CASE RealQI(t)
      BY <1>1, <2>0, <2>4, <3>2 DEF RealQI, Raise, COMExceptions, Goto, Querying,
         TypeOK, CallTypes, Wanted
    <3>3. CASE BuildInterfaceInfo(t)
      BY <2>0, <2>4, <3>3 DEF BuildInterfaceInfo, Goto, Querying, TypeOK, CallTypes
    <3>4. CASE Describe(t)
      BY <1>1, <2>0, <2>4, <3>4 DEF Describe, Goto, Querying, TypeOK, CallTypes, Wanted
    <3>5. CASE Remember(t)
      BY <2>0, <2>4, <3>5 DEF Remember, Goto, Querying, TypeOK, CallTypes
    <3>6. CASE Keep(t)
      BY <2>0, <2>4, <3>6 DEF Keep, Goto, At, Querying, TypeOK, CallTypes, Truth,
         AtInterface
    <3> QED
      BY <1>7, <3>1, <3>2, <3>3, <3>4, <3>5, <3>6
  <2>5. ASSUME back[t] = "nominate"
        PROVE  Reads(t) /\ Reads(t)' /\ Wanted(comp[t]) \subseteq Ahead(t)'
    <3>1. Reads(t) /\ Wanted(comp[t]) \subseteq Ahead(t)
      BY <2>0, <2>5 DEF Reads, NothingMissed, NoneLost, At, Querying
    <3>2. Reads(t)'
      BY <2>0, <2>1, <2>4, <2>5 DEF Reads, TypeOK, CallTypes
    <3>3. Wanted(comp[t]) \subseteq todo[t] \cup infos[comp[t]] \cup {iid[t]}
      BY <3>1 DEF Ahead
    <3>4. ASSUME NEW i \in Wanted(comp[t]) PROVE i \in Ahead(t)'
      BY <2>0, <2>1, <2>2, <2>4, <2>5, <3>3, <3>4 DEF Ahead, TypeOK, CallTypes
    <3> QED
      BY <3>1, <3>2, <3>4
  <2> QED
    BY <2>1, <2>3, <2>5
<1> QED
  BY <1>2, <1>3, <1>4, <1>5, <1>6, <1>7 DEF Step

\* What a step of t in which nothing fails has described.
LEMMA DescribedStep ==
  ASSUME TypeOK, NEW t \in Threads, Make(t) \/ Use(t) \/ Step(t), failures = 0,
         failures' = 0, NEW c \in Components, NEW i \in infos'[c] \cap Scriptable
  PROVE  \/ i \in infos[c] /\ ~(Make(t) /\ comp'[t] = c)
         \/ comp[t] = c /\ Remember(t) /\ i = iid[t]
         \/ /\ comp[t] = c /\ AskClassInfo(t)
            /\ Contract[c] # None /\ contractid_info_cache[Contract[c]] # None
            /\ i \in infos[contractid_info_cache[Contract[c]]]
            /\ \A n \in Names :
                 names[contractid_info_cache[Contract[c]]][n] # None =>
                   names'[c][n] # None
<1>1. ~Fails
  BY DEF Fails
<1>2. CASE Make(t)
  <2>1. PICK r \in Requests[t] :
          infos' = [infos EXCEPT ![r.comp] = {}] /\ Call(t, r)
    BY <1>2 DEF Make
  <2>2. comp'[t] = r.comp
    BY <2>1 DEF Call, TypeOK, CallTypes
  <2> QED
    BY <2>1, <2>2 DEF TypeOK, ClientTypes
<1>3. CASE Describe(t)
  <2>1. infos' = infos \/ (iid[t] \notin Scriptable
                            /\ infos' = [infos EXCEPT ![comp[t]] = @ \cup {iid[t]}])
    BY <1>1, <1>3 DEF Describe
  <2>2. ~Make(t)
    BY <1>3 DEF Describe, Make, At
  <2> QED
    BY <2>1, <2>2 DEF TypeOK, ClientTypes
<1>4. CASE Remember(t)
  <2>1. infos' = [infos EXCEPT ![comp[t]] = @ \cup {iid[t]}] /\ ~Make(t)
    BY <1>4 DEF Remember, Make, At
  <2> QED
    BY <1>4, <2>1 DEF TypeOK, ClientTypes
<1>5. CASE AskClassInfo(t)
  <2> DEFINE k == Contract[comp[t]]
             d == contractid_info_cache[k]
  <2>1. comp[t] \in Components /\ ~Make(t)
    BY <1>5, AtHand DEF AskClassInfo, Make, At
  <2>2. \/ infos' = infos
        \/ /\ k # None /\ d # None
           /\ infos' = [infos EXCEPT ![comp[t]] = @ \cup infos[d]]
           /\ names' = [names EXCEPT ![comp[t]] = WithNames(@, names[d])]
    BY <1>5 DEF AskClassInfo, List
  <2>3. CASE infos' = infos
    BY <2>1, <2>3
  <2>4. CASE /\ k # None /\ d # None
             /\ infos' = [infos EXCEPT ![comp[t]] = @ \cup infos[d]]
             /\ names' = [names EXCEPT ![comp[t]] = WithNames(@, names[d])]
    <3>1. CASE comp[t] # c
      BY <2>1, <2>4, <3>1 DEF TypeOK, ClientTypes
    <3>2. CASE comp[t] = c
      <4>1. i \in infos[c] \/ i \in infos[d]
        BY <2>1, <2>4, <3>2 DEF TypeOK, ClientTypes
      <4>2. ASSUME NEW n \in Names, names[d][n] # None PROVE names'[c][n] # None
        BY <2>1, <2>4, <3>2, <4>2 DEF TypeOK, ClientTypes, WithNames
      <4> QED
        BY <1>5, <2>1, <2>4, <3>2, <4>1, <4>2
    <3> QED
      BY <3>1, <3>2
  <2> QED
    BY <2>2, <2>3, <2>4
<1>6. CASE infos' = infos /\ ~Make(t)
  BY <1>6
<1>7. \/ infos' = infos /\ ~Make(t)
      \/ Make(t) \/ Describe(t) \/ Remember(t) \/ AskClassInfo(t)
  BY DEF Step, client, Call, Use, Finish, QueryInterface, RealQI, BuildInterfaceInfo,
     Keep, TryClassInfo, Nominate, CacheClassInfo, LookUp, Built, Deliver, Fetch, Search
<1> QED
  BY <1>2, <1>3, <1>4, <1>5, <1>6, <1>7

\* What t does to _tried_classinfo_ and to the cache of the contracts.
LEMMA TriedStep ==
  ASSUME TypeOK, Control, NEW t \in Threads, Make(t) \/ Use(t) \/ Step(t),
         NEW c \in Components
  PROVE  /\ Make(t) /\ comp'[t] = c => ~tried'[c]
         /\ tried'[c] => tried[c] \/ (Reads(t)' /\ comp'[t] = c)
         /\ \A k \in Contracts :
              \/ contractid_info_cache'[k] = contractid_info_cache[k]
              \/ /\ contractid_info_cache'[k] = comp[t] /\ comp[t] \in Components
                 /\ At(t, "nominate") /\ todo[t] = {} /\ infos' = infos
<1>1. CASE Make(t)
  <2>1. PICK r \in Requests[t] :
          /\ tried' = [tried EXCEPT ![r.comp] = FALSE] /\ Call(t, r)
    BY <1>1 DEF Make
  <2>2. comp'[t] = r.comp /\ UNCHANGED caches
    BY <2>1 DEF Call, TypeOK, CallTypes
  <2> QED
    BY <2>1, <2>2 DEF TypeOK, ClientTypes, caches
<1>2. CASE TryClassInfo(t)
  <2>1. comp[t] \in Components /\ comp' = comp /\ UNCHANGED caches /\ ~Make(t)
    BY <1>2, AtHand DEF TryClassInfo, At, locals, Make
  <2>2. \/ tried' = tried
        \/ tried' = [tried EXCEPT ![comp[t]] = FALSE]
        \/ tried' = [tried EXCEPT ![comp[t]] = TRUE] /\ pc' = [pc EXCEPT ![t] = "ask"]
    BY <1>2 DEF TryClassInfo, BuildRaises, Goto
  <2> QED
    BY <2>1, <2>2 DEF TypeOK, ClientTypes, CallTypes, caches, Reads
<1>3. CASE CacheClassInfo(t)
  BY <1>3, AtHand DEF CacheClassInfo, client, At, Make
<1>4. CASE QueryInterface(t) \/ RealQI(t) \/ BuildInterfaceInfo(t)
  <2>1. comp[t] \in Components /\ UNCHANGED caches /\ ~Make(t)
    BY <1>4, AtHand DEF QueryInterface, RealQI, BuildInterfaceInfo, At, Make
  <2>2. tried' = tried \/ tried' = [tried EXCEPT ![comp[t]] = FALSE]
    BY <1>4 DEF QueryInterface, RealQI, BuildInterfaceInfo, Raise, BuildRaises
  <2> QED
    BY <2>1, <2>2 DEF TypeOK, ClientTypes, caches
<1>5. CASE /\ \/ Use(t) \/ Finish(t) \/ Describe(t) \/ Remember(t) \/ Keep(t)
              \/ AskClassInfo(t) \/ Nominate(t) \/ LookUp(t) \/ Built(t)
              \/ Deliver(t) \/ Fetch(t) \/ Search(t)
           /\ ~Make(t)
  <2>1. tried' = tried /\ contractid_info_cache' = contractid_info_cache
    BY <1>5 DEF client, caches, Call, Use, Finish, Describe, Remember, Keep, AskClassInfo,
       Nominate, LookUp, Built, Deliver, Fetch, Search
  <2> QED
    BY <1>5, <2>1
<1> QED
  BY <1>1, <1>2, <1>3, <1>4, <1>5 DEF Step

LEMMA StepReading ==
  TypeOK /\ ShutdownInv /\ Control /\ Truth /\ Learnt /\ Reading /\ [Next]_vars => Reading'
<1> SUFFICES ASSUME TypeOK, ShutdownInv, Control, Truth, Learnt, Reading, [Next]_vars,
                    failures' = 0, ~cleared'
             PROVE  NothingMissed'
  BY DEF Reading
<1>1. ASSUME NEW t \in Threads, Make(t) \/ Use(t) \/ Step(t) PROVE failures = 0 /\ ~cleared
  <2>1. failures' = failures \/ failures' = failures + 1
    BY <1>1 DEF Step, Call, Fails, Make, Use, Finish, QueryInterface, RealQI,
       BuildInterfaceInfo, Describe, Remember, Keep, TryClassInfo, AskClassInfo,
       Nominate, CacheClassInfo, LookUp, Built, Deliver, Fetch, Search
  <2>2. failures \in Nat
    BY FailuresAssumption DEF TypeOK, ClientTypes
  <2> QED
    BY <1>1, <2>1, <2>2, ShutdownUnchanged DEF shutdown
<1>2. CASE OfShutdown
  <2>0. failures = 0
    BY <1>2, FailuresAssumption DEF OfShutdown, Fails, TypeOK, ClientTypes
  <2>1. NothingMissed /\ UNCHANGED <<client, caches, pc, locals>>
    BY <1>2, <2>0 DEF OfShutdown, Reading
  <2> QED
    BY <2>1 DEF client, caches, locals, NothingMissed, LearntAll, NoneLost, Ahead, CacheComplete,
       TriedComplete, Complete, Reads, At
<1>3. ASSUME NEW t \in Threads, Make(t) \/ Use(t) \/ Step(t) PROVE NothingMissed'
  <2>1. NothingMissed /\ ~have_shutdown /\ failures = 0
    BY <1>1, <1>3 DEF Reading, ShutdownInv
  <2>2. TypeOK' /\ Grows
    BY StepType, StepGrows
  <2>3. LearntAll'
    <3> SUFFICES ASSUME NEW c \in Components, NEW i \in infos'[c] \cap Scriptable,
                        NEW n \in Members[i]
                 PROVE  names'[c][n] # None
      BY DEF LearntAll
    <3>1. i \in Iids /\ n \in Names
      BY InterfacesAssumption
    <3>2. CASE i \in infos[c] /\ ~(Make(t) /\ comp'[t] = c)
      <4>1. names[c][n] # None
        BY <2>1, <3>2 DEF NothingMissed, LearntAll
      <4>2. Remember(t) => iid[t] # None
        BY AtHand, NoneAssumption DEF Remember, At, Querying
      <4> QED
        BY <1>3, <3>1, <3>2, <4>1, <4>2, NamesStep, NoneAssumption
    <3>3. CASE comp[t] = c /\ Remember(t) /\ i = iid[t]
      BY <3>1, <3>3, NoneAssumption DEF Remember, WithMembers, TypeOK, ClientTypes
    <3>4. CASE /\ comp[t] = c /\ AskClassInfo(t)
               /\ Contract[c] # None /\ contractid_info_cache[Contract[c]] # None
               /\ i \in infos[contractid_info_cache[Contract[c]]]
               /\ \A m \in Names :
                    names[contractid_info_cache[Contract[c]]][m] # None =>
                      names'[c][m] # None
      <4>1. contractid_info_cache[Contract[c]] \in Components
        BY <3>4, ObjectsAssumption DEF TypeOK, ClientTypes
      <4> QED
        BY <2>1, <3>1, <3>4, <4>1 DEF NothingMissed, LearntAll
    <3> QED
      BY <1>3, <2>1, <3>2, <3>3, <3>4, DescribedStep
  <2>4. NoneLost'
    <3>1. (Reads(t) /\ ~At(t, "ask"))' => Wanted(comp'[t]) \subseteq Ahead(t)'
      BY <1>3, <2>1, ReadsStep
    <3>2. ASSUME NEW u \in Threads \ {t}, (Reads(u) /\ ~At(u, "ask"))'
          PROVE  Wanted(comp'[u]) \subseteq Ahead(u)'
      <4>1. /\ pc'[u] = pc[u] /\ comp'[u] = comp[u] /\ iid'[u] = iid[u]
            /\ back'[u] = back[u] /\ todo'[u] = todo[u]
        BY <1>3, OthersStay
      <4>2. Reads(u) /\ ~At(u, "ask") /\ Wanted(comp[u]) \subseteq Ahead(u)
        BY <2>1, <3>2, <4>1 DEF Reads, At, NothingMissed, NoneLost
      <4>3. comp[u] \in made
        BY <4>2 DEF Reads, At, Querying, Control, CallsAgree, MadeWhenUsed, UsesAttribute
      <4> QED
        BY <2>2, <4>1, <4>2, <4>3 DEF Grows, Ahead
    <3> QED
      BY <3>1, <3>2 DEF NoneLost
  <2>5. CacheComplete'
    <3> SUFFICES ASSUME NEW k \in Contracts, contractid_info_cache'[k] # None
                 PROVE  Complete(contractid_info_cache[k])'
      BY DEF CacheComplete
    <3>1. CASE contractid_info_cache'[k] = contractid_info_cache[k]
      <4>1. contractid_info_cache[k] \in made
        BY <3>1 DEF Learnt, CacheOfContract
      <4> QED
        BY <2>1, <2>2, <3>1, <4>1 DEF NothingMissed, CacheComplete, Complete, Grows
    <3>2. CASE /\ contractid_info_cache'[k] = comp[t]
               /\ At(t, "nominate") /\ todo[t] = {} /\ infos' = infos
      BY <2>1, <3>2 DEF NothingMissed, NoneLost, Reads, At, Ahead, Querying, Complete
    <3>3. contractid_info_cache'[k] \in Components
      BY <2>2 DEF TypeOK, ClientTypes
    <3> QED
      BY <1>3, <3>1, <3>2, <3>3, TriedStep
  <2>6. TriedComplete'
    <3> SUFFICES ASSUME NEW c \in Components \cap Informed, tried'[c]
                 PROVE  Complete(c)' \/ \E u \in Threads : comp'[u] = c /\ Reads(u)'
      BY DEF TriedComplete
    <3>1. ~(Make(t) /\ comp'[t] = c) /\ (tried[c] \/ (Reads(t)' /\ comp'[t] = c))
      BY <1>3, TriedStep
    <3>2. CASE tried[c] /\ Complete(c)
      BY <1>3, <3>1, <3>2, InfosStep DEF Complete
    <3>3. ASSUME NEW u \in Threads \ {t}, comp[u] = c, Reads(u)
          PROVE  comp'[u] = c /\ Reads(u)'
      BY <1>3, <3>3, OthersStay DEF Reads
    <3>4. CASE Reads(t) /\ comp[t] = c
      BY <1>3, <2>1, <3>4, ReadsStep
    <3> QED
      BY <2>1, <3>1, <3>2, <3>3, <3>4 DEF NothingMissed, TriedComplete
  <2> QED
    BY <2>3, <2>4, <2>5, <2>6 DEF NothingMissed
<1> QED
  BY <1>2, <1>3, StepKinds

-----------------------------------------------------------------------------
(* The invariant *)

IInv == TypeOK /\ ShutdownInv /\ Control /\ Truth /\ Learnt /\ Delivery /\ Reading

LEMMA InitIInv == Init => IInv
  BY InitType, InitShutdown, InitControl, InitTruth, InitLearnt, InitDelivery,
     InitReading DEF IInv

LEMMA StepIInv == IInv /\ [Next]_vars => IInv'
  BY StepType, ShutdownStep, StepControl, StepTruth, StepLearnt, StepDelivery,
     StepReading DEF IInv

LEMMA Invariant == Spec => []IInv
  BY InitIInv, StepIInv, PTL DEF Spec

\* A Component never says of an interface what its object would not say: a
\* failure other than NS_ERROR_NO_INTERFACE leaves no trace in _interfaces_.
THEOREM AnswersAreTrue == Spec => []AnswersTrue
<1>1. IInv => AnswersTrue
  BY DEF IInv, Truth
<1> QED
  BY <1>1, Invariant, PTL

\* __getattr__ and __setattr__ reach an interface that has the name and that
\* the object has, whatever other Components and threads do meanwhile.
THEOREM RightInterfaces == Spec => []RightInterface
<1>1. IInv => RightInterface
  BY DEF IInv, Delivery
<1> QED
  BY <1>1, Invariant, PTL

\* Until the caches are emptied, _interfaces_[iid] after QueryInterface never
\* raises KeyError.
THEOREM NoKeyErrors == Spec => []NoKeyError
<1>1. IInv => NoKeyError
  BY DEF IInv, Delivery
<1> QED
  BY <1>1, Invariant, PTL

\* An attribute refused with NS_ERROR_NO_INTERFACE was learnt through the cache
\* from an object of the same contract that answers more than it lists.
THEOREM RefusalsAreExplained == Spec => []RefusalsExplained
<1>1. IInv => RefusalsExplained
  <2> SUFFICES ASSUME IInv, NEW t \in Threads, At(t, "return"),
                      op[t] \in {"get", "set"}, result[t] = "no interface"
               PROVE  /\ iid[t] \notin Nominated[comp[t]]
                      /\ \E d \in Components :
                           /\ Contract[d] = Contract[comp[t]] /\ Contract[d] # None
                           /\ iid[t] \in Answers[d] \cap infos[d]
    BY DEF RefusalsExplained
  <2>1. comp[t] \in Components
    BY AtHand DEF IInv, At
  <2>2. iid[t] \notin Answers[comp[t]] /\ Known(comp[t], iid[t])
    BY DEF IInv, Delivery, Delivered, Provides
  <2>3. PICK d \in Components :
          /\ Contract[d] = Contract[comp[t]] /\ Contract[d] # None
          /\ iid[t] \in Answers[d] \cap infos[d]
    BY <2>2 DEF Known
  <2>4. iid[t] \notin Nominated[comp[t]]
    BY <2>1, <2>2, <2>3, ContractAssumption
  <2> QED
    BY <2>3, <2>4
<1> QED
  BY <1>1, Invariant, PTL

\* A Component that has read its class info, with nothing failing before the
\* shutdown, has all the names that it is to have.
THEOREM ClassInfosRead == Spec => []ClassInfoRead
<1>1. IInv => ClassInfoRead
  <2> SUFFICES ASSUME IInv, NEW c \in Components \cap Informed, tried[c],
                      ~Building(c), failures = 0, ~cleared,
                      NEW i \in Nominated[c] \cap Answers[c] \cap Scriptable,
                      NEW n \in Members[i]
               PROVE  names[c][n] # None
    BY DEF ClassInfoRead
  <2>1. NothingMissed
    BY DEF IInv, Reading
  <2>2. ~\E t \in Threads : comp[t] = c /\ Reads(t)
    BY DEF Building, Reads, Querying
  <2>3. i \in infos[c]
    BY <2>1, <2>2 DEF NothingMissed, TriedComplete, Complete, Wanted
  <2> QED
    BY <2>1, <2>3 DEF NothingMissed, LearntAll
<1> QED
  BY <1>1, Invariant, PTL
=============================================================================
