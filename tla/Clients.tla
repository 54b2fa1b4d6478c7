------------------------------ MODULE Clients ------------------------------
(***************************************************************************)
(* The Components of client/__init__.py, through which Python uses XPCOM   *)
(* objects: what each has learnt of its object, what the module caches for *)
(* all of them, and the end of both at shutdown (shutdown.py,              *)
(* components.py).  Several threads may use one Component.  The GIL is     *)
(* free between any two steps here; a step makes one call to XPCOM at most.*)
(***************************************************************************)
EXTENDS Naturals, Sequences, FiniteSets

CONSTANTS
  Threads,
  Components,  \* each for an object of its own
  Iids,
  Names,       \* of methods, attributes and constants
  Contracts,   \* contract ids
  Handlers,    \* shutdown handlers besides that of components.py
  Ours,        \* components._on_shutdown
  None,
  Requests,    \* what each thread may do
  MaxFailures, \* bounds the calls to XPCOM that fail without a reason
  (* The objects *)
  Answers,     \* the interfaces that QueryInterface gives
  Informed,    \* those that have an nsIClassInfo
  Nominated,   \* the interfaces it lists
  Contract,    \* and its contract id
  (* The interfaces *)
  Scriptable,  \* those with interface information
  Members,     \* the names it has
  Native       \* the names that the raw interface offers without it

\* What a client may do.
AllRequests ==
  [op : {"make", "query"}, comp : Components, attr : {None}, iid : Iids]
    \cup [op : {"get", "set"}, comp : Components, attr : Names \cup Iids,
          iid : {None}]
    \cup [op : {"repr", "dir"}, comp : Components, attr : {None}, iid : {None}]

ASSUME NoneAssumption ==
  None \notin Components \cup Iids \cup Contracts \cup Handlers \cup {Ours}
ASSUME OursAssumption == Ours \notin Handlers
ASSUME DisjointAssumption == Names \cap Iids = {}
ASSUME RequestsAssumption == Requests \in [Threads -> SUBSET AllRequests]
ASSUME FailuresAssumption == MaxFailures \in Nat
ASSUME ObjectsAssumption ==
  /\ Answers \in [Components -> SUBSET Iids]
  /\ Informed \subseteq Components
  /\ Nominated \in [Components -> SUBSET Iids]
  /\ Contract \in [Components -> Contracts \cup {None}]
ASSUME InterfacesAssumption ==
  /\ Scriptable \subseteq Iids
  /\ Members \in [Iids -> SUBSET Names]
  /\ Native \in [Iids -> SUBSET Names]

\* Objects of one contract list the same interfaces, and give the same of
\* them; they may give others that they do not list.
ASSUME ContractAssumption ==
  \A c, d \in Components :
    Contract[c] = Contract[d] /\ Contract[c] # None =>
      /\ Nominated[c] = Nominated[d]
      /\ Answers[c] \cap Nominated[c] = Answers[d] \cap Nominated[d]

VARIABLES
  made,        \* the Components that __init__ has returned
  interfaces,  \* _interfaces_ and _interface_names_, set one after the other
  infos,       \* the keys of _interface_infos_
  names,       \* _name_to_interface_iid_
  tried,       \* _tried_classinfo_
  interface_cache,
  contractid_info_cache, \* for a contract, the Component whose dictionaries
                         \* are in the cache: they go on changing
  have_shutdown,
  cleared,     \* client._shutdown has emptied the caches
  handlers,    \* shutdown._handlers
  observer,    \* the _ShutdownObserver: "waiting", "popping", "over", "failed"
  current,     \* the handler it runs
  ran,         \* those it has run
  failures,
  (* The calls in progress *)
  pc, op, comp, attr,
  iid,         \* the interface at hand
  back,        \* where QueryInterface goes on when it returns
  todo,        \* the interfaces of the class info still to be asked for
  cid,         \* real_cid
  result

client == <<made, interfaces, infos, names, tried>>
caches == <<interface_cache, contractid_info_cache>>
shutdown == <<have_shutdown, cleared, handlers, observer, current, ran>>
locals == <<op, comp, attr, iid, back, todo, cid>>
vars == <<client, caches, shutdown, failures, pc, locals, result>>

Nothing == [n \in Names |-> None]
Unasked == [i \in Iids |-> "unknown"]

COMExceptions == {"no interface", "failure"}
Results == COMExceptions \cup
  {"none", "done", "AttributeError", "AssertionError", "KeyError"}

Init ==
  /\ made = {}
  /\ interfaces = [c \in Components |-> Unasked]
  /\ infos = [c \in Components |-> {}]
  /\ names = [c \in Components |-> Nothing]
  /\ tried = [c \in Components |-> FALSE]
  /\ interface_cache = {}
  /\ contractid_info_cache = [k \in Contracts |-> None]
  /\ have_shutdown = FALSE /\ cleared = FALSE
  /\ handlers = <<Ours>> /\ observer = "waiting" /\ current = None /\ ran = {}
  /\ failures = 0
  /\ pc = [t \in Threads |-> "idle"]
  /\ op = [t \in Threads |-> "none"]
  /\ comp = [t \in Threads |-> None]
  /\ attr = [t \in Threads |-> None]
  /\ iid = [t \in Threads |-> None]
  /\ back = [t \in Threads |-> "none"]
  /\ todo = [t \in Threads |-> {}]
  /\ cid = [t \in Threads |-> None]
  /\ result = [t \in Threads |-> "none"]

-----------------------------------------------------------------------------

At(t, label) == pc[t] = label
Goto(t, label) == pc' = [pc EXCEPT ![t] = label]
Return(t, what) ==
  /\ Goto(t, "return")
  /\ result' = [result EXCEPT ![t] = what]

\* An XPCOM call fails although nothing is wrong with what was asked.
Fails == failures < MaxFailures /\ failures' = failures + 1

\* The iid that a name belongs to, as far as the Component knows.
IidOf(c, a) == IF a \in Names THEN names[c][a] ELSE None

\* The attribute is the name of an interface that the Component has.
IsInterfaceName(c, a) == a \in Iids /\ interfaces[c][a] = "held"

\* An exception leaves _build_all_supported_interfaces_: only __dir__ puts
\* the flag back and goes on.
BuildRaises(t, exc) ==
  \/ /\ op[t] = "dir"
     /\ tried' = [tried EXCEPT ![comp[t]] = FALSE]
     /\ Return(t, "done")
  \/ /\ op[t] # "dir"
     /\ Return(t, exc)
     /\ UNCHANGED tried

\* An exception leaves QueryInterface; the loop over the class info passes
\* over a COMException.
Raise(t, exc) ==
  \/ /\ back[t] = "nominate" /\ exc \in COMExceptions
     /\ Goto(t, "nominate")
     /\ UNCHANGED <<tried, result>>
  \/ /\ back[t] = "nominate" /\ exc \notin COMExceptions
     /\ BuildRaises(t, exc)
  \/ /\ back[t] # "nominate"
     /\ Return(t, exc)
     /\ UNCHANGED tried

\* names.update with the names of an interface, or of another Component.
WithMembers(f, i) == [n \in Names |-> IF n \in Members[i] THEN i ELSE f[n]]
WithNames(f, g) == [n \in Names |-> IF g[n] # None THEN g[n] ELSE f[n]]

-----------------------------------------------------------------------------
(* Slips: actions below as a plausible mistake would have them.             *)
(* Nothing here is part of the specification.                               *)

\* Any failure is remembered as "does not implement".
AllRemembered(t) ==
  /\ At(t, "answer")
  /\ LET c == comp[t] i == iid[t] IN
     \/ /\ i \in Answers[c]
        /\ Goto(t, "build")
        /\ UNCHANGED <<interfaces, tried, result, failures>>
     \/ /\ \/ i \notin Answers[c] /\ UNCHANGED failures
           \/ Fails
        /\ interfaces' = [interfaces EXCEPT ![c][i] = "refused"]
        /\ Raise(t, "no interface")
  /\ UNCHANGED <<made, infos, names, caches, shutdown, locals>>

\* What was built is not kept.
NotCached(t) ==
  /\ At(t, "describe")
  /\ \/ /\ iid[t] \in Scriptable
        /\ Goto(t, "remember")
        /\ UNCHANGED <<failures, infos>>
     \/ /\ \/ iid[t] \notin Scriptable /\ UNCHANGED failures
           \/ Fails
        /\ infos' = [infos EXCEPT ![comp[t]] = @ \cup {iid[t]}]
        /\ Goto(t, back[t])
  /\ UNCHANGED <<made, interfaces, names, tried, caches, shutdown, locals, result>>

\* What another Component has had described is not looked at again.
LearntOnce(t) ==
  /\ At(t, "build")
  /\ \/ /\ have_shutdown
        /\ Raise(t, "AssertionError")
     \/ /\ ~have_shutdown
        /\ Goto(t, IF iid[t] \in interface_cache THEN "keep" ELSE "describe")
        /\ UNCHANGED <<tried, result>>
  /\ UNCHANGED <<made, interfaces, infos, names, caches, shutdown, failures, locals>>

\* The answer to the second look is not tested.
NotLookedAtAgain(t) ==
  /\ At(t, "built")
  /\ iid' = [iid EXCEPT ![t] = IidOf(comp[t], attr[t])]
  /\ \/ op[t] \in {"get", "set"} /\ Goto(t, "deliver") /\ UNCHANGED result
     \/ op[t] \notin {"get", "set"} /\ Return(t, "done")
  /\ UNCHANGED <<client, caches, shutdown, failures, op, comp, attr, back, todo,
                 cid>>

\* The first interface at hand is remembered, and tried afterwards.
RememberedFirst(t) ==
  /\ At(t, "search")
  /\ LET c == comp[t] a == attr[t] IN
     \/ \E i \in Iids :
          /\ interfaces[c][i] = "held" /\ a \in Names
          /\ names' = [names EXCEPT ![c][a] = i]
          /\ iid' = [iid EXCEPT ![t] = i]
          /\ Return(t, IF a \in Native[i] \cup Members[i]
                         THEN "done" ELSE "AttributeError")
     \/ /\ \A i \in Iids : interfaces[c][i] = "held" => a \notin Names
        /\ Return(t, "AttributeError")
        /\ UNCHANGED <<names, iid>>
  /\ UNCHANGED <<made, interfaces, infos, tried, caches, shutdown, failures,
                 op, comp, attr, back, todo, cid>>

\* Handlers run in the order in which they were registered.
FirstRegistered ==
  /\ observer = "popping" /\ current = None /\ handlers # <<>>
  /\ current' = Head(handlers)
  /\ handlers' = Tail(handlers)
  /\ UNCHANGED <<client, caches, have_shutdown, cleared, observer, ran, failures,
                 pc, locals, result>>

\* An exception leaves the loop.
LoopLeft ==
  /\ current \in Handlers
  /\ ran' = ran \cup {current}
  /\ current' = None
  /\ observer' \in {"popping", "over"}
  /\ UNCHANGED <<client, caches, have_shutdown, cleared, handlers, failures,
                 pc, locals, result>>

-----------------------------------------------------------------------------
(* Calls *)

Call(t, r) ==
  /\ op' = [op EXCEPT ![t] = r.op]
  /\ comp' = [comp EXCEPT ![t] = r.comp]
  /\ attr' = [attr EXCEPT ![t] = r.attr]
  /\ iid' = [iid EXCEPT ![t] = r.iid]
  /\ back' = [back EXCEPT ![t] = "return"]
  /\ result' = [result EXCEPT ![t] = "done"]
  /\ UNCHANGED <<made, caches, shutdown, failures, todo, cid>>

Making(c) == \E t \in Threads : ~At(t, "idle") /\ op[t] = "make" /\ comp[t] = c

\* A client calls Component(ob, iid): the dictionaries are new.
Make(t) ==
  /\ At(t, "idle")
  /\ \E r \in Requests[t] :
       /\ r.op = "make" /\ r.comp \notin made /\ ~Making(r.comp)
       /\ interfaces' = [interfaces EXCEPT ![r.comp] = Unasked]
       /\ infos' = [infos EXCEPT ![r.comp] = {}]
       /\ names' = [names EXCEPT ![r.comp] = Nothing]
       /\ tried' = [tried EXCEPT ![r.comp] = FALSE]
       /\ Call(t, r)
  /\ Goto(t, "query")

\* QueryInterface, an attribute that is read or set, repr(), dir().
Use(t) ==
  /\ At(t, "idle")
  /\ \E r \in Requests[t] :
       /\ r.op # "make" /\ r.comp \in made
       /\ Call(t, r)
       /\ Goto(t, IF r.op = "query" THEN "query" ELSE "lookup")
  /\ UNCHANGED <<interfaces, infos, names, tried>>

\* The call is over.
Finish(t) ==
  /\ At(t, "return")
  /\ made' = made \cup {c \in {comp[t]} : op[t] = "make" /\ result[t] = "done"}
  /\ op' = [op EXCEPT ![t] = "none"]
  /\ comp' = [comp EXCEPT ![t] = None]
  /\ attr' = [attr EXCEPT ![t] = None]
  /\ iid' = [iid EXCEPT ![t] = None]
  /\ back' = [back EXCEPT ![t] = "none"]
  /\ todo' = [todo EXCEPT ![t] = {}]
  /\ cid' = [cid EXCEPT ![t] = None]
  /\ result' = [result EXCEPT ![t] = "none"]
  /\ Goto(t, "idle")
  /\ UNCHANGED <<interfaces, infos, names, tried, caches, shutdown, failures>>

-----------------------------------------------------------------------------
(* QueryInterface *)

\* "We have previously attempted to QI to this interface", or not.
QueryInterface(t) ==
  /\ At(t, "query")
  /\ LET said == interfaces[comp[t]][iid[t]] IN
     \/ /\ said = "refused"
        /\ Raise(t, "no interface")
     \/ /\ said = "held"
        /\ Goto(t, back[t])
        /\ UNCHANGED <<tried, result>>
     \/ /\ said = "unknown"
        /\ Goto(t, "answer")
        /\ UNCHANGED <<tried, result>>
  /\ UNCHANGED <<made, interfaces, infos, names, caches, shutdown, failures, locals>>

\* "do a real QI": only NS_ERROR_NO_INTERFACE is remembered.
RealQI(t) ==
  /\ At(t, "answer")
  /\ LET c == comp[t] i == iid[t] IN
     \/ /\ i \in Answers[c]
        /\ Goto(t, "build")
        /\ UNCHANGED <<interfaces, tried, result, failures>>
     \/ /\ i \notin Answers[c]
        /\ interfaces' = [interfaces EXCEPT ![c][i] = "refused"]
        /\ Raise(t, "no interface")
        /\ UNCHANGED failures
     \/ /\ Fails
        /\ Raise(t, "failure")
        /\ UNCHANGED interfaces
  /\ UNCHANGED <<made, infos, names, caches, shutdown, locals>>

\* BuildInterfaceInfo begins.
BuildInterfaceInfo(t) ==
  /\ At(t, "build")
  /\ \/ /\ have_shutdown
        /\ Raise(t, "AssertionError")
     \/ /\ ~have_shutdown
        /\ Goto(t, IF iid[t] \in interface_cache THEN "remember" ELSE "describe")
        /\ UNCHANGED <<tried, result>>
  /\ UNCHANGED <<made, interfaces, infos, names, caches, shutdown, failures, locals>>

\* It reads the interface info.  If that fails, the raw interface is
\* returned, and only _interface_infos_ has heard of it.
Describe(t) ==
  /\ At(t, "describe")
  /\ \/ /\ iid[t] \in Scriptable
        /\ interface_cache' = interface_cache \cup {iid[t]}
        /\ Goto(t, "remember")
        /\ UNCHANGED <<failures, infos>>
     \/ /\ \/ iid[t] \notin Scriptable /\ UNCHANGED failures
           \/ Fails
        /\ infos' = [infos EXCEPT ![comp[t]] = @ \cup {iid[t]}]
        /\ Goto(t, back[t])
        /\ UNCHANGED interface_cache
  /\ UNCHANGED <<made, interfaces, names, tried, contractid_info_cache, shutdown,
                 locals, result>>

\* _remember_interface_info
Remember(t) ==
  /\ At(t, "remember")
  /\ infos' = [infos EXCEPT ![comp[t]] = @ \cup {iid[t]}]
  /\ names' = [names EXCEPT ![comp[t]] = WithMembers(@, iid[t])]
  /\ Goto(t, "keep")
  /\ UNCHANGED <<made, interfaces, tried, caches, shutdown, failures, locals, result>>

Keep(t) ==
  /\ At(t, "keep")
  /\ interfaces' = [interfaces EXCEPT ![comp[t]][iid[t]] = "held"]
  /\ Goto(t, back[t])
  /\ UNCHANGED <<made, infos, names, tried, caches, shutdown, failures, locals, result>>

-----------------------------------------------------------------------------
(* _build_all_supported_interfaces_ *)

\* The flag was looked at before the call, and other threads may have come in
\* between.
TryClassInfo(t) ==
  /\ At(t, "classinfo")
  /\ \/ tried[comp[t]] /\ BuildRaises(t, "AssertionError")
     \/ /\ ~tried[comp[t]]
        /\ tried' = [tried EXCEPT ![comp[t]] = TRUE]
        /\ Goto(t, "ask")
        /\ UNCHANGED result
  /\ UNCHANGED <<made, interfaces, infos, names, caches, shutdown, failures, locals>>

\* The list, and where it is to be kept when it has been gone through.
List(t, list, k) ==
  /\ todo' = [todo EXCEPT ![t] = list]
  /\ cid' = [cid EXCEPT ![t] = k]
  /\ Goto(t, "nominate")
  /\ UNCHANGED <<infos, names>>

\* The nsIClassInfo, its contract id, what the cache has for that, and the
\* list.  Every call that fails is taken for an answer: no class info, no
\* contract id, no interfaces.
AskClassInfo(t) ==
  /\ At(t, "ask")
  /\ LET c == comp[t]
         k == Contract[c]
         cached == k # None /\ contractid_info_cache[k] # None
         d == contractid_info_cache[k]
     IN
     \/ /\ \/ c \notin Informed /\ UNCHANGED failures
           \/ Fails
        /\ Goto(t, "built")
        /\ UNCHANGED <<infos, names, todo, cid>>
     \/ /\ c \in Informed /\ cached
        /\ infos' = [infos EXCEPT ![c] = @ \cup infos[d]]
        /\ names' = [names EXCEPT ![c] = WithNames(@, names[d])]
        /\ Goto(t, "built")
        /\ UNCHANGED <<failures, todo, cid>>
     \/ /\ c \in Informed /\ ~cached
        /\ \/ List(t, Nominated[c], k) /\ UNCHANGED failures
           \/ List(t, {}, k) /\ Fails
     \/ c \in Informed /\ List(t, Nominated[c], None) /\ Fails
  /\ UNCHANGED <<made, interfaces, tried, caches, shutdown, op, comp, attr, iid, back,
                 result>>

\* The loop over the list: "Interface may appear twice".
Nominate(t) ==
  /\ At(t, "nominate")
  /\ \E i \in todo[t] :
       /\ todo' = [todo EXCEPT ![t] = @ \ {i}]
       /\ \/ /\ i \in infos[comp[t]]
             /\ UNCHANGED <<iid, back, pc>>
          \/ /\ i \notin infos[comp[t]]
             /\ iid' = [iid EXCEPT ![t] = i]
             /\ back' = [back EXCEPT ![t] = "nominate"]
             /\ Goto(t, "query")
  /\ UNCHANGED <<client, caches, shutdown, failures, op, comp, attr, cid, result>>

\* Its end: the dictionaries themselves go into the cache, no copies.
CacheClassInfo(t) ==
  /\ At(t, "nominate") /\ todo[t] = {}
  /\ contractid_info_cache' =
       [k \in Contracts |-> IF k = cid[t] THEN comp[t] ELSE contractid_info_cache[k]]
  /\ cid' = [cid EXCEPT ![t] = None]
  /\ back' = [back EXCEPT ![t] = "return"]
  /\ Goto(t, "built")
  /\ UNCHANGED <<client, interface_cache, shutdown, failures, op, comp, attr, iid,
                 todo, result>>

-----------------------------------------------------------------------------
(* __getattr__, __setattr__, __repr__, __dir__ *)

\* What is known decides; the class info is read when nothing is.
LookUp(t) ==
  /\ At(t, "lookup")
  /\ LET c == comp[t]
         i == IidOf(c, attr[t])
         known == op[t] \in {"get", "set"} /\ i # None
         interface == op[t] = "get" /\ IsInterfaceName(c, attr[t])
     IN
     \/ /\ interface
        /\ Return(t, "done")
        /\ UNCHANGED iid
     \/ /\ ~interface /\ known
        /\ iid' = [iid EXCEPT ![t] = i]
        /\ Goto(t, "deliver")
        /\ UNCHANGED result
     \/ /\ ~interface /\ ~known /\ ~tried[c]
        /\ Goto(t, "classinfo")
        /\ UNCHANGED <<iid, result>>
     \/ /\ ~interface /\ ~known /\ tried[c]
        /\ CASE op[t] = "get" -> Goto(t, "search") /\ UNCHANGED result
             [] op[t] = "set" -> Return(t, "AttributeError")
             [] OTHER -> Return(t, "done")
        /\ UNCHANGED iid
  /\ UNCHANGED <<client, caches, shutdown, failures, op, comp, attr, back, todo, cid>>

\* It has been read: a second look.
Built(t) ==
  /\ At(t, "built")
  /\ LET c == comp[t]
         i == IidOf(c, attr[t])
     IN
     \/ /\ op[t] \in {"repr", "dir"}
        /\ Return(t, IF op[t] = "repr" /\ ~tried[c] THEN "AssertionError" ELSE "done")
        /\ UNCHANGED iid
     \/ /\ op[t] \in {"get", "set"} /\ i # None
        /\ iid' = [iid EXCEPT ![t] = i]
        /\ Goto(t, "deliver")
        /\ UNCHANGED result
     \/ /\ op[t] = "get" /\ i = None
        /\ \/ IsInterfaceName(c, attr[t]) /\ Return(t, "done")
           \/ ~IsInterfaceName(c, attr[t]) /\ Goto(t, "search") /\ UNCHANGED result
        /\ UNCHANGED iid
     \/ /\ op[t] = "set" /\ i = None
        /\ Return(t, "AttributeError")
        /\ UNCHANGED iid
  /\ UNCHANGED <<client, caches, shutdown, failures, op, comp, attr, back, todo, cid>>

\* The name belongs to an interface, which may have to be asked for.
Deliver(t) ==
  /\ At(t, "deliver")
  /\ \/ /\ interfaces[comp[t]][iid[t]] = "held"
        /\ Return(t, "done")
        /\ UNCHANGED back
     \/ /\ interfaces[comp[t]][iid[t]] # "held"
        /\ back' = [back EXCEPT ![t] = "fetch"]
        /\ Goto(t, "query")
        /\ UNCHANGED result
  /\ UNCHANGED <<client, caches, shutdown, failures, op, comp, attr, iid, todo, cid>>

\* _interfaces_[iid] after QueryInterface.
Fetch(t) ==
  /\ At(t, "fetch")
  /\ Return(t, CASE interfaces[comp[t]][iid[t]] = "held" -> "done"
                 [] interfaces[comp[t]][iid[t]] = "unknown" -> "KeyError"
                 [] OTHER -> "AttributeError")
  /\ UNCHANGED <<client, caches, shutdown, failures, locals>>

\* "Some interfaces may provide this name via 'native' support."
Search(t) ==
  /\ At(t, "search")
  /\ LET c == comp[t]
         a == attr[t]
         Offers(i) == interfaces[c][i] = "held" /\ a \in Native[i] \cup Members[i]
     IN
     \/ \E i \in Iids :
          /\ Offers(i)
          /\ names' = [names EXCEPT ![c][a] = i]
          /\ iid' = [iid EXCEPT ![t] = i]
          /\ Return(t, "done")
     \/ /\ \A i \in Iids : ~Offers(i)
        /\ Return(t, "AttributeError")
        /\ UNCHANGED <<names, iid>>
  /\ UNCHANGED <<made, interfaces, infos, tried, caches, shutdown, failures,
                 op, comp, attr, back, todo, cid>>

-----------------------------------------------------------------------------
(* Shutdown *)

ClientUnchanged == UNCHANGED <<client, failures, pc, locals, result>>

Pending == {handlers[j] : j \in DOMAIN handlers}

\* shutdown.register, by whoever: a handler, too.
Register(h) ==
  /\ h \notin Pending \cup ran \cup {current}
  /\ handlers' = Append(handlers, h)
  /\ UNCHANGED <<caches, have_shutdown, cleared, observer, current, ran>>
  /\ ClientUnchanged

\* "xpcom-shutdown": the observer is removed first.  An exception in one of the
\* calls which that takes leaves observe: they are made outside the try.
Observe ==
  /\ observer = "waiting"
  /\ \/ observer' = "popping" /\ UNCHANGED failures
     \/ observer' = "failed" /\ Fails
  /\ UNCHANGED <<caches, have_shutdown, cleared, handlers, current, ran>>
  /\ UNCHANGED <<client, pc, locals, result>>

\* The handler registered last.
TakeHandler ==
  /\ observer = "popping" /\ current = None /\ handlers # <<>>
  /\ current' = handlers[Len(handlers)]
  /\ handlers' = SubSeq(handlers, 1, Len(handlers) - 1)
  /\ UNCHANGED <<caches, have_shutdown, cleared, observer, ran>>
  /\ ClientUnchanged

\* It has returned, or failed, which is logged.
HandlerEnds ==
  /\ current \in Handlers
  /\ ran' = ran \cup {current}
  /\ current' = None
  /\ UNCHANGED <<caches, have_shutdown, cleared, handlers, observer>>
  /\ ClientUnchanged

\* components._on_shutdown, client._shutdown: the caches are emptied,
ClearCaches ==
  /\ current = Ours /\ ~cleared
  /\ interface_cache' = {}
  /\ contractid_info_cache' = [k \in Contracts |-> None]
  /\ cleared' = TRUE
  /\ UNCHANGED <<have_shutdown, handlers, observer, current, ran>>
  /\ ClientUnchanged

\* and nothing is built from now on.
SetFlag ==
  /\ current = Ours /\ cleared
  /\ have_shutdown' = TRUE
  /\ ran' = ran \cup {Ours}
  /\ current' = None
  /\ UNCHANGED <<caches, cleared, handlers, observer>>
  /\ ClientUnchanged

NoMoreHandlers ==
  /\ observer = "popping" /\ current = None /\ handlers = <<>>
  /\ observer' = "over"
  /\ UNCHANGED <<caches, have_shutdown, cleared, handlers, current, ran>>
  /\ ClientUnchanged

-----------------------------------------------------------------------------

Step(t) ==
  \/ Finish(t)
  \/ QueryInterface(t) \/ RealQI(t) \/ BuildInterfaceInfo(t) \/ Describe(t)
  \/ Remember(t) \/ Keep(t)
  \/ TryClassInfo(t) \/ AskClassInfo(t) \/ Nominate(t) \/ CacheClassInfo(t)
  \/ LookUp(t) \/ Built(t) \/ Deliver(t) \/ Fetch(t) \/ Search(t)

Shutdown ==
  TakeHandler \/ HandlerEnds \/ ClearCaches \/ SetFlag \/ NoMoreHandlers

Next ==
  \/ \E t \in Threads : Make(t) \/ Use(t) \/ Step(t)
  \/ \E h \in Handlers : Register(h)
  \/ Observe
  \/ Shutdown

Spec == Init /\ [][Next]_vars

-----------------------------------------------------------------------------
(* Properties *)

ClientTypes ==
  /\ made \subseteq Components
  /\ interfaces \in [Components -> [Iids -> {"unknown", "held", "refused"}]]
  /\ infos \in [Components -> SUBSET Iids]
  /\ names \in [Components -> [Names -> Iids \cup {None}]]
  /\ tried \in [Components -> BOOLEAN]
  /\ interface_cache \subseteq Iids
  /\ contractid_info_cache \in [Contracts -> Components \cup {None}]
  /\ failures \in 0..MaxFailures

ShutdownTypes ==
  /\ have_shutdown \in BOOLEAN /\ cleared \in BOOLEAN
  /\ handlers \in Seq(Handlers \cup {Ours})
  /\ observer \in {"waiting", "popping", "over", "failed"}
  /\ current \in Handlers \cup {Ours, None}
  /\ ran \subseteq Handlers \cup {Ours}

Labels ==
  {"idle", "query", "answer", "build", "describe", "remember", "keep", "classinfo",
   "ask", "nominate", "lookup", "built", "deliver", "fetch", "search", "return"}

\* Where QueryInterface is.
Querying == {"query", "answer", "build", "describe", "remember", "keep"}

CallTypes ==
  /\ pc \in [Threads -> Labels]
  /\ op \in [Threads -> {"none", "make", "query", "get", "set", "repr", "dir"}]
  /\ comp \in [Threads -> Components \cup {None}]
  /\ attr \in [Threads -> Names \cup Iids \cup {None}]
  /\ iid \in [Threads -> Iids \cup {None}]
  /\ back \in [Threads -> {"none", "return", "nominate", "fetch"}]
  /\ todo \in [Threads -> SUBSET Iids]
  /\ cid \in [Threads -> Contracts \cup {None}]
  /\ result \in [Threads -> Results]

CallsSet ==
  \A t \in Threads :
    /\ ~At(t, "idle") => comp[t] # None
    /\ pc[t] \in Querying \cup {"deliver", "fetch"} => iid[t] # None
    /\ pc[t] \in Querying => back[t] # "none"

\* Every variable has its type, and a step that follows comp, iid or back
\* finds it set.
TypeOK == ClientTypes /\ ShutdownTypes /\ CallTypes /\ CallsSet

\* A Component never says that its object has, or has not, an interface of
\* which the object would say otherwise: calls that fail for another reason
\* leave no trace.
AnswersTrue ==
  \A c \in Components, i \in Iids :
    /\ interfaces[c][i] = "held" => i \in Answers[c] \cap Scriptable
    /\ interfaces[c][i] = "refused" => i \notin Answers[c]

\* An attribute that is read or set goes to an interface that has it, and that
\* the object has: also when the name comes from another Component of the
\* same contract, and when two interfaces have the same name.
RightInterface ==
  \A t \in Threads :
    At(t, "return") /\ op[t] \in {"get", "set"} /\ result[t] = "done"
      /\ attr[t] \in Names =>
        /\ attr[t] \in Members[iid[t]] \cup Native[iid[t]]
        /\ interfaces[comp[t]][iid[t]] = "held"

\* Before the shutdown the interface of a name is always found in
\* _interfaces_, although QueryInterface does not put it there when it returns
\* the raw interface: an interface without information has no names.
NoKeyError ==
  \A t \in Threads : At(t, "return") /\ result[t] = "KeyError" => cleared

\* An attribute is refused with NS_ERROR_NO_INTERFACE only because the name
\* was learnt by another Component of the same contract, from an interface
\* that the class info does not list.
RefusalsExplained ==
  \A t \in Threads :
    At(t, "return") /\ op[t] \in {"get", "set"} /\ result[t] = "no interface" =>
      /\ iid[t] \notin Nominated[comp[t]]
      /\ \E d \in Components :
           /\ Contract[d] = Contract[comp[t]] /\ Contract[d] # None
           /\ iid[t] \in Answers[d] \cap infos[d]

\* Somebody is reading the class info of c.
Building(c) ==
  \E t \in Threads :
    /\ comp[t] = c
    /\ \/ pc[t] \in {"ask", "nominate"}
       \/ pc[t] # "return" /\ back[t] = "nominate"

\* A Component that has read its class info, or found it in the cache, knows
\* every name of every interface on the list that its object has, for good:
\* it will not ask again.  Left out: what failed, and what came too late.
ClassInfoRead ==
  \A c \in Components \cap Informed :
    tried[c] /\ ~Building(c) /\ failures = 0 /\ ~cleared =>
      \A i \in Nominated[c] \cap Answers[c] \cap Scriptable :
        \A n \in Members[i] : names[c][n] # None

\* The handler that takes the caches and the globals of components.py away
\* runs when all others have run: they use them.
OursComesLast == [][current' = Ours /\ current # Ours => handlers' = <<>>]_vars

\* Once the observer has begun with the handlers, which nobody makes it do
\* again, it does not stop before those registered by then have all run, also
\* those that another handler or another thread registered meanwhile, whatever
\* fails in them.  (It may not begin: if it cannot be removed, all are forgotten.)
NoneForgotten ==
  [][observer = "popping" /\ observer' # "popping" =>
       Pending = {} /\ Ours \in ran]_vars
=============================================================================
