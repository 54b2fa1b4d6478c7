----------------------------- MODULE MCClients -----------------------------
(***************************************************************************)
(* Two objects of one class, whose class info lists the interface thing.    *)
(* Both also have raw, which is not scriptable, and the first has extra,    *)
(* which shares the name x with thing.  One thread makes and extends the   *)
(* first Component, the other makes the second and uses both.              *)
(***************************************************************************)
EXTENDS Clients, TLC

CONSTANTS t1, t2, c1, c2, thing, extra, raw, x, z, klass

TheComponents == {c1, c2}
TheIids == {thing, extra, raw}
TheNames == {x, z}

TheAnswers == (c1 :> {thing, extra, raw}) @@ (c2 :> {thing, raw})
TheLists == [c \in TheComponents |-> {thing}]
TheContract == [c \in TheComponents |-> klass]

TheMembers == (thing :> {x}) @@ (extra :> {x}) @@ (raw :> {})
TheNative == (thing :> {z}) @@ (extra :> {}) @@ (raw :> {z})

Request(op_, c, attr_, iid_) == [op |-> op_, comp |-> c, attr |-> attr_, iid |-> iid_]
MakeFor(c, i) == Request("make", c, None, i)
Query(c, i) == Request("query", c, None, i)
Get(c, a) == Request("get", c, a, None)
Put(c, a) == Request("set", c, a, None)
Repr(c) == Request("repr", c, None, None)
Dir(c) == Request("dir", c, None, None)

TheRequests ==
  (t1 :> {MakeFor(c1, thing), Query(c1, extra), Get(c1, z)})
    @@ (t2 :> {MakeFor(c2, raw), Dir(c1), Get(c1, thing), Put(c2, x)})
=============================================================================
