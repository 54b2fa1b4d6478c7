----------------------------- MODULE FrameProofs ----------------------------
(***************************************************************************)
(* What the operators of Variants, Marshalling, InterfaceCall,             *)
(* GatewayCall and Calls make of the frame of a call - the slots of its    *)
(* parameters and the memory they point into - for any signature, any      *)
(* values and any width of the numbers. A well-formed frame has numbers    *)
(* of their width in its cells, and every pointer of a slot leads to a     *)
(* block that was allocated. Each operator is shown to take well-formed    *)
(* frames to well-formed frames; for those that go through the parameters  *)
(* or the elements of an array this is an induction over the steps of a    *)
(* fold (FoldProofs).                                                      *)
(***************************************************************************)
EXTENDS Calls, FoldProofs

-----------------------------------------------------------------------------
(***************************************************************************)
(* The values of a configuration and their depth.                          *)
(***************************************************************************)

\* A function with the equation of ValuesTo, as far as k.
Approx(g, k) ==
  \A d \in 0..k : g[d] = IF d = 0 THEN Simple ELSE Simple \cup Lists(g[d - 1])

\* To every depth there is such a function.
LEMMA ApproxExists ==
  ASSUME NEW k \in Nat
  PROVE  \E g : Approx(g, k)
<1> DEFINE S == {n \in Nat : \E g : Approx(g, n)}
<1>1. 0 \in S
  <2> DEFINE g == [d \in {0} |-> Simple]
  <2>1. Approx(g, 0)
    BY DEF Approx
  <2> HIDE DEF g
  <2> QED
    BY <2>1
<1>2. ASSUME NEW n \in Nat, n \in S PROVE n + 1 \in S
  <2>1. PICK g : Approx(g, n)
    BY <1>2
  <2> DEFINE h == [d \in 0..(n + 1) |->
                     IF d = n + 1 THEN Simple \cup Lists(g[n]) ELSE g[d]]
  <2>2. Approx(h, n + 1)
    <3> SUFFICES ASSUME NEW d \in 0..(n + 1)
                 PROVE  h[d] = IF d = 0 THEN Simple ELSE Simple \cup Lists(h[d - 1])
      BY DEF Approx
    <3>1. CASE d = n + 1
      <4>1. d # 0 /\ d - 1 = n /\ n \in 0..(n + 1) /\ n # n + 1
        BY <3>1
      <4>2. h[n] = g[n]
        BY <4>1
      <4>3. h[d] = Simple \cup Lists(g[n])
        BY <3>1
      <4> HIDE DEF h
      <4> QED
        BY <4>1, <4>2, <4>3
    <3>2. CASE d # n + 1
      <4>1. d \in 0..n
        BY <3>2
      <4>2. h[d] = g[d]
        BY <3>2
      <4>3. d # 0 => h[d - 1] = g[d - 1]
        BY <4>1
      <4>4. g[d] = IF d = 0 THEN Simple ELSE Simple \cup Lists(g[d - 1])
        BY <2>1, <4>1 DEF Approx
      <4> HIDE DEF h
      <4> QED
        BY <4>2, <4>3, <4>4
    <3> QED
      BY <3>1, <3>2
  <2> HIDE DEF h
  <2> QED
    BY <2>2
<1>3. Nat \subseteq S
  <2> HIDE DEF S
  <2> QED
    BY <1>1, <1>2, SetInduction
<1> QED
  BY <1>3

\* Two such functions agree as far as both go.
LEMMA ApproxUnique ==
  ASSUME NEW g, NEW h, NEW k \in Nat, NEW l \in Nat, Approx(g, k), Approx(h, l)
  PROVE  \A d \in Nat : d <= k /\ d <= l => g[d] = h[d]
<1> DEFINE S == {d \in Nat : d <= k /\ d <= l => g[d] = h[d]}
<1>1. 0 \in S
  <2>1. 0 \in 0..k /\ 0 \in 0..l
    OBVIOUS
  <2>2. g[0] = Simple /\ h[0] = Simple
    BY <2>1 DEF Approx
  <2> QED
    BY <2>2
<1>2. ASSUME NEW n \in Nat, n \in S PROVE n + 1 \in S
  <2>1. ASSUME n + 1 <= k, n + 1 <= l PROVE g[n + 1] = h[n + 1]
    <3>1. n + 1 \in 0..k /\ n + 1 \in 0..l /\ n + 1 # 0 /\ (n + 1) - 1 = n
          /\ n <= k /\ n <= l
      BY <2>1
    <3>2. g[n + 1] = Simple \cup Lists(g[n]) /\ h[n + 1] = Simple \cup Lists(h[n])
      BY <3>1 DEF Approx
    <3>3. g[n] = h[n]
      BY <1>2, <3>1
    <3> QED
      BY <3>2, <3>3
  <2> QED
    BY <2>1
<1>3. Nat \subseteq S
  <2> HIDE DEF S
  <2> QED
    BY <1>1, <1>2, SetInduction
<1> QED
  BY <1>3

\* The recursive definition of ValuesTo defines something.
LEMMA ValuesToEquation ==
  /\ ValuesTo[0] = Simple
  /\ \A d \in Nat : ValuesTo[d + 1] = Simple \cup Lists(ValuesTo[d])
<1> DEFINE Upto(d) == CHOOSE g : Approx(g, d)
           f == [d \in Nat |-> Upto(d)[d]]
<1>1. \A d \in Nat : Approx(Upto(d), d)
  BY ApproxExists
<1>2. ASSUME NEW d \in Nat, d # 0 PROVE f[d] = Simple \cup Lists(f[d - 1])
  <2>1. d - 1 \in Nat /\ d \in 0..d /\ d - 1 <= d /\ d - 1 <= d - 1
    BY <1>2
  <2>2. Upto(d)[d] = Simple \cup Lists(Upto(d)[d - 1])
    BY <1>1, <1>2, <2>1 DEF Approx
  <2>3. Upto(d)[d - 1] = Upto(d - 1)[d - 1]
    <3> HIDE DEF Upto
    <3> QED
      BY <1>1, <2>1, ApproxUnique
  <2>4. f[d] = Upto(d)[d] /\ f[d - 1] = Upto(d - 1)[d - 1]
    BY <2>1
  <2> HIDE DEF f, Upto
  <2> QED
    BY <2>2, <2>3, <2>4
<1>3. f[0] = Simple
  <2>1. Upto(0)[0] = Simple
    <3> HIDE DEF Upto
    <3>1. Approx(Upto(0), 0) /\ 0 \in 0..0
      BY <1>1
    <3> QED
      BY <3>1 DEF Approx
  <2> QED
    BY <2>1
<1> DEFINE Eqn(h) == h = [d \in Nat |-> IF d = 0 THEN Simple ELSE Simple \cup Lists(h[d - 1])]
<1>4. Eqn(f)
  <2>1. f = [d \in Nat |-> f[d]]
    OBVIOUS
  <2> HIDE DEF f
  <2>2. \A d \in Nat : f[d] = IF d = 0 THEN Simple ELSE Simple \cup Lists(f[d - 1])
    BY <1>2, <1>3
  <2> QED
    BY <2>1, <2>2
<1>5. Eqn(ValuesTo)
  <2>1. \E h : Eqn(h)
    BY <1>4
  <2>2. Eqn(CHOOSE h : Eqn(h))
    <3> HIDE DEF Eqn
    <3> QED
      BY <2>1
  <2> QED
    BY <2>2, Zenon DEF ValuesTo
<1>6. \A d \in Nat : ValuesTo[d] = IF d = 0 THEN Simple ELSE Simple \cup Lists(ValuesTo[d - 1])
  BY <1>5
<1>7. \A d \in Nat : d + 1 \in Nat /\ d + 1 # 0 /\ (d + 1) - 1 = d
  OBVIOUS
<1> QED
  BY <1>6, <1>7

-----------------------------------------------------------------------------
(***************************************************************************)
(* Frames: the slots of the parameters, and memory.                        *)
(***************************************************************************)

\* Values as a conversion meets them: one that was given, an element of it,
\* or the list that several answers come as.
Handled == UNION {ValuesTo[d] : d \in Nat}

\* And as a block or a variant holds them.
Held == Handled \cup {Plain(v) : v \in Handled} \cup {AsVariant(v) : v \in Handled}

\* What the pointer in a block may be an interface of.
Interfaces == Nat \cup {v.n : v \in Held}

\* A cell of memory: null, a number of the width that the calls use, a lent
\* object or a pointer.
CellValues == {c \in [is : {"null", "num", "lent", "ptr"}, n : Nat] :
             c.is = "num" => c.n < Word}
Slots == [val : CellValues, typed : BOOLEAN, cleanup : BOOLEAN, indirect : BOOLEAN,
          auto : BOOLEAN, there : BOOLEAN, filled : BOOLEAN]
Blocks == [of : Held, cells : Seq(CellValues), as : Interfaces, live : BOOLEAN]
FaultKinds == {"not ours", "freed twice", "past the end", "bad read", "crash"}
ErrKinds == {"none", "error", "server", "memory", "com"}

\* A pointer leads to a block that was allocated.
InMemory(w, cell) == cell.is = "ptr" => cell.n \in DOMAIN w.mem

\* The frames of a method with N parameters, by their parts; and those whose
\* slots point into memory.
Typed(N) == [slots : [1..N -> Slots], mem : Seq(Blocks),
             faults : SUBSET FaultKinds, err : ErrKinds, ok : BOOLEAN]
Frames(N) == {w \in Typed(N) : \A i \in 1..N : InMemory(w, w.slots[i].val)}

\* The kinds of cell the conversions write.
LEMMA CellKinds ==
  /\ Null \in CellValues /\ Null.is = "null"
  /\ \A n \in Nat : n < Word => Num(n) \in CellValues /\ Num(n).is = "num"
  /\ \A n \in Nat : Lent(n) \in CellValues /\ Lent(n).is = "lent"
  /\ \A n \in Nat : Ptr(n) \in CellValues /\ Ptr(n).is = "ptr" /\ Ptr(n).n = n
BY WidthAssumption DEF CellValues, Null, Num, Lent, Ptr, Cell

\* A slot as it is before a conversion has seen it.
LEMMA SlotKinds == NewSlot \in Slots
BY CellKinds DEF NewSlot, Slots

IsFrame(N, w) ==
  /\ w.slots \in [1..N -> Slots] /\ w.mem \in Seq(Blocks)
  /\ w.faults \in SUBSET FaultKinds /\ w.err \in ErrKinds /\ w.ok \in BOOLEAN
  /\ Len(w.mem) \in Nat /\ DOMAIN w.mem = 1..Len(w.mem)
  /\ DOMAIN w.slots = 1..N
  /\ \A b \in DOMAIN w.mem : w.mem[b] \in Blocks
  /\ \A i \in 1..N : InMemory(w, w.slots[i].val)

\* The parts of a well-formed frame.
LEMMA FrameFields ==
  ASSUME NEW N \in Nat, NEW w \in Frames(N)
  PROVE  IsFrame(N, w)
<1>1. w \in Typed(N) /\ \A i \in 1..N : InMemory(w, w.slots[i].val)
  BY DEF Frames
<1>2. /\ w.mem \in Seq(Blocks) /\ Len(w.mem) \in Nat /\ DOMAIN w.mem = 1..Len(w.mem)
      /\ \A b \in DOMAIN w.mem : w.mem[b] \in Blocks
  <2>1. w.mem \in Seq(Blocks)
    BY <1>1 DEF Typed
  <2> QED
    BY <2>1
<1> QED
  BY <1>1, <1>2 DEF Typed, IsFrame

\* A frame whose parts are well formed is well formed.
LEMMA FrameBuilt ==
  ASSUME NEW N \in Nat, NEW s \in [1..N -> Slots], NEW m \in Seq(Blocks),
         NEW f \in SUBSET FaultKinds, NEW e \in ErrKinds, NEW o \in BOOLEAN,
         \A i \in 1..N : s[i].val.is = "ptr" => s[i].val.n \in DOMAIN m
  PROVE  [slots |-> s, mem |-> m, faults |-> f, err |-> e, ok |-> o] \in Frames(N)
<1> DEFINE w == [slots |-> s, mem |-> m, faults |-> f, err |-> e, ok |-> o]
<1>1. w \in Typed(N)
  BY DEF Typed
<1>2. \A i \in 1..N : InMemory(w, w.slots[i].val)
  BY DEF InMemory
<1> QED
  BY <1>1, <1>2 DEF Frames

\* Writing one field of a slot leaves a slot.
LEMMA SlotFields ==
  ASSUME NEW s \in Slots
  PROVE  /\ s.val \in CellValues
         /\ \A c \in CellValues : [s EXCEPT !.val = c] \in Slots /\ [s EXCEPT !.val = c].val = c
         /\ \A b \in BOOLEAN :
              /\ [s EXCEPT !.cleanup = b] \in Slots /\ [s EXCEPT !.cleanup = b].val = s.val
              /\ [s EXCEPT !.typed = b] \in Slots /\ [s EXCEPT !.typed = b].val = s.val
              /\ [s EXCEPT !.indirect = b] \in Slots /\ [s EXCEPT !.indirect = b].val = s.val
              /\ [s EXCEPT !.auto = b] \in Slots /\ [s EXCEPT !.auto = b].val = s.val
              /\ [s EXCEPT !.there = b] \in Slots /\ [s EXCEPT !.there = b].val = s.val
              /\ [s EXCEPT !.filled = b] \in Slots /\ [s EXCEPT !.filled = b].val = s.val
BY DEF Slots

\* Writing one field of a block leaves a block.
LEMMA BlockFields ==
  ASSUME NEW b \in Blocks
  PROVE  /\ b.of \in Held /\ b.cells \in Seq(CellValues) /\ b.as \in Interfaces
         /\ b.live \in BOOLEAN
         /\ \A l \in BOOLEAN : [b EXCEPT !.live = l] \in Blocks
         /\ \A v \in Held : [b EXCEPT !.of = v] \in Blocks
         /\ \A c \in Seq(CellValues) : [b EXCEPT !.cells = c] \in Blocks
BY DEF Blocks

\* What an update makes of the record.
LEMMA FrameUpdates ==
  ASSUME NEW N \in Nat, NEW w \in Frames(N), NEW x
  PROVE  /\ [w EXCEPT !.slots = x] = [slots |-> x, mem |-> w.mem, faults |-> w.faults,
                                     err |-> w.err, ok |-> w.ok]
         /\ [w EXCEPT !.mem = x] = [slots |-> w.slots, mem |-> x, faults |-> w.faults,
                                   err |-> w.err, ok |-> w.ok]
         /\ [w EXCEPT !.faults = x] = [slots |-> w.slots, mem |-> w.mem, faults |-> x,
                                      err |-> w.err, ok |-> w.ok]
         /\ [w EXCEPT !.err = x] = [slots |-> w.slots, mem |-> w.mem, faults |-> w.faults,
                                   err |-> x, ok |-> w.ok]
         /\ [w EXCEPT !.ok = x] = [slots |-> w.slots, mem |-> w.mem, faults |-> w.faults,
                                  err |-> w.err, ok |-> x]
<1>1. w \in [slots : [1..N -> Slots], mem : Seq(Blocks), faults : SUBSET FaultKinds,
             err : ErrKinds, ok : BOOLEAN]
  BY DEF Frames, Typed
<1>2. [w EXCEPT !.slots = x] = [slots |-> x, mem |-> w.mem, faults |-> w.faults,
                                err |-> w.err, ok |-> w.ok]
  BY <1>1
<1>3. [w EXCEPT !.mem = x] = [slots |-> w.slots, mem |-> x, faults |-> w.faults,
                              err |-> w.err, ok |-> w.ok]
  BY <1>1
<1>4. [w EXCEPT !.faults = x] = [slots |-> w.slots, mem |-> w.mem, faults |-> x,
                                 err |-> w.err, ok |-> w.ok]
  BY <1>1
<1>5. [w EXCEPT !.err = x] = [slots |-> w.slots, mem |-> w.mem, faults |-> w.faults,
                              err |-> x, ok |-> w.ok]
  BY <1>1
<1>6. [w EXCEPT !.ok = x] = [slots |-> w.slots, mem |-> w.mem, faults |-> w.faults,
                             err |-> w.err, ok |-> x]
  BY <1>1
<1> QED
  BY <1>2, <1>3, <1>4, <1>5, <1>6

\* Any slot may be changed, as long as its pointer stays in memory.
LEMMA SlotFrame ==
  ASSUME NEW N \in Nat, NEW w \in Frames(N), NEW i, NEW s,
         i \in 1..N => s \in Slots /\ InMemory(w, s.val)
  PROVE  [w EXCEPT !.slots = [w.slots EXCEPT ![i] = s]] \in Frames(N)
<1>0. IsFrame(N, w)
  BY FrameFields
<1> DEFINE t == [w.slots EXCEPT ![i] = s]
<1>1. t \in [1..N -> Slots] /\ \A j \in 1..N : t[j] = IF j = i THEN s ELSE w.slots[j]
  BY <1>0 DEF IsFrame
<1>2. \A j \in 1..N : t[j].val.is = "ptr" => t[j].val.n \in DOMAIN w.mem
  BY <1>1, <1>0 DEF InMemory, IsFrame
<1>3. [w EXCEPT !.slots = t] = [slots |-> t, mem |-> w.mem, faults |-> w.faults,
                                err |-> w.err, ok |-> w.ok]
  BY FrameUpdates
<1> HIDE DEF t
<1>4. [slots |-> t, mem |-> w.mem, faults |-> w.faults, err |-> w.err, ok |-> w.ok]
        \in Frames(N)
  BY <1>1, <1>2, <1>0, FrameBuilt DEF IsFrame
<1> QED
  BY <1>3, <1>4 DEF t

\* Memory may grow: no slot points into nothing for that.
LEMMA MemFrame ==
  ASSUME NEW N \in Nat, NEW w \in Frames(N), NEW m \in Seq(Blocks), Len(m) >= Len(w.mem)
  PROVE  [w EXCEPT !.mem = m] \in Frames(N)
<1>0. IsFrame(N, w)
  BY FrameFields
<1>1. \A i \in 1..N : w.slots[i].val.is = "ptr" => w.slots[i].val.n \in DOMAIN m
  <2>1. Len(m) \in Nat /\ DOMAIN m = 1..Len(m)
    OBVIOUS
  <2> QED
    BY <2>1, <1>0 DEF InMemory, IsFrame
<1>2. [w EXCEPT !.mem = m] = [slots |-> w.slots, mem |-> m, faults |-> w.faults,
                              err |-> w.err, ok |-> w.ok]
  BY FrameUpdates
<1>3. [slots |-> w.slots, mem |-> m, faults |-> w.faults, err |-> w.err, ok |-> w.ok]
        \in Frames(N)
  BY <1>1, <1>0, FrameBuilt DEF IsFrame
<1> QED
  BY <1>2, <1>3

\* Writing the cell of a parameter.
LEMMA PutFrame ==
  ASSUME NEW N \in Nat, NEW w \in Frames(N), NEW i, NEW c \in CellValues, InMemory(w, c)
  PROVE  Put(w, i, c) \in Frames(N)
<1>0. IsFrame(N, w)
  BY FrameFields
<1>1. i \in 1..N => /\ [w.slots[i] EXCEPT !.val = c] \in Slots
                    /\ InMemory(w, [w.slots[i] EXCEPT !.val = c].val)
  BY <1>0, SlotFields DEF IsFrame
<1> QED
  BY <1>1, SlotFrame DEF Put

\* Allocating a block, and the pointer that comes of it.
LEMMA AllocateFrame ==
  ASSUME NEW N \in Nat, NEW w \in Frames(N), NEW b \in Blocks
  PROVE  /\ Allocate(w, b) \in Frames(N)
         /\ InMemory(Allocate(w, b), Newest(Allocate(w, b)))
         /\ Newest(Allocate(w, b)) \in CellValues
         /\ Allocate(w, b).slots = w.slots
         /\ Allocate(w, b).mem = Append(w.mem, b)
         /\ Len(Allocate(w, b).mem) = Len(w.mem) + 1
<1>0. IsFrame(N, w)
  BY FrameFields
<1> DEFINE a == Allocate(w, b)
<1>1. w.mem \in Seq(Blocks) /\ Len(w.mem) \in Nat
  BY <1>0 DEF IsFrame
<1>2. /\ a.mem = Append(w.mem, b) /\ a.slots = w.slots
      /\ a = [w EXCEPT !.mem = Append(w.mem, b)]
  BY FrameUpdates DEF Allocate
<1>3. a.mem \in Seq(Blocks) /\ Len(a.mem) = Len(w.mem) + 1 /\ DOMAIN a.mem = 1..Len(a.mem)
  BY <1>1, <1>2
<1>4. a \in Frames(N)
  <2>1. Len(a.mem) >= Len(w.mem)
    BY <1>1, <1>3
  <2> HIDE DEF a
  <2> QED
    BY <1>2, <1>3, <2>1, MemFrame
<1>5. Newest(a) = Ptr(Len(a.mem)) /\ Len(a.mem) \in Nat
  BY <1>1, <1>3 DEF Newest
<1>6. InMemory(a, Newest(a)) /\ Newest(a) \in CellValues
  BY <1>1, <1>3, <1>5, CellKinds DEF InMemory
<1> QED
  BY <1>2, <1>3, <1>4, <1>6

\* Noting a fault, an exception or a refusal.
LEMMA FlagFrame ==
  ASSUME NEW N \in Nat, NEW w \in Frames(N)
  PROVE  /\ \A f \in SUBSET FaultKinds : [w EXCEPT !.faults = f] \in Frames(N)
         /\ \A e \in ErrKinds : [w EXCEPT !.err = e] \in Frames(N)
         /\ \A o \in BOOLEAN : [w EXCEPT !.ok = o] \in Frames(N)
<1>0. IsFrame(N, w)
  BY FrameFields
<1>1. ASSUME NEW f \in SUBSET FaultKinds, NEW e \in ErrKinds, NEW o \in BOOLEAN
      PROVE  [slots |-> w.slots, mem |-> w.mem, faults |-> f, err |-> e, ok |-> o]
               \in Frames(N)
  BY <1>0, FrameBuilt DEF InMemory, IsFrame
<1>2. \A f \in SUBSET FaultKinds : [w EXCEPT !.faults = f] \in Frames(N)
  <2> SUFFICES ASSUME NEW f \in SUBSET FaultKinds PROVE [w EXCEPT !.faults = f] \in Frames(N)
    OBVIOUS
  <2>1. [w EXCEPT !.faults = f] = [slots |-> w.slots, mem |-> w.mem, faults |-> f, err |-> w.err, ok |-> w.ok]
    BY FrameUpdates
  <2> QED
    BY <1>0, <1>1, <2>1 DEF IsFrame
<1>3. \A e \in ErrKinds : [w EXCEPT !.err = e] \in Frames(N)
  <2> SUFFICES ASSUME NEW e \in ErrKinds PROVE [w EXCEPT !.err = e] \in Frames(N)
    OBVIOUS
  <2>1. [w EXCEPT !.err = e] = [slots |-> w.slots, mem |-> w.mem, faults |-> w.faults, err |-> e, ok |-> w.ok]
    BY FrameUpdates
  <2> QED
    BY <1>0, <1>1, <2>1 DEF IsFrame
<1>4. \A o \in BOOLEAN : [w EXCEPT !.ok = o] \in Frames(N)
  <2> SUFFICES ASSUME NEW o \in BOOLEAN PROVE [w EXCEPT !.ok = o] \in Frames(N)
    OBVIOUS
  <2>1. [w EXCEPT !.ok = o] = [slots |-> w.slots, mem |-> w.mem, faults |-> w.faults, err |-> w.err, ok |-> o]
    BY FrameUpdates
  <2> QED
    BY <1>0, <1>1, <2>1 DEF IsFrame
<1> QED
  BY <1>2, <1>3, <1>4

\* The operations that do so.
LEMMA FaultFrame ==
  ASSUME NEW N \in Nat, NEW w \in Frames(N)
  PROVE  /\ \A what \in FaultKinds : Fault(w, what) \in Frames(N)
         /\ Fail(w) \in Frames(N) /\ Raise(w) \in Frames(N)
         /\ Crash(w) \in Frames(N)
         /\ \A v : Read(w, v) \in Frames(N)
<1>1. \A x \in Frames(N), what \in FaultKinds : Fault(x, what) \in Frames(N)
  <2> SUFFICES ASSUME NEW x \in Frames(N), NEW what \in FaultKinds
               PROVE  Fault(x, what) \in Frames(N)
    OBVIOUS
  <2>1. x.faults \cup {what} \in SUBSET FaultKinds
    BY FrameFields DEF IsFrame
  <2> QED
    BY <2>1, FlagFrame DEF Fault
<1>2. \A x \in Frames(N) : Fail(x) \in Frames(N)
  BY FlagFrame DEF Fail
<1>3. {"crash", "bad read"} \subseteq FaultKinds /\ "error" \in ErrKinds
  BY DEF FaultKinds, ErrKinds
<1>4. Raise(w) \in Frames(N)
  <2>1. Raise(w) = [Fail(w) EXCEPT !.err = "error"]
    BY DEF Raise, Fail
  <2> QED
    BY <1>2, <1>3, <2>1, FlagFrame
<1>5. Crash(w) \in Frames(N)
  BY <1>1, <1>2, <1>3 DEF Crash
<1>6. \A v : Read(w, v) \in Frames(N)
  BY <1>1, <1>3 DEF Read
<1> QED
  BY <1>1, <1>2, <1>4, <1>5, <1>6


\* Replacing a block by another.
LEMMA BlockFrame ==
  ASSUME NEW N \in Nat, NEW w \in Frames(N), NEW b, NEW e,
         b \in DOMAIN w.mem => e \in Blocks
  PROVE  /\ [w EXCEPT !.mem = [w.mem EXCEPT ![b] = e]] \in Frames(N)
         /\ [w EXCEPT !.mem = [w.mem EXCEPT ![b] = e]].slots = w.slots
         /\ [w EXCEPT !.mem = [w.mem EXCEPT ![b] = e]].mem = [w.mem EXCEPT ![b] = e]
         /\ DOMAIN [w.mem EXCEPT ![b] = e] = DOMAIN w.mem
<1>0. IsFrame(N, w)
  BY FrameFields
<1> DEFINE m == [w.mem EXCEPT ![b] = e]
<1>1. w.mem \in Seq(Blocks) /\ Len(w.mem) \in Nat
  BY <1>0 DEF IsFrame
<1>2. m \in Seq(Blocks) /\ Len(m) = Len(w.mem) /\ DOMAIN m = DOMAIN w.mem
  <2>1. w.mem \in [1..Len(w.mem) -> Blocks] /\ DOMAIN w.mem = 1..Len(w.mem)
    BY <1>1
  <2>2. m \in [1..Len(w.mem) -> Blocks] /\ DOMAIN m = DOMAIN w.mem
    BY <2>1
  <2> HIDE DEF m
  <2>3. m \in Seq(Blocks)
    BY <1>1, <2>2, SeqDef
  <2> QED
    BY <1>1, <2>2, <2>3
<1> HIDE DEF m
<1>3. Len(m) >= Len(w.mem)
  BY <1>1, <1>2
<1>4. [w EXCEPT !.mem = m] \in Frames(N)
  BY <1>2, <1>3, MemFrame
<1>5. [w EXCEPT !.mem = m].slots = w.slots /\ [w EXCEPT !.mem = m].mem = m
  BY FrameUpdates
<1> QED
  BY <1>2, <1>4, <1>5 DEF m

\* Freeing what a cell points to.
LEMMA FreeFrame ==
  ASSUME NEW N \in Nat, NEW w \in Frames(N), NEW c
  PROVE  /\ Free(w, c) \in Frames(N)
         /\ Free(w, c).slots = w.slots /\ DOMAIN Free(w, c).mem = DOMAIN w.mem
<1>0. IsFrame(N, w)
  BY FrameFields
<1> DEFINE e == [w.mem[c.n] EXCEPT !.live = FALSE]
           x == [w EXCEPT !.mem = [w.mem EXCEPT ![c.n] = e]]
<1>1. c.n \in DOMAIN w.mem => e \in Blocks
  BY <1>0, BlockFields DEF IsFrame
<1>2. x \in Frames(N) /\ x.slots = w.slots /\ DOMAIN x.mem = DOMAIN w.mem
  <2>1. PICK b : b = c.n
    OBVIOUS
  <2>2. b \in DOMAIN w.mem => e \in Blocks
    BY <1>1, <2>1
  <2> DEFINE y == [w EXCEPT !.mem = [w.mem EXCEPT ![b] = e]]
  <2>3. x = y
    BY <2>1
  <2> HIDE DEF e, x
  <2> QED
    BY <2>2, <2>3, BlockFrame
<1>3. {"not ours", "freed twice"} \subseteq FaultKinds
  BY DEF FaultKinds
<1>4. \A what : Fault(w, what).slots = w.slots /\ Fault(w, what).mem = w.mem
  BY FrameUpdates DEF Fault
<1>5. [w EXCEPT !.mem[c.n].live = FALSE] = x
  OBVIOUS
<1> HIDE DEF x
<1> QED
  BY <1>2, <1>3, <1>4, <1>5, FaultFrame DEF Free

\* Writing a cell of an array.
LEMMA CellSetFrame ==
  ASSUME NEW N \in Nat, NEW w \in Frames(N), NEW b, NEW j, NEW c \in CellValues
  PROVE  /\ [w EXCEPT !.mem[b].cells[j] = c] \in Frames(N)
         /\ [w EXCEPT !.mem[b].cells[j] = c].slots = w.slots
         /\ DOMAIN [w EXCEPT !.mem[b].cells[j] = c].mem = DOMAIN w.mem
<1>0. IsFrame(N, w)
  BY FrameFields
<1> DEFINE s == [w.mem[b].cells EXCEPT ![j] = c]
           e == [w.mem[b] EXCEPT !.cells = s]
           x == [w EXCEPT !.mem = [w.mem EXCEPT ![b] = e]]
<1>1. b \in DOMAIN w.mem => e \in Blocks
  <2>1. ASSUME b \in DOMAIN w.mem PROVE e \in Blocks
    <3>1. w.mem[b] \in Blocks /\ w.mem[b].cells \in Seq(CellValues)
      BY <1>0, <2>1, BlockFields DEF IsFrame
    <3>2. s \in Seq(CellValues)
      <4>1. /\ w.mem[b].cells \in [1..Len(w.mem[b].cells) -> CellValues]
            /\ Len(w.mem[b].cells) \in Nat
        BY <3>1
      <4>2. s \in [1..Len(w.mem[b].cells) -> CellValues]
        BY <4>1
      <4> HIDE DEF s
      <4> QED
        BY <4>1, <4>2, SeqDef
    <3> HIDE DEF s
    <3> QED
      BY <3>1, <3>2, BlockFields
  <2> QED
    BY <2>1
<1>2. x \in Frames(N) /\ x.slots = w.slots /\ DOMAIN x.mem = DOMAIN w.mem
  <2> HIDE DEF e
  <2> QED
    BY <1>1, BlockFrame
<1>3. [w EXCEPT !.mem[b].cells[j] = c] = x
  OBVIOUS
<1> HIDE DEF x
<1> QED
  BY <1>2, <1>3

\* Writing what a block holds.
LEMMA ContentsFrame ==
  ASSUME NEW N \in Nat, NEW w \in Frames(N), NEW b, NEW v \in Held
  PROVE  [w EXCEPT !.mem[b].of = v] \in Frames(N)
<1>0. IsFrame(N, w)
  BY FrameFields
<1> DEFINE e == [w.mem[b] EXCEPT !.of = v]
           x == [w EXCEPT !.mem = [w.mem EXCEPT ![b] = e]]
<1>1. b \in DOMAIN w.mem => e \in Blocks
  BY <1>0, BlockFields DEF IsFrame
<1>2. x \in Frames(N)
  <2> HIDE DEF e
  <2> QED
    BY <1>1, BlockFrame
<1>3. [w EXCEPT !.mem[b].of = v] = x
  OBVIOUS
<1> HIDE DEF x
<1> QED
  BY <1>2, <1>3

\* The fields of a slot beside the cell.
LEMMA SlotFlagFrame ==
  ASSUME NEW N \in Nat, NEW w \in Frames(N), NEW i, NEW b \in BOOLEAN
  PROVE  /\ [w EXCEPT !.slots[i].typed = b] \in Frames(N)
         /\ [w EXCEPT !.slots[i].cleanup = b] \in Frames(N)
         /\ [w EXCEPT !.slots[i].indirect = b] \in Frames(N)
         /\ [w EXCEPT !.slots[i].there = b] \in Frames(N)
<1>0. IsFrame(N, w)
  BY FrameFields
<1>a. i \in 1..N => w.slots[i] \in Slots /\ InMemory(w, w.slots[i].val)
  BY <1>0 DEF IsFrame
<1>1. i \in 1..N => /\ [w.slots[i] EXCEPT !.typed = b] \in Slots
                    /\ InMemory(w, [w.slots[i] EXCEPT !.typed = b].val)
                    /\ [w.slots[i] EXCEPT !.cleanup = b] \in Slots
                    /\ InMemory(w, [w.slots[i] EXCEPT !.cleanup = b].val)
                    /\ [w.slots[i] EXCEPT !.indirect = b] \in Slots
                    /\ InMemory(w, [w.slots[i] EXCEPT !.indirect = b].val)
                    /\ [w.slots[i] EXCEPT !.there = b] \in Slots
                    /\ InMemory(w, [w.slots[i] EXCEPT !.there = b].val)
  <2> SUFFICES ASSUME i \in 1..N, NEW s, s = w.slots[i]
               PROVE  /\ [s EXCEPT !.typed = b] \in Slots
                      /\ [s EXCEPT !.typed = b].val = s.val
                      /\ [s EXCEPT !.cleanup = b] \in Slots
                      /\ [s EXCEPT !.cleanup = b].val = s.val
                      /\ [s EXCEPT !.indirect = b] \in Slots
                      /\ [s EXCEPT !.indirect = b].val = s.val
                      /\ [s EXCEPT !.there = b] \in Slots
                      /\ [s EXCEPT !.there = b].val = s.val
    BY <1>a
  <2>1. s \in Slots
    BY <1>a
  <2> QED
    BY <2>1 DEF Slots
<1>2. [w EXCEPT !.slots[i].typed = b] \in Frames(N)
  BY <1>1, SlotFrame
<1>3. [w EXCEPT !.slots[i].cleanup = b] \in Frames(N)
  BY <1>1, SlotFrame
<1>4. [w EXCEPT !.slots[i].indirect = b] \in Frames(N)
  BY <1>1, SlotFrame
<1>5. [w EXCEPT !.slots[i].there = b] \in Frames(N)
  BY <1>1, SlotFrame
<1> QED
  BY <1>2, <1>3, <1>4, <1>5

\* A size, as the caller and as the stub tell it.
LEMMA SizeFrame ==
  ASSUME NEW N \in Nat, NEW w \in Frames(N), NEW k, NEW n \in Nat, n < Word
  PROVE  /\ [w EXCEPT !.slots[k] =
               [@ EXCEPT !.val = Num(n), !.typed = TRUE, !.auto = TRUE]] \in Frames(N)
         /\ [w EXCEPT !.slots[k] = [@ EXCEPT !.val = Num(n), !.filled = TRUE]]
              \in Frames(N)
<1>0. IsFrame(N, w)
  BY FrameFields
<1>1. Num(n) \in CellValues /\ InMemory(w, Num(n))
  BY CellKinds DEF InMemory
<1> DEFINE s == [w.slots[k] EXCEPT !.val = Num(n), !.typed = TRUE, !.auto = TRUE]
           t == [w.slots[k] EXCEPT !.val = Num(n), !.filled = TRUE]
<1>2. k \in 1..N => s \in Slots /\ s.val = Num(n) /\ t \in Slots /\ t.val = Num(n)
  <2>1. k \in 1..N => w.slots[k] \in Slots
    BY <1>0 DEF IsFrame
  <2> QED
    BY <1>1, <2>1 DEF Slots
<1> HIDE DEF s, t
<1>3. /\ [w EXCEPT !.slots = [w.slots EXCEPT ![k] = s]] \in Frames(N)
      /\ [w EXCEPT !.slots = [w.slots EXCEPT ![k] = t]] \in Frames(N)
  BY <1>1, <1>2, SlotFrame
<1> QED
  BY <1>3 DEF s, t

\* A signature as XPIDL lets it be.
WellTyped(s) == s \in Seq(Descriptors) /\ WellFormed(s)

\* What a signature says of each parameter.
LEMMA SigFields ==
  ASSUME NEW s, WellTyped(s)
  PROVE  /\ Len(s) \in Nat /\ DOMAIN s = 1..Len(s)
         /\ \A i \in 1..Len(s) :
              /\ s[i] \in Descriptors
              /\ s[i].iid \in Nat
              /\ s[i].type = "array" \/ IsSized(s[i].type) => s[i].size \in 1..Len(s)
              /\ s[i].type = "array" => s[i].length \in 1..Len(s)
              /\ s[i].type = "iface_is" => s[i].iid \in 1..Len(s)
<1>1. s \in Seq(Descriptors)
  BY DEF WellTyped
<1>2. Len(s) \in Nat /\ DOMAIN s = 1..Len(s) /\ \A i \in 1..Len(s) : s[i] \in Descriptors
  BY <1>1
<1>3. \A i \in 1..Len(s) : s[i].iid \in Nat
  BY <1>2 DEF Descriptors
<1> QED
  BY <1>2, <1>3 DEF WellTyped, WellFormed

\* A value is a simple one or a list of values.
LEMMA HandledShape ==
  /\ \A v \in Handled : v \in Simple \/ (v.py = "list" /\ v.of \in Seq(Handled))
  /\ Simple \subseteq Handled
  /\ PyValues \subseteq Handled
  /\ Handled \subseteq Held
  /\ \A v \in Handled : Plain(v) \in Held /\ AsVariant(v) \in Held
  /\ \A s \in Seq(PyValues) : List(s) \in Handled
<1>1. ASSUME NEW v \in Handled
      PROVE  v \in Simple \/ (v.py = "list" /\ v.of \in Seq(Handled))
  <2>1. PICK d \in Nat : v \in ValuesTo[d]
    BY DEF Handled
  <2>2. CASE d = 0
    BY <2>1, <2>2, ValuesToEquation
  <2>3. CASE d # 0
    <3>1. d - 1 \in Nat /\ (d - 1) + 1 = d
      BY <2>3
    <3>2. ValuesTo[d] = Simple \cup Lists(ValuesTo[d - 1])
      BY <3>1, ValuesToEquation
    <3>3. Seq(ValuesTo[d - 1]) \subseteq Seq(Handled)
      <4>1. ValuesTo[d - 1] \subseteq Handled
        BY <3>1 DEF Handled
      <4> QED
        BY <4>1
    <3>4. v \in Lists(ValuesTo[d - 1]) => v.py = "list" /\ v.of \in Seq(ValuesTo[d - 1])
      BY DEF Lists
    <3> QED
      BY <2>1, <3>2, <3>3, <3>4
  <2> QED
    BY <2>2, <2>3
<1>2. Simple \subseteq Handled
  BY ValuesToEquation DEF Handled
<1>3. PyValues \subseteq Handled
  BY NestingAssumption DEF PyValues, Handled
<1>4. /\ Handled \subseteq Held
      /\ \A v \in Handled : Plain(v) \in Held /\ AsVariant(v) \in Held
  BY DEF Held
<1>5. ASSUME NEW s \in Seq(PyValues) PROVE List(s) \in Handled
  <2>1. List(s) \in Lists(ValuesTo[Nesting])
    BY DEF List, Lists, PyValues
  <2>2. List(s) \in ValuesTo[Nesting + 1] /\ Nesting + 1 \in Nat
    BY <2>1, NestingAssumption, ValuesToEquation
  <2> QED
    BY <2>2 DEF Handled
<1> QED
  BY <1>1, <1>2, <1>3, <1>4, <1>5

\* The values and interfaces that the conversions know by name.
LEMMA Constants ==
  /\ None \in Handled /\ Garbage \in Handled
  /\ \A n \in Nat : Str(n) \in Handled
  /\ Supports \in Interfaces
  /\ \A v \in Held : v.n \in Interfaces
  /\ Nat \subseteq Interfaces
<1>1. None \in Simple /\ Garbage \in Simple /\ \A n \in Nat : Str(n) \in Simple
  BY DEF Simple, None, Garbage, Str, Value
<1> QED
  BY <1>1, HandledShape DEF Supports, Interfaces

\* What a number or a text has for its value.
LEMMA Numbers ==
  ASSUME NEW v \in Handled
  PROVE  /\ ~IsSequence(v) => v.n \in Nat
         /\ IsNumber(v) \/ IsText(v) \/ Encodes(v) => v.n \in Nat
         /\ v = None => v.n = 0
         /\ IsSequence(v) => v.of \in Seq(Handled)
<1>1. v \in Simple => v.n \in Nat /\ v.py # "list"
  BY DEF Simple
<1> QED
  BY <1>1, HandledShape DEF IsSequence, IsNumber, IsText, Encodes, None, Value

\* A number cut to its width fits into it.
LEMMA CutFits ==
  /\ \A n \in Nat : Cut(n) \in Nat /\ Cut(n) < Word
  /\ Cut(-1) \in Nat /\ Cut(-1) < Word
<1>1. Word \in Nat /\ Word > 0
  BY WidthAssumption
<1> QED
  BY <1>1 DEF Cut

\* A sequence of equal members.
LEMMA TimesSeq ==
  ASSUME NEW S, NEW n \in Nat, NEW x \in S
  PROVE  Times(n, x) \in Seq(S) /\ Len(Times(n, x)) = n
         /\ Times(n, x) \in [1..n -> S] /\ \A i \in 1..n : Times(n, x)[i] = x
<1> DEFINE t == [j \in 1..n |-> x]
<1>1. t \in [1..n -> S]
  OBVIOUS
<1>2. t \in Seq(S) /\ Len(t) = n
  BY <1>1, SeqDef
<1>3. \A i \in 1..n : t[i] = x
  OBVIOUS
<1> HIDE DEF t
<1>4. SubSeq(t, 1, n) = t
  BY <1>2
<1> QED
  BY <1>1, <1>2, <1>3, <1>4 DEF Times, t

\* The blocks that the conversions allocate.
LEMMA BlockKinds ==
  /\ \A v \in Held : Block(v) \in Blocks
  /\ \A v \in Held : \A iid \in Interfaces : Reference(v, iid) \in Blocks
  /\ \A cells \in Seq(CellValues) : Array(cells) \in Blocks
<1>1. ASSUME NEW v \in Held PROVE Block(v) \in Blocks
  <2>1. <<>> \in Seq(CellValues)
    OBVIOUS
  <2> QED
    BY <2>1, Constants DEF Block, Blocks
<1>2. ASSUME NEW v \in Held, NEW iid \in Interfaces PROVE Reference(v, iid) \in Blocks
  BY <1>1 DEF Reference, Blocks
<1>3. ASSUME NEW cells \in Seq(CellValues) PROVE Array(cells) \in Blocks
  <2>1. Block(None) \in Blocks
    BY <1>1, Constants, HandledShape
  <2> QED
    BY <2>1, BlockFields DEF Array
<1> QED
  BY <1>1, <1>2, <1>3

\* Freeing several cells.
LEMMA FreeFold ==
  ASSUME NEW N \in Nat, NEW w \in Frames(N), NEW s \in Seq(CellValues)
  PROVE  /\ FoldLeft(Free, w, s) \in Frames(N)
         /\ FoldLeft(Free, w, s).slots = w.slots
         /\ DOMAIN FoldLeft(Free, w, s).mem = DOMAIN w.mem
<1> DEFINE n == Len(s)
           F == {x \in Frames(N) : x.slots = w.slots /\ DOMAIN x.mem = DOMAIN w.mem}
           Step(x, j) == Free(x, s[j])
           f == [p \in F \X (1..n) |-> Step(p[1], p[2])]
           Eqn(h) == h = [t \in SUBSET (DOMAIN s) |->
                            IF t = {} THEN w ELSE Step(h[t \ {Max(t)}], Max(t))]
<1>1. n \in Nat /\ DOMAIN s = 1..n
  OBVIOUS
<1>2. \A x \in F, j \in 1..n : Step(x, j) \in F
  BY FreeFrame
<1>3. w \in F
  OBVIOUS
<1>4. \E g : Eqn(g)
  <2>1. f \in [F \X (1..n) -> F]
    <3> HIDE DEF F, Step
    <3> QED
      BY <1>2
  <2>2. PICK g : FoldFrom(g, F, n, f, w)
    <3> HIDE DEF F, f, n
    <3>1. n \in Nat
      BY <1>1
    <3> QED
      BY <1>3, <2>1, <3>1, FoldExists
  <2>3. \A t \in SUBSET (1..n) :
          g[t] = IF t = {} THEN w ELSE Step(g[t \ {Max(t)}], Max(t))
    <3> HIDE DEF F, Step
    <3> SUFFICES ASSUME NEW t \in SUBSET (1..n), t # {}
                 PROVE  g[t] = Step(g[t \ {Max(t)}], Max(t))
      BY <2>2 DEF FoldFrom
    <3> QED
      BY <1>1, <2>2 DEF FoldFrom
  <2>4. Eqn(g)
    <3>1. g = [t \in SUBSET (1..n) |-> g[t]]
      BY <2>2 DEF FoldFrom
    <3>2. SUBSET (DOMAIN s) = SUBSET (1..n)
      BY <1>1
    <3> HIDE DEF F, Step
    <3>3. [t \in SUBSET (1..n) |-> g[t]] =
            [t \in SUBSET (1..n) |->
               IF t = {} THEN w ELSE Step(g[t \ {Max(t)}], Max(t))]
      BY <2>3, Zenon
    <3> QED
      BY <3>1, <3>2, <3>3
  <2> HIDE DEF Eqn
  <2> QED
    BY <2>4
<1> DEFINE h == CHOOSE h : Eqn(h)
<1>5. Eqn(h)
  <2> HIDE DEF Eqn
  <2> QED
    BY <1>4
<1>6. FoldLeft(Free, w, s) = h[1..n]
  <2>1. FoldLeft(Free, w, s) = h[DOMAIN s]
    BY DEF FoldLeft, MapThenFoldSet
  <2> HIDE DEF h
  <2> QED
    BY <1>1, <2>1
<1>7. h[1..n] \in F
  <2> HIDE DEF h
  <2>1. h[{}] \in F
    <3> HIDE DEF F
    <3> QED
      BY <1>3, <1>5
  <2>2. ASSUME NEW t \in SUBSET (1..n), t # {}, h[t \ {Max(t)}] \in F
        PROVE  h[t] = f[<<h[t \ {Max(t)}], Max(t)>>]
    <3> HIDE DEF F, Step
    <3>1. Max(t) \in 1..n
      BY <1>1, <2>2, MaxOfFinite
    <3> QED
      BY <1>1, <1>5, <2>2, <3>1
  <2>3. f \in [F \X (1..n) -> F]
    <3> HIDE DEF F, Step
    <3> QED
      BY <1>2
  <2> HIDE DEF F, f
  <2> QED
    BY <1>1, <2>1, <2>2, <2>3, FoldEnds
<1> QED
  BY <1>6, <1>7

\* Allocating a block for a parameter.
LEMMA PutNewFrame ==
  ASSUME NEW N \in Nat, NEW w \in Frames(N), NEW i, NEW b \in Blocks
  PROVE  /\ PutNew(w, i, b) \in Frames(N)
         /\ Own(w, i, b) \in Frames(N)
<1>1. /\ Allocate(w, b) \in Frames(N)
      /\ InMemory(Allocate(w, b), Newest(Allocate(w, b)))
      /\ Newest(Allocate(w, b)) \in CellValues
  BY AllocateFrame
<1>2. PutNew(w, i, b) \in Frames(N)
  BY <1>1, PutFrame DEF PutNew
<1> QED
  BY <1>2, SlotFlagFrame DEF Own

\* Writing null, a lent object or a number.
LEMMA NullFrame ==
  ASSUME NEW N \in Nat, NEW w \in Frames(N), NEW i
  PROVE  /\ Put(w, i, Null) \in Frames(N)
         /\ \A n \in Nat : Lent(n) \in CellValues /\ Put(w, i, Lent(n)) \in Frames(N)
         /\ \A n \in Nat : n < Word => Put(w, i, Num(n)) \in Frames(N)
<1>1. InMemory(w, Null) /\ Null \in CellValues
  BY CellKinds DEF InMemory
<1>2. \A n \in Nat : Lent(n) \in CellValues /\ InMemory(w, Lent(n))
  BY CellKinds DEF InMemory
<1>3. \A n \in Nat : n < Word => Num(n) \in CellValues /\ InMemory(w, Num(n))
  BY CellKinds DEF InMemory
<1> QED
  BY <1>1, <1>2, <1>3, PutFrame

\* What is read through a pointer.
LEMMA PointeeHeld ==
  ASSUME NEW N \in Nat, NEW w \in Frames(N), NEW c \in CellValues, InMemory(w, c)
  PROVE  Pointee(w, c) \in Held /\ Pointee(w, c).n \in Interfaces
<1>1. c.n \in Nat
  BY DEF CellValues
<1>2. Str(c.n) \in Held /\ None \in Held /\ Garbage \in Held
  BY <1>1, Constants, HandledShape
<1>3. Live(w, c) => w.mem[c.n].of \in Held
  BY FrameFields, BlockFields DEF Live, InMemory, IsFrame
<1>4. Pointee(w, c) \in Held
  BY <1>2, <1>3 DEF Pointee
<1> QED
  BY <1>4, Constants

\* The block behind an interface pointer.
LEMMA InterfaceBlockKind ==
  ASSUME NEW v \in Handled, NEW type, NEW iid \in Interfaces
  PROVE  InterfaceBlock(v, type, iid) \in Blocks
BY HandledShape, BlockKinds, Constants DEF InterfaceBlock

\* A pair of a frame and a cell that may be put there.
Pairs(N) == {r \in Frames(N) \X CellValues : InMemory(r[1], r[2])}

\* Interface_FromPyObject: the pointer it returns is into memory.
LEMMA InterfaceFrame ==
  ASSUME NEW N \in Nat, NEW w \in Frames(N), NEW v \in Handled, NEW type,
         NEW iid \in Interfaces
  PROVE  InterfaceFromPyObject(w, v, type, iid) \in Pairs(N)
<1> DEFINE a == Allocate(w, InterfaceBlock(v, type, iid))
<1>1. a \in Frames(N) /\ Newest(a) \in CellValues /\ InMemory(a, Newest(a))
  BY InterfaceBlockKind, AllocateFrame
<1>2. [a EXCEPT !.err = "error"] \in Frames(N) /\ InMemory([a EXCEPT !.err = "error"], Newest(a))
  <2> HIDE DEF a
  <2>1. "error" \in ErrKinds
    BY DEF ErrKinds
  <2>2. [a EXCEPT !.err = "error"].mem = a.mem
    BY <1>1, FrameUpdates
  <2> QED
    BY <1>1, <2>1, <2>2, FlagFrame DEF InMemory
<1>3. Raise(w) \in Frames(N) /\ Crash(w) \in Frames(N)
  BY FaultFrame
<1>4. Null \in CellValues /\ \A x : InMemory(x, Null)
  BY CellKinds DEF InMemory
<1> HIDE DEF a
<1> QED
  BY <1>1, <1>2, <1>3, <1>4 DEF InterfaceFromPyObject, Pairs, a

\* Reading text for Python.
LEMMA DecodedFrame ==
  ASSUME NEW N \in Nat, NEW w \in Frames(N), NEW i, NEW v
  PROVE  Decoded(w, i, v)[1] \in Frames(N)
BY FaultFrame DEF Decoded

-----------------------------------------------------------------------------
(***************************************************************************)
(* Arrays and sizes.                                                       *)
(***************************************************************************)

\* The cells that a pointer leads to.
LEMMA CellsKind ==
  ASSUME NEW N \in Nat, NEW w \in Frames(N), NEW c, InMemory(w, c)
  PROVE  Cells(w, c) \in Seq(CellValues)
<1>1. c.is = "ptr" => w.mem[c.n].cells \in Seq(CellValues)
  BY FrameFields, BlockFields DEF InMemory, IsFrame
<1> QED
  BY <1>1 DEF Cells

\* FreeSingleArray.
LEMMA FreeArrayFrame ==
  ASSUME NEW N \in Nat, NEW w \in Frames(N), NEW c, InMemory(w, c), NEW n \in Nat,
         NEW elem
  PROVE  /\ FreeSingleArray(w, c, n, elem) \in Frames(N)
         /\ FreeSingleArray(w, c, n, elem).slots = w.slots
<1>1. Cells(w, c) \in Seq(CellValues)
  BY CellsKind
<1>2. n <= Len(Cells(w, c)) => SubSeq(Cells(w, c), 1, n) \in Seq(CellValues)
  BY <1>1
<1>3. ~(n > Len(Cells(w, c))) => n <= Len(Cells(w, c))
  BY <1>1
<1>4. /\ Fault(w, "past the end") \in Frames(N)
      /\ Fault(w, "past the end").slots = w.slots
  <2>1. "past the end" \in FaultKinds
    BY DEF FaultKinds
  <2>2. Fault(w, "past the end").slots = w.slots
    BY FrameUpdates DEF Fault
  <2> QED
    BY <2>1, <2>2, FaultFrame
<1> QED
  BY <1>2, <1>3, <1>4, FreeFold DEF FreeSingleArray

\* Writing an element of an array, or a new block into it.
LEMMA ElementFrame ==
  ASSUME NEW N \in Nat, NEW w \in Frames(N), NEW b, NEW j
  PROVE  /\ \A c \in CellValues : SetElement(w, b, j, c) \in Frames(N)
         /\ \A block \in Blocks : NewElement(w, b, j, block) \in Frames(N)
<1>1. \A x \in Frames(N), c \in CellValues : SetElement(x, b, j, c) \in Frames(N)
  BY CellSetFrame DEF SetElement
<1> QED
  BY <1>1, AllocateFrame DEF NewElement

\* The items of a list or of a text, as many as a size can tell.
LEMMA ItemsKind ==
  ASSUME NEW v \in Handled, Fits(v), HasItems(v), NEW elem
  PROVE  /\ Items(v, elem) \in Seq(Handled)
         /\ Len(Items(v, elem)) \in Nat /\ Len(Items(v, elem)) < Word
<1>1. CASE IsSequence(v)
  <2>1. Items(v, elem) = v.of
    BY <1>1 DEF Items
  <2> QED
    BY <1>1, <2>1, Numbers DEF Fits, Length
<1>2. CASE v = OddText
  <2>1. Items(v, elem) = <<v>>
    BY <1>2 DEF Items, IsSequence, OddText, Value
  <2>2. <<v>> \in Seq(Handled) /\ Len(<<v>>) = 1
    OBVIOUS
  <2> QED
    BY <2>1, <2>2, WidthAssumption
<1>3. CASE ~IsSequence(v) /\ v # OddText
  <2> DEFINE item == IF elem = "octet" THEN Integer(1) ELSE Value(v.py, 1)
             s == [j \in 1..v.n |-> item]
  <2>1. IsText(v)
    BY <1>3 DEF HasItems
  <2>2. v.n \in Nat /\ v.n < Word
    BY <1>3, <2>1, Numbers DEF Fits, Length
  <2>3. item \in Handled
    <3>1. item \in Simple
      BY <2>1 DEF IsText, Simple, Integer, Value
    <3> QED
      BY <3>1, HandledShape
  <2>4. s \in Seq(Handled) /\ Len(s) = v.n
    <3> HIDE DEF item
    <3>1. s \in [1..v.n -> Handled]
      BY <2>3
    <3> HIDE DEF s
    <3> QED
      BY <2>2, <3>1
  <2>5. Items(v, elem) = s
    BY <1>3 DEF Items
  <2> QED
    BY <2>2, <2>4, <2>5
<1> QED
  BY <1>1, <1>2, <1>3

\* A character fits.
LEMMA FirstCharFits ==
  ASSUME NEW v
  PROVE  FirstChar(v) \in Nat /\ FirstChar(v) < Word
BY WidthAssumption DEF FirstChar

\* One round of FillSingleArray.
LEMMA FillElementFrame ==
  ASSUME NEW N \in Nat, NEW w \in Frames(N), NEW b, NEW j, NEW elem, NEW v \in Handled
  PROVE  FillElement(w, b, j, elem, v) \in Frames(N)
<1> DEFINE old == w.mem[b].cells[j]
           freed == SetElement(Free(w, old), b, j, Null)
           new == InterfaceFromPyObject(w, v, elem, Supports)
<1>1. freed \in Frames(N)
  BY FreeFrame, CellKinds, ElementFrame
<1>2. \A x \in Frames(N) : Raise(x) \in Frames(N)
  BY FaultFrame
<1>3. Block(v) \in Blocks /\ Block(Plain(v)) \in Blocks
  BY HandledShape, BlockKinds
<1>4. IsNumber(v) =>
        /\ SetElement(w, b, j, Num(Cut(v.n))) \in Frames(N)
        /\ [SetElement(w, b, j, Num(Cut(-1))) EXCEPT !.err = "error"] \in Frames(N)
  <2>1. IsNumber(v) => Num(Cut(v.n)) \in CellValues /\ Num(Cut(-1)) \in CellValues
    BY Numbers, CutFits, CellKinds
  <2>2. "error" \in ErrKinds
    BY DEF ErrKinds
  <2> QED
    BY <2>1, <2>2, ElementFrame, FlagFrame
<1>5. new[1] \in Frames(N) /\ SetElement(Free(new[1], old), b, j, new[2]) \in Frames(N)
  <2>1. new[1] \in Frames(N) /\ new[2] \in CellValues
    BY InterfaceFrame, Constants DEF Pairs
  <2> HIDE DEF new, old
  <2> QED
    BY <2>1, FreeFrame, ElementFrame
<1>6. NewElement(freed, b, j, Block(v)) \in Frames(N)
      /\ NewElement(freed, b, j, Block(Plain(v))) \in Frames(N)
  BY <1>1, <1>3, ElementFrame
<1>7. SetElement(w, b, j, Num(FirstChar(v))) \in Frames(N)
  BY FirstCharFits, CellKinds, ElementFrame
<1> HIDE DEF freed, new
<1> QED
  BY <1>1, <1>2, <1>4, <1>5, <1>6, <1>7 DEF FillElement, freed, new

\* FillSingleArray.
LEMMA FillArrayFrame ==
  ASSUME NEW N \in Nat, NEW w \in Frames(N), NEW b, NEW elem, NEW s \in Seq(Handled)
  PROVE  FillSingleArray(w, b, elem, s) \in Frames(N)
<1> DEFINE n == Len(s)
           F == Frames(N)
           Step(x, j) == IF x.ok THEN FillElement(x, b, j, elem, s[j]) ELSE x
           f == [p \in F \X (1..n) |-> Step(p[1], p[2])]
           id == [i \in DOMAIN s |-> i]
           Eqn(h) == h = [t \in SUBSET (DOMAIN id) |->
                            IF t = {} THEN w ELSE Step(h[t \ {Max(t)}], id[Max(t)])]
<1>1. /\ n \in Nat /\ DOMAIN s = 1..n
      /\ DOMAIN id = 1..n /\ \A i \in 1..n : id[i] = i
  OBVIOUS
<1>2. \A x \in F, j \in 1..n : Step(x, j) \in F
  BY FillElementFrame
<1>3. w \in F
  OBVIOUS
<1>4. \E g : Eqn(g)
  <2>1. f \in [F \X (1..n) -> F]
    <3> HIDE DEF F, Step, id
    <3> QED
      BY <1>2
  <2>2. PICK g : FoldFrom(g, F, n, f, w)
    <3> HIDE DEF F, f, n, id
    <3>1. n \in Nat
      BY <1>1
    <3> QED
      BY <1>3, <2>1, <3>1, FoldExists
  <2>3. \A t \in SUBSET (1..n) :
          g[t] = IF t = {} THEN w ELSE Step(g[t \ {Max(t)}], id[Max(t)])
    <3> HIDE DEF F, Step, id
    <3> SUFFICES ASSUME NEW t \in SUBSET (1..n), t # {}
                 PROVE  g[t] = Step(g[t \ {Max(t)}], id[Max(t)])
      BY <2>2 DEF FoldFrom
    <3> QED
      BY <1>1, <2>2 DEF FoldFrom
  <2>4. Eqn(g)
    <3>1. g = [t \in SUBSET (1..n) |-> g[t]]
      BY <2>2 DEF FoldFrom
    <3>2. SUBSET (DOMAIN id) = SUBSET (1..n)
      BY <1>1
    <3> HIDE DEF F, Step, id
    <3>3. [t \in SUBSET (1..n) |-> g[t]] =
            [t \in SUBSET (1..n) |->
               IF t = {} THEN w ELSE Step(g[t \ {Max(t)}], id[Max(t)])]
      BY <2>3, Zenon
    <3> QED
      BY <3>1, <3>2, <3>3
  <2> HIDE DEF Eqn
  <2> QED
    BY <2>4
<1> DEFINE h == CHOOSE h : Eqn(h)
<1>5. Eqn(h)
  <2> HIDE DEF Eqn
  <2> QED
    BY <1>4
<1>6. FillSingleArray(w, b, elem, s) = h[1..n]
  <2>1. FillSingleArray(w, b, elem, s) = h[DOMAIN id]
    BY DEF FillSingleArray, FoldLeftDomain, FoldLeft, MapThenFoldSet
  <2> HIDE DEF h, id
  <2> QED
    BY <1>1, <2>1
<1>7. h[1..n] \in F
  <2> HIDE DEF h
  <2>1. h[{}] \in F
    <3> HIDE DEF F, id
    <3> QED
      BY <1>3, <1>5
  <2>2. ASSUME NEW t \in SUBSET (1..n), t # {}, h[t \ {Max(t)}] \in F
        PROVE  h[t] = f[<<h[t \ {Max(t)}], Max(t)>>]
    <3> HIDE DEF F, Step, id
    <3>1. Max(t) \in 1..n
      BY <1>1, <2>2, MaxOfFinite
    <3> QED
      BY <1>1, <1>5, <2>2, <3>1
  <2>3. f \in [F \X (1..n) -> F]
    <3> HIDE DEF F, Step, id
    <3> QED
      BY <1>2
  <2> HIDE DEF F, f, id
  <2> QED
    BY <1>1, <2>1, <2>2, <2>3, FoldEnds
<1> QED
  BY <1>6, <1>7

\* Zero is a number in a variant, and so are the numbers told as sizes.
LEMMA SlotNumbers ==
  ASSUME NEW N \in Nat, NEW w \in Frames(N)
  PROVE  /\ \A i \in 1..N : /\ w.slots[i].val \in CellValues
                            /\ w.slots[i].val.n \in Nat
                            /\ InMemory(w, w.slots[i].val)
         /\ 0 \in Nat /\ 0 < Word /\ 1 \in Nat /\ 1 < Word
<1>1. \A i \in 1..N : w.slots[i] \in Slots /\ InMemory(w, w.slots[i].val)
  BY FrameFields DEF IsFrame
<1>2. \A i \in 1..N : w.slots[i].val \in CellValues
  BY <1>1, SlotFields
<1>3. \A c \in CellValues : c.n \in Nat
  BY DEF CellValues
<1> QED
  BY <1>1, <1>2, <1>3, WidthAssumption

\* PrepareOutVariant for an array.
LEMMA PrepareArrayFrame ==
  ASSUME WellTyped(sig), NEW N, N = Len(sig), NEW w \in Frames(N), NEW i \in 1..N,
         sig[i].type = "array"
  PROVE  PrepareArray(w, i) \in Frames(N)
<1> DEFINE size == GetSizeOrLengthIs(w, sig[i].size)
           zero == IF IsArithmetic(sig[i].elem) THEN Num(0) ELSE Null
           zeros == Times(size, zero)
           x == PutNew(w, i, Array(zeros))
           flag == ~IsArithmetic(sig[i].elem)
<1>1. N \in Nat /\ sig[i].size \in 1..N
  BY SigFields
<1>2. size \in Nat
  BY <1>1, SlotNumbers DEF GetSizeOrLengthIs
<1>3. zero \in CellValues
  BY CellKinds, SlotNumbers, WidthAssumption
<1>4. zeros \in Seq(CellValues)
  <2> HIDE DEF size, zero
  <2> QED
    BY <1>2, <1>3, TimesSeq
<1>5. x \in Frames(N)
  <2>1. Array(zeros) \in Blocks
    BY <1>4, BlockKinds
  <2> HIDE DEF zeros
  <2> QED
    BY <1>1, <2>1, PutNewFrame
<1>6. [x EXCEPT !.slots[i].cleanup = flag] \in Frames(N)
  <2>1. flag \in BOOLEAN
    BY DEF IsArithmetic
  <2> HIDE DEF x
  <2> QED
    BY <1>1, <1>5, <2>1, SlotFlagFrame
<1> QED
  BY <1>6 DEF PrepareArray

\* PrepareOutVariant.
LEMMA PrepareOutFrame ==
  ASSUME WellTyped(sig), NEW N, N = Len(sig), NEW w \in Frames(N), NEW i \in 1..N
  PROVE  PrepareOutVariant(w, i) \in Frames(N)
<1> DEFINE x == [w EXCEPT !.slots[i].indirect = TRUE]
<1>1. N \in Nat
  BY SigFields
<1>2. x \in Frames(N)
  <2> QED
    BY <1>1, SlotFlagFrame
<1>3. Put(x, i, Num(0)) \in Frames(N)
  <2> HIDE DEF x
  <2> QED
    BY <1>1, <1>2, NullFrame, SlotNumbers
<1>4. sig[i].type = "array" => PrepareArray(x, i) \in Frames(N)
  <2> HIDE DEF x
  <2> QED
    BY <1>2, PrepareArrayFrame
<1>5. PrepareDipper(x, i) \in Frames(N)
  <2>1. Block(Str(0)) \in Blocks
    BY Constants, HandledShape, BlockKinds
  <2> HIDE DEF x
  <2> QED
    BY <1>1, <1>2, <2>1, PutNewFrame DEF PrepareDipper
<1> QED
  BY <1>2, <1>3, <1>4, <1>5 DEF PrepareOutVariant

\* SetSizeOrLengthIs: the number that it writes has its width.
LEMMA SetSizeFrame ==
  ASSUME WellTyped(sig), NEW N, N = Len(sig), NEW w \in Frames(N), NEW i, NEW k \in 1..N,
         NEW n \in Nat, n < Word
  PROVE  SetSizeOrLengthIs(w, i, k, n) \in Frames(N)
<1> DEFINE told == [w EXCEPT !.slots[k] =
                      [@ EXCEPT !.val = Num(n), !.typed = TRUE, !.auto = TRUE]]
<1>1. N \in Nat
  BY SigFields
<1>2. told \in Frames(N) /\ Raise(w) \in Frames(N)
  <2> QED
    BY <1>1, SizeFrame, FaultFrame
<1>3. PrepareOutVariant(told, k) \in Frames(N)
  <2> HIDE DEF told
  <2> QED
    BY <1>2, PrepareOutFrame
<1> QED
  BY <1>2, <1>3 DEF SetSizeOrLengthIs

-----------------------------------------------------------------------------
(***************************************************************************)
(* Arguments and results of a call from Python.                            *)
(***************************************************************************)

\* What the conversions put into memory.
LEMMA Puts ==
  ASSUME NEW N \in Nat, NEW w \in Frames(N), NEW i, NEW v \in Handled
  PROVE  /\ Own(w, i, Block(v)) \in Frames(N)
         /\ Own(w, i, Block(Plain(v))) \in Frames(N)
         /\ Own(w, i, Block(Str(0))) \in Frames(N)
         /\ PutNew(w, i, Block(v)) \in Frames(N)
         /\ PutNew(w, i, Block(Plain(v))) \in Frames(N)
         /\ Raise(w) \in Frames(N) /\ Crash(w) \in Frames(N) /\ Fail(w) \in Frames(N)
         /\ Put(w, i, Null) \in Frames(N)
         /\ Put(w, i, Num(0)) \in Frames(N) /\ Put(w, i, Num(1)) \in Frames(N)
<1>1. Block(v) \in Blocks /\ Block(Plain(v)) \in Blocks /\ Block(Str(0)) \in Blocks
  BY Constants, HandledShape, BlockKinds
<1>2. Raise(w) \in Frames(N) /\ Crash(w) \in Frames(N) /\ Fail(w) \in Frames(N)
  BY FaultFrame
<1>3. /\ Put(w, i, Null) \in Frames(N)
      /\ Put(w, i, Num(0)) \in Frames(N) /\ Put(w, i, Num(1)) \in Frames(N)
  BY NullFrame, SlotNumbers
<1> QED
  BY <1>1, <1>2, <1>3, PutNewFrame

\* FillInVariant for an interface,
LEMMA FillInterfaceFrame ==
  ASSUME NEW N \in Nat, NEW w \in Frames(N), NEW i, NEW v \in Handled,
         NEW iid \in Interfaces
  PROVE  FillInterface(w, i, v, iid) \in Frames(N)
<1> DEFINE x == InterfaceFromPyObject(w, v, sig[i].type, iid)
           y == x[1]
           c == x[2]
           b == v # None
<1>1. y \in Frames(N) /\ c \in CellValues /\ InMemory(y, c)
  BY InterfaceFrame DEF Pairs
<1>2. Put(y, i, c) \in Frames(N)
  <2> HIDE DEF y, c
  <2> QED
    BY <1>1, PutFrame
<1>3. [Put(y, i, c) EXCEPT !.slots[i].cleanup = b] \in Frames(N)
  <2>1. b \in BOOLEAN
    OBVIOUS
  <2> HIDE DEF y, c, b
  <2> QED
    BY <1>2, <2>1, SlotFlagFrame
<1> QED
  BY <1>1, <1>3 DEF FillInterface

\* for one whose iid another parameter tells,
LEMMA FillInterfaceIsFrame ==
  ASSUME WellTyped(sig), NEW N, N = Len(sig), NEW w \in Frames(N), NEW i \in 1..N,
         NEW v \in Handled, sig[i].type = "iface_is"
  PROVE  FillInterfaceIs(w, i, v) \in Frames(N)
<1>1. N \in Nat /\ sig[i].iid \in 1..N
  BY SigFields
<1>2. Pointee(w, w.slots[sig[i].iid].val).n \in Interfaces /\ Supports \in Interfaces
  BY <1>1, SlotNumbers, PointeeHeld, Constants
<1> QED
  BY <1>1, <1>2, FillInterfaceFrame DEF FillInterfaceIs

\* for text with a size,
LEMMA FillSizedFrame ==
  ASSUME WellTyped(sig), NEW N, N = Len(sig), NEW w \in Frames(N), NEW i \in 1..N,
         NEW v \in Handled, Fits(v), IsSized(sig[i].type)
  PROVE  FillSized(w, i, v) \in Frames(N)
<1>1. N \in Nat /\ sig[i].size \in 1..N
  BY SigFields
<1>2. Encodes(v) => v.n \in Nat /\ v.n < Word
  <2>1. Encodes(v) => IsText(v) /\ ~IsSequence(v)
    BY DEF Encodes, IsText, IsSequence
  <2> QED
    BY <2>1, Numbers DEF Fits, Length
<1>3. Own(w, i, Block(Plain(v))) \in Frames(N)
  BY <1>1, Puts
<1>4. Encodes(v) =>
        SetSizeOrLengthIs(Own(w, i, Block(Plain(v))), i, sig[i].size, v.n) \in Frames(N)
  BY <1>1, <1>2, <1>3, SetSizeFrame
<1> QED
  BY <1>1, <1>4, Puts DEF FillSized

\* for an array: whether it keeps what it has filled,
LEMMA KeepArrayFrame ==
  ASSUME NEW N \in Nat, NEW w \in Frames(N), NEW i, NEW filled
  PROVE  KeepArray(w, i, filled) \in Frames(N)
<1> DEFINE x == Free(w, w.slots[i].val)
           flag == ~IsArithmetic(sig[i].elem)
<1>1. x \in Frames(N)
  BY FreeFrame
<1>2. Fail(Put(x, i, Null)) \in Frames(N)
  <2> HIDE DEF x
  <2> QED
    BY <1>1, NullFrame, FaultFrame
<1>3. [w EXCEPT !.slots[i].cleanup = flag] \in Frames(N)
  <2>1. flag \in BOOLEAN
    BY DEF IsArithmetic
  <2> HIDE DEF flag
  <2> QED
    BY <2>1, SlotFlagFrame
<1> QED
  BY <1>2, <1>3 DEF KeepArray

\* the size that it tells,
LEMMA SizeArrayFrame ==
  ASSUME WellTyped(sig), NEW N, N = Len(sig), NEW w \in Frames(N), NEW i \in 1..N,
         sig[i].type = "array", NEW n \in Nat, n < Word
  PROVE  SizeArray(w, i, n) \in Frames(N)
<1> DEFINE x == [w EXCEPT !.ok = TRUE]
           y == SetSizeOrLengthIs(x, i, sig[i].length, n)
<1>1. N \in Nat /\ sig[i].length \in 1..N
  BY SigFields
<1>2. x \in Frames(N)
  BY <1>1, FlagFrame
<1>3. y \in Frames(N)
  <2> HIDE DEF x
  <2> QED
    BY <1>1, <1>2, SetSizeFrame
<1> HIDE DEF y
<1>4. \A o : KeepArray(y, i, o) \in Frames(N)
  BY <1>1, <1>3, KeepArrayFrame
<1> QED
  BY <1>4 DEF SizeArray, y

\* and the whole of it,
LEMMA FillArrayParamFrame ==
  ASSUME WellTyped(sig), NEW N, N = Len(sig), NEW w \in Frames(N), NEW i \in 1..N,
         sig[i].type = "array", NEW v \in Handled, Fits(v)
  PROVE  FillArray(w, i, v) \in Frames(N)
<1>1. N \in Nat
  BY SigFields
<1> DEFINE items == Items(v, sig[i].elem)
<1>2. ASSUME HasItems(v)
      PROVE  SizeArray(FillSingleArray(PutNew(w, i, Array(Times(Len(items), Null))),
                         Newest(PutNew(w, i, Array(Times(Len(items), Null)))).n,
                         sig[i].elem, items), i, Len(items)) \in Frames(N)
  <2> DEFINE n == Len(items)
             empty == PutNew(w, i, Array(Times(n, Null)))
             b == Newest(empty).n
  <2>1. items \in Seq(Handled) /\ n \in Nat /\ n < Word
    BY <1>2, ItemsKind
  <2> HIDE DEF items
  <2>2. Array(Times(n, Null)) \in Blocks
    BY <2>1, CellKinds, TimesSeq, BlockKinds
  <2>3. empty \in Frames(N)
    BY <1>1, <2>2, PutNewFrame
  <2> HIDE DEF empty
  <2>4. FillSingleArray(empty, b, sig[i].elem, items) \in Frames(N)
    BY <1>1, <2>1, <2>3, FillArrayFrame
  <2> QED
    BY <2>1, <2>4, SizeArrayFrame DEF empty
<1> QED
  BY <1>1, <1>2, Puts DEF FillArray

\* for numbers, characters and iids,
LEMMA FillScalarFrame ==
  ASSUME NEW N \in Nat, NEW w \in Frames(N), NEW i, NEW v \in Handled
  PROVE  /\ FillNumber(w, i, v) \in Frames(N)
         /\ FillChar(w, i, v) \in Frames(N)
         /\ FillIID(w, i, v) \in Frames(N)
<1>1. IsNumber(v) /\ v.n < Word => Put(w, i, Num(v.n)) \in Frames(N)
  BY Numbers, NullFrame
<1>2. FillNumber(w, i, v) \in Frames(N)
  BY <1>1, Puts DEF FillNumber
<1>3. FillChar(w, i, v) \in Frames(N)
  BY Puts DEF FillChar
<1>4. FillIID(w, i, v) \in Frames(N)
  BY Puts DEF FillIID
<1> QED
  BY <1>2, <1>3, <1>4

\* for text without a size,
LEMMA FillTextFrame ==
  ASSUME NEW N \in Nat, NEW w \in Frames(N), NEW i, NEW v \in Handled
  PROVE  /\ FillAString(w, i, v) \in Frames(N)
         /\ FillCString(w, i, v) \in Frames(N)
         /\ FillString(w, i, v) \in Frames(N)
<1>1. FillAString(w, i, v) \in Frames(N)
  <2>1. Raise(Own(w, i, Block(Str(0)))) \in Frames(N)
    BY Puts
  <2> QED
    BY <2>1, Puts DEF FillAString
<1>2. FillCString(w, i, v) \in Frames(N)
  BY Puts DEF FillCString
<1>3. FillString(w, i, v) \in Frames(N)
  <2>1. v.py = "str" => v.n \in Nat
    BY Numbers DEF IsText
  <2>2. v.py = "str" => Put(w, i, Lent(v.n)) \in Frames(N)
    BY <2>1, NullFrame
  <2> QED
    BY <2>2, Puts DEF FillString
<1> QED
  BY <1>1, <1>2, <1>3

\* and for every type.
LEMMA FillKind ==
  ASSUME WellTyped(sig), NEW N, N = Len(sig), NEW w \in Frames(N), NEW i \in 1..N,
         NEW v \in Handled, Fits(v)
  PROVE  Fill(w, i, v) \in Frames(N)
<1>1. N \in Nat /\ sig[i].iid \in Nat
  BY SigFields
<1>2. /\ FillNumber(w, i, v) \in Frames(N) /\ FillChar(w, i, v) \in Frames(N)
      /\ FillIID(w, i, v) \in Frames(N) /\ FillAString(w, i, v) \in Frames(N)
      /\ FillCString(w, i, v) \in Frames(N) /\ FillString(w, i, v) \in Frames(N)
      /\ Raise(w) \in Frames(N)
  BY <1>1, FillScalarFrame, FillTextFrame, Puts
<1>3. /\ FillInterface(w, i, v, sig[i].iid) \in Frames(N)
      /\ FillInterface(w, i, v, Supports) \in Frames(N)
  BY <1>1, Constants, FillInterfaceFrame
<1>4. sig[i].type = "iface_is" => FillInterfaceIs(w, i, v) \in Frames(N)
  BY FillInterfaceIsFrame
<1>5. IsSized(sig[i].type) => FillSized(w, i, v) \in Frames(N)
  BY FillSizedFrame
<1>6. sig[i].type = "array" => FillArray(w, i, v) \in Frames(N)
  BY FillArrayParamFrame
<1> QED
  BY <1>2, <1>3, <1>4, <1>5, <1>6 DEF Fill

\* FillInVariant.
LEMMA FillFrame ==
  ASSUME WellTyped(sig), NEW N, N = Len(sig), NEW w \in Frames(N), NEW i \in 1..N,
         NEW v \in Handled, Fits(v)
  PROVE  FillInVariant(w, i, v) \in Frames(N)
<1> DEFINE x == Fill(w, i, v)
           b == x.ok /\ x.err = "none"
<1>1. N \in Nat /\ x \in Frames(N)
  BY SigFields, FillKind
<1>2. b \in BOOLEAN
  BY <1>1, FrameFields DEF IsFrame
<1>3. [x EXCEPT !.ok = b] \in Frames(N)
  <2> HIDE DEF x, b
  <2> QED
    BY <1>1, <1>2, FlagFrame
<1> QED
  BY <1>3 DEF FillInVariant

\* MakeSinglePythonResult.
LEMMA SingleResultFrame ==
  ASSUME WellTyped(sig), NEW N, N = Len(sig), NEW w \in Frames(N), NEW i \in 1..N
  PROVE  MakeSinglePythonResult(w, i)[1] \in Frames(N)
<1>1. N \in Nat
  BY SigFields
<1>2. TakeInterface(w, i)[1] \in Frames(N)
  <2>1. Free(w, w.slots[i].val) \in Frames(N)
    BY <1>1, FreeFrame
  <2> QED
    BY <1>1, <2>1, NullFrame DEF TakeInterface
<1>3. \A v : Decoded(w, i, v)[1] \in Frames(N)
  BY <1>1, DecodedFrame
<1> QED
  BY <1>2, <1>3 DEF MakeSinglePythonResult

\* One round of the clean-up in the destructor of the helper.
LEMMA CleanupFrame ==
  ASSUME WellTyped(sig), NEW N, N = Len(sig), NEW w \in Frames(N), NEW i \in 1..N
  PROVE  CleanupSlot(w, i) \in Frames(N)
<1> DEFINE c == w.slots[i].val
           n == GetSizeOrLengthIs(w, sig[i].length)
           x == FreeSingleArray(w, c, n, sig[i].elem)
<1>1. N \in Nat /\ InMemory(w, c)
  BY SigFields, SlotNumbers
<1>2. sig[i].type = "array" => x \in Frames(N)
  <2>1. sig[i].type = "array" => n \in Nat
    BY SigFields, SlotNumbers DEF GetSizeOrLengthIs
  <2> HIDE DEF n, c
  <2> QED
    BY <1>1, <2>1, FreeArrayFrame
<1>3. sig[i].type = "array" => CleanupArray(w, i) \in Frames(N)
  <2>1. sig[i].type = "array" => Free(x, c) \in Frames(N)
    <3> HIDE DEF x, c
    <3> QED
      BY <1>1, <1>2, FreeFrame
  <2>2. Free(w, c) \in Frames(N)
    BY <1>1, FreeFrame
  <2> QED
    BY <2>1, <2>2 DEF CleanupArray
<1>4. CleanupParam(w, c, sig[i].type) \in Frames(N)
  BY <1>1, FreeFrame DEF CleanupParam
<1> QED
  BY <1>3, <1>4 DEF CleanupSlot

-----------------------------------------------------------------------------
(***************************************************************************)
(* Answers of a Python method: BackFillVariant.                            *)
(***************************************************************************)

\* MakeSingleParam, for the stub.
LEMMA SingleParamFrame ==
  ASSUME NEW N \in Nat, NEW w \in Frames(N), NEW i
  PROVE  MakeSingleParam(w, i)[1] \in Frames(N)
<1>1. \A v : Decoded(w, i, v)[1] \in Frames(N)
  BY DecodedFrame
<1>2. Crash(w) \in Frames(N)
  BY FaultFrame
<1> QED
  BY <1>1, <1>2 DEF MakeSingleParam

\* Freeing what an inout parameter held, before it is written.
LEMMA DroppedFrame ==
  ASSUME NEW N \in Nat, NEW w \in Frames(N), NEW i
  PROVE  Dropped(w, i) \in Frames(N)
<1>1. Free(w, w.slots[i].val) \in Frames(N)
  BY FreeFrame
<1> QED
  BY <1>1, NullFrame DEF Dropped

\* Writing the size or length of a result.
LEMMA BackFillSizeFrame ==
  ASSUME NEW N \in Nat, NEW w \in Frames(N), NEW k, NEW n \in Nat, n < Word
  PROVE  BackFillSize(w, k, n) \in Frames(N)
BY SizeFrame, FaultFrame DEF BackFillSize

\* BackFillVariant for a number,
LEMMA BackFillNumberFrame ==
  ASSUME NEW N \in Nat, NEW w \in Frames(N), NEW i, NEW v \in Handled
  PROVE  BackFillNumber(w, i, v) \in Frames(N)
<1> DEFINE long == [Put(w, i, Num(Cut(-1))) EXCEPT !.err = "error"]
<1>1. IsNumber(v) => Put(w, i, Num(Cut(v.n))) \in Frames(N)
  BY Numbers, CutFits, NullFrame
<1>2. long \in Frames(N)
  <2>1. Put(w, i, Num(Cut(-1))) \in Frames(N)
    BY CutFits, NullFrame
  <2>2. "error" \in ErrKinds
    BY DEF ErrKinds
  <2> QED
    BY <2>1, <2>2, FlagFrame
<1> QED
  <2>1. Raise(w) \in Frames(N)
    BY FaultFrame
  <2>2. CASE ~IsNumber(v)
    BY <2>1, <2>2 DEF BackFillNumber
  <2>3. CASE IsNumber(v) /\ FitsLong(v)
    BY <1>1, <2>3 DEF BackFillNumber
  <2>4. CASE IsNumber(v) /\ ~FitsLong(v)
    BY <1>2, <2>4 DEF BackFillNumber
  <2> QED
    BY <2>2, <2>3, <2>4

\* for characters, iids and text without a size,
LEMMA BackFillTextFrame ==
  ASSUME NEW N \in Nat, NEW w \in Frames(N), NEW i, NEW v \in Handled
  PROVE  /\ BackFillChar(w, i, v) \in Frames(N)
         /\ BackFillIID(w, i, v) \in Frames(N)
         /\ BackFillDipper(w, i, v) \in Frames(N)
         /\ BackFillString(w, i, v) \in Frames(N)
<1> DEFINE x == Dropped(w, i)
<1>1. x \in Frames(N)
  BY DroppedFrame
<1>2. /\ PutNew(x, i, Block(v)) \in Frames(N) /\ PutNew(x, i, Block(Plain(v))) \in Frames(N)
      /\ Raise(x) \in Frames(N) /\ Crash(x) \in Frames(N)
  <2> HIDE DEF x
  <2> QED
    BY <1>1, Puts
<1>3. [w EXCEPT !.mem[w.slots[i].val.n].of = Plain(v)] \in Frames(N)
  BY HandledShape, ContentsFrame
<1>4. BackFillChar(w, i, v) \in Frames(N)
  BY FirstCharFits, NullFrame, Puts DEF BackFillChar
<1>5. BackFillIID(w, i, v) \in Frames(N)
  BY <1>2, Puts DEF BackFillIID
<1>6. BackFillDipper(w, i, v) \in Frames(N)
  BY <1>3, Puts DEF BackFillDipper
<1>7. BackFillString(w, i, v) \in Frames(N)
  BY <1>1, <1>2 DEF BackFillString
<1> QED
  BY <1>4, <1>5, <1>6, <1>7

\* for an interface,
LEMMA BackFillInterfaceFrame ==
  ASSUME WellTyped(sig), NEW N, N = Len(sig), NEW w \in Frames(N), NEW i \in 1..N,
         NEW v \in Handled
  PROVE  BackFillInterface(w, i, v) \in Frames(N)
<1> DEFINE p == sig[i]
           iid == CASE p.type = "iface" -> p.iid
                    [] p.type = "iface_is" -> IIDFor(w, p.iid)
                    [] OTHER -> Supports
           new == InterfaceFromPyObject(w, v, p.type, iid)
           x == new[1]
           c == new[2]
<1>1. N \in Nat /\ p.iid \in Nat
  BY SigFields
<1>2. iid \in Interfaces
  <2>1. p.type = "iface_is" => IIDFor(w, p.iid) \in Interfaces
    <3>1. p.type = "iface_is" => Pointee(w, w.slots[p.iid].val).n \in Interfaces
      BY <1>1, SigFields, SlotNumbers, PointeeHeld
    <3> QED
      BY <3>1, Constants DEF IIDFor
  <2> QED
    BY <1>1, <2>1, Constants
<1>3. x \in Frames(N) /\ c \in CellValues /\ InMemory(x, c)
  <2> HIDE DEF iid
  <2> QED
    BY <1>1, <1>2, InterfaceFrame DEF Pairs
<1>4. Put(Dropped(x, i), i, c) \in Frames(N)
  <2> HIDE DEF x, c
  <2>1. Dropped(x, i) \in Frames(N)
    BY <1>1, <1>3, DroppedFrame
  <2>2. DOMAIN Dropped(x, i).mem = DOMAIN x.mem
    <3>1. \A y \in Frames(N) : Put(y, i, Null).mem = y.mem
      BY FrameUpdates, <1>1 DEF Put
    <3> QED
      BY <1>1, <1>3, <3>1, FreeFrame DEF Dropped
  <2> QED
    BY <1>1, <1>3, <2>1, <2>2, PutFrame DEF InMemory
<1> QED
  BY <1>3, <1>4 DEF BackFillInterface

\* for text with a size,
LEMMA BackFillSizedFrame ==
  ASSUME WellTyped(sig), NEW N, N = Len(sig), NEW w \in Frames(N), NEW i \in 1..N,
         NEW v \in Handled, Fits(v), IsSized(sig[i].type)
  PROVE  BackFillSized(w, i, v) \in Frames(N)
<1> DEFINE k == sig[i].size
           n == IF v = None THEN 0 ELSE v.n
           x == Dropped(w, i)
           y == PutNew(x, i, Block(Plain(v)))
           filled == IF v = None THEN x ELSE y
           z == Allocate(w, Block(Plain(v)))
<1>1. N \in Nat /\ k \in 1..N
  BY SigFields
<1>2. v = None \/ IsText(v) => n \in Nat /\ n < Word
  <2>1. IsText(v) => ~IsSequence(v)
    BY DEF IsText, IsSequence
  <2> QED
    BY <2>1, Numbers, WidthAssumption DEF Fits, Length
<1>3. x \in Frames(N)
  BY <1>1, DroppedFrame
<1>4. y \in Frames(N)
  <2> HIDE DEF x
  <2> QED
    BY <1>1, <1>3, Puts
<1>5. filled \in Frames(N)
  BY <1>3, <1>4
<1>6. v = None \/ IsText(v) => BackFillSize(filled, k, n) \in Frames(N)
  <2> HIDE DEF filled, n, k
  <2> QED
    BY <1>1, <1>2, <1>5, BackFillSizeFrame
<1>7. Raise(z) \in Frames(N) /\ Raise(w) \in Frames(N) /\ Crash(w) \in Frames(N)
  <2>1. z \in Frames(N)
    BY <1>1, HandledShape, BlockKinds, AllocateFrame
  <2> HIDE DEF z
  <2> QED
    BY <1>1, <2>1, Puts
<1>8. [w EXCEPT !.mem[w.slots[i].val.n].of = Plain(v)] \in Frames(N)
  BY <1>1, HandledShape, ContentsFrame
<1> HIDE DEF filled, z
<1> QED
  BY <1>5, <1>6, <1>7, <1>8 DEF BackFillSized, filled, z

\* for an array,
LEMMA BackFillArrayFrame ==
  ASSUME WellTyped(sig), NEW N, N = Len(sig), NEW w \in Frames(N), NEW i \in 1..N,
         NEW v \in Handled, Fits(v), sig[i].type = "array"
  PROVE  BackFillArray(w, i, v) \in Frames(N)
<1> DEFINE k == sig[i].length
           elem == sig[i].elem
           cell == w.slots[i].val
           existing == w.slots[k].val.n
           items == IF v = None THEN <<>> ELSE Items(v, elem)
           y == FreeSingleArray(w, cell, existing, elem)
           x == IF IsIn(sig[i]) /\ cell # Null THEN Dropped(y, i) ELSE Put(w, i, Null)
           block == Array(Times(Len(items), Null))
           new == PutNew(x, i, block)
           b == Newest(new).n
           filled == FillSingleArray(new, b, elem, items)
<1>1. N \in Nat /\ k \in 1..N
  BY SigFields
<1>2. v = None \/ HasItems(v) =>
        items \in Seq(Handled) /\ Len(items) \in Nat /\ Len(items) < Word
  <2>1. CASE v = None
    <3>1. items = <<>>
      BY <2>1
    <3>2. Len(<<>>) = 0 /\ <<>> \in Seq(Handled) /\ 0 < Word
      BY WidthAssumption
    <3> QED
      BY <3>1, <3>2
  <2>2. CASE v # None /\ HasItems(v)
    <3>1. items = Items(v, elem)
      BY <2>2
    <3> QED
      BY <2>2, <3>1, ItemsKind
  <2> QED
    BY <2>1, <2>2
<1>3. x \in Frames(N)
  <2>1. existing \in Nat /\ InMemory(w, cell)
    BY <1>1, SlotNumbers
  <2>2. y \in Frames(N)
    <3> HIDE DEF existing, cell
    <3> QED
      BY <1>1, <2>1, FreeArrayFrame
  <2> HIDE DEF y
  <2> QED
    BY <1>1, <2>2, DroppedFrame, NullFrame
<1>4. v = None \/ HasItems(v) => new \in Frames(N)
  <2>1. v = None \/ HasItems(v) => block \in Blocks
    <3> HIDE DEF items
    <3> QED
      BY <1>2, CellKinds, TimesSeq, BlockKinds
  <2> HIDE DEF x, block
  <2> QED
    BY <1>1, <1>3, <2>1, PutNewFrame
<1>5. v = None \/ HasItems(v) => filled \in Frames(N)
  <2> HIDE DEF new, items, b
  <2> QED
    BY <1>1, <1>2, <1>4, FillArrayFrame
<1>6. v = None \/ HasItems(v) => BackFillSize(filled, k, Len(items)) \in Frames(N)
  <2> HIDE DEF filled, items, k
  <2> QED
    BY <1>1, <1>2, <1>5, BackFillSizeFrame
<1>7. v = None \/ HasItems(v) => FillSingleArray(w, cell.n, elem, items) \in Frames(N)
  <2> HIDE DEF items, cell
  <2> QED
    BY <1>1, <1>2, FillArrayFrame
<1>8. Raise(w) \in Frames(N) /\ Crash(w) \in Frames(N)
  BY <1>1, Puts
<1> HIDE DEF x, filled, items
<1> QED
  BY <1>3, <1>5, <1>6, <1>7, <1>8 DEF BackFillArray, x, filled, items

\* and for every type.
LEMMA BackFillFrame ==
  ASSUME WellTyped(sig), NEW N, N = Len(sig), NEW w \in Frames(N), NEW i \in 1..N,
         NEW v \in Handled, Fits(v)
  PROVE  BackFillVariant(w, i, v) \in Frames(N)
<1>1. N \in Nat
  BY SigFields
<1>2. /\ BackFillNumber(w, i, v) \in Frames(N) /\ BackFillChar(w, i, v) \in Frames(N)
      /\ BackFillIID(w, i, v) \in Frames(N) /\ BackFillDipper(w, i, v) \in Frames(N)
      /\ BackFillString(w, i, v) \in Frames(N)
  BY <1>1, BackFillNumberFrame, BackFillTextFrame
<1>3. BackFillInterface(w, i, v) \in Frames(N)
  BY BackFillInterfaceFrame
<1>4. IsSized(sig[i].type) => BackFillSized(w, i, v) \in Frames(N)
  BY BackFillSizedFrame
<1>5. sig[i].type = "array" => BackFillArray(w, i, v) \in Frames(N)
  BY BackFillArrayFrame
<1> QED
  BY <1>2, <1>3, <1>4, <1>5 DEF BackFillVariant

-----------------------------------------------------------------------------
(***************************************************************************)
(* The order of arguments and results.                                     *)
(***************************************************************************)

\* The members of a set of parameters, in the order of the parameters.
LEMMA InOrderLists ==
  ASSUME NEW sg, NEW set, Len(sg) \in Nat, DOMAIN sg = 1..Len(sg)
  PROVE  /\ InOrder(sg, set) \in Seq(1..Len(sg))
         /\ \A j, l \in DOMAIN InOrder(sg, set) :
              j < l => InOrder(sg, set)[j] < InOrder(sg, set)[l]
         /\ \A i \in 1..Len(sg) :
              i \in set <=> \E j \in DOMAIN InOrder(sg, set) : InOrder(sg, set)[j] = i
<1> DEFINE n == Len(sg)
           F == Seq(1..n)
           Step(x, j) == IF j \in set THEN Append(x, j) ELSE x
           f == [p \in F \X (1..n) |-> Step(p[1], p[2])]
           id == [i \in DOMAIN sg |-> i]
           Eqn(h) == h = [t \in SUBSET (DOMAIN id) |->
                            IF t = {} THEN <<>> ELSE Step(h[t \ {Max(t)}], id[Max(t)])]
<1>1. /\ n \in Nat /\ DOMAIN sg = 1..n
      /\ DOMAIN id = 1..n /\ \A i \in 1..n : id[i] = i
  OBVIOUS
<1>2. \A x \in F, j \in 1..n : Step(x, j) \in F
  <2> SUFFICES ASSUME NEW x \in F, NEW j \in 1..n PROVE Step(x, j) \in F
    OBVIOUS
  <2>1. Append(x, j) \in F
    OBVIOUS
  <2> HIDE DEF F
  <2> QED
    BY <2>1
<1>3. <<>> \in F
  OBVIOUS
<1>4. \E g : Eqn(g)
  <2>1. f \in [F \X (1..n) -> F]
    <3> HIDE DEF F, Step, id
    <3> QED
      BY <1>2
  <2>2. PICK g : FoldFrom(g, F, n, f, <<>>)
    <3> HIDE DEF F, f, n, id
    <3>1. n \in Nat
      BY <1>1
    <3> QED
      BY <1>3, <2>1, <3>1, FoldExists
  <2>3. \A t \in SUBSET (1..n) :
          g[t] = IF t = {} THEN <<>> ELSE Step(g[t \ {Max(t)}], id[Max(t)])
    <3> HIDE DEF F, Step, id
    <3> SUFFICES ASSUME NEW t \in SUBSET (1..n), t # {}
                 PROVE  g[t] = Step(g[t \ {Max(t)}], id[Max(t)])
      BY <2>2 DEF FoldFrom
    <3> QED
      BY <1>1, <2>2 DEF FoldFrom
  <2>4. Eqn(g)
    <3>1. g = [t \in SUBSET (1..n) |-> g[t]]
      BY <2>2 DEF FoldFrom
    <3>2. SUBSET (DOMAIN id) = SUBSET (1..n)
      BY <1>1
    <3> HIDE DEF F, Step, id
    <3>3. [t \in SUBSET (1..n) |-> g[t]] =
            [t \in SUBSET (1..n) |->
               IF t = {} THEN <<>> ELSE Step(g[t \ {Max(t)}], id[Max(t)])]
      BY <2>3, Zenon
    <3> QED
      BY <3>1, <3>2, <3>3
  <2> HIDE DEF Eqn
  <2> QED
    BY <2>4
<1> DEFINE h == CHOOSE h : Eqn(h)
<1>5. Eqn(h)
  <2> HIDE DEF Eqn
  <2> QED
    BY <1>4
<1>6. InOrder(sg, set) = h[1..n]
  <2>1. InOrder(sg, set) = h[DOMAIN id]
    BY DEF InOrder, FoldLeftDomain, FoldLeft, MapThenFoldSet
  <2> HIDE DEF h, id
  <2> QED
    BY <1>1, <2>1
<1>7. h[1..n] \in F
  <2> HIDE DEF h
  <2>1. h[{}] \in F
    <3> HIDE DEF F, id
    <3> QED
      BY <1>3, <1>5
  <2>2. ASSUME NEW t \in SUBSET (1..n), t # {}, h[t \ {Max(t)}] \in F
        PROVE  h[t] = f[<<h[t \ {Max(t)}], Max(t)>>]
    <3> HIDE DEF F, Step, id
    <3>1. Max(t) \in 1..n
      BY <1>1, <2>2, MaxOfFinite
    <3> QED
      BY <1>1, <1>5, <2>2, <3>1
  <2>3. f \in [F \X (1..n) -> F]
    <3> HIDE DEF F, Step, id
    <3> QED
      BY <1>2
  <2> HIDE DEF F, f, id
  <2> QED
    BY <1>1, <2>1, <2>2, <2>3, FoldEnds
<1> DEFINE Sorted(s) == \A j, l \in DOMAIN s : j < l => s[j] < s[l]
           Shows(s, k) == \A i \in 1..k : i \in set <=> \E j \in DOMAIN s : s[j] = i
           G == [k \in 0..n |-> {s \in Seq(1..k) : Sorted(s) /\ Shows(s, k)}]
<1>8. h[{}] \in G[0]
  <2>1. h[{}] = <<>>
    BY <1>1, <1>5
  <2>2. <<>> \in Seq(1..0) /\ DOMAIN <<>> = {} /\ 1..0 = {}
    OBVIOUS
  <2>3. Sorted(<<>>) /\ Shows(<<>>, 0)
    BY <2>2
  <2> HIDE DEF Sorted, Shows, h
  <2> QED
    BY <1>1, <2>1, <2>2, <2>3
<1>9. ASSUME NEW k \in 1..n, h[(1..k) \ {Max(1..k)}] \in G[k - 1]
      PROVE  h[1..k] \in G[k]
  <2> DEFINE s == h[(1..k) \ {Max(1..k)}]
  <2>1. k - 1 \in 0..n /\ k \in 0..n /\ k \in Nat /\ k - 1 \in Nat /\ 1..k # {}
        /\ 1..k \in SUBSET (1..n)
    <3>1. n \in Nat /\ k \in 1..n
      BY <1>1
    <3> HIDE DEF n
    <3>2. k \in Nat /\ k - 1 \in Nat /\ k - 1 \in 0..n /\ k \in 0..n
      BY <3>1
    <3>3. k \in 1..k /\ \A i \in 1..k : i \in 1..n
      BY <3>1
    <3> QED
      BY <3>2, <3>3
  <2>2. h[1..k] = Step(s, k)
    <3>1. Max(1..k) = k
      BY <2>1, MaxOfInterval
    <3> HIDE DEF h, F, Step, id
    <3>2. 1..k \in SUBSET (DOMAIN id) /\ id[Max(1..k)] = k
      BY <1>1, <2>1, <3>1
    <3> QED
      BY <1>5, <2>1, <3>2
  <2> HIDE DEF h
  <2>3. s \in Seq(1..(k - 1)) /\ Sorted(s) /\ Shows(s, k - 1)
    <3> DEFINE Known == {x \in Seq(1..(k - 1)) : Sorted(x) /\ Shows(x, k - 1)}
    <3>1. G[k - 1] = Known
      BY <2>1
    <3> HIDE DEF G
    <3>2. s \in Known
      BY <1>9, <3>1
    <3> HIDE DEF s, Sorted, Shows
    <3> QED
      BY <3>2
  <2> HIDE DEF s, id
  <2>4. s \in Seq(1..k) /\ k \in 1..k
    <3>1. 1..(k - 1) \subseteq 1..k
      BY <2>1
    <3> QED
      BY <2>1, <2>3, <3>1
  <2>5. \A j \in DOMAIN s : s[j] \in 1..(k - 1)
    BY <2>3
  <2>6. CASE k \in set
    <3> DEFINE t == Append(s, k)
    <3>1. /\ t \in Seq(1..k) /\ Len(s) \in Nat
          /\ DOMAIN s = 1..Len(s) /\ DOMAIN t = 1..(Len(s) + 1)
          /\ t[Len(s) + 1] = k /\ \A j \in 1..Len(s) : t[j] = s[j]
      BY <2>4
    <3> HIDE DEF t
    <3>2. Sorted(t)
      <4> SUFFICES ASSUME NEW j \in DOMAIN t, NEW l \in DOMAIN t, j < l
                   PROVE  t[j] < t[l]
        OBVIOUS
      <4>1. j \in 1..Len(s) /\ t[j] = s[j]
        BY <3>1
      <4>2. CASE l = Len(s) + 1
        BY <2>5, <3>1, <4>1, <4>2
      <4>3. CASE l # Len(s) + 1
        <5>1. l \in 1..Len(s)
          BY <3>1, <4>3
        <5> QED
          BY <2>3, <3>1, <4>1, <5>1
      <4> QED
        BY <4>2, <4>3
    <3>3. Shows(t, k)
      <4> SUFFICES ASSUME NEW i \in 1..k
                   PROVE  i \in set <=> \E j \in DOMAIN t : t[j] = i
        OBVIOUS
      <4>1. CASE i = k
        BY <2>6, <3>1, <4>1
      <4>2. CASE i # k
        <5>1. i \in 1..(k - 1)
          BY <2>1, <4>2
        <5>2. i \in set <=> \E j \in 1..Len(s) : s[j] = i
          BY <2>3, <3>1, <5>1
        <5>3. \A j \in DOMAIN t : t[j] = i => j \in 1..Len(s)
          BY <3>1, <4>2
        <5>4. \A j \in 1..Len(s) : j \in DOMAIN t
          BY <3>1
        <5> QED
          BY <3>1, <5>2, <5>3, <5>4, Zenon
      <4> QED
        BY <4>1, <4>2
    <3>4. Step(s, k) = t
      BY <2>6 DEF t
    <3> HIDE DEF Sorted, Shows, Step
    <3> QED
      BY <2>1, <2>2, <3>1, <3>2, <3>3, <3>4
  <2>7. CASE k \notin set
    <3>1. Step(s, k) = s
      BY <2>7
    <3>2. Shows(s, k)
      <4> SUFFICES ASSUME NEW i \in 1..k
                   PROVE  i \in set <=> \E j \in DOMAIN s : s[j] = i
        OBVIOUS
      <4>1. CASE i = k
        BY <2>1, <2>5, <2>7, <4>1
      <4>2. CASE i # k
        <5>1. i \in 1..(k - 1)
          BY <2>1, <4>2
        <5> QED
          BY <2>3, <5>1
      <4> QED
        BY <4>1, <4>2
    <3> HIDE DEF Sorted, Shows, Step
    <3> QED
      BY <2>1, <2>2, <2>3, <2>4, <3>1, <3>2
  <2> QED
    BY <2>6, <2>7
<1>10. h[1..n] \in G[n]
  <2> HIDE DEF G, h
  <2> QED
    BY <1>1, <1>8, <1>9, FoldInduction
<1> HIDE DEF h
<1>11. n \in 0..n
  BY <1>1
<1> QED
  BY <1>6, <1>10, <1>11

\* The retval that ProcessPythonResult looks for is a parameter, or 0.
LEMMA IndexRetvalKind ==
  ASSUME WellTyped(sig), NEW N, N = Len(sig)
  PROVE  IndexRetval \in 0..N /\ N \in Nat
<1> DEFINE all == {i \in DOMAIN sig : IsRetval(sig[i]) /\ ~AutoOut(sig, i)}
<1>1. N \in Nat /\ all \in SUBSET (1..N)
  BY SigFields
<1> HIDE DEF all
<1>2. ASSUME all # {} PROVE (CHOOSE i \in all : \A j \in all : j <= i) \in all
  <2>1. Max(all) \in all /\ \A j \in all : j <= Max(all)
    BY <1>1, <1>2, MaxOfFinite
  <2> QED
    BY <2>1, Zenon
<1>3. IndexRetval = IF all = {} THEN 0 ELSE CHOOSE i \in all : \A j \in all : j <= i
  BY DEF IndexRetval, all
<1>4. CASE all = {}
  BY <1>1, <1>3, <1>4
<1>5. CASE all # {}
  <2>1. IndexRetval \in 1..N
    BY <1>1, <1>2, <1>3, <1>5
  <2> QED
    BY <1>1, <2>1
<1> QED
  BY <1>4, <1>5

\* The orders in which the two sides take the parameters.
LEMMA Orders ==
  ASSUME WellTyped(sig), NEW N, N = Len(sig)
  PROVE  /\ ArgumentOrder(sig) \in Seq(1..N)
         /\ Results(sig) \in Seq(1..N)
         /\ ResultOrder \in Seq(1..N)
         /\ \A retval \in 0..N : FillOrder(retval) \in Seq(1..N)
         /\ \A i : ParamIndex(i) \in Nat \ {0}
<1>1. N \in Nat /\ DOMAIN sig = 1..N
  BY SigFields
<1>2. \A set : InOrder(sig, set) \in Seq(1..N)
  BY <1>1, InOrderLists
<1>3. ArgumentOrder(sig) \in Seq(1..N) /\ Results(sig) \in Seq(1..N)
  BY <1>2 DEF ArgumentOrder, Results
<1>4. ResultOrder \in Seq(1..N)
  <2> DEFINE rest == InOrder(sig, {i \in 1..(N - 1) : GivesResult(sig, i)})
  <2>1. rest \in Seq(1..N)
    BY <1>2
  <2>2. ASSUME Len(Results(sig)) > 1 PROVE <<N>> \o rest \in Seq(1..N)
    <3>1. Results(sig) # <<>>
      BY <1>3, <2>2
    <3>2. Results(sig)[1] \in 1..N
      BY <1>3, <3>1
    <3>3. N \in 1..N
      BY <1>1, <3>2
    <3> HIDE DEF rest
    <3> QED
      BY <2>1, <3>3
  <2> HIDE DEF rest
  <2> QED
    BY <1>3, <2>2 DEF ResultOrder, rest
<1>5. ASSUME NEW retval \in 0..N PROVE FillOrder(retval) \in Seq(1..N)
  <2> DEFINE rest == InOrder(sig, {i \in DOMAIN sig : IsOut(sig[i]) /\ ~AutoOut(sig, i)
                                                        /\ i # retval})
  <2>1. rest \in Seq(1..N)
    BY <1>2
  <2>2. ASSUME retval # 0 PROVE <<retval>> \o rest \in Seq(1..N)
    <3>1. retval \in 1..N
      BY <1>1, <2>2
    <3> HIDE DEF rest
    <3> QED
      BY <2>1, <3>1
  <2> HIDE DEF rest
  <2> QED
    BY <2>1, <2>2 DEF FillOrder, rest
<1>6. ASSUME NEW i PROVE ParamIndex(i) \in Nat \ {0}
  <2> DEFINE before == InOrder(sig, {j \in DOMAIN sig : TakesArgument(sig, j) /\ j < i})
  <2>1. Len(before) \in Nat
    BY <1>2
  <2>2. ParamIndex(i) = 1 + Len(before)
    BY DEF ParamIndex
  <2> HIDE DEF before
  <2> QED
    BY <2>1, <2>2
<1> QED
  BY <1>3, <1>4, <1>5, <1>6

-----------------------------------------------------------------------------
(***************************************************************************)
(* Whole calls: the folds over the parameters.                             *)
(***************************************************************************)

\* A pair is of the product of two sets.
LEMMA PairIn ==
  ASSUME NEW A, NEW B, NEW a \in A, NEW b \in B
  PROVE  <<a, b>> \in A \X B
OBVIOUS

\* MakePythonResult.
LEMMA MakePythonResultFrame ==
  ASSUME WellTyped(sig), NEW N, N = Len(sig), NEW w \in Frames(N)
  PROVE  MakePythonResult(w)[1] \in Frames(N)
<1>0. N \in Nat /\ ResultOrder \in Seq(1..N)
  BY SigFields, Orders
<1> DEFINE V == {MakeSinglePythonResult(x, i)[2] : x \in Frames(N), i \in 1..N}
           start == <<w, <<>>>>
<1> HIDE DEF V
<1> DEFINE n == Len(ResultOrder)
           F == Frames(N) \X Seq(V)
           Step(x, j) == LET r == MakeSinglePythonResult(x[1], ResultOrder[j])
                          IN IF x[1].ok THEN <<r[1], Append(x[2], r[2])>> ELSE x
           f == [p \in F \X (1..n) |-> Step(p[1], p[2])]
           Eqn(h) == h = [t \in SUBSET (DOMAIN ResultOrder) |->
                            IF t = {} THEN start ELSE Step(h[t \ {Max(t)}], Max(t))]
<1>1. n \in Nat /\ DOMAIN ResultOrder = 1..n
  BY <1>0
<1>2. \A x \in F, j \in 1..n : Step(x, j) \in F
  <2> SUFFICES ASSUME NEW x \in F, NEW j \in 1..n PROVE Step(x, j) \in F
    OBVIOUS
  <2> DEFINE r == MakeSinglePythonResult(x[1], ResultOrder[j])
  <2>1. x[1] \in Frames(N) /\ x[2] \in Seq(V) /\ x = <<x[1], x[2]>>
    OBVIOUS
  <2>2. ResultOrder[j] \in 1..N
    BY <1>0, <1>1
  <2>3. r[1] \in Frames(N)
    BY <1>0, <2>1, <2>2, SingleResultFrame
  <2>4. r[2] \in V
    BY <2>1, <2>2 DEF V
  <2> HIDE DEF r
  <2>5. Append(x[2], r[2]) \in Seq(V)
    BY <2>1, <2>4
  <2>6. Step(x, j) = IF x[1].ok THEN <<r[1], Append(x[2], r[2])>> ELSE x
    BY DEF r
  <2>7. <<r[1], Append(x[2], r[2])>> \in F
    <3> DEFINE S == Seq(V)
    <3> HIDE DEF S
    <3> QED
      BY <2>3, <2>5, PairIn DEF S
  <2> HIDE DEF Step, F
  <2> QED
    BY <2>6, <2>7
<1>3. start \in F
  <2>1. <<>> \in Seq(V)
    OBVIOUS
  <2> DEFINE S == Seq(V)
  <2> HIDE DEF S
  <2> QED
    BY <2>1, PairIn DEF S
<1>4. \E g : Eqn(g)
  <2>1. f \in [F \X (1..n) -> F]
    <3> HIDE DEF F, Step, start
    <3> QED
      BY <1>2
  <2>2. PICK g : FoldFrom(g, F, n, f, start)
    <3> HIDE DEF F, f, n, start
    <3>1. n \in Nat
      BY <1>1
    <3> QED
      BY <1>3, <2>1, <3>1, FoldExists
  <2>3. \A t \in SUBSET (1..n) :
          g[t] = IF t = {} THEN start ELSE Step(g[t \ {Max(t)}], Max(t))
    <3> HIDE DEF F, Step, start
    <3> SUFFICES ASSUME NEW t \in SUBSET (1..n), t # {}
                 PROVE  g[t] = Step(g[t \ {Max(t)}], Max(t))
      BY <2>2 DEF FoldFrom
    <3> QED
      BY <1>1, <2>2 DEF FoldFrom
  <2>4. Eqn(g)
    <3>1. g = [t \in SUBSET (1..n) |-> g[t]]
      BY <2>2 DEF FoldFrom
    <3>2. SUBSET (DOMAIN ResultOrder) = SUBSET (1..n)
      BY <1>1
    <3> HIDE DEF F, Step, start
    <3>3. [t \in SUBSET (1..n) |-> g[t]] =
            [t \in SUBSET (1..n) |->
               IF t = {} THEN start ELSE Step(g[t \ {Max(t)}], Max(t))]
      BY <2>3, Zenon
    <3> QED
      BY <3>1, <3>2, <3>3
  <2> HIDE DEF Eqn
  <2> QED
    BY <2>4
<1> DEFINE h == CHOOSE h : Eqn(h)
<1>5. Eqn(h)
  <2> HIDE DEF Eqn
  <2> QED
    BY <1>4
<1>6. MakePythonResult(w) = h[1..n]
  <2>1. MakePythonResult(w) = h[DOMAIN ResultOrder]
    BY DEF MakePythonResult, FoldLeft, MapThenFoldSet
  <2> HIDE DEF h, start
  <2> QED
    BY <1>1, <2>1
<1>7. h[1..n] \in F
  <2> HIDE DEF h
  <2>1. h[{}] \in F
    <3> HIDE DEF F, start
    <3> QED
      BY <1>3, <1>5
  <2>2. ASSUME NEW t \in SUBSET (1..n), t # {}, h[t \ {Max(t)}] \in F
        PROVE  h[t] = f[<<h[t \ {Max(t)}], Max(t)>>]
    <3> HIDE DEF F, Step, start
    <3>1. Max(t) \in 1..n
      BY <1>1, <2>2, MaxOfFinite
    <3> QED
      BY <1>1, <1>5, <2>2, <3>1
  <2>3. f \in [F \X (1..n) -> F]
    <3> HIDE DEF F, Step, start
    <3> QED
      BY <1>2
  <2> HIDE DEF F, f, start
  <2> QED
    BY <1>1, <2>1, <2>2, <2>3, FoldEnds
<1> QED
  BY <1>6, <1>7

\* MakePyArgs.
LEMMA MakePyArgsFrame ==
  ASSUME WellTyped(sig), NEW N, N = Len(sig), NEW w \in Frames(N)
  PROVE  MakePyArgs(w)[1] \in Frames(N)
<1>0. N \in Nat /\ ArgumentOrder(sig) \in Seq(1..N)
  BY SigFields, Orders
<1> DEFINE V == {MakeSingleParam(x, i)[2] : x \in Frames(N), i \in 1..N}
           start == <<w, <<>>>>
<1> HIDE DEF V
<1> DEFINE n == Len(ArgumentOrder(sig))
           F == Frames(N) \X Seq(V)
           Step(x, j) == LET r == MakeSingleParam(x[1], ArgumentOrder(sig)[j])
                          IN IF x[1].ok THEN <<r[1], Append(x[2], r[2])>> ELSE x
           f == [p \in F \X (1..n) |-> Step(p[1], p[2])]
           Eqn(h) == h = [t \in SUBSET (DOMAIN ArgumentOrder(sig)) |->
                            IF t = {} THEN start ELSE Step(h[t \ {Max(t)}], Max(t))]
<1>1. n \in Nat /\ DOMAIN ArgumentOrder(sig) = 1..n
  BY <1>0
<1>2. \A x \in F, j \in 1..n : Step(x, j) \in F
  <2> SUFFICES ASSUME NEW x \in F, NEW j \in 1..n PROVE Step(x, j) \in F
    OBVIOUS
  <2> DEFINE r == MakeSingleParam(x[1], ArgumentOrder(sig)[j])
  <2>1. x[1] \in Frames(N) /\ x[2] \in Seq(V) /\ x = <<x[1], x[2]>>
    OBVIOUS
  <2>2. ArgumentOrder(sig)[j] \in 1..N
    BY <1>0, <1>1
  <2>3. r[1] \in Frames(N)
    BY <1>0, <2>1, <2>2, SingleParamFrame
  <2>4. r[2] \in V
    BY <2>1, <2>2 DEF V
  <2> HIDE DEF r
  <2>5. Append(x[2], r[2]) \in Seq(V)
    BY <2>1, <2>4
  <2>6. Step(x, j) = IF x[1].ok THEN <<r[1], Append(x[2], r[2])>> ELSE x
    BY DEF r
  <2>7. <<r[1], Append(x[2], r[2])>> \in F
    <3> DEFINE S == Seq(V)
    <3> HIDE DEF S
    <3> QED
      BY <2>3, <2>5, PairIn DEF S
  <2> HIDE DEF Step, F
  <2> QED
    BY <2>6, <2>7
<1>3. start \in F
  <2>1. <<>> \in Seq(V)
    OBVIOUS
  <2> DEFINE S == Seq(V)
  <2> HIDE DEF S
  <2> QED
    BY <2>1, PairIn DEF S
<1>4. \E g : Eqn(g)
  <2>1. f \in [F \X (1..n) -> F]
    <3> HIDE DEF F, Step, start
    <3> QED
      BY <1>2
  <2>2. PICK g : FoldFrom(g, F, n, f, start)
    <3> HIDE DEF F, f, n, start
    <3>1. n \in Nat
      BY <1>1
    <3> QED
      BY <1>3, <2>1, <3>1, FoldExists
  <2>3. \A t \in SUBSET (1..n) :
          g[t] = IF t = {} THEN start ELSE Step(g[t \ {Max(t)}], Max(t))
    <3> HIDE DEF F, Step, start
    <3> SUFFICES ASSUME NEW t \in SUBSET (1..n), t # {}
                 PROVE  g[t] = Step(g[t \ {Max(t)}], Max(t))
      BY <2>2 DEF FoldFrom
    <3> QED
      BY <1>1, <2>2 DEF FoldFrom
  <2>4. Eqn(g)
    <3>1. g = [t \in SUBSET (1..n) |-> g[t]]
      BY <2>2 DEF FoldFrom
    <3>2. SUBSET (DOMAIN ArgumentOrder(sig)) = SUBSET (1..n)
      BY <1>1
    <3> HIDE DEF F, Step, start
    <3>3. [t \in SUBSET (1..n) |-> g[t]] =
            [t \in SUBSET (1..n) |->
               IF t = {} THEN start ELSE Step(g[t \ {Max(t)}], Max(t))]
      BY <2>3, Zenon
    <3> QED
      BY <3>1, <3>2, <3>3
  <2> HIDE DEF Eqn
  <2> QED
    BY <2>4
<1> DEFINE h == CHOOSE h : Eqn(h)
<1>5. Eqn(h)
  <2> HIDE DEF Eqn
  <2> QED
    BY <1>4
<1>6. MakePyArgs(w) = h[1..n]
  <2>1. MakePyArgs(w) = h[DOMAIN ArgumentOrder(sig)]
    BY DEF MakePyArgs, FoldLeft, MapThenFoldSet
  <2> HIDE DEF h, start
  <2> QED
    BY <1>1, <2>1
<1>7. h[1..n] \in F
  <2> HIDE DEF h
  <2>1. h[{}] \in F
    <3> HIDE DEF F, start
    <3> QED
      BY <1>3, <1>5
  <2>2. ASSUME NEW t \in SUBSET (1..n), t # {}, h[t \ {Max(t)}] \in F
        PROVE  h[t] = f[<<h[t \ {Max(t)}], Max(t)>>]
    <3> HIDE DEF F, Step, start
    <3>1. Max(t) \in 1..n
      BY <1>1, <2>2, MaxOfFinite
    <3> QED
      BY <1>1, <1>5, <2>2, <3>1
  <2>3. f \in [F \X (1..n) -> F]
    <3> HIDE DEF F, Step, start
    <3> QED
      BY <1>2
  <2> HIDE DEF F, f, start
  <2> QED
    BY <1>1, <2>1, <2>2, <2>3, FoldEnds
<1> QED
  BY <1>6, <1>7

\* The sizes of out parameters that PrepareCall has not touched yet.
LEMMA TouchSizesFrame ==
  ASSUME WellTyped(sig), NEW N, N = Len(sig), NEW w \in Frames(N)
  PROVE  TouchSizes(w) \in Frames(N)
<1> DEFINE n == Len(sig)
           F == Frames(N)
           Step(x, j) == IF IsOut(sig[j]) /\ AutoOut(sig, j) /\ ~x.slots[j].auto
                          THEN PrepareOutVariant(x, j) ELSE x
           f == [p \in F \X (1..n) |-> Step(p[1], p[2])]
           id == [i \in DOMAIN sig |-> i]
           Eqn(h) == h = [t \in SUBSET (DOMAIN id) |->
                            IF t = {} THEN w ELSE Step(h[t \ {Max(t)}], id[Max(t)])]
<1>1. /\ n \in Nat /\ DOMAIN sig = 1..n
      /\ DOMAIN id = 1..n /\ \A i \in 1..n : id[i] = i
  BY SigFields
<1>2. \A x \in F, j \in 1..n : Step(x, j) \in F
  BY PrepareOutFrame
<1>3. w \in F
  OBVIOUS
<1>4. \E g : Eqn(g)
  <2>1. f \in [F \X (1..n) -> F]
    <3> HIDE DEF F, Step, id
    <3> QED
      BY <1>2
  <2>2. PICK g : FoldFrom(g, F, n, f, w)
    <3> HIDE DEF F, f, n, id
    <3>1. n \in Nat
      BY <1>1
    <3> QED
      BY <1>3, <2>1, <3>1, FoldExists
  <2>3. \A t \in SUBSET (1..n) :
          g[t] = IF t = {} THEN w ELSE Step(g[t \ {Max(t)}], id[Max(t)])
    <3> HIDE DEF F, Step, id
    <3> SUFFICES ASSUME NEW t \in SUBSET (1..n), t # {}
                 PROVE  g[t] = Step(g[t \ {Max(t)}], id[Max(t)])
      BY <2>2 DEF FoldFrom
    <3> QED
      BY <1>1, <2>2 DEF FoldFrom
  <2>4. Eqn(g)
    <3>1. g = [t \in SUBSET (1..n) |-> g[t]]
      BY <2>2 DEF FoldFrom
    <3>2. SUBSET (DOMAIN id) = SUBSET (1..n)
      BY <1>1
    <3> HIDE DEF F, Step, id
    <3>3. [t \in SUBSET (1..n) |-> g[t]] =
            [t \in SUBSET (1..n) |->
               IF t = {} THEN w ELSE Step(g[t \ {Max(t)}], id[Max(t)])]
      BY <2>3, Zenon
    <3> QED
      BY <3>1, <3>2, <3>3
  <2> HIDE DEF Eqn
  <2> QED
    BY <2>4
<1> DEFINE h == CHOOSE h : Eqn(h)
<1>5. Eqn(h)
  <2> HIDE DEF Eqn
  <2> QED
    BY <1>4
<1>6. TouchSizes(w) = h[1..n]
  <2>1. TouchSizes(w) = h[DOMAIN id]
    BY DEF TouchSizes, FoldLeftDomain, FoldLeft, MapThenFoldSet
  <2> HIDE DEF h, id
  <2> QED
    BY <1>1, <2>1
<1>7. h[1..n] \in F
  <2> HIDE DEF h
  <2>1. h[{}] \in F
    <3> HIDE DEF F, id
    <3> QED
      BY <1>3, <1>5
  <2>2. ASSUME NEW t \in SUBSET (1..n), t # {}, h[t \ {Max(t)}] \in F
        PROVE  h[t] = f[<<h[t \ {Max(t)}], Max(t)>>]
    <3> HIDE DEF F, Step, id
    <3>1. Max(t) \in 1..n
      BY <1>1, <2>2, MaxOfFinite
    <3> QED
      BY <1>1, <1>5, <2>2, <3>1
  <2>3. f \in [F \X (1..n) -> F]
    <3> HIDE DEF F, Step, id
    <3> QED
      BY <1>2
  <2> HIDE DEF F, f, id
  <2> QED
    BY <1>1, <2>1, <2>2, <2>3, FoldEnds
<1> QED
  BY <1>6, <1>7

\* The destructor of the helper, which may have no variants.
LEMMA DestroyFrame ==
  ASSUME WellTyped(sig), NEW N \in {0, Len(sig)}, NEW w \in Frames(N)
  PROVE  FoldLeftDomain(CleanupSlot, w, w.slots) \in Frames(N)
<1>0. Len(w.slots) = N /\ N \in Nat /\ DOMAIN w.slots = 1..N
  <2>1. N \in Nat
    BY SigFields
  <2>2. w.slots \in [1..N -> Slots]
    BY <2>1, FrameFields DEF IsFrame
  <2> QED
    BY <2>1, <2>2, SeqDef
<1> DEFINE n == Len(w.slots)
           F == Frames(N)
           Step(x, j) == CleanupSlot(x, j)
           f == [p \in F \X (1..n) |-> Step(p[1], p[2])]
           id == [i \in DOMAIN w.slots |-> i]
           Eqn(h) == h = [t \in SUBSET (DOMAIN id) |->
                            IF t = {} THEN w ELSE Step(h[t \ {Max(t)}], id[Max(t)])]
<1>1. /\ n \in Nat /\ DOMAIN w.slots = 1..n
      /\ DOMAIN id = 1..n /\ \A i \in 1..n : id[i] = i
  BY <1>0
<1>2. \A x \in F, j \in 1..n : Step(x, j) \in F
  BY <1>0, CleanupFrame
<1>3. w \in F
  OBVIOUS
<1>4. \E g : Eqn(g)
  <2>1. f \in [F \X (1..n) -> F]
    <3> HIDE DEF F, Step, id
    <3> QED
      BY <1>2
  <2>2. PICK g : FoldFrom(g, F, n, f, w)
    <3> HIDE DEF F, f, n, id
    <3>1. n \in Nat
      BY <1>1
    <3> QED
      BY <1>3, <2>1, <3>1, FoldExists
  <2>3. \A t \in SUBSET (1..n) :
          g[t] = IF t = {} THEN w ELSE Step(g[t \ {Max(t)}], id[Max(t)])
    <3> HIDE DEF F, Step, id
    <3> SUFFICES ASSUME NEW t \in SUBSET (1..n), t # {}
                 PROVE  g[t] = Step(g[t \ {Max(t)}], id[Max(t)])
      BY <2>2 DEF FoldFrom
    <3> QED
      BY <1>1, <2>2 DEF FoldFrom
  <2>4. Eqn(g)
    <3>1. g = [t \in SUBSET (1..n) |-> g[t]]
      BY <2>2 DEF FoldFrom
    <3>2. SUBSET (DOMAIN id) = SUBSET (1..n)
      BY <1>1
    <3> HIDE DEF F, Step, id
    <3>3. [t \in SUBSET (1..n) |-> g[t]] =
            [t \in SUBSET (1..n) |->
               IF t = {} THEN w ELSE Step(g[t \ {Max(t)}], id[Max(t)])]
      BY <2>3, Zenon
    <3> QED
      BY <3>1, <3>2, <3>3
  <2> HIDE DEF Eqn
  <2> QED
    BY <2>4
<1> DEFINE h == CHOOSE h : Eqn(h)
<1>5. Eqn(h)
  <2> HIDE DEF Eqn
  <2> QED
    BY <1>4
<1>6. FoldLeftDomain(CleanupSlot, w, w.slots) = h[1..n]
  <2>1. FoldLeftDomain(CleanupSlot, w, w.slots) = h[DOMAIN id]
    BY DEF FoldLeftDomain, FoldLeft, MapThenFoldSet
  <2> HIDE DEF h, id
  <2> QED
    BY <1>1, <2>1
<1>7. h[1..n] \in F
  <2> HIDE DEF h
  <2>1. h[{}] \in F
    <3> HIDE DEF F, id
    <3> QED
      BY <1>3, <1>5
  <2>2. ASSUME NEW t \in SUBSET (1..n), t # {}, h[t \ {Max(t)}] \in F
        PROVE  h[t] = f[<<h[t \ {Max(t)}], Max(t)>>]
    <3> HIDE DEF F, Step, id
    <3>1. Max(t) \in 1..n
      BY <1>1, <2>2, MaxOfFinite
    <3> QED
      BY <1>1, <1>5, <2>2, <3>1
  <2>3. f \in [F \X (1..n) -> F]
    <3> HIDE DEF F, Step, id
    <3> QED
      BY <1>2
  <2> HIDE DEF F, f, id
  <2> QED
    BY <1>1, <2>1, <2>2, <2>3, FoldEnds
<1> QED
  BY <1>6, <1>7

\* Values that fit, as a conversion asks for.
Fitting == {v \in Handled : Fits(v)}

\* Several results.
LEMMA BackFillAllFrame ==
  ASSUME WellTyped(sig), NEW N, N = Len(sig), NEW w \in Frames(N), NEW items \in Seq(Fitting)
  PROVE  BackFillAll(w, items) \in Frames(N)
<1>0. N \in Nat /\ FillOrder(IndexRetval) \in Seq(1..N)
  BY IndexRetvalKind, Orders
<1> DEFINE n == Len(FillOrder(IndexRetval))
           F == Frames(N)
           Step(x, j) == IF ~x.ok THEN x
                          ELSE IF j > Len(items) THEN Raise(x)
                          ELSE BackFillVariant(x, FillOrder(IndexRetval)[j], items[j])
           f == [p \in F \X (1..n) |-> Step(p[1], p[2])]
           id == [i \in DOMAIN FillOrder(IndexRetval) |-> i]
           Eqn(h) == h = [t \in SUBSET (DOMAIN id) |->
                            IF t = {} THEN w ELSE Step(h[t \ {Max(t)}], id[Max(t)])]
<1>1. /\ n \in Nat /\ DOMAIN FillOrder(IndexRetval) = 1..n
      /\ DOMAIN id = 1..n /\ \A i \in 1..n : id[i] = i
  BY <1>0
<1>2. \A x \in F, j \in 1..n : Step(x, j) \in F
  <2> SUFFICES ASSUME NEW x \in F, NEW j \in 1..n PROVE Step(x, j) \in F
    OBVIOUS
  <2>1. FillOrder(IndexRetval)[j] \in 1..N
    BY <1>0, <1>1
  <2>2. Raise(x) \in Frames(N)
    BY <1>0, FaultFrame
  <2>3. ASSUME ~(j > Len(items))
        PROVE  BackFillVariant(x, FillOrder(IndexRetval)[j], items[j]) \in Frames(N)
    <3>1. j \in 1..Len(items)
      BY <1>1, <2>3
    <3>2. items[j] \in Handled /\ Fits(items[j])
      BY <3>1 DEF Fitting
    <3> QED
      BY <2>1, <3>2, BackFillFrame
  <2> QED
    BY <2>2, <2>3
<1>3. w \in F
  OBVIOUS
<1>4. \E g : Eqn(g)
  <2>1. f \in [F \X (1..n) -> F]
    <3> HIDE DEF F, Step, id
    <3> QED
      BY <1>2
  <2>2. PICK g : FoldFrom(g, F, n, f, w)
    <3> HIDE DEF F, f, n, id
    <3>1. n \in Nat
      BY <1>1
    <3> QED
      BY <1>3, <2>1, <3>1, FoldExists
  <2>3. \A t \in SUBSET (1..n) :
          g[t] = IF t = {} THEN w ELSE Step(g[t \ {Max(t)}], id[Max(t)])
    <3> HIDE DEF F, Step, id
    <3> SUFFICES ASSUME NEW t \in SUBSET (1..n), t # {}
                 PROVE  g[t] = Step(g[t \ {Max(t)}], id[Max(t)])
      BY <2>2 DEF FoldFrom
    <3> QED
      BY <1>1, <2>2 DEF FoldFrom
  <2>4. Eqn(g)
    <3>1. g = [t \in SUBSET (1..n) |-> g[t]]
      BY <2>2 DEF FoldFrom
    <3>2. SUBSET (DOMAIN id) = SUBSET (1..n)
      BY <1>1
    <3> HIDE DEF F, Step, id
    <3>3. [t \in SUBSET (1..n) |-> g[t]] =
            [t \in SUBSET (1..n) |->
               IF t = {} THEN w ELSE Step(g[t \ {Max(t)}], id[Max(t)])]
      BY <2>3, Zenon
    <3> QED
      BY <3>1, <3>2, <3>3
  <2> HIDE DEF Eqn
  <2> QED
    BY <2>4
<1> DEFINE h == CHOOSE h : Eqn(h)
<1>5. Eqn(h)
  <2> HIDE DEF Eqn
  <2> QED
    BY <1>4
<1>6. BackFillAll(w, items) = h[1..n]
  <2>1. BackFillAll(w, items) = h[DOMAIN id]
    BY DEF BackFillAll, FoldLeftDomain, FoldLeft, MapThenFoldSet
  <2> HIDE DEF h, id
  <2> QED
    BY <1>1, <2>1
<1>7. h[1..n] \in F
  <2> HIDE DEF h
  <2>1. h[{}] \in F
    <3> HIDE DEF F, id
    <3> QED
      BY <1>3, <1>5
  <2>2. ASSUME NEW t \in SUBSET (1..n), t # {}, h[t \ {Max(t)}] \in F
        PROVE  h[t] = f[<<h[t \ {Max(t)}], Max(t)>>]
    <3> HIDE DEF F, Step, id
    <3>1. Max(t) \in 1..n
      BY <1>1, <2>2, MaxOfFinite
    <3> QED
      BY <1>1, <1>5, <2>2, <3>1
  <2>3. f \in [F \X (1..n) -> F]
    <3> HIDE DEF F, Step, id
    <3> QED
      BY <1>2
  <2> HIDE DEF F, f, id
  <2> QED
    BY <1>1, <2>1, <2>2, <2>3, FoldEnds
<1> QED
  BY <1>6, <1>7

\* What a Python method answers: values that were given, not too many.
AnswersGiven == answers \in Seq(Given) /\ Len(answers) < Word

\* The values of the configuration are values that a conversion can handle,
\* with their elements.
LEMMA GivenKind ==
  /\ Given \subseteq Fitting
  /\ \A v \in Given : IsSequence(v) => v.of \in Seq(Fitting)
<1>1. Given \subseteq Fitting
  BY HandledShape DEF Given, Fitting
<1>2. ASSUME NEW v \in Given, IsSequence(v) PROVE v.of \in Seq(Fitting)
  <2>1. v.of \in Seq(Handled) /\ \A j \in DOMAIN v.of : Fits(v.of[j])
    BY <1>2, HandledShape, Numbers DEF Given
  <2>2. \A j \in DOMAIN v.of : v.of[j] \in Fitting
    BY <2>1 DEF Fitting
  <2> QED
    BY <2>1, <2>2
<1> QED
  BY <1>1, <1>2

\* So is what a Python method returns.
LEMMA UserResultKind ==
  ASSUME AnswersGiven
  PROVE  /\ UserResult \in Fitting
         /\ IsSequence(UserResult) => UserResult.of \in Seq(Fitting)
<1>1. CASE Len(answers) = 1
  <2>1. answers[1] \in Given
    BY <1>1 DEF AnswersGiven
  <2> QED
    BY <1>1, <2>1, GivenKind DEF UserResult
<1>2. CASE Len(answers) # 1
  <2>1. UserResult = List(answers) /\ UserResult.of = answers
    BY <1>2 DEF UserResult, List
  <2>2. answers \in Seq(PyValues) /\ answers \in Seq(Fitting)
    BY GivenKind DEF AnswersGiven, Given
  <2>3. List(answers) \in Handled
    BY <2>2, HandledShape
  <2>4. Fits(List(answers))
    BY DEF AnswersGiven, Fits, IsSequence, List, Length
  <2> QED
    BY <2>1, <2>2, <2>3, <2>4 DEF Fitting
<1> QED
  BY <1>1, <1>2

\* ProcessPythonResult.
LEMMA ProcessFrame ==
  ASSUME WellTyped(sig), NEW N, N = Len(sig), NEW w \in Frames(N), AnswersGiven
  PROVE  ProcessPythonResult(w) \in Frames(N)
<1>1. N \in Nat /\ Results(sig) \in Seq(1..N)
  BY SigFields, Orders
<1>2. UserResult \in Handled /\ Fits(UserResult)
  BY UserResultKind DEF Fitting
<1>3. ASSUME Len(Results(sig)) = 1
      PROVE  BackFillVariant(w, Results(sig)[1], UserResult) \in Frames(N)
  <2> DEFINE r == Results(sig)
  <2> HIDE DEF r
  <2>1. r[1] \in 1..N
    <3>1. r \in Seq(1..N) /\ Len(r) = 1
      BY <1>1, <1>3 DEF r
    <3>2. 1 \in 1..Len(r)
      BY <3>1
    <3> QED
      BY <3>1, <3>2, ElementOfSeq
  <2> QED
    BY <1>2, <2>1, BackFillFrame DEF r
<1>4. Raise(w) \in Frames(N)
  BY <1>1, FaultFrame
<1>5. IsSequence(UserResult) => BackFillAll(w, UserResult.of) \in Frames(N)
  BY UserResultKind, BackFillAllFrame
<1> QED
  BY <1>3, <1>4, <1>5 DEF ProcessPythonResult

-----------------------------------------------------------------------------
(***************************************************************************)
(* Native methods and native callers.                                      *)
(***************************************************************************)

\* What a native program allocates for a value.
LEMMA NativeBlockKind ==
  ASSUME NEW p, p.iid \in Nat, NEW v \in Handled
  PROVE  NativeBlock(p, v) \in Blocks
<1>1. p.iid \in Interfaces /\ Supports \in Interfaces
  BY Constants
<1>2. v \in Held /\ Plain(v) \in Held
  BY HandledShape
<1>3. Block(v) \in Blocks /\ Block(Plain(v)) \in Blocks
  BY <1>2, BlockKinds
<1>4. \A iid \in Interfaces : InterfaceBlock(v, p.type, iid) \in Blocks
  BY InterfaceBlockKind
<1> QED
  BY <1>1, <1>3, <1>4 DEF NativeBlock

\* The elements of an array that a native program stores.
LEMMA StoreElementsFrame ==
  ASSUME NEW N \in Nat, NEW w \in Frames(N), NEW b, NEW elem, elem.iid \in Nat,
         NEW s \in Seq(Handled),
         \A j \in DOMAIN s : IsArithmetic(elem.type) => s[j].n \in Nat /\ s[j].n < Word
  PROVE  StoreElements(w, b, elem, s) \in Frames(N)
<1> DEFINE n == Len(s)
           F == Frames(N)
           Step(x, j) == IF IsArithmetic(elem.type) THEN SetElement(x, b, j, Num(s[j].n))
                          ELSE IF s[j] = None THEN x
                          ELSE NewElement(x, b, j, NativeBlock(elem, s[j]))
           f == [p \in F \X (1..n) |-> Step(p[1], p[2])]
           id == [i \in DOMAIN s |-> i]
           Eqn(h) == h = [t \in SUBSET (DOMAIN id) |->
                            IF t = {} THEN w ELSE Step(h[t \ {Max(t)}], id[Max(t)])]
<1>1. /\ n \in Nat /\ DOMAIN s = 1..n
      /\ DOMAIN id = 1..n /\ \A i \in 1..n : id[i] = i
  OBVIOUS
<1>2. \A x \in F, j \in 1..n : Step(x, j) \in F
  <2> SUFFICES ASSUME NEW x \in F, NEW j \in 1..n PROVE Step(x, j) \in F
    OBVIOUS
  <2>1. s[j] \in Handled
    BY <1>1
  <2>2. IsArithmetic(elem.type) => SetElement(x, b, j, Num(s[j].n)) \in Frames(N)
    <3>1. IsArithmetic(elem.type) => Num(s[j].n) \in CellValues
      BY <1>1, CellKinds
    <3> QED
      BY <3>1, ElementFrame
  <2>3. NewElement(x, b, j, NativeBlock(elem, s[j])) \in Frames(N)
    BY <2>1, NativeBlockKind, ElementFrame
  <2> QED
    BY <2>2, <2>3
<1>3. w \in F
  OBVIOUS
<1>4. \E g : Eqn(g)
  <2>1. f \in [F \X (1..n) -> F]
    <3> HIDE DEF F, Step, id
    <3> QED
      BY <1>2
  <2>2. PICK g : FoldFrom(g, F, n, f, w)
    <3> HIDE DEF F, f, n, id
    <3>1. n \in Nat
      BY <1>1
    <3> QED
      BY <1>3, <2>1, <3>1, FoldExists
  <2>3. \A t \in SUBSET (1..n) :
          g[t] = IF t = {} THEN w ELSE Step(g[t \ {Max(t)}], id[Max(t)])
    <3> HIDE DEF F, Step, id
    <3> SUFFICES ASSUME NEW t \in SUBSET (1..n), t # {}
                 PROVE  g[t] = Step(g[t \ {Max(t)}], id[Max(t)])
      BY <2>2 DEF FoldFrom
    <3> QED
      BY <1>1, <2>2 DEF FoldFrom
  <2>4. Eqn(g)
    <3>1. g = [t \in SUBSET (1..n) |-> g[t]]
      BY <2>2 DEF FoldFrom
    <3>2. SUBSET (DOMAIN id) = SUBSET (1..n)
      BY <1>1
    <3> HIDE DEF F, Step, id
    <3>3. [t \in SUBSET (1..n) |-> g[t]] =
            [t \in SUBSET (1..n) |->
               IF t = {} THEN w ELSE Step(g[t \ {Max(t)}], id[Max(t)])]
      BY <2>3, Zenon
    <3> QED
      BY <3>1, <3>2, <3>3
  <2> HIDE DEF Eqn
  <2> QED
    BY <2>4
<1> DEFINE h == CHOOSE h : Eqn(h)
<1>5. Eqn(h)
  <2> HIDE DEF Eqn
  <2> QED
    BY <1>4
<1>6. StoreElements(w, b, elem, s) = h[1..n]
  <2>1. StoreElements(w, b, elem, s) = h[DOMAIN id]
    BY DEF StoreElements, FoldLeftDomain, FoldLeft, MapThenFoldSet
  <2> HIDE DEF h, id
  <2> QED
    BY <1>1, <2>1
<1>7. h[1..n] \in F
  <2> HIDE DEF h
  <2>1. h[{}] \in F
    <3> HIDE DEF F, id
    <3> QED
      BY <1>3, <1>5
  <2>2. ASSUME NEW t \in SUBSET (1..n), t # {}, h[t \ {Max(t)}] \in F
        PROVE  h[t] = f[<<h[t \ {Max(t)}], Max(t)>>]
    <3> HIDE DEF F, Step, id
    <3>1. Max(t) \in 1..n
      BY <1>1, <2>2, MaxOfFinite
    <3> QED
      BY <1>1, <1>5, <2>2, <3>1
  <2>3. f \in [F \X (1..n) -> F]
    <3> HIDE DEF F, Step, id
    <3> QED
      BY <1>2
  <2> HIDE DEF F, f, id
  <2> QED
    BY <1>1, <2>1, <2>2, <2>3, FoldEnds
<1> QED
  BY <1>6, <1>7

\* A number that a native program can hand over fits.
LEMMA RepresentableFits ==
  ASSUME NEW p, NEW v \in Handled, Representable(p, v), IsArithmetic(p.type)
  PROVE  v.n \in Nat /\ v.n < Word
<1>1. CASE p.type \in {"num", "octet"}
  <2>1. v.py = "int" /\ v.n < Word
    BY <1>1 DEF Representable
  <2> QED
    BY <2>1, Numbers DEF IsNumber
<1>2. CASE p.type = "char"
  <2>1. v.py = "str" /\ v.n = 1
    BY <1>2 DEF Representable
  <2> QED
    BY <2>1, WidthAssumption
<1> QED
  BY <1>1, <1>2 DEF IsArithmetic

\* A native method storing one result.
LEMMA StoreFrame ==
  ASSUME WellTyped(sig), NEW N, N = Len(sig), NEW w \in Frames(N), NEW i \in 1..N,
         NEW v \in Given, NativeValue(sig[i], v)
  PROVE  NativeStore(w, i, v) \in Frames(N)
<1> DEFINE p == sig[i]
           elem == [p EXCEPT !.type = p.elem]
           array == PutNew(w, i, Array(Times(Len(v.of), Null)))
           b == Newest(array).n
           filled == StoreElements(array, b, elem, v.of)
           Sized(x, k) == [x EXCEPT !.slots[k].val = Num(Length(v))]
           one == PutNew(w, i, NativeBlock(p, v))
<1>1. /\ N \in Nat /\ p \in Descriptors /\ p.iid \in Nat
      /\ p.type = "array" => p.length \in 1..N
      /\ IsSized(p.type) => p.size \in 1..N
  BY SigFields
<1>2. v \in Handled /\ Fits(v) /\ (IsSequence(v) => v.of \in Seq(Handled))
  BY GivenKind, Numbers DEF Fitting
<1>3. one \in Frames(N)
  <2>1. NativeBlock(p, v) \in Blocks
    BY <1>1, <1>2, NativeBlockKind
  <2> HIDE DEF p
  <2> QED
    BY <1>1, <2>1, PutNewFrame
<1>4. ASSUME NEW x \in Frames(N), NEW k, Length(v) \in Nat, Length(v) < Word
      PROVE  Sized(x, k) \in Frames(N)
  <2>1. Sized(x, k) = Put(x, k, Num(Length(v)))
    BY DEF Put
  <2> HIDE DEF Sized
  <2> QED
    BY <1>1, <1>4, <2>1, NullFrame
<1>5. ASSUME IsArithmetic(p.type)
      PROVE  Put(w, i, Num(v.n)) \in Frames(N)
  <2>1. Representable(p, v)
    BY <1>5 DEF NativeValue, IsArithmetic
  <2>2. v.n \in Nat /\ v.n < Word
    BY <1>2, <1>5, <2>1, RepresentableFits
  <2> QED
    BY <1>1, <2>2, NullFrame
<1>6. [w EXCEPT !.mem[w.slots[i].val.n].of = Plain(v)] \in Frames(N)
  BY <1>1, <1>2, HandledShape, ContentsFrame
<1>7. ASSUME p.type = "array", v # None
      PROVE  Sized(filled, p.length) \in Frames(N)
  <2>1. /\ IsSequence(v)
        /\ \A j \in DOMAIN v.of : Representable(elem, v.of[j])
    BY <1>7 DEF NativeValue
  <2>2. v.of \in Seq(Handled) /\ Len(v.of) \in Nat
    BY <1>2, <2>1
  <2>3. array \in Frames(N)
    <3>1. Times(Len(v.of), Null) \in Seq(CellValues)
      BY <2>2, CellKinds, TimesSeq
    <3> QED
      BY <1>1, <3>1, BlockKinds, PutNewFrame
  <2>4. elem.type = p.elem /\ elem.iid \in Nat
    BY <1>1 DEF Descriptors
  <2>5. \A j \in DOMAIN v.of : IsArithmetic(elem.type) => v.of[j].n \in Nat /\ v.of[j].n < Word
    <3> SUFFICES ASSUME NEW j \in DOMAIN v.of, IsArithmetic(elem.type)
                 PROVE  v.of[j].n \in Nat /\ v.of[j].n < Word
      OBVIOUS
    <3>1. v.of[j] \in Handled
      BY <2>2
    <3> HIDE DEF p, elem
    <3> QED
      BY <2>1, <2>4, <3>1, RepresentableFits
  <2>6. filled \in Frames(N)
    <3> HIDE DEF array, b, elem
    <3> QED
      BY <1>1, <2>2, <2>3, <2>4, <2>5, StoreElementsFrame
  <2>7. Length(v) = Len(v.of) /\ Length(v) < Word
    BY <1>2, <2>1 DEF Length, Fits
  <2> HIDE DEF filled, Sized
  <2> QED
    BY <1>4, <2>2, <2>6, <2>7
<1>8. ASSUME IsSized(p.type), v # None
      PROVE  Sized(one, p.size) \in Frames(N)
  <2>1. v.py = "str"
    BY <1>8 DEF NativeValue, Representable, IsSized
  <2>2. Length(v) = v.n /\ v.n \in Nat /\ v.n < Word
    BY <1>2, <2>1, Numbers DEF Length, Fits, IsText, Encodes, IsSequence
  <2> HIDE DEF one, Sized
  <2> QED
    BY <1>3, <1>4, <2>2
<1> HIDE DEF one, filled
<1>9. p.type = "array" => p.type \notin {"astring", "cstring", "utf8"}
  OBVIOUS
<1>10. IsSized(p.type) => p.type \notin {"astring", "cstring", "utf8"}
  BY DEF IsSized
<1> QED
  BY <1>3, <1>5, <1>6, <1>7, <1>8, <1>9, <1>10 DEF NativeStore, one, filled

\* A native caller freeing one parameter.
LEMMA NativeFreeFrame ==
  ASSUME WellTyped(sig), NEW N, N = Len(sig), NEW w \in Frames(N), NEW i \in 1..N
  PROVE  NativeFree(w, i) \in Frames(N)
<1> DEFINE cell == w.slots[i].val
           n == w.slots[sig[i].length].val.n
           s == SubSeq(Cells(w, cell), 1, n)
           x == IF sig[i].type = "array" /\ cell # Null /\ ~IsArithmetic(sig[i].elem)
                  THEN IF n > Len(Cells(w, cell)) THEN Fault(w, "past the end")
                       ELSE FoldLeft(Free, w, s)
                  ELSE w
<1>1. N \in Nat /\ (sig[i].type = "array" => sig[i].length \in 1..N)
  BY SigFields
<1>2. InMemory(w, cell) /\ (sig[i].type = "array" => n \in Nat)
  BY <1>1, SlotNumbers
<1>3. Cells(w, cell) \in Seq(CellValues)
  BY <1>1, <1>2, CellsKind
<1>4. ASSUME n \in Nat, ~(n > Len(Cells(w, cell))) PROVE s \in Seq(CellValues)
  <2> DEFINE cells == Cells(w, cell)
  <2> HIDE DEF cells, n
  <2> QED
    BY <1>3, <1>4
<1>5. x \in Frames(N)
  <2>1. Fault(w, "past the end") \in Frames(N)
    BY <1>1, FaultFrame DEF FaultKinds
  <2>2. ASSUME sig[i].type = "array", ~(n > Len(Cells(w, cell)))
        PROVE  FoldLeft(Free, w, s) \in Frames(N)
    <3>1. s \in Seq(CellValues)
      BY <1>2, <1>4, <2>2
    <3> HIDE DEF s
    <3> QED
      BY <1>1, <3>1, FreeFold
  <2> HIDE DEF s, cell, n
  <2> QED
    BY <2>1, <2>2
<1> HIDE DEF x
<1>6. Free(x, cell) \in Frames(N)
  BY <1>1, <1>5, FreeFrame
<1>7. Put(Free(x, cell), i, Null) \in Frames(N)
  BY <1>1, <1>6, NullFrame
<1> QED
  BY <1>7 DEF NativeFree, x

\* What a native caller frees after the call.
LEMMA FreeOwnedFrame ==
  ASSUME WellTyped(sig), NEW N, N = Len(sig), NEW w \in Frames(N)
  PROVE  FreeOwned(w) \in Frames(N)
<1>0. N \in Nat /\ Len(sig) = N /\ DOMAIN sig = 1..N
  BY SigFields
<1> DEFINE n == Len(sig)
           F == Frames(N)
           Step(x, j) == IF IsIn(sig[j]) \/ IsDipper(sig[j]) \/ (IsOut(sig[j]) /\ Succeeded)
                          THEN NativeFree(x, j) ELSE x
           f == [p \in F \X (1..n) |-> Step(p[1], p[2])]
           id == [i \in DOMAIN sig |-> i]
           Eqn(h) == h = [t \in SUBSET (DOMAIN id) |->
                            IF t = {} THEN w ELSE Step(h[t \ {Max(t)}], id[Max(t)])]
<1>1. /\ n \in Nat /\ DOMAIN sig = 1..n
      /\ DOMAIN id = 1..n /\ \A i \in 1..n : id[i] = i
  BY <1>0
<1>2. \A x \in F, j \in 1..n : Step(x, j) \in F
  BY <1>0, NativeFreeFrame
<1>3. w \in F
  OBVIOUS
<1>4. \E g : Eqn(g)
  <2>1. f \in [F \X (1..n) -> F]
    <3> HIDE DEF F, Step, id
    <3> QED
      BY <1>2
  <2>2. PICK g : FoldFrom(g, F, n, f, w)
    <3> HIDE DEF F, f, n, id
    <3>1. n \in Nat
      BY <1>1
    <3> QED
      BY <1>3, <2>1, <3>1, FoldExists
  <2>3. \A t \in SUBSET (1..n) :
          g[t] = IF t = {} THEN w ELSE Step(g[t \ {Max(t)}], id[Max(t)])
    <3> HIDE DEF F, Step, id
    <3> SUFFICES ASSUME NEW t \in SUBSET (1..n), t # {}
                 PROVE  g[t] = Step(g[t \ {Max(t)}], id[Max(t)])
      BY <2>2 DEF FoldFrom
    <3> QED
      BY <1>1, <2>2 DEF FoldFrom
  <2>4. Eqn(g)
    <3>1. g = [t \in SUBSET (1..n) |-> g[t]]
      BY <2>2 DEF FoldFrom
    <3>2. SUBSET (DOMAIN id) = SUBSET (1..n)
      BY <1>1
    <3> HIDE DEF F, Step, id
    <3>3. [t \in SUBSET (1..n) |-> g[t]] =
            [t \in SUBSET (1..n) |->
               IF t = {} THEN w ELSE Step(g[t \ {Max(t)}], id[Max(t)])]
      BY <2>3, Zenon
    <3> QED
      BY <3>1, <3>2, <3>3
  <2> HIDE DEF Eqn
  <2> QED
    BY <2>4
<1> DEFINE h == CHOOSE h : Eqn(h)
<1>5. Eqn(h)
  <2> HIDE DEF Eqn
  <2> QED
    BY <1>4
<1>6. FreeOwned(w) = h[1..n]
  <2>1. FreeOwned(w) = h[DOMAIN id]
    BY DEF FreeOwned, FoldLeftDomain, FoldLeft, MapThenFoldSet
  <2> HIDE DEF h, id
  <2> QED
    BY <1>1, <2>1
<1>7. h[1..n] \in F
  <2> HIDE DEF h
  <2>1. h[{}] \in F
    <3> HIDE DEF F, id
    <3> QED
      BY <1>3, <1>5
  <2>2. ASSUME NEW t \in SUBSET (1..n), t # {}, h[t \ {Max(t)}] \in F
        PROVE  h[t] = f[<<h[t \ {Max(t)}], Max(t)>>]
    <3> HIDE DEF F, Step, id
    <3>1. Max(t) \in 1..n
      BY <1>1, <2>2, MaxOfFinite
    <3> QED
      BY <1>1, <1>5, <2>2, <3>1
  <2>3. f \in [F \X (1..n) -> F]
    <3> HIDE DEF F, Step, id
    <3> QED
      BY <1>2
  <2> HIDE DEF F, f, id
  <2> QED
    BY <1>1, <2>1, <2>2, <2>3, FoldEnds
<1> QED
  BY <1>6, <1>7

\* What a native method frees to replace it.
LEMMA FreeReplacedFrame ==
  ASSUME WellTyped(sig), NEW N, N = Len(sig), NEW w \in Frames(N)
  PROVE  FreeReplaced(w) \in Frames(N)
<1>0. N \in Nat /\ Len(sig) = N /\ DOMAIN sig = 1..N
  BY SigFields
<1> DEFINE n == Len(sig)
           F == Frames(N)
           Step(x, j) == IF IsIn(sig[j]) /\ GivesResult(sig, j) /\ ~IsDipper(sig[j])
                          THEN NativeFree(x, j) ELSE x
           f == [p \in F \X (1..n) |-> Step(p[1], p[2])]
           id == [i \in DOMAIN sig |-> i]
           Eqn(h) == h = [t \in SUBSET (DOMAIN id) |->
                            IF t = {} THEN w ELSE Step(h[t \ {Max(t)}], id[Max(t)])]
<1>1. /\ n \in Nat /\ DOMAIN sig = 1..n
      /\ DOMAIN id = 1..n /\ \A i \in 1..n : id[i] = i
  BY <1>0
<1>2. \A x \in F, j \in 1..n : Step(x, j) \in F
  BY <1>0, NativeFreeFrame
<1>3. w \in F
  OBVIOUS
<1>4. \E g : Eqn(g)
  <2>1. f \in [F \X (1..n) -> F]
    <3> HIDE DEF F, Step, id
    <3> QED
      BY <1>2
  <2>2. PICK g : FoldFrom(g, F, n, f, w)
    <3> HIDE DEF F, f, n, id
    <3>1. n \in Nat
      BY <1>1
    <3> QED
      BY <1>3, <2>1, <3>1, FoldExists
  <2>3. \A t \in SUBSET (1..n) :
          g[t] = IF t = {} THEN w ELSE Step(g[t \ {Max(t)}], id[Max(t)])
    <3> HIDE DEF F, Step, id
    <3> SUFFICES ASSUME NEW t \in SUBSET (1..n), t # {}
                 PROVE  g[t] = Step(g[t \ {Max(t)}], id[Max(t)])
      BY <2>2 DEF FoldFrom
    <3> QED
      BY <1>1, <2>2 DEF FoldFrom
  <2>4. Eqn(g)
    <3>1. g = [t \in SUBSET (1..n) |-> g[t]]
      BY <2>2 DEF FoldFrom
    <3>2. SUBSET (DOMAIN id) = SUBSET (1..n)
      BY <1>1
    <3> HIDE DEF F, Step, id
    <3>3. [t \in SUBSET (1..n) |-> g[t]] =
            [t \in SUBSET (1..n) |->
               IF t = {} THEN w ELSE Step(g[t \ {Max(t)}], id[Max(t)])]
      BY <2>3, Zenon
    <3> QED
      BY <3>1, <3>2, <3>3
  <2> HIDE DEF Eqn
  <2> QED
    BY <2>4
<1> DEFINE h == CHOOSE h : Eqn(h)
<1>5. Eqn(h)
  <2> HIDE DEF Eqn
  <2> QED
    BY <1>4
<1>6. FreeReplaced(w) = h[1..n]
  <2>1. FreeReplaced(w) = h[DOMAIN id]
    BY DEF FreeReplaced, FoldLeftDomain, FoldLeft, MapThenFoldSet
  <2> HIDE DEF h, id
  <2> QED
    BY <1>1, <2>1
<1>7. h[1..n] \in F
  <2> HIDE DEF h
  <2>1. h[{}] \in F
    <3> HIDE DEF F, id
    <3> QED
      BY <1>3, <1>5
  <2>2. ASSUME NEW t \in SUBSET (1..n), t # {}, h[t \ {Max(t)}] \in F
        PROVE  h[t] = f[<<h[t \ {Max(t)}], Max(t)>>]
    <3> HIDE DEF F, Step, id
    <3>1. Max(t) \in 1..n
      BY <1>1, <2>2, MaxOfFinite
    <3> QED
      BY <1>1, <1>5, <2>2, <3>1
  <2>3. f \in [F \X (1..n) -> F]
    <3> HIDE DEF F, Step, id
    <3> QED
      BY <1>2
  <2> HIDE DEF F, f, id
  <2> QED
    BY <1>1, <2>1, <2>2, <2>3, FoldEnds
<1> QED
  BY <1>6, <1>7

\* The sizes a native method sets first.
LEMMA ResetSizesFrame ==
  ASSUME WellTyped(sig), NEW N, N = Len(sig), NEW w \in Frames(N)
  PROVE  ResetSizes(w) \in Frames(N)
<1>0. N \in Nat /\ Len(sig) = N /\ DOMAIN sig = 1..N
  BY SigFields
<1> DEFINE n == Len(sig)
           F == Frames(N)
           Step(x, j) == IF IsOut(sig[j]) /\ AutoOut(sig, j) THEN Put(x, j, Num(0)) ELSE x
           f == [p \in F \X (1..n) |-> Step(p[1], p[2])]
           id == [i \in DOMAIN sig |-> i]
           Eqn(h) == h = [t \in SUBSET (DOMAIN id) |->
                            IF t = {} THEN w ELSE Step(h[t \ {Max(t)}], id[Max(t)])]
<1>1. /\ n \in Nat /\ DOMAIN sig = 1..n
      /\ DOMAIN id = 1..n /\ \A i \in 1..n : id[i] = i
  BY <1>0
<1>2. \A x \in F, j \in 1..n : Step(x, j) \in F
  <2>1. \A x \in Frames(N) : \A j : Put(x, j, Num(0)) \in Frames(N)
    BY <1>0, Constants, Puts
  <2> QED
    BY <2>1
<1>3. w \in F
  OBVIOUS
<1>4. \E g : Eqn(g)
  <2>1. f \in [F \X (1..n) -> F]
    <3> HIDE DEF F, Step, id
    <3> QED
      BY <1>2
  <2>2. PICK g : FoldFrom(g, F, n, f, w)
    <3> HIDE DEF F, f, n, id
    <3>1. n \in Nat
      BY <1>1
    <3> QED
      BY <1>3, <2>1, <3>1, FoldExists
  <2>3. \A t \in SUBSET (1..n) :
          g[t] = IF t = {} THEN w ELSE Step(g[t \ {Max(t)}], id[Max(t)])
    <3> HIDE DEF F, Step, id
    <3> SUFFICES ASSUME NEW t \in SUBSET (1..n), t # {}
                 PROVE  g[t] = Step(g[t \ {Max(t)}], id[Max(t)])
      BY <2>2 DEF FoldFrom
    <3> QED
      BY <1>1, <2>2 DEF FoldFrom
  <2>4. Eqn(g)
    <3>1. g = [t \in SUBSET (1..n) |-> g[t]]
      BY <2>2 DEF FoldFrom
    <3>2. SUBSET (DOMAIN id) = SUBSET (1..n)
      BY <1>1
    <3> HIDE DEF F, Step, id
    <3>3. [t \in SUBSET (1..n) |-> g[t]] =
            [t \in SUBSET (1..n) |->
               IF t = {} THEN w ELSE Step(g[t \ {Max(t)}], id[Max(t)])]
      BY <2>3, Zenon
    <3> QED
      BY <3>1, <3>2, <3>3
  <2> HIDE DEF Eqn
  <2> QED
    BY <2>4
<1> DEFINE h == CHOOSE h : Eqn(h)
<1>5. Eqn(h)
  <2> HIDE DEF Eqn
  <2> QED
    BY <1>4
<1>6. ResetSizes(w) = h[1..n]
  <2>1. ResetSizes(w) = h[DOMAIN id]
    BY DEF ResetSizes, FoldLeftDomain, FoldLeft, MapThenFoldSet
  <2> HIDE DEF h, id
  <2> QED
    BY <1>1, <2>1
<1>7. h[1..n] \in F
  <2> HIDE DEF h
  <2>1. h[{}] \in F
    <3> HIDE DEF F, id
    <3> QED
      BY <1>3, <1>5
  <2>2. ASSUME NEW t \in SUBSET (1..n), t # {}, h[t \ {Max(t)}] \in F
        PROVE  h[t] = f[<<h[t \ {Max(t)}], Max(t)>>]
    <3> HIDE DEF F, Step, id
    <3>1. Max(t) \in 1..n
      BY <1>1, <2>2, MaxOfFinite
    <3> QED
      BY <1>1, <1>5, <2>2, <3>1
  <2>3. f \in [F \X (1..n) -> F]
    <3> HIDE DEF F, Step, id
    <3> QED
      BY <1>2
  <2> HIDE DEF F, f, id
  <2> QED
    BY <1>1, <2>1, <2>2, <2>3, FoldEnds
<1> QED
  BY <1>6, <1>7

\* The space a native caller has for what comes back.
LEMMA WithSpaceFrame ==
  ASSUME WellTyped(sig), NEW N, N = Len(sig), NEW w \in Frames(N)
  PROVE  WithSpace(w) \in Frames(N)
<1>0. N \in Nat /\ Len(sig) = N /\ DOMAIN sig = 1..N
  BY SigFields
<1> DEFINE n == Len(sig)
           F == Frames(N)
           Step(x, j) == IF IsArithmetic(sig[j].type) THEN Put(x, j, Num(0))
                          ELSE IF IsDipper(sig[j]) THEN PutNew(x, j, Block(Str(0)))
                          ELSE x
           f == [p \in F \X (1..n) |-> Step(p[1], p[2])]
           id == [i \in DOMAIN sig |-> i]
           Eqn(h) == h = [t \in SUBSET (DOMAIN id) |->
                            IF t = {} THEN w ELSE Step(h[t \ {Max(t)}], id[Max(t)])]
<1>1. /\ n \in Nat /\ DOMAIN sig = 1..n
      /\ DOMAIN id = 1..n /\ \A i \in 1..n : id[i] = i
  BY <1>0
<1>2. \A x \in F, j \in 1..n : Step(x, j) \in F
  <2>1. Str(0) \in Handled
    BY Constants
  <2>2. \A x \in Frames(N) : \A j : /\ Put(x, j, Num(0)) \in Frames(N)
                                    /\ PutNew(x, j, Block(Str(0))) \in Frames(N)
    BY <1>0, <2>1, Puts
  <2> QED
    BY <2>2
<1>3. w \in F
  OBVIOUS
<1>4. \E g : Eqn(g)
  <2>1. f \in [F \X (1..n) -> F]
    <3> HIDE DEF F, Step, id
    <3> QED
      BY <1>2
  <2>2. PICK g : FoldFrom(g, F, n, f, w)
    <3> HIDE DEF F, f, n, id
    <3>1. n \in Nat
      BY <1>1
    <3> QED
      BY <1>3, <2>1, <3>1, FoldExists
  <2>3. \A t \in SUBSET (1..n) :
          g[t] = IF t = {} THEN w ELSE Step(g[t \ {Max(t)}], id[Max(t)])
    <3> HIDE DEF F, Step, id
    <3> SUFFICES ASSUME NEW t \in SUBSET (1..n), t # {}
                 PROVE  g[t] = Step(g[t \ {Max(t)}], id[Max(t)])
      BY <2>2 DEF FoldFrom
    <3> QED
      BY <1>1, <2>2 DEF FoldFrom
  <2>4. Eqn(g)
    <3>1. g = [t \in SUBSET (1..n) |-> g[t]]
      BY <2>2 DEF FoldFrom
    <3>2. SUBSET (DOMAIN id) = SUBSET (1..n)
      BY <1>1
    <3> HIDE DEF F, Step, id
    <3>3. [t \in SUBSET (1..n) |-> g[t]] =
            [t \in SUBSET (1..n) |->
               IF t = {} THEN w ELSE Step(g[t \ {Max(t)}], id[Max(t)])]
      BY <2>3, Zenon
    <3> QED
      BY <3>1, <3>2, <3>3
  <2> HIDE DEF Eqn
  <2> QED
    BY <2>4
<1> DEFINE h == CHOOSE h : Eqn(h)
<1>5. Eqn(h)
  <2> HIDE DEF Eqn
  <2> QED
    BY <1>4
<1>6. WithSpace(w) = h[1..n]
  <2>1. WithSpace(w) = h[DOMAIN id]
    BY DEF WithSpace, FoldLeftDomain, FoldLeft, MapThenFoldSet
  <2> HIDE DEF h, id
  <2> QED
    BY <1>1, <2>1
<1>7. h[1..n] \in F
  <2> HIDE DEF h
  <2>1. h[{}] \in F
    <3> HIDE DEF F, id
    <3> QED
      BY <1>3, <1>5
  <2>2. ASSUME NEW t \in SUBSET (1..n), t # {}, h[t \ {Max(t)}] \in F
        PROVE  h[t] = f[<<h[t \ {Max(t)}], Max(t)>>]
    <3> HIDE DEF F, Step, id
    <3>1. Max(t) \in 1..n
      BY <1>1, <2>2, MaxOfFinite
    <3> QED
      BY <1>1, <1>5, <2>2, <3>1
  <2>3. f \in [F \X (1..n) -> F]
    <3> HIDE DEF F, Step, id
    <3> QED
      BY <1>2
  <2> HIDE DEF F, f, id
  <2> QED
    BY <1>1, <2>1, <2>2, <2>3, FoldEnds
<1> QED
  BY <1>6, <1>7

\* The variants a native caller starts with.
LEMMA WithoutFrame ==
  ASSUME WellTyped(sig), NEW N, N = Len(sig), NEW w \in Frames(N), NEW missing
  PROVE  Without(w, missing) \in Frames(N)
<1>0. N \in Nat /\ Len(sig) = N /\ DOMAIN sig = 1..N
  BY SigFields
<1> DEFINE n == Len(sig)
           F == Frames(N)
           Step(x, j) == [x EXCEPT !.slots[j].there = j \notin missing]
           f == [p \in F \X (1..n) |-> Step(p[1], p[2])]
           id == [i \in DOMAIN sig |-> i]
           Eqn(h) == h = [t \in SUBSET (DOMAIN id) |->
                            IF t = {} THEN w ELSE Step(h[t \ {Max(t)}], id[Max(t)])]
<1>1. /\ n \in Nat /\ DOMAIN sig = 1..n
      /\ DOMAIN id = 1..n /\ \A i \in 1..n : id[i] = i
  BY <1>0
<1>2. \A x \in F, j \in 1..n : Step(x, j) \in F
  <2>1. \A x \in Frames(N) : \A j : \A b \in BOOLEAN :
          [x EXCEPT !.slots[j].there = b] \in Frames(N)
    BY <1>0, SlotFlagFrame
  <2>2. \A j : (j \notin missing) \in BOOLEAN
    OBVIOUS
  <2> QED
    BY <2>1, <2>2
<1>3. w \in F
  OBVIOUS
<1>4. \E g : Eqn(g)
  <2>1. f \in [F \X (1..n) -> F]
    <3> HIDE DEF F, Step, id
    <3> QED
      BY <1>2
  <2>2. PICK g : FoldFrom(g, F, n, f, w)
    <3> HIDE DEF F, f, n, id
    <3>1. n \in Nat
      BY <1>1
    <3> QED
      BY <1>3, <2>1, <3>1, FoldExists
  <2>3. \A t \in SUBSET (1..n) :
          g[t] = IF t = {} THEN w ELSE Step(g[t \ {Max(t)}], id[Max(t)])
    <3> HIDE DEF F, Step, id
    <3> SUFFICES ASSUME NEW t \in SUBSET (1..n), t # {}
                 PROVE  g[t] = Step(g[t \ {Max(t)}], id[Max(t)])
      BY <2>2 DEF FoldFrom
    <3> QED
      BY <1>1, <2>2 DEF FoldFrom
  <2>4. Eqn(g)
    <3>1. g = [t \in SUBSET (1..n) |-> g[t]]
      BY <2>2 DEF FoldFrom
    <3>2. SUBSET (DOMAIN id) = SUBSET (1..n)
      BY <1>1
    <3> HIDE DEF F, Step, id
    <3>3. [t \in SUBSET (1..n) |-> g[t]] =
            [t \in SUBSET (1..n) |->
               IF t = {} THEN w ELSE Step(g[t \ {Max(t)}], id[Max(t)])]
      BY <2>3, Zenon
    <3> QED
      BY <3>1, <3>2, <3>3
  <2> HIDE DEF Eqn
  <2> QED
    BY <2>4
<1> DEFINE h == CHOOSE h : Eqn(h)
<1>5. Eqn(h)
  <2> HIDE DEF Eqn
  <2> QED
    BY <1>4
<1>6. Without(w, missing) = h[1..n]
  <2>1. Without(w, missing) = h[DOMAIN id]
    BY DEF Without, FoldLeftDomain, FoldLeft, MapThenFoldSet
  <2> HIDE DEF h, id
  <2> QED
    BY <1>1, <2>1
<1>7. h[1..n] \in F
  <2> HIDE DEF h
  <2>1. h[{}] \in F
    <3> HIDE DEF F, id
    <3> QED
      BY <1>3, <1>5
  <2>2. ASSUME NEW t \in SUBSET (1..n), t # {}, h[t \ {Max(t)}] \in F
        PROVE  h[t] = f[<<h[t \ {Max(t)}], Max(t)>>]
    <3> HIDE DEF F, Step, id
    <3>1. Max(t) \in 1..n
      BY <1>1, <2>2, MaxOfFinite
    <3> QED
      BY <1>1, <1>5, <2>2, <3>1
  <2>3. f \in [F \X (1..n) -> F]
    <3> HIDE DEF F, Step, id
    <3> QED
      BY <1>2
  <2> HIDE DEF F, f, id
  <2> QED
    BY <1>1, <2>1, <2>2, <2>3, FoldEnds
<1> QED
  BY <1>6, <1>7

\* The values a native program stores.
LEMMA StoreAllFrame ==
  ASSUME WellTyped(sig), NEW N, N = Len(sig), NEW w \in Frames(N),
         NEW order \in Seq(1..N), NEW values \in Seq(Given), NativeValues(sig, order, values)
  PROVE  StoreAll(w, order, values) \in Frames(N)
<1> DEFINE n == Len(order)
           F == Frames(N)
           Step(x, j) == NativeStore(x, order[j], values[j])
           f == [p \in F \X (1..n) |-> Step(p[1], p[2])]
           id == [i \in DOMAIN order |-> i]
           Eqn(h) == h = [t \in SUBSET (DOMAIN id) |->
                            IF t = {} THEN w ELSE Step(h[t \ {Max(t)}], id[Max(t)])]
<1>1. /\ n \in Nat /\ DOMAIN order = 1..n
      /\ DOMAIN id = 1..n /\ \A i \in 1..n : id[i] = i
  OBVIOUS
<1>2. \A x \in F, j \in 1..n : Step(x, j) \in F
  <2> SUFFICES ASSUME NEW x \in F, NEW j \in 1..n PROVE Step(x, j) \in F
    OBVIOUS
  <2>1. order[j] \in 1..N /\ values[j] \in Given
    BY <1>1 DEF NativeValues
  <2>2. NativeValue(sig[order[j]], values[j])
    BY <1>1 DEF NativeValues
  <2> QED
    BY <2>1, <2>2, StoreFrame
<1>3. w \in F
  OBVIOUS
<1>4. \E g : Eqn(g)
  <2>1. f \in [F \X (1..n) -> F]
    <3> HIDE DEF F, Step, id
    <3> QED
      BY <1>2
  <2>2. PICK g : FoldFrom(g, F, n, f, w)
    <3> HIDE DEF F, f, n, id
    <3>1. n \in Nat
      BY <1>1
    <3> QED
      BY <1>3, <2>1, <3>1, FoldExists
  <2>3. \A t \in SUBSET (1..n) :
          g[t] = IF t = {} THEN w ELSE Step(g[t \ {Max(t)}], id[Max(t)])
    <3> HIDE DEF F, Step, id
    <3> SUFFICES ASSUME NEW t \in SUBSET (1..n), t # {}
                 PROVE  g[t] = Step(g[t \ {Max(t)}], id[Max(t)])
      BY <2>2 DEF FoldFrom
    <3> QED
      BY <1>1, <2>2 DEF FoldFrom
  <2>4. Eqn(g)
    <3>1. g = [t \in SUBSET (1..n) |-> g[t]]
      BY <2>2 DEF FoldFrom
    <3>2. SUBSET (DOMAIN id) = SUBSET (1..n)
      BY <1>1
    <3> HIDE DEF F, Step, id
    <3>3. [t \in SUBSET (1..n) |-> g[t]] =
            [t \in SUBSET (1..n) |->
               IF t = {} THEN w ELSE Step(g[t \ {Max(t)}], id[Max(t)])]
      BY <2>3, Zenon
    <3> QED
      BY <3>1, <3>2, <3>3
  <2> HIDE DEF Eqn
  <2> QED
    BY <2>4
<1> DEFINE h == CHOOSE h : Eqn(h)
<1>5. Eqn(h)
  <2> HIDE DEF Eqn
  <2> QED
    BY <1>4
<1>6. StoreAll(w, order, values) = h[1..n]
  <2>1. StoreAll(w, order, values) = h[DOMAIN id]
    BY DEF StoreAll, FoldLeftDomain, FoldLeft, MapThenFoldSet
  <2> HIDE DEF h, id
  <2> QED
    BY <1>1, <2>1
<1>7. h[1..n] \in F
  <2> HIDE DEF h
  <2>1. h[{}] \in F
    <3> HIDE DEF F, id
    <3> QED
      BY <1>3, <1>5
  <2>2. ASSUME NEW t \in SUBSET (1..n), t # {}, h[t \ {Max(t)}] \in F
        PROVE  h[t] = f[<<h[t \ {Max(t)}], Max(t)>>]
    <3> HIDE DEF F, Step, id
    <3>1. Max(t) \in 1..n
      BY <1>1, <2>2, MaxOfFinite
    <3> QED
      BY <1>1, <1>5, <2>2, <3>1
  <2>3. f \in [F \X (1..n) -> F]
    <3> HIDE DEF F, Step, id
    <3> QED
      BY <1>2
  <2> HIDE DEF F, f, id
  <2> QED
    BY <1>1, <2>1, <2>2, <2>3, FoldEnds
<1> QED
  BY <1>6, <1>7
=============================================================================
