--------------------------- MODULE StartupProofs ---------------------------
(***************************************************************************)
(* Proofs about Startup, for any number of threads, any hosts and any      *)
(* number of failures: the depth of the imports, what a caller of          *)
(* PyXPCOM_EnsurePythonEnvironment finds, that the set-up happens once,    *)
(* which locks are held and by whom, and when init_xpcom may take "the     *)
(* dance" for done.                                                        *)
(*                                                                         *)
(* The inductive invariant SInv says which frames can wait for which       *)
(* (Nested), what each frame means for the locks and the environment       *)
(* (FramesTrue), which frames a thread has one of (Once), and who holds    *)
(* the locks (HeldBySome, GILHeld, GILSaved).  A step moves the stack of   *)
(* one thread: it replaces the innermost frame, calls, or returns.  What   *)
(* each move keeps is proved once, and each action is then one of them.    *)
(***************************************************************************)
EXTENDS Startup, FiniteSetTheorems, TLAPS

-----------------------------------------------------------------------------
(* Frames *)

FrameType == [at : Labels, mod : Modules \cup {None}]

\* PyXPCOM_EnsurePythonEnvironment from the framework lock on.
Section == {"again", "site", "error", "got_error", "publish", "leave", "unlock"}
Ensuring == {"ensure", "lock"} \cup Section

\* init_xpcom, which runs with the GIL held.
InitLabels == {"init", "app_info", "load", "register", "real", "module"}

\* The import lock is held from the first thing an import does on.
Holding == ImportLabels \ {"import"}

\* Where a frame waits for another one.
Waiting == {"package", "ran", "module", "loader", "loader_got"} \cup CLabels

\* The frame that a waiting frame has called.
Callee(f) ==
  CASE f.at = "package" -> Import("xpcom")
    [] f.at = "ran" -> Import(Imported(f.mod))
    [] f.at = "error" -> Import("sitepyxpcom")
    [] f.at \in {"got_error", "leave"} -> Import("xpcom")
    [] f.at = "loader_got" -> Import("_xpcom")
    [] f.at \in {"module", "loader"} -> Frame("ensure", None)

\* f has been called by g, and has gone on since.
CalledBy(f, g) ==
  /\ f.mod = Callee(g).mod
  /\ IF Callee(g).at = "import" THEN f.at \in ImportLabels
                                ELSE f.at \in Ensuring

\* Which module a frame is about.
FrameOK(f) ==
  /\ f.at = "import" => f.mod \in Modules
  /\ f.at \in {"run", "ran"} => f.mod \in {"sitepyxpcom", "xpcom"}
  /\ f.at \in {"package"} \cup InitLabels => f.mod = "_xpcom"
  /\ f.at \in Ensuring \cup {"loader", "loader_got"} => f.mod = None
  /\ f.at = "ran" => Imported(f.mod) # None

TypesOK ==
  /\ host \in Hosts
  /\ gil \in Threads \cup {None} /\ framework \in Threads \cup {None}
  /\ imports \in Threads \cup {None}
  /\ pyUp \in BOOLEAN /\ initialized \in BOOLEAN /\ types \in BOOLEAN
  /\ error \in BOOLEAN /\ didInit \in BOOLEAN
  /\ saved \in {"locked", "unlocked"}
  /\ xpcom \in BOOLEAN /\ registered \in BOOLEAN /\ realInit \in BOOLEAN
  /\ modules \in [Modules -> {"absent", "partial", "loaded"}]
  /\ loader \in {"none", "starting", "ready", "failed"}
  /\ stack \in [Threads -> Seq(FrameType)]
  /\ failed \in [Threads -> BOOLEAN]
  /\ failures \in 0..MaxFailures

\* Each frame below the innermost one waits for the one above it.
Nested ==
  \A t \in Threads : \A i \in 1..Len(stack[t]) :
    /\ FrameOK(stack[t][i])
    /\ i > 1 => /\ stack[t][i].at \in Waiting
                /\ CalledBy(stack[t][i - 1], stack[t][i])
    /\ i < Len(stack[t]) => stack[t][i].at \notin {"loader", "loader_got"}

\* What a frame f of t means for the locks and the environment.
FrameTrue(t, f) ==
  /\ f.at \in Holding => imports = t
  /\ f.at \in Section => framework = t
  /\ f.at \in ImportLabels \cup (Section \ {"again"}) => pyUp
  /\ f.at \in {"run", "ran"} => modules[f.mod] = "partial"
  /\ f.at \in {"site", "error", "got_error", "publish"} => ~initialized
  /\ f.at = "publish" => error \/ failures > 0
  /\ f.at \in {"leave", "unlock", "loader_got"} => initialized

FramesTrue ==
  \A t \in Threads : \A i \in 1..Len(stack[t]) : FrameTrue(t, stack[t][i])

\* Frames that a thread can have one of: the section under the framework
\* lock, the code of a module, and the import of a package.
Key(f) ==
  CASE f.at \in Section -> "section"
    [] f.at \in {"run", "ran"} -> f.mod
    [] f.at = "package" -> "package"
    [] OTHER -> "any"

Once ==
  \A t \in Threads : \A i, j \in 1..Len(stack[t]) :
    Key(stack[t][i]) # "any" /\ Key(stack[t][i]) = Key(stack[t][j]) => i = j

Stacks == Nested /\ FramesTrue /\ Once

\* A lock that is held is held by a thread that will give it back.
HeldBySome ==
  \A t \in Threads :
    /\ imports = t
         => \E i \in 1..Len(stack[t]) : stack[t][i].at \in ImportLabels
    /\ framework = t
         => \E i \in 1..Len(stack[t]) : stack[t][i].at \in Section

\* The frame was called by init_xpcom_real, with the GIL held.
FromInit(t, i) == i < Len(stack[t]) /\ stack[t][i + 1].at = "module"

\* The GIL is held by C code that was called from Python or has taken it.
GILHeld ==
  \A t \in Threads : gil = t =>
    /\ stack[t] # <<>>
    /\ \/ stack[t][1].at \in InitLabels \cup CLabels \cup {"site", "publish"}
       \/ stack[t][1].at \in {"ensure", "lock", "again", "unlock"}
          /\ FromInit(t, 1)

\* PyGILState_Ensure finds the GIL taken when Python code has called.
GILSaved ==
  \A t \in Threads : \A i \in 1..Len(stack[t]) :
    stack[t][i].at \in Section \ {"again"} /\ ~didInit /\ saved = "locked"
      => FromInit(t, i)

\* A call of PyXPCOM_EnsurePythonEnvironment that has returned.
Ensured ==
  \A t \in Threads :
    stack[t] # <<>> /\ stack[t][1].at \in {"module", "loader"} => initialized

Published ==
  /\ host.python => pyUp
  /\ initialized => pyUp /\ types /\ (error \/ failures > 0)
  /\ \A t \in Threads : failed[t] => failures > 0

SInv == /\ TypesOK /\ Stacks /\ HeldBySome /\ GILHeld /\ GILSaved
        /\ Ensured /\ Published

-----------------------------------------------------------------------------
(* Moves of a stack *)

StackType == stack \in [Threads -> Seq(FrameType)]

OthersStay(t) == \A u \in Threads \ {t} : stack'[u] = stack[u]

Replaces(t, f) ==
  /\ StackType' /\ OthersStay(t)
  /\ Len(stack'[t]) = Len(stack[t])
  /\ stack'[t][1] = f
  /\ \A i \in 2..Len(stack[t]) : stack'[t][i] = stack[t][i]

Pushes(t, f, g) ==
  /\ StackType' /\ OthersStay(t)
  /\ Len(stack'[t]) = Len(stack[t]) + 1
  /\ stack'[t][1] = f /\ stack'[t][2] = g
  /\ \A i \in 2..Len(stack[t]) : stack'[t][i + 1] = stack[t][i]

Pops(t) ==
  /\ StackType' /\ OthersStay(t)
  /\ Len(stack'[t]) = Len(stack[t]) - 1
  /\ \A i \in 1..(Len(stack[t]) - 1) : stack'[t][i] = stack[t][i + 1]

\* The frame that a thread runs.
LEMMA Innermost ==
  ASSUME StackType, NEW t \in Threads, stack[t] # <<>>
  PROVE  /\ stack[t] \in Seq(FrameType) /\ Len(stack[t]) \in Nat \ {0}
         /\ Head(stack[t]) = stack[t][1] /\ stack[t][1] \in FrameType
         /\ Mod(t) = stack[t][1].mod /\ Mod(t) \in Modules \cup {None}
         /\ \A l \in Labels : Frame(l, Mod(t)) \in FrameType
<1>1. stack[t] \in Seq(FrameType)
  BY DEF StackType
<1>2. Len(stack[t]) \in Nat \ {0} /\ Head(stack[t]) = stack[t][1]
      /\ stack[t][1] \in FrameType
  BY <1>1
<1>3. Mod(t) = stack[t][1].mod /\ Mod(t) \in Modules \cup {None}
  BY <1>2 DEF Mod, FrameType
<1> QED
  BY <1>1, <1>2, <1>3 DEF FrameType, Frame

\* Goto changes the label of the innermost frame and nothing else.
LEMMA GotoReplaces ==
  ASSUME StackType, NEW t \in Threads, NEW l \in Labels, stack[t] # <<>>,
         Goto(t, l)
  PROVE  Replaces(t, Frame(l, Mod(t)))
<1> DEFINE f == Frame(l, Mod(t))
           s == stack[t]
<1>1. f \in FrameType /\ s \in Seq(FrameType) /\ Len(s) > 0
  BY Innermost
<1>2. stack' = [stack EXCEPT ![t] = <<f>> \o Tail(s)]
  BY DEF Goto, StackType
<1> HIDE DEF f
<1>3. <<f>> \o Tail(s) \in Seq(FrameType) /\ Len(<<f>> \o Tail(s)) = Len(s)
      /\ (<<f>> \o Tail(s))[1] = f
      /\ \A i \in 2..Len(s) : (<<f>> \o Tail(s))[i] = s[i]
  BY <1>1
<1> QED
  BY <1>1, <1>2, <1>3 DEF Replaces, StackType, OthersStay, f

\* CallThen puts the callee in front of the frame that waits for it.
LEMMA CallPushes ==
  ASSUME StackType, NEW t \in Threads, NEW l \in Labels, stack[t] # <<>>,
         NEW c \in FrameType, CallThen(t, c, l)
  PROVE  Pushes(t, c, Frame(l, Mod(t)))
<1> DEFINE f == Frame(l, Mod(t))
           s == stack[t]
<1>1. f \in FrameType /\ s \in Seq(FrameType) /\ Len(s) > 0
  BY Innermost
<1>2. stack' = [stack EXCEPT ![t] = <<c, f>> \o Tail(s)]
  BY DEF CallThen, StackType
<1> HIDE DEF f
<1>3. <<c, f>> \o Tail(s) \in Seq(FrameType)
      /\ Len(<<c, f>> \o Tail(s)) = Len(s) + 1
      /\ (<<c, f>> \o Tail(s))[1] = c /\ (<<c, f>> \o Tail(s))[2] = f
      /\ \A i \in 2..Len(s) : (<<c, f>> \o Tail(s))[i + 1] = s[i]
  BY <1>1
<1> QED
  BY <1>1, <1>2, <1>3 DEF Pushes, StackType, OthersStay, f

\* Return takes the innermost frame away.
LEMMA ReturnPops ==
  ASSUME StackType, NEW t \in Threads, stack[t] # <<>>, Return(t)
  PROVE  Pops(t)
<1> DEFINE s == stack[t]
<1>1. s \in Seq(FrameType) /\ Len(s) > 0
  BY DEF StackType
<1>2. stack' = [stack EXCEPT ![t] = Tail(s)]
  BY DEF Return, StackType
<1>3. Tail(s) \in Seq(FrameType) /\ Len(Tail(s)) = Len(s) - 1
      /\ \A i \in 1..(Len(s) - 1) : Tail(s)[i] = s[i + 1]
  BY <1>1
<1> QED
  BY <1>1, <1>2, <1>3 DEF Pops, StackType, OthersStay

-----------------------------------------------------------------------------
(* What a move keeps *)

\* f is a frame of u that the step of t does not touch.
Untouched(t, u, f) ==
  \E i \in 1..Len(stack[u]) : f = stack[u][i] /\ (u = t => i > 1)

Stable(t) ==
  \A u \in Threads, f \in FrameType :
    Untouched(t, u, f) /\ FrameTrue(u, f) => FrameTrue(u, f)'

SameKind(f, g) ==
  /\ f.at \in ImportLabels <=> g.at \in ImportLabels
  /\ f.at \in Ensuring <=> g.at \in Ensuring
  /\ f.at \in {"loader", "loader_got"} <=> g.at \in {"loader", "loader_got"}
  /\ f.mod = g.mod

\* f can be put where t's innermost frame is.
Follows(t, f) ==
  /\ f \in FrameType /\ FrameOK(f) /\ FrameTrue(t, f)'
  /\ SameKind(f, stack[t][1])
  /\ \/ Key(f) = "any" \/ Key(f) = Key(stack[t][1])
     \/ \A i \in 2..Len(stack[t]) : Key(stack[t][i]) # Key(f)

\* A frame that follows the innermost one keeps the stacks in order.
LEMMA ReplaceKeeps ==
  ASSUME StackType, Stacks, NEW t \in Threads, NEW f, stack[t] # <<>>,
         Replaces(t, f), Follows(t, f), Stable(t), host' = host
  PROVE  Stacks'
<1>1. Len(stack[t]) \in Nat \ {0} /\ \A u \in Threads : Len(stack[u]) \in Nat
  BY Innermost DEF StackType
<1>2. Nested'
  <2>1. \A g, h : CalledBy(g, h)' <=> CalledBy(g, h)
    BY DEF CalledBy, Callee, Imported
  <2>2. \A g : FrameOK(g)' <=> FrameOK(g)
    BY DEF FrameOK, Imported
  <2>3. \A g : CalledBy(stack[t][1], g) => CalledBy(f, g)
    BY DEF CalledBy, Follows, SameKind
  <2>4. 1 < Len(stack[t]) =>
          /\ stack[t][1].at \notin {"loader", "loader_got"}
          /\ FrameOK(stack[t][2])
          /\ stack[t][2].at \in Waiting
          /\ CalledBy(stack[t][2 - 1], stack[t][2])
          /\ 2 < Len(stack[t]) => stack[t][2].at \notin {"loader", "loader_got"}
    BY <1>1 DEF Stacks, Nested
  <2> SUFFICES ASSUME NEW u \in Threads, NEW i \in 1..Len(stack'[u])
               PROVE  /\ FrameOK(stack'[u][i])
                      /\ i > 1 => /\ stack'[u][i].at \in Waiting
                                  /\ CalledBy(stack'[u][i - 1], stack'[u][i])
                      /\ i < Len(stack'[u])
                           => stack'[u][i].at \notin {"loader", "loader_got"}
    BY <2>1, <2>2 DEF Nested
  <2>5. CASE u # t
    BY <2>5 DEF Stacks, Nested, Replaces, OthersStay
  <2>6. CASE u = t /\ i = 1
    BY <1>1, <2>4, <2>6 DEF Replaces, Follows, SameKind
  <2>7. CASE u = t /\ i = 2
    BY <1>1, <2>3, <2>4, <2>7 DEF Replaces
  <2>8. CASE u = t /\ i > 2
    BY <1>1, <2>8 DEF Stacks, Nested, Replaces
  <2> QED
    BY <1>1, <2>5, <2>6, <2>7, <2>8
<1>3. FramesTrue'
  <2> SUFFICES ASSUME NEW u \in Threads, NEW i \in 1..Len(stack'[u])
               PROVE  FrameTrue(u, stack[u][i])'
    BY DEF FramesTrue
  <2>1. CASE u = t /\ i = 1
    BY <2>1 DEF Replaces, Follows, FrameTrue
  <2>2. CASE u # t \/ i # 1
    <3>1. i \in 1..Len(stack[u]) /\ stack'[u][i] = stack[u][i]
          /\ stack[u][i] \in FrameType
      BY <1>1, <2>2 DEF Replaces, OthersStay, StackType
    <3>2. PICK g \in FrameType : g = stack[u][i]
      BY <3>1
    <3>3. Untouched(t, u, g) /\ FrameTrue(u, g)
      BY <2>2, <3>1, <3>2 DEF Untouched, Stacks, FramesTrue
    <3>4. FrameTrue(u, g)' /\ g = stack'[u][i]
      BY <3>1, <3>2, <3>3 DEF Stable
    <3> QED
      BY <3>4 DEF FrameTrue
  <2> QED
    BY <2>1, <2>2
<1>4. Once'
  BY <1>1 DEF Once, Stacks, Replaces, OthersStay, Follows
<1> QED
  BY <1>2, <1>3, <1>4 DEF Stacks

\* c can be called from t's innermost frame, which goes on as g.
CanCall(t, c, g) ==
  /\ c \in FrameType /\ FrameOK(c) /\ FrameTrue(t, c)'
  /\ Key(c) = "any" /\ c.at \notin {"loader", "loader_got"}
  /\ Follows(t, g) /\ g.at \in Waiting /\ CalledBy(c, g)

\* So does a call.
LEMMA PushKeeps ==
  ASSUME StackType, Stacks, NEW t \in Threads, NEW c, NEW g, stack[t] # <<>>,
         Pushes(t, c, g), CanCall(t, c, g), Stable(t), host' = host
  PROVE  Stacks'
<1>1. Len(stack[t]) \in Nat \ {0} /\ \A u \in Threads : Len(stack[u]) \in Nat
  BY Innermost DEF StackType
<1>2. Nested'
  <2>1. \A e, h : CalledBy(e, h)' <=> CalledBy(e, h)
    BY DEF CalledBy, Callee, Imported
  <2>2. \A e : FrameOK(e)' <=> FrameOK(e)
    BY DEF FrameOK, Imported
  <2>3. \A h : CalledBy(stack[t][1], h) => CalledBy(g, h)
    BY DEF CalledBy, CanCall, Follows, SameKind
  <2>4. 1 < Len(stack[t]) =>
          /\ stack[t][1].at \notin {"loader", "loader_got"}
          /\ FrameOK(stack[t][2])
          /\ stack[t][2].at \in Waiting
          /\ CalledBy(stack[t][2 - 1], stack[t][2])
          /\ 2 < Len(stack[t]) => stack[t][2].at \notin {"loader", "loader_got"}
    BY <1>1 DEF Stacks, Nested
  <2> SUFFICES ASSUME NEW u \in Threads, NEW i \in 1..Len(stack'[u])
               PROVE  /\ FrameOK(stack'[u][i])
                      /\ i > 1 => /\ stack'[u][i].at \in Waiting
                                  /\ CalledBy(stack'[u][i - 1], stack'[u][i])
                      /\ i < Len(stack'[u])
                           => stack'[u][i].at \notin {"loader", "loader_got"}
    BY <2>1, <2>2 DEF Nested
  <2>5. CASE u # t
    BY <2>5 DEF Stacks, Nested, Pushes, OthersStay
  <2>6. CASE u = t /\ i \in {1, 2}
    BY <1>1, <2>4, <2>6 DEF Pushes, CanCall, Follows, SameKind
  <2>7. CASE u = t /\ i = 3
    <3>1. i - 1 = 2 /\ stack'[t][i] = stack[t][2] /\ Len(stack[t]) > 1
      BY <1>1, <2>7 DEF Pushes
    <3> QED
      BY <1>1, <2>3, <2>4, <2>7, <3>1 DEF Pushes
  <2>8. CASE u = t /\ i > 3
    <3>0. i - 1 \in 3..Len(stack[t])
      BY <1>1, <2>8 DEF Pushes
    <3>1. PICK j \in 3..Len(stack[t]) : j = i - 1
      BY <3>0
    <3>2. stack'[t][i] = stack[t][j] /\ stack'[t][i - 1] = stack[t][j - 1]
          /\ (i < Len(stack'[t]) => j < Len(stack[t]))
      BY <1>1, <3>1 DEF Pushes
    <3> QED
      BY <2>8, <3>1, <3>2 DEF Stacks, Nested
  <2> QED
    BY <1>1, <2>5, <2>6, <2>7, <2>8
<1>3. FramesTrue'
  <2> SUFFICES ASSUME NEW u \in Threads, NEW i \in 1..Len(stack'[u])
               PROVE  FrameTrue(u, stack[u][i])'
    BY DEF FramesTrue
  <2>1. CASE u = t /\ i \in {1, 2}
    BY <2>1 DEF Pushes, CanCall, Follows, FrameTrue
  <2>2. CASE u # t \/ i \notin {1, 2}
    <3>1. PICK j \in 1..Len(stack[u]) :
             stack'[u][i] = stack[u][j] /\ (u = t => j > 1)
      <4>1. CASE u # t
        BY <4>1 DEF Pushes, OthersStay
      <4>2. CASE u = t
        <5>0. i - 1 \in 2..Len(stack[t])
          BY <1>1, <2>2, <4>2 DEF Pushes
        <5>1. PICK j \in 2..Len(stack[t]) : j = i - 1
          BY <5>0
        <5>2. /\ i = j + 1 /\ stack'[t][j + 1] = stack[t][j]
              /\ j \in 1..Len(stack[t])
          BY <1>1, <5>1 DEF Pushes
        <5> QED
          BY <4>2, <5>1, <5>2
      <4> QED
        BY <4>1, <4>2
    <3>2. PICK f \in FrameType : f = stack[u][j]
      BY DEF StackType
    <3>3. Untouched(t, u, f) /\ FrameTrue(u, f)
      BY <3>1, <3>2 DEF Untouched, Stacks, FramesTrue
    <3>4. FrameTrue(u, f)' /\ f = stack'[u][i]
      BY <3>1, <3>2, <3>3 DEF Stable
    <3> QED
      BY <3>4 DEF FrameTrue
  <2> QED
    BY <2>1, <2>2
<1>4. Once'
  <2> SUFFICES ASSUME NEW u \in Threads, NEW i \in 1..Len(stack'[u]),
                      NEW j \in 1..Len(stack'[u]), Key(stack'[u][i]) # "any",
                      Key(stack'[u][i]) = Key(stack'[u][j]), i < j
               PROVE  FALSE
    <3>1. \A u \in Threads : Len(stack'[u]) \in Nat
      BY <1>1 DEF Pushes, OthersStay
    <3> QED
      BY <3>1 DEF Once
  <2>1. CASE u # t
    <3>1. stack'[u] = stack[u] /\ Len(stack[u]) \in Nat
      BY <1>1, <2>1 DEF Pushes, OthersStay
    <3> QED
      BY <3>1 DEF Once, Stacks
  <2>2. CASE u = t
    <3>1. i # 1
      BY <2>2 DEF Pushes, CanCall
    <3>0. j - 1 \in 2..Len(stack[t])
      BY <1>1, <2>2, <3>1 DEF Pushes
    <3>2. PICK l \in 2..Len(stack[t]) : l = j - 1
      BY <3>0
    <3>3. stack'[t][j] = stack[t][l]
      BY <3>2 DEF Pushes
    <3>4. CASE i = 2
      BY <1>1, <2>2, <3>2, <3>3, <3>4
         DEF Once, Stacks, Pushes, CanCall, Follows
    <3>5. CASE i # 2
      <4>0. i - 1 \in 2..Len(stack[t])
        BY <1>1, <2>2, <3>1, <3>5 DEF Pushes
      <4>1. PICK k \in 2..Len(stack[t]) : k = i - 1
        BY <4>0
      <4>2. stack'[t][i] = stack[t][k] /\ k < l
        BY <3>2, <4>1 DEF Pushes
      <4> QED
        BY <1>1, <2>2, <3>2, <3>3, <4>1, <4>2 DEF Once, Stacks
    <3> QED
      BY <3>4, <3>5
  <2> QED
    BY <2>1, <2>2
<1> QED
  BY <1>2, <1>3, <1>4 DEF Stacks

\* So does a return, which must not take a lock from under other frames.
LEMMA PopKeeps ==
  ASSUME StackType, Stacks, NEW t \in Threads, stack[t] # <<>>,
         Pops(t), Stable(t), host' = host
  PROVE  Stacks'
<1>1. Len(stack[t]) \in Nat \ {0} /\ \A u \in Threads : Len(stack[u]) \in Nat
  BY Innermost DEF StackType
<1>2. \A u \in Threads, i \in Nat : i \in 1..Len(stack'[u]) =>
        \E j \in 1..Len(stack[u]) :
          /\ j = IF u = t THEN i + 1 ELSE i
          /\ stack'[u][i] = stack[u][j]
          /\ i < Len(stack'[u]) <=> j < Len(stack[u])
  <2> SUFFICES ASSUME NEW u \in Threads, NEW i \in 1..Len(stack'[u])
               PROVE  LET j == IF u = t THEN i + 1 ELSE i IN
                      /\ j \in 1..Len(stack[u])
                      /\ stack'[u][i] = stack[u][j]
                      /\ i < Len(stack'[u]) <=> j < Len(stack[u])
    OBVIOUS
  <2>1. CASE u = t
    <3>1. Len(stack'[t]) = Len(stack[t]) - 1
      BY DEF Pops
    <3>2. i \in 1..(Len(stack[t]) - 1) /\ i + 1 \in 1..Len(stack[t])
          /\ (i < Len(stack'[t]) <=> i + 1 < Len(stack[t]))
      BY <1>1, <2>1, <3>1
    <3> QED
      BY <2>1, <3>2 DEF Pops
  <2>2. CASE u # t
    BY <1>1, <2>2 DEF Pops, OthersStay
  <2> QED
    BY <2>1, <2>2
<1>3. Nested'
  <2>1. \A e, h : CalledBy(e, h)' <=> CalledBy(e, h)
    BY DEF CalledBy, Callee, Imported
  <2>2. \A e : FrameOK(e)' <=> FrameOK(e)
    BY DEF FrameOK, Imported
  <2> SUFFICES ASSUME NEW u \in Threads, NEW i \in 1..Len(stack'[u])
               PROVE  /\ FrameOK(stack'[u][i])
                      /\ i > 1 => /\ stack'[u][i].at \in Waiting
                                  /\ CalledBy(stack'[u][i - 1], stack'[u][i])
                      /\ i < Len(stack'[u])
                           => stack'[u][i].at \notin {"loader", "loader_got"}
    BY <2>1, <2>2 DEF Nested
  <2>3. CASE u # t
    BY <2>3 DEF Stacks, Nested, Pops, OthersStay
  <2>4. CASE u = t
    <3>1. PICK j \in 1..Len(stack[t]) :
            /\ j = i + 1 /\ stack'[t][i] = stack[t][j]
            /\ i < Len(stack'[t]) <=> j < Len(stack[t])
      BY <1>2, <2>4
    <3>2. i > 1 => j > 1 /\ stack'[t][i - 1] = stack[t][j - 1]
      <4> HAVE i > 1
      <4>1. i - 1 \in 1..(Len(stack[t]) - 1) /\ (i - 1) + 1 = j - 1 /\ j > 1
        BY <1>1, <2>4, <3>1 DEF Pops
      <4> QED
        BY <4>1 DEF Pops
    <3> QED
      BY <2>4, <3>1, <3>2 DEF Stacks, Nested
  <2> QED
    BY <2>3, <2>4
<1>4. FramesTrue'
  <2> SUFFICES ASSUME NEW u \in Threads, NEW i \in 1..Len(stack'[u])
               PROVE  FrameTrue(u, stack[u][i])'
    BY DEF FramesTrue
  <2>1. PICK j \in 1..Len(stack[u]) :
           j = (IF u = t THEN i + 1 ELSE i) /\ stack'[u][i] = stack[u][j]
    BY <1>2
  <2>2. PICK f \in FrameType : f = stack[u][j]
    BY DEF StackType
  <2>3. Untouched(t, u, f) /\ FrameTrue(u, f)
    BY <2>1, <2>2 DEF Untouched, Stacks, FramesTrue
  <2>4. FrameTrue(u, f)' /\ f = stack'[u][i]
    BY <2>1, <2>2, <2>3 DEF Stable
  <2> QED
    BY <2>4 DEF FrameTrue
<1>5. Once'
  <2> SUFFICES ASSUME NEW u \in Threads, NEW i \in 1..Len(stack'[u]),
                      NEW j \in 1..Len(stack'[u]), Key(stack'[u][i]) # "any",
                      Key(stack'[u][i]) = Key(stack'[u][j])
               PROVE  i = j
    BY DEF Once
  <2>1. PICK k \in 1..Len(stack[u]) :
           k = (IF u = t THEN i + 1 ELSE i) /\ stack'[u][i] = stack[u][k]
    BY <1>2
  <2>2. PICK l \in 1..Len(stack[u]) :
           l = (IF u = t THEN j + 1 ELSE j) /\ stack'[u][j] = stack[u][l]
    BY <1>2
  <2>3. k = l
    BY <2>1, <2>2 DEF Once, Stacks
  <2> QED
    BY <2>1, <2>2, <2>3
<1> QED
  BY <1>3, <1>4, <1>5 DEF Stacks

\* The locks and the environment go with the frame that f follows.
Rest == HeldBySome /\ GILHeld /\ GILSaved /\ Ensured

CWithGIL == InitLabels \cup CLabels \cup {"site", "publish"}
MayHaveGIL == {"ensure", "lock", "again", "unlock"}

OthersUnsaved(t) ==
  \/ UNCHANGED <<didInit, saved>>
  \/ \A u \in Threads, f \in FrameType : Untouched(t, u, f) => f.at \notin Section

LocksFollow(t, f) ==
  /\ \/ imports' = imports
     \/ imports' = t /\ f.at \in ImportLabels
  /\ \/ framework' = framework /\ (stack[t][1].at \in Section => f.at \in Section)
     \/ framework' = t /\ f.at \in Section
     \/ framework' = None
  /\ gil' \in {gil, None, t}
  /\ gil' = t => \/ f.at \in CWithGIL
                 \/ f.at \in MayHaveGIL /\ FromInit(t, 1)
  /\ f.at \in Section \ {"again"} /\ ~didInit' /\ saved' = "locked"
       => FromInit(t, 1)
  /\ OthersUnsaved(t)
  /\ initialized => initialized'
  /\ f.at \in {"module", "loader"} => initialized'

\* A frame that follows keeps what the locks and the environment mean.
LEMMA ReplaceKeepsRest ==
  ASSUME StackType, Rest, NEW t \in Threads, NEW f, stack[t] # <<>>,
         Replaces(t, f), Follows(t, f), LocksFollow(t, f)
  PROVE  Rest'
<1>1. Len(stack[t]) \in Nat \ {0} /\ \A u \in Threads : Len(stack[u]) \in Nat
  BY Innermost DEF StackType
<1>2. \A u \in Threads :
        /\ Len(stack'[u]) = Len(stack[u])
        /\ \A i \in 1..Len(stack[u]) :
             u # t \/ i > 1 => stack'[u][i] = stack[u][i]
  BY <1>1 DEF Replaces, OthersStay
<1>3. \A u \in Threads : \A i \in 1..Len(stack[u]) :
        FromInit(u, i)' <=> FromInit(u, i)
  BY <1>1, <1>2 DEF FromInit
<1>4. HeldBySome'
  <2> SUFFICES ASSUME NEW u \in Threads
               PROVE  /\ imports' = u => \E i \in 1..Len(stack'[u]) :
                                           stack'[u][i].at \in ImportLabels
                      /\ framework' = u => \E i \in 1..Len(stack'[u]) :
                                             stack'[u][i].at \in Section
    BY DEF HeldBySome
  <2>1. CASE u # t
    BY <1>2, <2>1, ThreadAssumption DEF Rest, HeldBySome, LocksFollow
  <2>2. CASE u = t
    <3>1. stack'[t][1] = f /\ 1 \in 1..Len(stack'[t])
      BY <1>1 DEF Replaces
    <3>2. stack[t][1].at \in ImportLabels => f.at \in ImportLabels
      BY DEF Follows, SameKind
    <3>3. imports' = t => imports = t \/ f.at \in ImportLabels
      BY DEF LocksFollow
    <3>4. framework' = t => \/ f.at \in Section
                            \/ framework = t /\ stack[t][1].at \notin Section
      BY ThreadAssumption DEF LocksFollow
    <3>5. ASSUME imports = t
          PROVE  \E i \in 1..Len(stack'[t]) : stack'[t][i].at \in ImportLabels
      <4>1. PICK i \in 1..Len(stack[t]) : stack[t][i].at \in ImportLabels
        BY <3>5 DEF Rest, HeldBySome
      <4> QED
        BY <1>1, <1>2, <3>1, <3>2, <4>1
    <3>6. ASSUME framework = t, stack[t][1].at \notin Section
          PROVE  \E i \in 1..Len(stack'[t]) : stack'[t][i].at \in Section
      <4>1. PICK i \in 1..Len(stack[t]) : stack[t][i].at \in Section
        BY <3>6 DEF Rest, HeldBySome
      <4> QED
        BY <1>1, <1>2, <3>6, <4>1
    <3> QED
      BY <2>2, <3>1, <3>3, <3>4, <3>5, <3>6
  <2> QED
    BY <2>1, <2>2
<1>5. GILHeld'
  <2>1. \A u \in Threads \ {t} : gil' = u => gil = u /\ stack'[u] = stack[u]
    BY ThreadAssumption DEF LocksFollow, Replaces, OthersStay
  <2>2. stack'[t] # <<>> /\ stack'[t][1] = f
    BY <1>1 DEF Replaces
  <2>3. FromInit(t, 1)' <=> FromInit(t, 1)
    BY <1>1, <1>3
  <2> QED
    BY <2>1, <2>2, <2>3
       DEF GILHeld, Rest, LocksFollow, CWithGIL, MayHaveGIL, FromInit
<1>6. GILSaved'
  <2> SUFFICES ASSUME NEW u \in Threads, NEW i \in 1..Len(stack'[u]),
                      stack'[u][i].at \in Section \ {"again"},
                      ~didInit', saved' = "locked"
               PROVE  FromInit(u, i)'
    BY DEF GILSaved
  <2>1. CASE u = t /\ i = 1
    BY <1>1, <1>3, <2>1 DEF Replaces, LocksFollow
  <2>2. CASE u # t \/ i > 1
    <3>1. i \in 1..Len(stack[u]) /\ stack'[u][i] = stack[u][i]
          /\ stack[u][i] \in FrameType
      BY <1>1, <1>2, <2>2 DEF StackType
    <3>2. Untouched(t, u, stack[u][i])
      BY <2>2, <3>1 DEF Untouched
    <3>3. UNCHANGED <<didInit, saved>>
      BY <3>1, <3>2 DEF LocksFollow, OthersUnsaved
    <3> QED
      BY <1>3, <3>1, <3>3 DEF Rest, GILSaved
  <2> QED
    BY <1>2, <2>1, <2>2
<1>7. Ensured'
  BY <1>1, <1>2 DEF Ensured, Rest, Replaces, OthersStay, LocksFollow
<1> QED
  BY <1>4, <1>5, <1>6, <1>7 DEF Rest

\* c is called, and t's innermost frame goes on as g.
LocksStay(t, c, g) ==
  /\ imports' = imports \/ imports' = t
  /\ framework' = framework
  /\ stack[t][1].at \in Section <=> g.at \in Section
  /\ g.at \in Section => stack[t][1].at # "again"
  /\ c.at = "import" \/ (c.at = "ensure" /\ (gil' = t => g.at = "module"))
  /\ gil' \in {gil, None}
  /\ c.at = "import" => gil' # t
  /\ g.at \in ImportLabels \/ imports' = imports
  /\ UNCHANGED <<didInit, saved>>
  /\ initialized => initialized'

\* So does a call.
LEMMA PushKeepsRest ==
  ASSUME StackType, Rest, NEW t \in Threads, NEW c, NEW g, stack[t] # <<>>,
         Pushes(t, c, g), CanCall(t, c, g), LocksStay(t, c, g)
  PROVE  Rest'
<1>1. Len(stack[t]) \in Nat \ {0} /\ \A u \in Threads : Len(stack[u]) \in Nat
  BY Innermost DEF StackType
<1>2. /\ Len(stack'[t]) = Len(stack[t]) + 1
      /\ stack'[t][1] = c /\ stack'[t][2] = g
      /\ \A i \in 2..Len(stack[t]) : stack'[t][i + 1] = stack[t][i]
      /\ \A u \in Threads \ {t} : stack'[u] = stack[u]
  BY DEF Pushes, OthersStay
<1>3. HeldBySome'
  <2> SUFFICES ASSUME NEW u \in Threads
               PROVE  /\ imports' = u => \E i \in 1..Len(stack'[u]) :
                                           stack'[u][i].at \in ImportLabels
                      /\ framework' = u => \E i \in 1..Len(stack'[u]) :
                                             stack'[u][i].at \in Section
    BY DEF HeldBySome
  <2>1. CASE u # t
    BY <1>2, <2>1, ThreadAssumption DEF Rest, HeldBySome, LocksStay
  <2>2. CASE u = t
    <3>1. 2 \in 1..Len(stack'[t])
      BY <1>1, <1>2
    <3>2. \A i \in 2..Len(stack[t]) : i + 1 \in 1..Len(stack'[t])
      BY <1>1, <1>2
    <3>3. imports' = t => imports = t \/ g.at \in ImportLabels
      BY DEF LocksStay
    <3>4. ASSUME imports = t
          PROVE  \E i \in 1..Len(stack'[t]) : stack'[t][i].at \in ImportLabels
      <4>1. PICK i \in 1..Len(stack[t]) : stack[t][i].at \in ImportLabels
        BY <3>4 DEF Rest, HeldBySome
      <4>2. CASE i = 1
        BY <1>2, <3>1, <4>1, <4>2 DEF CanCall, Follows, SameKind
      <4>3. CASE i # 1
        <5>1. i \in 2..Len(stack[t])
          BY <1>1, <4>3
        <5>2. i + 1 \in 1..Len(stack'[t]) /\ stack'[t][i + 1] = stack[t][i]
          BY <1>2, <3>2, <5>1
        <5> QED
          BY <4>1, <5>2
      <4> QED
        BY <4>2, <4>3
    <3>5. ASSUME framework = t
          PROVE  \E i \in 1..Len(stack'[t]) : stack'[t][i].at \in Section
      <4>1. PICK i \in 1..Len(stack[t]) : stack[t][i].at \in Section
        BY <3>5 DEF Rest, HeldBySome
      <4>2. CASE i = 1
        BY <1>2, <3>1, <4>1, <4>2 DEF LocksStay
      <4>3. CASE i # 1
        <5>1. i \in 2..Len(stack[t])
          BY <1>1, <4>3
        <5>2. i + 1 \in 1..Len(stack'[t]) /\ stack'[t][i + 1] = stack[t][i]
          BY <1>2, <3>2, <5>1
        <5> QED
          BY <4>1, <5>2
      <4> QED
        BY <4>2, <4>3
    <3> QED
      BY <1>2, <2>2, <3>1, <3>3, <3>4, <3>5 DEF LocksStay
  <2> QED
    BY <2>1, <2>2
<1>4. GILHeld'
  <2>1. \A u \in Threads \ {t} : gil' = u => gil = u /\ stack'[u] = stack[u]
    BY <1>2, ThreadAssumption DEF LocksStay
  <2>2. stack'[t] # <<>> /\ stack'[t][1] = c
    BY <1>1, <1>2 DEF Pushes, StackType
  <2>3. gil' = t => c.at = "ensure" /\ FromInit(t, 1)'
    BY <1>1, <1>2 DEF LocksStay, FromInit
  <2> QED
    BY <2>1, <2>2, <2>3 DEF GILHeld, Rest, FromInit
<1>5. GILSaved'
  <2> SUFFICES ASSUME NEW u \in Threads, NEW i \in 1..Len(stack'[u]),
                      stack'[u][i].at \in Section \ {"again"},
                      ~didInit', saved' = "locked"
               PROVE  FromInit(u, i)'
    BY DEF GILSaved
  <2>0. ~didInit /\ saved = "locked"
    BY DEF LocksStay
  <2>1. CASE u # t
    BY <1>2, <2>0, <2>1 DEF Rest, GILSaved, FromInit
  <2>2. CASE u = t
    <3>1. i # 1
      BY <1>2, <2>2 DEF LocksStay, Section
    <3>2. i - 1 \in 1..Len(stack[t])
      BY <1>1, <1>2, <2>2, <3>1
    <3>3. PICK j \in 1..Len(stack[t]) : j = i - 1
      BY <3>2
    <3>4. stack[t][j].at \in Section \ {"again"}
      <4>1. CASE j = 1
        BY <1>2, <2>2, <3>3, <4>1 DEF LocksStay
      <4>2. CASE j # 1
        BY <1>1, <1>2, <2>2, <3>3, <4>2
      <4> QED
        BY <4>1, <4>2
    <3>5. j < Len(stack[t]) /\ stack[t][j + 1].at = "module"
      BY <2>0, <3>4 DEF Rest, GILSaved, FromInit
    <3>6. j + 1 \in 2..Len(stack[t]) /\ i + 1 = (j + 1) + 1 /\ i < Len(stack'[t])
      BY <1>1, <1>2, <3>3, <3>5
    <3>7. stack'[t][i + 1] = stack[t][j + 1]
      BY <1>2, <3>6
    <3> QED
      BY <2>2, <3>5, <3>6, <3>7 DEF FromInit
  <2> QED
    BY <2>1, <2>2
<1>6. Ensured'
  BY <1>1, <1>2 DEF Ensured, Rest, LocksStay
<1> QED
  BY <1>3, <1>4, <1>5, <1>6 DEF Rest

\* t's innermost frame ends; its thread gives up what went with it.
LocksGo(t) ==
  /\ \/ imports' = imports /\ stack[t][1].at \notin ImportLabels
     \/ imports' = None
     \/ /\ imports' = t
        /\ \E i \in 2..Len(stack[t]) : stack[t][i].at \in ImportLabels
  /\ \/ framework' = framework /\ stack[t][1].at \notin Section
     \/ framework' = None
  /\ gil' \in {gil, None, t}
  /\ gil' = t => 1 < Len(stack[t]) /\ stack[t][2].at \in CWithGIL
  /\ 1 < Len(stack[t]) /\ stack[t][2].at \in {"module", "loader"}
       => initialized'
  /\ UNCHANGED <<didInit, saved>>
  /\ initialized => initialized'

\* So does a return.
LEMMA PopKeepsRest ==
  ASSUME StackType, Rest, NEW t \in Threads, stack[t] # <<>>,
         Pops(t), LocksGo(t)
  PROVE  Rest'
<1>1. Len(stack[t]) \in Nat \ {0} /\ \A u \in Threads : Len(stack[u]) \in Nat
  BY Innermost DEF StackType
<1>2. /\ Len(stack'[t]) = Len(stack[t]) - 1
      /\ \A i \in 1..(Len(stack[t]) - 1) : stack'[t][i] = stack[t][i + 1]
      /\ \A u \in Threads \ {t} : stack'[u] = stack[u]
      /\ stack'[t] \in Seq(FrameType)
  BY DEF Pops, OthersStay, StackType
<1>3. \A i \in 2..Len(stack[t]) : \E j \in 1..Len(stack'[t]) :
        j = i - 1 /\ stack'[t][j] = stack[t][i]
  <2> TAKE i \in 2..Len(stack[t])
  <2>1. i - 1 \in 1..(Len(stack[t]) - 1) /\ (i - 1) + 1 = i
    BY <1>1
  <2> QED
    BY <1>2, <2>1
<1>4. HeldBySome'
  <2> SUFFICES ASSUME NEW u \in Threads
               PROVE  /\ imports' = u => \E i \in 1..Len(stack'[u]) :
                                           stack'[u][i].at \in ImportLabels
                      /\ framework' = u => \E i \in 1..Len(stack'[u]) :
                                             stack'[u][i].at \in Section
    BY DEF HeldBySome
  <2>1. CASE u # t
    BY <1>2, <2>1, ThreadAssumption DEF Rest, HeldBySome, LocksGo
  <2>2. CASE u = t
    <3>1. ASSUME imports' = t
          PROVE  \E i \in 2..Len(stack[t]) : stack[t][i].at \in ImportLabels
      <4>1. CASE imports = t /\ stack[t][1].at \notin ImportLabels
        <5>1. PICK i \in 1..Len(stack[t]) : stack[t][i].at \in ImportLabels
          BY <4>1 DEF Rest, HeldBySome
        <5> QED
          BY <1>1, <4>1, <5>1
      <4> QED
        BY <3>1, <4>1, ThreadAssumption DEF LocksGo
    <3>2. ASSUME framework' = t
          PROVE  \E i \in 2..Len(stack[t]) : stack[t][i].at \in Section
      <4>1. framework = t /\ stack[t][1].at \notin Section
        BY <3>2, ThreadAssumption DEF LocksGo
      <4>2. PICK i \in 1..Len(stack[t]) : stack[t][i].at \in Section
        BY <4>1 DEF Rest, HeldBySome
      <4> QED
        BY <1>1, <4>1, <4>2
    <3> QED
      BY <1>3, <2>2, <3>1, <3>2
  <2> QED
    BY <2>1, <2>2
<1>5. GILHeld'
  <2>1. \A u \in Threads \ {t} : gil' = u => gil = u /\ stack'[u] = stack[u]
    BY <1>2, ThreadAssumption DEF LocksGo
  <2>2. ASSUME gil' = t
        PROVE  stack'[t] # <<>> /\ stack'[t][1].at \in CWithGIL
    <3>1. 1 \in 1..(Len(stack[t]) - 1) /\ stack[t][1 + 1].at \in CWithGIL
      BY <1>1, <2>2 DEF LocksGo
    <3> QED
      BY <1>2, <3>1
  <2> QED
    BY <2>1, <2>2 DEF GILHeld, Rest, FromInit, CWithGIL
<1>6. GILSaved'
  <2> SUFFICES ASSUME NEW u \in Threads, NEW i \in 1..Len(stack'[u]),
                      stack'[u][i].at \in Section \ {"again"},
                      ~didInit', saved' = "locked"
               PROVE  FromInit(u, i)'
    BY DEF GILSaved
  <2>0. ~didInit /\ saved = "locked"
    BY DEF LocksGo
  <2>1. CASE u # t
    BY <1>2, <2>0, <2>1 DEF Rest, GILSaved, FromInit
  <2>2. CASE u = t
    <3>1. i + 1 \in 1..Len(stack[t]) /\ stack'[t][i] = stack[t][i + 1]
      BY <1>1, <1>2, <2>2
    <3>2. PICK j \in 1..Len(stack[t]) : j = i + 1
      BY <3>1
    <3>3. j < Len(stack[t]) /\ stack[t][j + 1].at = "module"
      BY <2>0, <2>2, <3>1, <3>2 DEF Rest, GILSaved, FromInit
    <3>4. i + 1 \in 1..(Len(stack[t]) - 1) /\ i < Len(stack'[t])
      BY <1>1, <1>2, <2>2, <3>2, <3>3
    <3>5. stack'[t][i + 1] = stack[t][j + 1]
      BY <1>2, <3>2, <3>4
    <3> QED
      BY <2>2, <3>3, <3>4, <3>5 DEF FromInit
  <2> QED
    BY <2>1, <2>2
<1>7. Ensured'
  <2> SUFFICES ASSUME NEW u \in Threads, stack'[u] # <<>>,
                      stack'[u][1].at \in {"module", "loader"}
               PROVE  initialized'
    BY DEF Ensured
  <2>1. CASE u # t
    BY <1>2, <2>1 DEF Rest, Ensured, LocksGo
  <2>2. CASE u = t
    <3>1. Len(stack'[t]) > 0
      BY <1>2, <2>2
    <3>2. 1 \in 1..(Len(stack[t]) - 1) /\ stack'[t][1] = stack[t][1 + 1]
      BY <1>1, <1>2, <3>1
    <3> QED
      BY <1>1, <2>2, <3>2 DEF LocksGo
  <2> QED
    BY <2>1, <2>2
<1> QED
  BY <1>4, <1>5, <1>6, <1>7 DEF Rest

-----------------------------------------------------------------------------
(* The steps *)

\* What the invariant says of a thread's innermost frame.
LEMMA AtHead ==
  ASSUME SInv, NEW t \in Threads, NEW l, At(t, l)
  PROVE  /\ StackType /\ stack[t] # <<>> /\ Len(stack[t]) \in Nat \ {0}
         /\ stack[t] \in Seq(FrameType)
         /\ stack[t][1] \in FrameType /\ stack[t][1].at = l
         /\ Mod(t) = stack[t][1].mod
         /\ FrameOK(stack[t][1]) /\ FrameTrue(t, stack[t][1])
         /\ 1 < Len(stack[t]) => /\ stack[t][2].at \in Waiting
                                 /\ CalledBy(stack[t][1], stack[t][2])
                                 /\ stack[t][1].at \notin {"loader", "loader_got"}
<1>1. StackType /\ stack[t] # <<>> /\ Stacks
  BY DEF SInv, TypesOK, StackType, At
<1>2. /\ Len(stack[t]) \in Nat \ {0} /\ stack[t] \in Seq(FrameType)
      /\ stack[t][1] \in FrameType /\ stack[t][1].at = l
      /\ Mod(t) = stack[t][1].mod
  BY <1>1, Innermost DEF At
<1>3. FrameOK(stack[t][1]) /\ FrameTrue(t, stack[t][1])
  BY <1>1, <1>2 DEF Stacks, Nested, FramesTrue
<1>4. 1 < Len(stack[t]) => /\ stack[t][2].at \in Waiting
                           /\ CalledBy(stack[t][2 - 1], stack[t][2])
                           /\ stack[t][1].at \notin {"loader", "loader_got"}
  BY <1>1, <1>2 DEF Stacks, Nested
<1> QED
  BY <1>1, <1>2, <1>3, <1>4

\* What no variable a frame speaks of has changed is still true.
LEMMA StableUnchanged ==
  ASSUME NEW t \in Threads,
         UNCHANGED <<framework, imports, pyUp, modules, initialized, error,
                     failures>>
  PROVE  Stable(t)
BY DEF Stable, FrameTrue

\* The three moves, with the whole invariant.
LEMMA ReplaceKeepsAll ==
  ASSUME SInv, NEW t \in Threads, NEW f, stack[t] # <<>>, Replaces(t, f),
         Follows(t, f), Stable(t), LocksFollow(t, f), host' = host,
         TypesOK', Published'
  PROVE  SInv'
BY ReplaceKeeps, ReplaceKeepsRest DEF SInv, Rest, TypesOK, StackType

LEMMA PushKeepsAll ==
  ASSUME SInv, NEW t \in Threads, NEW c, NEW g, stack[t] # <<>>,
         Pushes(t, c, g), CanCall(t, c, g), Stable(t), LocksStay(t, c, g),
         host' = host, TypesOK', Published'
  PROVE  SInv'
BY PushKeeps, PushKeepsRest DEF SInv, Rest, TypesOK, StackType

LEMMA PopKeepsAll ==
  ASSUME SInv, NEW t \in Threads, stack[t] # <<>>, Pops(t), Stable(t),
         LocksGo(t), host' = host, TypesOK', Published'
  PROVE  SInv'
BY PopKeeps, PopKeepsRest DEF SInv, Rest, TypesOK, StackType

\* A step inside init_xpcom that neither calls nor returns.
LEMMA DanceKeeps ==
  ASSUME SInv, NEW t \in Threads, NEW l \in InitLabels, NEW k \in InitLabels,
         At(t, l), Goto(t, k), k # "module",
         dance' \in BOOLEAN \X BOOLEAN \X BOOLEAN,
         UNCHANGED <<host, locks, env, modules, loader, failed, failures>>
  PROVE  SInv'
<1> DEFINE f == Frame(k, "_xpcom")
<1>1. /\ stack[t] # <<>> /\ stack[t][1].at = l /\ Mod(t) = "_xpcom"
      /\ StackType /\ stack[t][1].mod = "_xpcom" /\ FrameTrue(t, stack[t][1])
  BY AtHead DEF FrameOK
<1>2. Replaces(t, f)
  BY <1>1, GotoReplaces DEF InitLabels, Labels, ImportLabels
<1>3. Stable(t)
  BY StableUnchanged DEF locks, env
<1>4. Follows(t, f)
  <2>1. f \in FrameType /\ FrameOK(f) /\ Key(f) = "any"
    BY DEF FrameType, Frame, Labels, ImportLabels, InitLabels, Modules, FrameOK,
           Ensuring, Section, Key
  <2>2. FrameTrue(t, f)'
    BY <1>1 DEF FrameTrue, Frame, InitLabels, Holding, ImportLabels, Section,
                locks, env
  <2>3. SameKind(f, stack[t][1])
    BY <1>1 DEF SameKind, Frame, InitLabels, ImportLabels, Ensuring, Section
  <2> QED
    BY <2>1, <2>2, <2>3 DEF Follows
<1>5. LocksFollow(t, f)
  BY <1>1 DEF LocksFollow, OthersUnsaved, Frame, InitLabels, Section, CWithGIL,
              locks, env
<1>6. TypesOK' /\ Published'
  BY <1>2 DEF SInv, TypesOK, Published, Replaces, StackType, locks, env, dance
<1> QED
  BY <1>1, <1>2, <1>3, <1>4, <1>5, <1>6, ReplaceKeepsAll

\* The end of an import, whatever comes of it.
LEMMA EndImportKeeps ==
  ASSUME SInv, NEW t \in Threads, NEW l \in ImportLabels, At(t, l),
         NEW m \in {"absent", "partial", "loaded"}, NEW ok \in BOOLEAN,
         EndImport(t, ok, m), imports \in {None, t},
         \/ m = modules[Mod(t)] \/ Mod(t) = "_xpcom" \/ l \in {"run", "ran"},
         ok \/ failures' > 0, failures' \in 0..MaxFailures, failures' >= failures,
         UNCHANGED <<host, framework, env, dance, loader>>
  PROVE  SInv'
<1> DEFINE s == stack[t]
<1>1. /\ StackType /\ s # <<>> /\ Len(s) \in Nat \ {0} /\ s \in Seq(FrameType)
      /\ s[1] \in FrameType /\ s[1].at = l /\ Mod(t) = s[1].mod
      /\ FrameOK(s[1]) /\ FrameTrue(t, s[1])
      /\ 1 < Len(s) => /\ s[2].at \in Waiting /\ CalledBy(s[1], s[2])
  BY AtHead
<1>2. Mod(t) \in Modules
  BY <1>1 DEF FrameOK, ImportLabels, InitLabels, Modules
<1>3. Pops(t)
  BY <1>1, ReturnPops DEF EndImport
<1>4. /\ Tail(s) # <<>> <=> 1 < Len(s)
      /\ 1 < Len(s) => Head(Tail(s)) = s[2]
      /\ (\E i \in DOMAIN Tail(s) : Tail(s)[i].at \in ImportLabels)
           <=> \E i \in 2..Len(s) : s[i].at \in ImportLabels
  <2> DEFINE r == Tail(s)
  <2>1. r \in Seq(FrameType) /\ Len(r) = Len(s) - 1 /\ DOMAIN r = 1..(Len(s) - 1)
        /\ \A i \in 1..(Len(s) - 1) : r[i] = s[i + 1]
    BY <1>1
  <2>6. \A q \in Seq(FrameType) : q = <<>> <=> Len(q) = 0
    OBVIOUS
  <2>7. r = <<>> <=> Len(r) = 0
    BY <2>1, <2>6
  <2>2. r # <<>> <=> 1 < Len(s)
    BY <1>1, <2>1, <2>7
  <2>3. 1 < Len(s) => Head(r) = s[2]
    BY <1>1, <2>1
  <2>4. ASSUME NEW i \in DOMAIN r, r[i].at \in ImportLabels
        PROVE  \E j \in 2..Len(s) : s[j].at \in ImportLabels
    BY <1>1, <2>1, <2>4
  <2>5. ASSUME NEW i \in 2..Len(s), s[i].at \in ImportLabels
        PROVE  \E j \in DOMAIN r : r[j].at \in ImportLabels
    <3>1. i - 1 \in 1..(Len(s) - 1) /\ (i - 1) + 1 = i
      BY <1>1
    <3> QED
      BY <2>1, <2>5, <3>1
  <2> QED
    BY <2>2, <2>3, <2>4, <2>5
<1>5. /\ gil \in {None, t}
      /\ gil' = IF 1 < Len(s) /\ s[2].at \in CLabels THEN t ELSE None
      /\ imports' = IF \E i \in 2..Len(s) : s[i].at \in ImportLabels
                    THEN t ELSE None
      /\ modules' = [modules EXCEPT ![Mod(t)] = m]
      /\ failed' = [failed EXCEPT ![t] = ~ok /\ Tail(s) # <<>>]
  BY <1>4 DEF EndImport
<1>6. Stable(t)
  <2> SUFFICES ASSUME NEW u \in Threads, NEW f \in FrameType,
                      Untouched(t, u, f), FrameTrue(u, f)
               PROVE  FrameTrue(u, f)'
    BY DEF Stable
  <2>1. PICK i \in 1..Len(stack[u]) : f = stack[u][i] /\ (u = t => i > 1)
    BY DEF Untouched
  <2>2. FrameOK(f)
    BY <2>1 DEF SInv, Stacks, Nested
  <2>3. f.at \in Holding => u = t /\ i \in 2..Len(s) /\ s[i] = f
    BY <1>1, <2>1, ThreadAssumption DEF FrameTrue
  <2>4. f.at \in Holding => imports' = u
    BY <1>5, <2>3 DEF Holding
  <2>5. ASSUME f.at \in {"run", "ran"} PROVE modules'[f.mod] = "partial"
    <3>1. modules[f.mod] = "partial" /\ f.mod \in {"sitepyxpcom", "xpcom"}
      BY <2>2, <2>5 DEF FrameOK, FrameTrue
    <3>2. CASE f.mod # Mod(t)
      BY <1>2, <1>5, <3>1, <3>2 DEF SInv, TypesOK, Modules
    <3>3. CASE f.mod = Mod(t)
      <4>1. l \notin {"run", "ran"}
        <5> SUFFICES ASSUME l \in {"run", "ran"} PROVE FALSE
          OBVIOUS
        <5>1. u = t /\ i \in 2..Len(s) /\ s[i] = f
          BY <2>3, <2>5 DEF Holding, ImportLabels
        <5>2. Key(s[i]) = Key(s[1]) /\ Key(s[1]) # "any"
          BY <1>1, <2>5, <3>1, <3>3, <5>1 DEF Key, Section
        <5>3. 1 \in 1..Len(s) /\ i \in 1..Len(s) /\ i # 1
          BY <1>1, <5>1
        <5> QED
          BY <5>2, <5>3 DEF SInv, Stacks, Once
      <4>2. m = "partial"
        BY <3>1, <3>3, <4>1
      <4> QED
        BY <1>2, <1>5, <3>3, <4>2 DEF SInv, TypesOK
    <3> QED
      BY <3>2, <3>3
  <2>6. failures > 0 => failures' > 0
    BY DEF SInv, TypesOK
  <2> QED
    BY <2>4, <2>5, <2>6 DEF FrameTrue, env
<1>7. LocksGo(t)
  <2>1. 1 < Len(s) => s[2].at \notin {"module", "loader"}
    BY <1>1 DEF CalledBy, Callee, Frame, Ensuring, Section, ImportLabels
  <2>2. l \notin Section
    BY DEF ImportLabels, Section
  <2>3. gil' = t => 1 < Len(s) /\ s[2].at \in CWithGIL
    BY <1>5, ThreadAssumption DEF CWithGIL
  <2>4. initialized' = initialized
    BY DEF env
  <2> QED
    BY <1>1, <1>5, <2>1, <2>2, <2>3, <2>4 DEF LocksGo, env
<1>8. TypesOK'
  BY <1>2, <1>3, <1>5 DEF SInv, TypesOK, Pops, StackType, env, dance
<1>9. Published'
  <2>1. failures > 0 => failures' > 0
    BY DEF SInv, TypesOK
  <2>2. \A u \in Threads : failed'[u] => failures' > 0
    BY <1>5, <2>1 DEF SInv, TypesOK, Published
  <2> QED
    BY <2>1, <2>2 DEF SInv, Published, env
<1> QED
  BY <1>1, <1>3, <1>6, <1>7, <1>8, <1>9, PopKeepsAll

\* Python's import.
LEMMA ImportingKept ==
  ASSUME SInv, NEW t \in Threads, Importing(t)
  PROVE  SInv'
<1> USE DEF Present, ImportLockFree
<1>a. TypesOK
  BY DEF SInv
<1>b. \A l \in Holding : At(t, l) => imports = t
  BY AtHead DEF FrameTrue
<1>1. ASSUME AlreadyImported(t) PROVE SInv'
  <2>1. Mod(t) \in Modules
    BY <1>1, AtHead DEF AlreadyImported, FrameOK
  <2>2. PICK m \in {"absent", "partial", "loaded"} : m = modules[Mod(t)]
    BY <1>a, <2>1 DEF TypesOK
  <2>3. EndImport(t, TRUE, m) /\ At(t, "import") /\ imports \in {None, t}
        /\ UNCHANGED <<host, framework, env, dance, loader, failures>>
    BY <1>1, <2>2 DEF AlreadyImported
  <2>4. failures' \in 0..MaxFailures /\ failures' >= failures
    BY <1>a, <2>3 DEF TypesOK
  <2>5. "import" \in ImportLabels /\ TRUE \in BOOLEAN
    BY DEF ImportLabels
  <2> QED
    BY <2>2, <2>3, <2>4, <2>5, EndImportKeeps
<1>2. ASSUME ImportFails(t) PROVE SInv'
  <2>1. EndImport(t, FALSE, "absent") /\ "absent" = modules[Mod(t)]
    BY <1>2 DEF ImportFails
  <2>2. failures' > 0 /\ failures' \in 0..MaxFailures /\ failures' >= failures
    BY <1>2, <1>a, BoundAssumption DEF ImportFails, Fail, TypesOK
  <2> QED
    BY <1>2, <2>1, <2>2, EndImportKeeps DEF ImportFails, ImportLabels
<1>3. ASSUME ImportPackage(t) PROVE SInv'
  <2> DEFINE c == Import("xpcom")
             g == Frame("package", "_xpcom")
  <2>1. /\ StackType /\ stack[t] # <<>> /\ Len(stack[t]) \in Nat \ {0}
        /\ stack[t][1] \in FrameType /\ stack[t][1].at = "import"
        /\ stack[t][1].mod = "_xpcom" /\ Mod(t) = "_xpcom"
        /\ FrameTrue(t, stack[t][1])
        /\ At(t, "import") /\ CallThen(t, c, "package")
    BY <1>3, AtHead DEF ImportPackage
  <2>2. c \in FrameType /\ FrameOK(c) /\ g \in FrameType /\ FrameOK(g)
    BY DEF Import, Frame, FrameType, FrameOK, Labels, ImportLabels, InitLabels,
           Modules, Ensuring, Section
  <2>3. Pushes(t, c, g)
    BY <2>1, <2>2, CallPushes DEF Labels, ImportLabels
  <2>4. imports \in {None, t} /\ imports' = t
        /\ UNCHANGED <<host, gil, framework, env, dance, modules, loader,
                       failed, failures>>
    BY <1>3 DEF ImportPackage
  <2>5. Stable(t)
    BY <2>4, ThreadAssumption DEF Stable, FrameTrue, env
  <2>6. \A i \in 2..Len(stack[t]) : Key(stack[t][i]) # "package"
    <3> SUFFICES ASSUME NEW i \in 2..Len(stack[t]),
                        Key(stack[t][i]) = "package"
                 PROVE  FALSE
      OBVIOUS
    <3>1. i \in 1..Len(stack[t]) /\ i - 1 \in 1..Len(stack[t]) /\ i > 1
      BY <2>1
    <3>2. FrameOK(stack[t][i]) /\ FrameOK(stack[t][i - 1])
          /\ CalledBy(stack[t][i - 1], stack[t][i])
          /\ FrameTrue(t, stack[t][i - 1])
          /\ (i - 1 > 1 => stack[t][i - 1].at \in Waiting)
      BY <3>1 DEF SInv, Stacks, Nested, FramesTrue
    <3>3. stack[t][i].at = "package"
      BY <3>2 DEF Key, FrameOK
    <3>4. stack[t][i - 1].mod = "xpcom" /\ stack[t][i - 1].at \in ImportLabels
      BY <3>2, <3>3 DEF CalledBy, Callee, Import, Frame
    <3>5. i - 1 # 1
      BY <2>1, <3>4
    <3>6. stack[t][i - 1].at \in Waiting
      BY <3>1, <3>2, <3>5
    <3>7. stack[t][i - 1].at \in {"run", "ran"}
      BY <3>2, <3>4, <3>6
         DEF FrameOK, InitLabels, ImportLabels, Waiting, CLabels
    <3>8. modules["xpcom"] = "partial"
      BY <3>2, <3>4, <3>7 DEF FrameTrue
    <3> QED
      BY <1>3, <3>8 DEF ImportPackage
  <2>7. CanCall(t, c, g)
    <3>1. pyUp'
      BY <2>1, <2>4 DEF FrameTrue, ImportLabels, env
    <3>2. FrameTrue(t, c)' /\ FrameTrue(t, g)'
      BY <2>4, <3>1 DEF FrameTrue, Import, Frame, Holding, ImportLabels, Section
    <3>3. SameKind(g, stack[t][1]) /\ CalledBy(c, g)
      BY <2>1 DEF SameKind, CalledBy, Callee, Import, Frame, ImportLabels,
                  Ensuring, Section
    <3>4. Key(c) = "any" /\ Key(g) = "package" /\ g.at \in Waiting
          /\ c.at \notin {"loader", "loader_got"}
      BY DEF Key, Import, Frame, Section, Waiting
    <3> QED
      BY <2>2, <2>6, <3>2, <3>3, <3>4 DEF CanCall, Follows
  <2>8. LocksStay(t, c, g)
    <3>1. gil' # t
      BY <1>3, ThreadAssumption DEF ImportPackage
    <3> QED
      BY <2>1, <2>4, <3>1 DEF LocksStay, Import, Frame, Section, ImportLabels, env
  <2>9. TypesOK' /\ Published'
    BY <2>3, <2>4 DEF SInv, TypesOK, Published, Pushes, StackType, env, dance
  <2> QED
    BY <2>1, <2>3, <2>4, <2>5, <2>7, <2>8, <2>9, PushKeepsAll
<1>4. ASSUME PackageImported(t) PROVE SInv'
  <2>1. At(t, "package") /\ imports = t /\ Mod(t) = "_xpcom"
        /\ UNCHANGED <<host, framework, env, dance, loader, failures>>
    BY <1>4, <1>b, AtHead DEF PackageImported, Holding, ImportLabels, FrameOK
  <2>2. CASE /\ ~failed[t] /\ Goto(t, "import")
             /\ UNCHANGED <<gil, imports, modules, failed>>
    <3> DEFINE f == Frame("import", "_xpcom")
    <3>1. /\ StackType /\ stack[t] # <<>> /\ stack[t][1].at = "package"
          /\ stack[t][1].mod = "_xpcom" /\ FrameTrue(t, stack[t][1])
      BY <2>1, AtHead
    <3>2. f \in FrameType /\ FrameOK(f)
      BY DEF Frame, FrameType, FrameOK, Labels, ImportLabels, InitLabels,
             Modules, Ensuring, Section
    <3>3. Replaces(t, f)
      BY <2>1, <2>2, <3>1, GotoReplaces DEF Labels, ImportLabels
    <3>4. Stable(t)
      BY <2>1, <2>2, StableUnchanged DEF env
    <3>5. Follows(t, f)
      <4>1. FrameTrue(t, f)'
        BY <2>1, <2>2, <3>1
           DEF FrameTrue, Frame, Holding, ImportLabels, Section, env
      <4> QED
        BY <3>1, <3>2, <4>1 DEF Follows, SameKind, Key, Frame, ImportLabels,
                                Ensuring, Section
    <3>6. LocksFollow(t, f)
      <4>1. gil' # t
        BY <1>4, <2>2, ThreadAssumption DEF PackageImported
      <4> QED
        BY <2>1, <2>2, <3>1, <4>1
           DEF LocksFollow, OthersUnsaved, Frame, ImportLabels, Section, env
    <3>7. TypesOK' /\ Published'
      BY <2>1, <2>2, <3>3
         DEF SInv, TypesOK, Published, Replaces, StackType, env, dance
    <3> QED
      BY <2>1, <3>1, <3>3, <3>4, <3>5, <3>6, <3>7, ReplaceKeepsAll
  <2>3. CASE failed[t] /\ EndImport(t, FALSE, modules[Mod(t)])
    <3>1. PICK m \in {"absent", "partial", "loaded"} : m = modules[Mod(t)]
      BY <1>a, <2>1 DEF TypesOK, Modules
    <3>2. failures' > 0 /\ failures' \in 0..MaxFailures /\ failures' >= failures
      BY <1>a, <2>1, <2>3 DEF SInv, Published, TypesOK
    <3> QED
      BY <2>1, <2>3, <3>1, <3>2, EndImportKeeps DEF ImportLabels
  <2> QED
    BY <1>4, <2>2, <2>3 DEF PackageImported
<1>5. ASSUME RunModule(t) PROVE SInv'
  <2>1. /\ StackType /\ stack[t] # <<>> /\ Len(stack[t]) \in Nat \ {0}
        /\ stack[t][1].at = "import" /\ Mod(t) = stack[t][1].mod
        /\ FrameOK(stack[t][1]) /\ FrameTrue(t, stack[t][1])
        /\ At(t, "import") /\ Goto(t, "run")
    BY <1>5, AtHead DEF RunModule
  <2>2. PICK m \in {"sitepyxpcom", "xpcom"} : Mod(t) = m
    BY <1>5, <2>1 DEF RunModule, FrameOK, Modules
  <2> DEFINE f == Frame("run", m)
  <2>3. f \in FrameType /\ FrameOK(f)
    BY DEF Frame, FrameType, FrameOK, Labels, ImportLabels, InitLabels,
           Modules, Ensuring, Section
  <2>4. Replaces(t, f)
    BY <2>1, <2>2, GotoReplaces DEF Labels, ImportLabels
  <2>5. imports \in {None, t} /\ imports' = t /\ gil = None
        /\ modules[m] = "absent" /\ modules' = [modules EXCEPT ![m] = "partial"]
        /\ UNCHANGED <<host, gil, framework, env, dance, loader, failed,
                       failures>>
    BY <1>5, <2>2 DEF RunModule
  <2>6. m \in DOMAIN modules
    BY <1>a DEF TypesOK, Modules
  <2>7. Stable(t)
    BY <2>5, <2>6, ThreadAssumption DEF Stable, FrameTrue, env
  <2>8. Follows(t, f)
    <3>1. FrameTrue(t, f)'
      BY <2>1, <2>5, <2>6
         DEF FrameTrue, Frame, Holding, ImportLabels, Section, env
    <3>2. \A i \in 2..Len(stack[t]) : Key(stack[t][i]) # m
      <4> SUFFICES ASSUME NEW i \in 2..Len(stack[t]), Key(stack[t][i]) = m
                   PROVE  FALSE
        OBVIOUS
      <4>1. FrameTrue(t, stack[t][i]) /\ FrameOK(stack[t][i])
        BY <2>1 DEF SInv, Stacks, FramesTrue, Nested
      <4>2. stack[t][i].at \in {"run", "ran"} /\ stack[t][i].mod = m
        BY DEF Key
      <4> QED
        BY <2>5, <4>1, <4>2 DEF FrameTrue
    <3>3. Key(f) = m
      BY DEF Key, Frame, Section
    <3> QED
      BY <2>1, <2>2, <2>3, <3>1, <3>2, <3>3
         DEF Follows, SameKind, Frame, ImportLabels, Ensuring, Section
  <2>9. LocksFollow(t, f)
    BY <2>1, <2>5, ThreadAssumption
       DEF LocksFollow, OthersUnsaved, Frame, ImportLabels, Section, env
  <2>10. TypesOK' /\ Published'
    BY <2>4, <2>5, <2>6
       DEF SInv, TypesOK, Published, Replaces, StackType, env, dance
  <2> QED
    BY <2>1, <2>4, <2>5, <2>7, <2>8, <2>9, <2>10, ReplaceKeepsAll
<1>6. ASSUME RunInit(t) PROVE SInv'
  <2> DEFINE f == Frame("init", "_xpcom")
  <2>1. /\ StackType /\ stack[t] # <<>>
        /\ stack[t][1].at = "import" /\ stack[t][1].mod = "_xpcom"
        /\ Mod(t) = "_xpcom" /\ FrameTrue(t, stack[t][1])
        /\ At(t, "import") /\ Goto(t, "init")
    BY <1>6, AtHead DEF RunInit
  <2>2. f \in FrameType /\ FrameOK(f)
    BY DEF Frame, FrameType, FrameOK, Labels, ImportLabels, InitLabels,
           Modules, Ensuring, Section
  <2>3. Replaces(t, f)
    BY <2>1, GotoReplaces DEF Labels, ImportLabels
  <2>4. imports \in {None, t} /\ imports' = t /\ gil' = t
        /\ UNCHANGED <<host, framework, env, dance, modules, loader, failed,
                       failures>>
    BY <1>6 DEF RunInit
  <2>5. Stable(t)
    BY <2>4, ThreadAssumption DEF Stable, FrameTrue, env
  <2>6. Follows(t, f)
    <3>1. FrameTrue(t, f)'
      BY <2>1, <2>4 DEF FrameTrue, Frame, Holding, ImportLabels, Section, env
    <3> QED
      BY <2>1, <2>2, <3>1
         DEF Follows, SameKind, Key, Frame, ImportLabels, Ensuring, Section
  <2>7. LocksFollow(t, f)
    BY <2>1, <2>4 DEF LocksFollow, OthersUnsaved, Frame, ImportLabels, Section,
                      CWithGIL, InitLabels, env
  <2>8. TypesOK' /\ Published'
    BY <2>3, <2>4 DEF SInv, TypesOK, Published, Replaces, StackType, env, dance
  <2> QED
    BY <2>1, <2>3, <2>4, <2>5, <2>6, <2>7, <2>8, ReplaceKeepsAll
<1>7. ASSUME RunCode(t) PROVE SInv'
  <2>1. /\ StackType /\ stack[t] # <<>> /\ Len(stack[t]) \in Nat \ {0}
        /\ stack[t][1].at = "run" /\ Mod(t) = stack[t][1].mod
        /\ FrameOK(stack[t][1]) /\ FrameTrue(t, stack[t][1])
        /\ At(t, "run") /\ CallThen(t, Import(Imported(Mod(t))), "ran")
    BY <1>7, AtHead DEF RunCode
  <2>2. PICK m \in {"sitepyxpcom", "xpcom"} : Mod(t) = m
    BY <2>1 DEF FrameOK
  <2>3. Imported(m) \in Modules
    BY <1>7, <1>a, <2>2, HostAssumption
       DEF RunCode, Imported, TypesOK, HostType, Modules
  <2>4. PICK n \in Modules : n = Imported(m)
    BY <2>3
  <2> DEFINE c == Import(n)
             g == Frame("ran", m)
  <2>5. n # None
    BY <1>7, <2>2, <2>4 DEF RunCode
  <2>6. c \in FrameType /\ FrameOK(c) /\ g \in FrameType /\ FrameOK(g)
    BY <2>4, <2>5 DEF Import, Frame, FrameType, FrameOK, Labels, ImportLabels,
                      InitLabels, Modules, Ensuring, Section
  <2>7. Pushes(t, c, g)
    BY <2>1, <2>2, <2>4, <2>6, CallPushes DEF Labels, ImportLabels
  <2>8. gil = None
        /\ UNCHANGED <<host, locks, env, dance, modules, loader, failed,
                       failures>>
    BY <1>7 DEF RunCode
  <2>9. Stable(t)
    BY <2>8, StableUnchanged DEF locks, env
  <2>10. CanCall(t, c, g)
    <3>1. FrameTrue(t, c)' /\ FrameTrue(t, g)'
      BY <2>1, <2>2, <2>8
         DEF FrameTrue, Import, Frame, Holding, ImportLabels, Section, locks, env
    <3>2. SameKind(g, stack[t][1]) /\ Key(g) = Key(stack[t][1])
      BY <2>1, <2>2
         DEF SameKind, Frame, ImportLabels, Ensuring, Section, Key
    <3>3. CalledBy(c, g)
      BY <2>4 DEF CalledBy, Callee, Import, Frame, ImportLabels
    <3>4. Key(c) = "any" /\ g.at \in Waiting
          /\ c.at \notin {"loader", "loader_got"}
      BY DEF Key, Import, Frame, Section, Waiting
    <3> QED
      BY <2>6, <3>1, <3>2, <3>3, <3>4 DEF CanCall, Follows
  <2>11. LocksStay(t, c, g)
    BY <2>1, <2>8, ThreadAssumption
       DEF LocksStay, Import, Frame, Section, ImportLabels, locks, env
  <2>12. TypesOK' /\ Published'
    BY <2>7, <2>8
       DEF SInv, TypesOK, Published, Pushes, StackType, locks, env, dance
  <2> QED
    BY <2>1, <2>7, <2>8, <2>9, <2>10, <2>11, <2>12, PushKeepsAll
<1>8. ASSUME CodeRan(t) PROVE SInv'
  <2>1. PICK l \in {"run", "ran"} : At(t, l)
    BY <1>8 DEF CodeRan
  <2>2. imports = t
    BY <1>b, <2>1 DEF Holding, ImportLabels
  <2>3. EndImport(t, TRUE, "loaded")
        /\ UNCHANGED <<host, framework, env, dance, loader, failures>>
    BY <1>8 DEF CodeRan
  <2>4. failures' \in 0..MaxFailures /\ failures' >= failures
    BY <1>a, <2>3 DEF TypesOK
  <2>5. l \in ImportLabels /\ TRUE \in BOOLEAN /\ imports \in {None, t}
    BY <2>2 DEF ImportLabels
  <2> QED
    BY <2>1, <2>3, <2>4, <2>5, EndImportKeeps
<1> QED
  BY <1>1, <1>2, <1>3, <1>4, <1>5, <1>6, <1>7, <1>8 DEF Importing

\* init_xpcom.
LEMMA InitXpcomKept ==
  ASSUME SInv, NEW t \in Threads, InitXpcom(t)
  PROVE  SInv'
<1>a. TypesOK
  BY DEF SInv
<1>b. \A l \in InitLabels : At(t, l) => imports = t
  BY AtHead DEF FrameTrue, InitLabels, Holding, ImportLabels
<1>1. ASSUME AlreadyDanced(t) PROVE SInv'
  <2>1. dance' \in BOOLEAN \X BOOLEAN \X BOOLEAN
    BY <1>a, <1>1 DEF AlreadyDanced, TypesOK, dance
  <2> QED
    BY <1>1, <2>1, DanceKeeps DEF AlreadyDanced, InitLabels
<1>2. ASSUME EnsureXPCOM(t) PROVE SInv'
  <2>1. dance' \in BOOLEAN \X BOOLEAN \X BOOLEAN
    BY <1>a, <1>2 DEF EnsureXPCOM, TypesOK, dance
  <2> QED
    BY <1>2, <2>1, DanceKeeps DEF EnsureXPCOM, InitLabels
<1>3. ASSUME RegisterPyAppInfo(t) PROVE SInv'
  <2>1. dance' \in BOOLEAN \X BOOLEAN \X BOOLEAN
    BY <1>a, <1>3 DEF RegisterPyAppInfo, TypesOK, dance
  <2> QED
    BY <1>3, <2>1, DanceKeeps DEF RegisterPyAppInfo, InitLabels
<1>4. ASSUME EnsurePyXPCOM(t) PROVE SInv'
  <2>1. dance' \in BOOLEAN \X BOOLEAN \X BOOLEAN
    BY <1>a, <1>4 DEF EnsurePyXPCOM, TypesOK, dance
  <2> QED
    BY <1>4, <2>1, DanceKeeps DEF EnsurePyXPCOM, InitLabels
<1>5. ASSUME RegisterPyXPCOMComponents(t) PROVE SInv'
  <2>1. dance' \in BOOLEAN \X BOOLEAN \X BOOLEAN
    BY <1>a, <1>5 DEF RegisterPyXPCOMComponents, TypesOK, dance
  <2> QED
    BY <1>5, <2>1, DanceKeeps DEF RegisterPyXPCOMComponents, InitLabels
<1>6. ASSUME DanceFails(t) PROVE SInv'
  <2>1. PICK l \in InitLabels : At(t, l)
    BY <1>6 DEF DanceFails, InitLabels
  <2>2. EndImport(t, FALSE, "absent")
        /\ UNCHANGED <<host, framework, env, dance, loader>>
    BY <1>6 DEF DanceFails
  <2>3. l \in ImportLabels /\ imports = t /\ Mod(t) = "_xpcom"
    BY <1>b, <2>1, AtHead DEF InitLabels, ImportLabels, FrameOK
  <2>4. failures' > 0 /\ failures' \in 0..MaxFailures /\ failures' >= failures
    BY <1>6, <1>a, BoundAssumption DEF DanceFails, Fail, TypesOK
  <2> QED
    BY <2>1, <2>2, <2>3, <2>4, EndImportKeeps
<1>7. ASSUME InitXpcomReal(t) PROVE SInv'
  <2> DEFINE c == Frame("ensure", None)
             g == Frame("module", "_xpcom")
  <2>1. /\ StackType /\ stack[t] # <<>> /\ stack[t][1].at = "real"
        /\ stack[t][1].mod = "_xpcom" /\ Mod(t) = "_xpcom"
        /\ FrameTrue(t, stack[t][1]) /\ CallThen(t, c, "module")
    BY <1>7, AtHead DEF InitXpcomReal, FrameOK, InitLabels
  <2>2. c \in FrameType /\ FrameOK(c) /\ g \in FrameType /\ FrameOK(g)
    BY DEF Frame, FrameType, FrameOK, Labels, ImportLabels, InitLabels,
           Modules, Ensuring, Section
  <2>3. Pushes(t, c, g)
    BY <2>1, <2>2, CallPushes DEF Labels, ImportLabels
  <2>4. UNCHANGED <<host, locks, env, dance, modules, loader, failed, failures>>
    BY <1>7 DEF InitXpcomReal
  <2>5. Stable(t)
    BY <2>4, StableUnchanged DEF locks, env
  <2>6. CanCall(t, c, g)
    <3>1. FrameTrue(t, c)' /\ FrameTrue(t, g)'
      BY <2>1, <2>4
         DEF FrameTrue, Frame, Holding, ImportLabels, Section, locks, env
    <3>2. SameKind(g, stack[t][1]) /\ CalledBy(c, g)
      BY <2>1 DEF SameKind, CalledBy, Callee, Frame, ImportLabels, Ensuring,
                  Section
    <3>3. Key(c) = "any" /\ Key(g) = "any" /\ g.at \in Waiting
          /\ c.at \notin {"loader", "loader_got"}
      BY DEF Key, Frame, Section, Waiting
    <3> QED
      BY <2>2, <3>1, <3>2, <3>3 DEF CanCall, Follows
  <2>7. LocksStay(t, c, g)
    BY <2>1, <2>4 DEF LocksStay, Frame, Section, ImportLabels, locks, env
  <2>8. TypesOK' /\ Published'
    BY <2>3, <2>4
       DEF SInv, TypesOK, Published, Pushes, StackType, locks, env, dance
  <2> QED
    BY <2>1, <2>3, <2>4, <2>5, <2>6, <2>7, <2>8, PushKeepsAll
<1>8. ASSUME InitModule(t) PROVE SInv'
  <2>1. At(t, "module") /\ error \in BOOLEAN /\ failures \in 0..MaxFailures
        /\ UNCHANGED <<host, framework, env, dance, loader, failures>>
    BY <1>8, <1>a DEF InitModule, TypesOK
  <2>2. imports = t /\ Mod(t) = "_xpcom" /\ stack[t] # <<>>
        /\ stack[t][1].at = "module"
    BY <1>b, <2>1, AtHead DEF FrameOK, InitLabels
  <2>3. error \/ failures' > 0
    BY <2>1, <2>2 DEF SInv, Ensured, Published
  <2>4. PICK ok \in BOOLEAN : ok = error
    BY <2>1
  <2>5. PICK m \in {"loaded", "partial"} :
          m = IF error THEN "loaded" ELSE "partial"
    BY <2>1
  <2>6. EndImport(t, ok, m)
    BY <1>8, <2>4, <2>5 DEF InitModule
  <2>7. failures' \in 0..MaxFailures /\ failures' >= failures
    BY <2>1
  <2> QED
    BY <2>1, <2>2, <2>3, <2>4, <2>6, <2>7, EndImportKeeps DEF ImportLabels
<1> QED
  BY <1>1, <1>2, <1>3, <1>4, <1>5, <1>6, <1>7, <1>8 DEF InitXpcom

\* Nobody else is under the framework lock, nor the same thread further out.
LEMMA OneSection ==
  ASSUME SInv, NEW t \in Threads, NEW l \in Section, At(t, l)
  PROVE  \A u \in Threads, f \in FrameType :
           Untouched(t, u, f) => f.at \notin Section
<1> SUFFICES ASSUME NEW u \in Threads, NEW f \in FrameType,
                    Untouched(t, u, f), f.at \in Section
             PROVE  FALSE
  OBVIOUS
<1>1. framework = t /\ stack[t][1].at = l /\ Len(stack[t]) \in Nat \ {0}
  BY AtHead DEF FrameTrue
<1>2. PICK i \in 1..Len(stack[u]) : f = stack[u][i] /\ (u = t => i > 1)
  BY DEF Untouched
<1>3. u = t /\ i > 1
  BY <1>1, <1>2 DEF SInv, Stacks, FramesTrue, FrameTrue
<1>4. Key(stack[t][i]) = "section" /\ Key(stack[t][1]) = "section"
  BY <1>1, <1>2, <1>3 DEF Key, Section
<1>5. 1 \in 1..Len(stack[t]) /\ i \in 1..Len(stack[t])
  BY <1>1, <1>2, <1>3
<1> QED
  BY <1>3, <1>4, <1>5 DEF SInv, Stacks, Once

\* Who has the GIL in PyXPCOM_EnsurePythonEnvironment was called with it, or
\* has taken it there.
LEMMA CalledWithGIL ==
  ASSUME SInv, NEW t \in Threads,
         NEW l \in {"ensure", "lock", "again", "unlock"}, At(t, l), gil = t
  PROVE  FromInit(t, 1)
<1>1. stack[t][1].at = l
  BY AtHead
<1> QED
  BY <1>1 DEF SInv, GILHeld, InitLabels, CLabels

\* A step inside PyXPCOM_EnsurePythonEnvironment goes on there.
LEMMA EnsureGoes ==
  ASSUME SInv, NEW t \in Threads, NEW l \in Ensuring, NEW k \in Ensuring,
         At(t, l), Goto(t, k),
         FrameTrue(t, Frame(k, None))',
         \/ l \in Section \/ k \notin Section
         \/ \A i \in 2..Len(stack[t]) : stack[t][i].at \notin Section
  PROVE  Replaces(t, Frame(k, None)) /\ Follows(t, Frame(k, None))
<1> DEFINE f == Frame(k, None)
<1>1. /\ stack[t] # <<>> /\ stack[t][1].at = l /\ Mod(t) = None
      /\ StackType /\ stack[t][1].mod = None /\ Len(stack[t]) \in Nat \ {0}
  BY AtHead DEF FrameOK
<1>2. Replaces(t, f)
  BY <1>1, GotoReplaces DEF Ensuring, Section, Labels, CLabels
<1>3. f \in FrameType /\ FrameOK(f) /\ SameKind(f, stack[t][1])
  BY <1>1, NoneAssumption
     DEF FrameType, Frame, Labels, CLabels, FrameOK, Ensuring, Section,
         InitLabels, ImportLabels, SameKind
<1>4. \/ Key(f) = "any" \/ Key(f) = Key(stack[t][1])
      \/ \A i \in 2..Len(stack[t]) : Key(stack[t][i]) # Key(f)
  <2>1. CASE k \notin Section
    BY <2>1 DEF Key, Frame, Ensuring
  <2>2. CASE k \in Section /\ l \in Section
    BY <1>1, <2>2 DEF Key, Frame, Section
  <2>3. CASE /\ k \in Section
             /\ \A i \in 2..Len(stack[t]) : stack[t][i].at \notin Section
    <3> SUFFICES ASSUME NEW i \in 2..Len(stack[t])
                 PROVE  Key(stack[t][i]) # "section"
      BY <2>3 DEF Key, Frame, Section
    <3>1. FrameOK(stack[t][i]) /\ stack[t][i].at \notin Section
      BY <1>1, <2>3 DEF SInv, Stacks, Nested
    <3> QED
      BY <3>1 DEF Key, FrameOK
  <2> QED
    BY <2>1, <2>2, <2>3
<1> QED
  BY <1>2, <1>3, <1>4 DEF Follows

\* An import from C code, and what is published before the last one.
LEMMA ImportFromCKeeps ==
  ASSUME SInv, NEW t \in Threads, NEW l \in {"site", "error", "publish"},
         At(t, l), NEW m \in {"sitepyxpcom", "xpcom"}, NEW k \in CLabels,
         Callee(Frame(k, None)) = Import(m), ImportFromC(t, m, k),
         k = "leave" <=> l = "publish",
         initialized' = (initialized \/ k = "leave"), types' \in BOOLEAN,
         k = "leave" => types',
         UNCHANGED <<host, framework, imports, pyUp, error, didInit, saved,
                     dance, modules, loader, failures>>
  PROVE  SInv'
<1> DEFINE g == Frame(k, None)
           c == Import(m)
<1>a. TypesOK
  BY DEF SInv
<1>b. l \in Section /\ l \in Ensuring /\ k \in Section /\ k \in Ensuring
  BY DEF Section, Ensuring, CLabels
<1>1. /\ StackType /\ stack[t] # <<>> /\ stack[t][1].at = l
      /\ stack[t][1].mod = None /\ Mod(t) = None /\ FrameTrue(t, stack[t][1])
  BY <1>b, AtHead DEF FrameOK
<1>2. FrameTrue(t, g)'
  BY <1>1 DEF FrameTrue, Frame, CLabels, Section, Holding, ImportLabels
<1>3. Stable(t)
  <2>1. \A u \in Threads, f \in FrameType :
          Untouched(t, u, f) => f.at \notin Section
    BY <1>b, OneSection
  <2>2. initialized => initialized'
    OBVIOUS
  <2> QED
    BY <2>1, <2>2 DEF Stable, FrameTrue, Section
<1>4. ~didInit /\ saved = "locked" => FromInit(t, 1)
  <2>1. 1 \in 1..Len(stack[t])
    BY <1>1 DEF StackType
  <2> QED
    BY <1>1, <2>1 DEF SInv, GILSaved, Section
<1>5. CASE /\ Goto(t, k) /\ failed' = [failed EXCEPT ![t] = FALSE]
           /\ UNCHANGED gil
  <2>1. Replaces(t, g) /\ Follows(t, g)
    BY <1>b, <1>2, <1>5, EnsureGoes
  <2>2. LocksFollow(t, g)
    BY <1>b, <1>1, <1>4, <1>5
       DEF LocksFollow, OthersUnsaved, Frame, CWithGIL, CLabels
  <2>3. TypesOK'
    <3>1. initialized' \in BOOLEAN /\ failed' \in [Threads -> BOOLEAN]
      BY <1>a, <1>5 DEF TypesOK
    <3>2. stack' \in [Threads -> Seq(FrameType)]
      BY <2>1 DEF Replaces, StackType
    <3> QED
      BY <1>a, <1>5, <3>1, <3>2 DEF TypesOK, dance
  <2>4. Published'
    BY <1>1, <1>5, <1>a DEF SInv, Published, FrameTrue, Section, TypesOK
  <2> QED
    BY <1>1, <1>3, <2>1, <2>2, <2>3, <2>4, ReplaceKeepsAll
<1>6. CASE CallThen(t, c, k) /\ gil' = None /\ UNCHANGED failed
  <2>1. c \in FrameType /\ FrameOK(c) /\ g \in FrameType /\ FrameOK(g)
    BY NoneAssumption
       DEF Import, Frame, FrameType, FrameOK, Labels, ImportLabels, InitLabels,
           Modules, Ensuring, Section, CLabels
  <2>2. Pushes(t, c, g)
    BY <1>1, <1>6, <2>1, CallPushes DEF Labels
  <2>3. CanCall(t, c, g)
    <3>1. FrameTrue(t, c)'
      BY <1>1, <1>2 DEF FrameTrue, Import, Frame, Holding, ImportLabels, Section
    <3>2. SameKind(g, stack[t][1]) /\ Key(g) = Key(stack[t][1])
      BY <1>1, <1>b DEF SameKind, Frame, ImportLabels, Ensuring, Section, Key
    <3>3. CalledBy(c, g)
      BY DEF CalledBy, Import, Frame, ImportLabels
    <3>4. Key(c) = "any" /\ g.at \in Waiting
          /\ c.at \notin {"loader", "loader_got"}
      BY DEF Key, Import, Frame, Section, Waiting
    <3> QED
      BY <1>2, <2>1, <3>1, <3>2, <3>3, <3>4 DEF CanCall, Follows
  <2>4. LocksStay(t, c, g)
    BY <1>1, <1>b, <1>6, ThreadAssumption
       DEF LocksStay, Import, Frame, Section, ImportLabels
  <2>5. TypesOK'
    BY <1>a, <1>6, <2>2 DEF TypesOK, Pushes, StackType, dance
  <2>6. Published'
    BY <1>1, <1>6, <1>a DEF SInv, Published, FrameTrue, Section
  <2> QED
    BY <1>1, <1>3, <2>2, <2>3, <2>4, <2>5, <2>6, PushKeepsAll
<1> QED
  BY <1>5, <1>6 DEF ImportFromC

\* PyXPCOM_EnsurePythonEnvironment.
LEMMA EnsureKept ==
  ASSUME SInv, NEW t \in Threads, EnsurePythonEnvironment(t)
  PROVE  SInv'
<1>a. TypesOK
  BY DEF SInv
<1>b. Section \subseteq Ensuring /\ {"ensure", "lock"} \subseteq Ensuring
      /\ "ensure" \notin Section /\ "lock" \notin Section
      /\ Section \cap ImportLabels = {}
  BY DEF Ensuring, Section, ImportLabels
<1>1. ASSUME AlreadyInitialized(t) PROVE SInv'
  <2>1. /\ At(t, "ensure") /\ Return(t) /\ initialized
        /\ UNCHANGED <<host, locks, env, dance, modules, loader, failed,
                       failures>>
    BY <1>1 DEF AlreadyInitialized
  <2>2. StackType /\ stack[t] # <<>> /\ stack[t][1].at = "ensure"
    BY <2>1, AtHead
  <2>3. Pops(t)
    BY <2>1, <2>2, ReturnPops
  <2>4. Stable(t)
    BY <2>1, StableUnchanged DEF locks, env
  <2>5. LocksGo(t)
    <3>1. gil = t => FromInit(t, 1)
      BY <2>1, CalledWithGIL
    <3> QED
      BY <1>b, <2>1, <2>2, <3>1
         DEF LocksGo, FromInit, CWithGIL, InitLabels, ImportLabels, locks, env
  <2>6. TypesOK' /\ Published'
    BY <1>a, <2>1, <2>3
       DEF SInv, TypesOK, Published, Pops, StackType, locks, env, dance
  <2> QED
    BY <2>1, <2>2, <2>3, <2>4, <2>5, <2>6, PopKeepsAll
<1>2. ASSUME NotInitialized(t) PROVE SInv'
  <2> DEFINE f == Frame("lock", None)
  <2>1. /\ At(t, "ensure") /\ Goto(t, "lock")
        /\ UNCHANGED <<host, locks, env, dance, modules, loader, failed,
                       failures>>
    BY <1>2 DEF NotInitialized
  <2>2. StackType /\ stack[t] # <<>> /\ stack[t][1].at = "ensure"
    BY <2>1, AtHead
  <2>3. FrameTrue(t, f)'
    BY DEF FrameTrue, Frame, Holding, ImportLabels, Section
  <2>4. Replaces(t, f) /\ Follows(t, f)
    BY <1>b, <2>1, <2>3, EnsureGoes
  <2>5. Stable(t)
    BY <2>1, StableUnchanged DEF locks, env
  <2>6. LocksFollow(t, f)
    <3>1. gil = t => FromInit(t, 1)
      BY <2>1, CalledWithGIL
    <3> QED
      BY <1>b, <2>1, <2>2, <3>1
         DEF LocksFollow, OthersUnsaved, Frame, MayHaveGIL, locks, env
  <2>7. TypesOK' /\ Published'
    BY <1>a, <2>1, <2>4
       DEF SInv, TypesOK, Published, Replaces, StackType, locks, env, dance
  <2> QED
    BY <2>1, <2>2, <2>4, <2>5, <2>6, <2>7, ReplaceKeepsAll
<1>3. ASSUME AcquireGlobalLock(t) PROVE SInv'
  <2> DEFINE f == Frame("again", None)
  <2>1. /\ At(t, "lock") /\ Goto(t, "again") /\ framework = None
        /\ framework' = t
        /\ UNCHANGED <<host, gil, imports, env, dance, modules, loader,
                       failed, failures>>
    BY <1>3 DEF AcquireGlobalLock
  <2>2. StackType /\ stack[t] # <<>> /\ stack[t][1].at = "lock"
        /\ Len(stack[t]) \in Nat \ {0}
    BY <2>1, AtHead
  <2>3. FrameTrue(t, f)'
    BY <2>1 DEF FrameTrue, Frame, Holding, ImportLabels, Section
  <2>4. \A u \in Threads : \A i \in 1..Len(stack[u]) :
          stack[u][i].at \notin Section
    BY <2>1, ThreadAssumption DEF SInv, Stacks, FramesTrue, FrameTrue
  <2>5. Replaces(t, f) /\ Follows(t, f)
    <3>1. \A i \in 2..Len(stack[t]) : stack[t][i].at \notin Section
      BY <2>2, <2>4
    <3>2. "again" \in Section
      BY DEF Section
    <3> QED
      BY <1>b, <2>1, <2>3, <3>1, <3>2, EnsureGoes
  <2>6. Stable(t)
    BY <2>1, ThreadAssumption DEF Stable, FrameTrue, env
  <2>7. LocksFollow(t, f)
    <3>1. gil = t => FromInit(t, 1)
      BY <2>1, CalledWithGIL
    <3> QED
      BY <1>b, <2>1, <2>2, <3>1
         DEF LocksFollow, OthersUnsaved, Frame, MayHaveGIL, Section, env
  <2>8. TypesOK' /\ Published'
    BY <1>a, <2>1, <2>5
       DEF SInv, TypesOK, Published, Replaces, StackType, env, dance
  <2> QED
    BY <2>1, <2>2, <2>5, <2>6, <2>7, <2>8, ReplaceKeepsAll
<1>4. ASSUME BeatenToIt(t) \/ ReleaseGlobalLock(t) PROVE SInv'
  <2>1. PICK l \in {"again", "unlock"} :
          /\ At(t, l) /\ Return(t) /\ framework' = None
          /\ l = "again" => initialized
          /\ UNCHANGED <<host, gil, imports, env, dance, modules, loader,
                         failed, failures>>
    BY <1>4 DEF BeatenToIt, ReleaseGlobalLock
  <2>2. /\ StackType /\ stack[t] # <<>> /\ stack[t][1].at = l /\ l \in Section
        /\ initialized
    BY <2>1, AtHead DEF Section, FrameTrue
  <2>3. Pops(t)
    BY <2>1, <2>2, ReturnPops
  <2>4. Stable(t)
    BY <2>1, <2>2, OneSection DEF Stable, FrameTrue, env
  <2>5. LocksGo(t)
    <3>1. gil = t => FromInit(t, 1)
      BY <2>1, CalledWithGIL
    <3> QED
      BY <1>b, <2>1, <2>2, <3>1
         DEF LocksGo, FromInit, CWithGIL, InitLabels, env
  <2>6. TypesOK' /\ Published'
    BY <1>a, <2>1, <2>3
       DEF SInv, TypesOK, Published, Pops, StackType, env, dance
  <2> QED
    BY <2>1, <2>2, <2>3, <2>4, <2>5, <2>6, PopKeepsAll
<1>5. ASSUME InitPython(t) PROVE SInv'
  <2> DEFINE f == Frame("site", None)
  <2>1. /\ At(t, "again") /\ Goto(t, "site") /\ ~initialized
        /\ gil \in {None, t} /\ gil' = t /\ pyUp' = TRUE /\ didInit' = ~pyUp
        /\ saved' = IF pyUp /\ gil = None THEN "unlocked" ELSE "locked"
        /\ UNCHANGED <<host, framework, imports, initialized, types, error,
                       dance, modules, loader, failed, failures>>
    BY <1>5 DEF InitPython
  <2>2. /\ StackType /\ stack[t] # <<>> /\ stack[t][1].at = "again"
        /\ FrameTrue(t, stack[t][1])
    BY <2>1, AtHead
  <2>3. "again" \in Section /\ "site" \in Section
    BY DEF Section
  <2>4. FrameTrue(t, f)'
    BY <2>1, <2>2, <2>3 DEF FrameTrue, Frame, Holding, ImportLabels
  <2>5. Replaces(t, f) /\ Follows(t, f)
    BY <1>b, <2>1, <2>3, <2>4, EnsureGoes
  <2>6. Stable(t)
    BY <2>1 DEF Stable, FrameTrue
  <2>7. LocksFollow(t, f)
    <3>1. gil = t => FromInit(t, 1)
      BY <2>1, CalledWithGIL
    <3>2. ~didInit' /\ saved' = "locked" => gil = t
      BY <1>a, <2>1 DEF TypesOK
    <3>3. OthersUnsaved(t)
      BY <2>1, <2>3, OneSection DEF OthersUnsaved
    <3> QED
      BY <2>1, <2>3, <3>1, <3>2, <3>3 DEF LocksFollow, Frame, CWithGIL
  <2>8. TypesOK'
    <3>1. didInit' \in BOOLEAN /\ saved' \in {"locked", "unlocked"}
      BY <1>a, <2>1 DEF TypesOK
    <3> QED
      BY <1>a, <2>1, <2>5, <3>1 DEF TypesOK, Replaces, StackType, dance
  <2>9. Published'
    BY <2>1 DEF SInv, Published
  <2> QED
    BY <2>1, <2>2, <2>5, <2>6, <2>7, <2>8, <2>9, ReplaceKeepsAll
<1>6. ASSUME AddStandardPaths(t) PROVE SInv'
  <2>1. /\ At(t, "site") /\ ImportFromC(t, "sitepyxpcom", "error")
        /\ UNCHANGED <<host, framework, imports, env, dance, modules, loader,
                       failures>>
    BY <1>6 DEF AddStandardPaths
  <2>2. Callee(Frame("error", None)) = Import("sitepyxpcom")
    BY DEF Callee, Frame
  <2>3. types' \in BOOLEAN /\ initialized' = (initialized \/ "error" = "leave")
    BY <1>a, <2>1 DEF TypesOK, env
  <2> QED
    BY <2>1, <2>2, <2>3, ImportFromCKeeps DEF CLabels, env
<1>7. ASSUME ImportException(t) PROVE SInv'
  <2>1. /\ At(t, "error")
        /\ UNCHANGED <<host, framework, imports, env, dance, modules, loader,
                       failures>>
    BY <1>7 DEF ImportException
  <2>2. CASE ~error
    <3>1. ImportFromC(t, "xpcom", "got_error")
      BY <1>7, <2>2 DEF ImportException
    <3>2. Callee(Frame("got_error", None)) = Import("xpcom")
      BY DEF Callee, Frame
    <3>3. /\ types' \in BOOLEAN
          /\ initialized' = (initialized \/ "got_error" = "leave")
      BY <1>a, <2>1 DEF TypesOK, env
    <3> QED
      BY <2>1, <3>1, <3>2, <3>3, ImportFromCKeeps DEF CLabels, env
  <2>3. CASE error
    <3> DEFINE f == Frame("publish", None)
    <3>1. Goto(t, "publish") /\ UNCHANGED <<gil, failed>>
      BY <1>7, <2>3 DEF ImportException
    <3>2. /\ StackType /\ stack[t] # <<>> /\ stack[t][1].at = "error"
          /\ FrameTrue(t, stack[t][1]) /\ Len(stack[t]) \in Nat \ {0}
      BY <2>1, AtHead
    <3>3. "error" \in Section \ {"again"} /\ "publish" \in Section \ {"again"}
      BY DEF Section
    <3>4. FrameTrue(t, f)'
      BY <2>1, <2>3, <3>2, <3>3
         DEF FrameTrue, Frame, Holding, ImportLabels, env
    <3>5. Replaces(t, f) /\ Follows(t, f)
      BY <1>b, <2>1, <3>1, <3>3, <3>4, EnsureGoes
    <3>6. Stable(t)
      BY <2>1, StableUnchanged DEF env
    <3>7. LocksFollow(t, f)
      <4>1. ~didInit /\ saved = "locked" => FromInit(t, 1)
        BY <3>2, <3>3 DEF SInv, GILSaved
      <4> QED
        BY <2>1, <3>1, <3>3, <4>1
           DEF LocksFollow, OthersUnsaved, Frame, CWithGIL, env
    <3>8. TypesOK' /\ Published'
      BY <1>a, <2>1, <3>1, <3>5
         DEF SInv, TypesOK, Published, Replaces, StackType, env, dance
    <3> QED
      BY <2>1, <3>2, <3>5, <3>6, <3>7, <3>8, ReplaceKeepsAll
  <2> QED
    BY <2>2, <2>3
<1>8. ASSUME SetException(t) PROVE SInv'
  <2> DEFINE f == Frame("publish", None)
  <2>1. /\ At(t, "got_error") /\ Goto(t, "publish") /\ error' = ~failed[t]
        /\ UNCHANGED <<host, locks, pyUp, initialized, types, didInit, saved,
                       dance, modules, loader, failed, failures>>
    BY <1>8 DEF SetException
  <2>2. /\ StackType /\ stack[t] # <<>> /\ stack[t][1].at = "got_error"
        /\ FrameTrue(t, stack[t][1]) /\ Len(stack[t]) \in Nat \ {0}
    BY <2>1, AtHead
  <2>3. "got_error" \in Section \ {"again"} /\ "publish" \in Section \ {"again"}
    BY DEF Section
  <2>4. error' \/ failures > 0
    BY <2>1 DEF SInv, Published
  <2>5. FrameTrue(t, f)'
    BY <2>1, <2>2, <2>3, <2>4
       DEF FrameTrue, Frame, Holding, ImportLabels, locks
  <2>6. Replaces(t, f) /\ Follows(t, f)
    BY <1>b, <2>1, <2>3, <2>5, EnsureGoes
  <2>7. Stable(t)
    BY <2>1, <2>3, OneSection DEF Stable, FrameTrue, Section, locks
  <2>8. LocksFollow(t, f)
    <3>1. ~didInit /\ saved = "locked" => FromInit(t, 1)
      BY <2>2, <2>3 DEF SInv, GILSaved
    <3> QED
      BY <2>1, <2>3, <3>1
         DEF LocksFollow, OthersUnsaved, Frame, CWithGIL, locks
  <2>9. TypesOK'
    <3>1. error' \in BOOLEAN
      BY <2>1
    <3> QED
      BY <1>a, <2>1, <2>6, <3>1 DEF TypesOK, Replaces, StackType, locks, dance
  <2>10. Published'
    BY <2>1, <2>2, <2>4 DEF SInv, Published, FrameTrue
  <2> QED
    BY <2>1, <2>2, <2>6, <2>7, <2>8, <2>9, <2>10, ReplaceKeepsAll
<1>9. ASSUME Publish(t) PROVE SInv'
  <2>1. /\ At(t, "publish") /\ ImportFromC(t, "xpcom", "leave")
        /\ types' = TRUE /\ initialized' = TRUE
        /\ UNCHANGED <<host, framework, imports, pyUp, error, didInit, saved,
                       dance, modules, loader, failures>>
    BY <1>9 DEF Publish
  <2>2. Callee(Frame("leave", None)) = Import("xpcom")
    BY DEF Callee, Frame
  <2>3. types' \in BOOLEAN /\ initialized' = (initialized \/ "leave" = "leave")
    BY <2>1
  <2> QED
    BY <2>1, <2>2, <2>3, ImportFromCKeeps DEF CLabels
<1>10. ASSUME Leave(t) PROVE SInv'
  <2> DEFINE f == Frame("unlock", None)
  <2>1. /\ At(t, "leave") /\ Goto(t, "unlock")
        /\ gil' = IF didInit \/ saved = "unlocked" THEN None ELSE t
        /\ UNCHANGED <<host, framework, imports, env, dance, modules, loader,
                       failed, failures>>
    BY <1>10 DEF Leave
  <2>2. /\ StackType /\ stack[t] # <<>> /\ stack[t][1].at = "leave"
        /\ FrameTrue(t, stack[t][1]) /\ Len(stack[t]) \in Nat \ {0}
    BY <2>1, AtHead
  <2>3. "leave" \in Section \ {"again"} /\ "unlock" \in Section \ {"again"}
    BY DEF Section
  <2>4. FrameTrue(t, f)'
    BY <2>1, <2>2, <2>3 DEF FrameTrue, Frame, Holding, ImportLabels, env
  <2>5. Replaces(t, f) /\ Follows(t, f)
    BY <1>b, <2>1, <2>3, <2>4, EnsureGoes
  <2>6. Stable(t)
    BY <2>1, StableUnchanged DEF env
  <2>7. LocksFollow(t, f)
    <3>1. ~didInit /\ saved = "locked" => FromInit(t, 1)
      BY <2>2, <2>3 DEF SInv, GILSaved
    <3>2. gil' = t => ~didInit /\ saved = "locked"
      BY <1>a, <2>1, ThreadAssumption DEF TypesOK
    <3> QED
      BY <2>1, <2>3, <3>1, <3>2
         DEF LocksFollow, OthersUnsaved, Frame, MayHaveGIL, env
  <2>8. TypesOK' /\ Published'
    BY <1>a, <2>1, <2>5
       DEF SInv, TypesOK, Published, Replaces, StackType, env, dance
  <2> QED
    BY <2>1, <2>2, <2>5, <2>6, <2>7, <2>8, ReplaceKeepsAll
<1> QED
  BY <1>1, <1>2, <1>3, <1>4, <1>5, <1>6, <1>7, <1>8, <1>9, <1>10
     DEF EnsurePythonEnvironment

\* A thread that was outside starts with the frames s.
LEMMA BeginKeeps ==
  ASSUME SInv, NEW t \in Threads, stack[t] = <<>>, NEW s \in Seq(FrameType),
         stack' = [stack EXCEPT ![t] = s], Len(s) \in {1, 2},
         s[1].at \in {"import", "ensure"},
         \A i \in 1..Len(s) : FrameOK(s[i]) /\ FrameTrue(t, s[i]),
         Len(s) = 2 => s[2] = Frame("loader", None) /\ CalledBy(s[1], s[2]),
         UNCHANGED <<host, locks, env, modules, failures>>,
         TypesOK', Published'
  PROVE  SInv'
<1>1. stack'[t] = s /\ \A u \in Threads \ {t} : stack'[u] = stack[u]
  BY DEF SInv, TypesOK
<1>2. Len(stack[t]) = 0 /\ s # <<>>
  OBVIOUS
<1>3. \A i \in 1..Len(s) : /\ s[i].at \in {"import", "ensure", "loader"}
                           /\ Key(s[i]) = "any" /\ s[i].at \notin Section
  BY DEF Key, Section, Frame
<1>4. imports # t /\ framework # t /\ gil # t
  BY <1>2 DEF SInv, HeldBySome, GILHeld
<1>5. Nested'
  <2>1. \A e, h : CalledBy(e, h)' <=> CalledBy(e, h)
    BY DEF CalledBy, Callee, Imported
  <2>2. \A e : FrameOK(e)' <=> FrameOK(e)
    BY DEF FrameOK, Imported
  <2> SUFFICES ASSUME NEW u \in Threads, NEW i \in 1..Len(stack'[u])
               PROVE  /\ FrameOK(stack'[u][i])
                      /\ i > 1 => /\ stack'[u][i].at \in Waiting
                                  /\ CalledBy(stack'[u][i - 1], stack'[u][i])
                      /\ i < Len(stack'[u])
                           => stack'[u][i].at \notin {"loader", "loader_got"}
    BY <2>1, <2>2 DEF Nested
  <2>3. CASE u # t
    BY <1>1, <2>3 DEF SInv, Stacks, Nested
  <2>4. CASE u = t
    BY <1>1, <2>4 DEF Waiting, Frame
  <2> QED
    BY <2>3, <2>4
<1>6. FramesTrue'
  <2>1. \A u, f : FrameTrue(u, f)' <=> FrameTrue(u, f)
    BY DEF FrameTrue, locks, env
  <2> QED
    BY <1>1, <2>1 DEF SInv, Stacks, FramesTrue
<1>7. Once'
  BY <1>1, <1>3 DEF SInv, Stacks, Once
<1>8. HeldBySome' /\ GILHeld'
  BY <1>1, <1>4 DEF SInv, HeldBySome, GILHeld, FromInit, locks
<1>9. GILSaved'
  BY <1>1, <1>3 DEF SInv, GILSaved, FromInit, env
<1>10. Ensured'
  BY <1>1 DEF SInv, Ensured, env
<1> QED
  BY <1>5, <1>6, <1>7, <1>8, <1>9, <1>10 DEF SInv, Stacks

\* Stacks of one frame and of two.
LEMMA OneFrame ==
  ASSUME NEW e \in FrameType
  PROVE  <<e>> \in Seq(FrameType) /\ Len(<<e>>) = 1 /\ <<e>>[1] = e
OBVIOUS

LEMMA TwoFrames ==
  ASSUME NEW e \in FrameType, NEW h \in FrameType
  PROVE  /\ <<e, h>> \in Seq(FrameType) /\ Len(<<e, h>>) = 2
         /\ <<e, h>>[1] = e /\ <<e, h>>[2] = h
OBVIOUS

\* Whoever starts.
LEMMA StartKept ==
  ASSUME SInv, Start
  PROVE  SInv'
<1>a. TypesOK /\ DOMAIN stack = Threads
  BY DEF SInv, TypesOK
<1>b. Pythons \subseteq Threads /\ Natives \subseteq Threads /\ Main \in Threads
  BY ThreadAssumption DEF Threads
<1>1. ASSUME NEW t \in Pythons, NEW m \in {"xpcom", "_xpcom"},
             ImportStatement(t, m)
      PROVE  SInv'
  <2> DEFINE s == <<Import(m)>>
  <2>1. /\ stack[t] = <<>>
        /\ host.python \/ initialized
        /\ stack' = [stack EXCEPT ![t] = s]
        /\ failed' = [failed EXCEPT ![t] = FALSE]
        /\ UNCHANGED <<host, locks, env, dance, modules, loader, failures>>
    BY <1>1 DEF ImportStatement
  <2>2. /\ Import(m) \in FrameType /\ FrameOK(Import(m))
        /\ Import(m).at = "import"
    BY DEF Import, Frame, FrameType, FrameOK, Labels, ImportLabels, InitLabels,
           Modules, Ensuring, Section
  <2>3. FrameTrue(t, Import(m))
    BY <2>1 DEF SInv, Published, FrameTrue, Import, Frame, Holding,
                ImportLabels, Section
  <2>4. TypesOK'
    BY <1>a, <1>b, <2>1, <2>2 DEF TypesOK, locks, env, dance
  <2>5. Published'
    BY <1>a, <2>1 DEF SInv, TypesOK, Published, env
  <2>6. PICK q \in Seq(FrameType) :
          q = s /\ Len(q) = 1 /\ q[1] = Import(m)
    BY <2>2, OneFrame
  <2>7. \A i \in 1..Len(q) : FrameOK(q[i]) /\ FrameTrue(t, q[i])
    BY <2>2, <2>3, <2>6
  <2>8. stack' = [stack EXCEPT ![t] = q] /\ Len(q) \in {1, 2} /\ Len(q) # 2
    BY <2>1, <2>6
  <2> QED
    BY <1>b, <2>1, <2>2, <2>4, <2>5, <2>6, <2>7, <2>8, BeginKeeps
<1>2. ASSUME NEW t \in Natives, EmbedderEnsures(t) PROVE SInv'
  <2> DEFINE f == Frame("ensure", None)
             s == <<f>>
  <2>1. /\ stack[t] = <<>> /\ stack' = [stack EXCEPT ![t] = s]
        /\ UNCHANGED <<host, locks, env, dance, modules, loader, failed,
                       failures>>
    BY <1>2 DEF EmbedderEnsures
  <2>2. f \in FrameType /\ FrameOK(f) /\ f.at = "ensure" /\ FrameTrue(t, f)
    BY NoneAssumption DEF Frame, FrameType, FrameOK, Labels, ImportLabels,
       InitLabels, Modules, Ensuring, Section, FrameTrue, Holding
  <2>3. TypesOK' /\ Published'
    BY <1>a, <1>b, <2>1, <2>2 DEF SInv, TypesOK, Published, locks, env, dance
  <2>4. PICK q \in Seq(FrameType) : q = s /\ Len(q) = 1 /\ q[1] = f
    BY <2>2, OneFrame
  <2>5. \A i \in 1..Len(q) : FrameOK(q[i]) /\ FrameTrue(t, q[i])
    BY <2>2, <2>4
  <2>6. stack' = [stack EXCEPT ![t] = q] /\ Len(q) \in {1, 2} /\ Len(q) # 2
    BY <2>1, <2>4
  <2> QED
    BY <1>b, <2>1, <2>2, <2>3, <2>4, <2>5, <2>6, BeginKeeps
<1>3. ASSUME LoaderInit PROVE SInv'
  <2> DEFINE f == Frame("ensure", None)
             g == Frame("loader", None)
             s == <<f, g>>
  <2>1. /\ stack[Main] = <<>> /\ stack' = [stack EXCEPT ![Main] = s]
        /\ loader' = "starting"
        /\ UNCHANGED <<host, locks, env, dance, modules, failed, failures>>
    BY <1>3 DEF LoaderInit
  <2>2. /\ f \in FrameType /\ FrameOK(f) /\ f.at = "ensure"
        /\ FrameTrue(Main, f)
        /\ g \in FrameType /\ FrameOK(g) /\ FrameTrue(Main, g)
    BY NoneAssumption DEF Frame, FrameType, FrameOK, Labels, ImportLabels,
       InitLabels, Modules, Ensuring, Section, FrameTrue, Holding
  <2>3. CalledBy(f, g)
    BY DEF CalledBy, Callee, Frame, Ensuring
  <2>4. TypesOK' /\ Published'
    BY <1>a, <1>b, <2>1, <2>2 DEF SInv, TypesOK, Published, locks, env, dance
  <2> HIDE DEF f, g
  <2>7. s \in Seq(FrameType) /\ Len(s) = 2 /\ s[1] = f /\ s[2] = g
    BY <2>2, TwoFrames
  <2>5. PICK q \in Seq(FrameType) :
          q = s /\ Len(q) = 2 /\ q[1] = f /\ q[2] = g
    BY <2>7
  <2>6. \A i \in 1..Len(q) : FrameOK(q[i]) /\ FrameTrue(Main, q[i])
    BY <2>2, <2>5
  <2>8. /\ stack' = [stack EXCEPT ![Main] = q] /\ Len(q) \in {1, 2}
        /\ q[2] = Frame("loader", None) /\ CalledBy(q[1], q[2])
    BY <2>1, <2>3, <2>5 DEF g
  <2> QED
    BY <1>b, <2>1, <2>2, <2>4, <2>5, <2>6, <2>8, BeginKeeps
<1> QED
  BY <1>1, <1>2, <1>3 DEF Start

\* The module loader.
LEMMA LoaderKept ==
  ASSUME SInv, LoaderImports \/ LoaderGot
  PROVE  SInv'
<1>a. TypesOK /\ Main \in Threads
  BY ThreadAssumption DEF SInv, Threads
<1>1. ASSUME LoaderImports PROVE SInv'
  <2> DEFINE c == Import("_xpcom")
             g == Frame("loader_got", None)
  <2>1. /\ At(Main, "loader") /\ CallThen(Main, c, "loader_got")
        /\ UNCHANGED <<host, locks, env, dance, modules, loader, failed,
                       failures>>
    BY <1>1 DEF LoaderImports
  <2>2. /\ StackType /\ stack[Main] # <<>> /\ stack[Main][1].at = "loader"
        /\ stack[Main][1].mod = None /\ Mod(Main) = None
    BY <1>a, <2>1, AtHead DEF FrameOK
  <2>3. c \in FrameType /\ FrameOK(c) /\ g \in FrameType /\ FrameOK(g)
    BY NoneAssumption
       DEF Import, Frame, FrameType, FrameOK, Labels, ImportLabels, InitLabels,
           Modules, Ensuring, Section
  <2>4. Pushes(Main, c, g)
    BY <1>a, <2>1, <2>2, <2>3, CallPushes DEF Labels
  <2>5. Stable(Main)
    BY <1>a, <2>1, StableUnchanged DEF locks, env
  <2>6. initialized /\ pyUp /\ gil # Main
    BY <1>a, <2>2 DEF SInv, Ensured, Published, GILHeld, InitLabels, CLabels
  <2>7. CanCall(Main, c, g)
    <3>1. FrameTrue(Main, c)' /\ FrameTrue(Main, g)'
      BY <2>1, <2>6 DEF FrameTrue, Import, Frame, Holding, ImportLabels,
                        Section, env
    <3>2. SameKind(g, stack[Main][1]) /\ CalledBy(c, g)
      BY <2>2 DEF SameKind, CalledBy, Callee, Import, Frame, ImportLabels,
                  Ensuring, Section
    <3>3. Key(c) = "any" /\ Key(g) = "any" /\ g.at \in Waiting
          /\ c.at \notin {"loader", "loader_got"}
      BY DEF Key, Import, Frame, Section, Waiting
    <3> QED
      BY <2>3, <3>1, <3>2, <3>3 DEF CanCall, Follows
  <2>8. LocksStay(Main, c, g)
    BY <2>1, <2>2, <2>6
       DEF LocksStay, Import, Frame, Section, ImportLabels, locks, env
  <2>9. TypesOK' /\ Published'
    BY <1>a, <2>1, <2>4
       DEF SInv, TypesOK, Published, Pushes, StackType, locks, env, dance
  <2> QED
    BY <1>a, <2>1, <2>2, <2>4, <2>5, <2>7, <2>8, <2>9, PushKeepsAll
<1>2. ASSUME LoaderGot PROVE SInv'
  <2>1. /\ At(Main, "loader_got") /\ Return(Main) /\ gil = None
        /\ loader' = IF failed[Main] THEN "failed" ELSE "ready"
        /\ UNCHANGED <<host, locks, env, dance, modules, failed, failures>>
    BY <1>2 DEF LoaderGot
  <2>2. /\ StackType /\ stack[Main] # <<>> /\ stack[Main][1].at = "loader_got"
        /\ Len(stack[Main]) \in Nat \ {0} /\ ~(1 < Len(stack[Main]))
    BY <1>a, <2>1, AtHead
  <2>3. Pops(Main)
    BY <1>a, <2>1, <2>2, ReturnPops
  <2>4. Stable(Main)
    BY <1>a, <2>1, StableUnchanged DEF locks, env
  <2>5. LocksGo(Main)
    BY <1>a, <2>1, <2>2, ThreadAssumption
       DEF LocksGo, ImportLabels, Section, locks, env
  <2>6. TypesOK' /\ Published'
    BY <1>a, <2>1, <2>3
       DEF SInv, TypesOK, Published, Pops, StackType, locks, env, dance
  <2> QED
    BY <1>a, <2>1, <2>2, <2>3, <2>4, <2>5, <2>6, PopKeepsAll
<1> QED
  BY <1>1, <1>2

\* The invariant holds at the start, and every step keeps it.
LEMMA SInvInit == Init => SInv
<1> SUFFICES ASSUME Init PROVE SInv
  OBVIOUS
<1>1. TypesOK
  <2>1. host \in Hosts /\ host \in HostType /\ 0 \in 0..MaxFailures
    BY HostAssumption, BoundAssumption DEF Init
  <2>2. host.python \in BOOLEAN /\ host.xpcom \in BOOLEAN
    BY <2>1 DEF HostType
  <2>3. pyUp \in BOOLEAN /\ xpcom \in BOOLEAN /\ registered \in BOOLEAN
    BY <2>2 DEF Init
  <2>4. stack \in [Threads -> Seq(FrameType)]
    BY DEF Init
  <2>5. /\ modules \in [Modules -> {"absent", "partial", "loaded"}]
        /\ failed \in [Threads -> BOOLEAN]
    BY DEF Init
  <2> QED
    BY <2>1, <2>3, <2>4, <2>5 DEF Init, TypesOK
<1>2. \A t \in Threads : stack[t] = <<>> /\ Len(stack[t]) = 0
  BY DEF Init
<1>3. Stacks /\ GILSaved /\ Ensured
  BY <1>2 DEF Stacks, Nested, FramesTrue, Once, GILSaved, Ensured
<1>4. HeldBySome /\ GILHeld
  BY ThreadAssumption DEF Init, HeldBySome, GILHeld
<1>5. Published
  BY DEF Init, Published
<1> QED
  BY <1>1, <1>3, <1>4, <1>5 DEF SInv

LEMMA SInvNext == SInv /\ [Next]_vars => SInv'
<1> SUFFICES ASSUME SInv, [Next]_vars PROVE SInv'
  OBVIOUS
<1>1. CASE UNCHANGED vars
  <2> USE <1>1 DEF vars, locks, env, dance, SInv
  <2>1. Nested'
    <3>1. \A e, h : CalledBy(e, h)' <=> CalledBy(e, h)
      BY DEF CalledBy, Callee, Imported
    <3>2. \A e : FrameOK(e)' <=> FrameOK(e)
      BY DEF FrameOK, Imported
    <3> QED
      BY <3>1, <3>2 DEF Stacks, Nested
  <2>2. FramesTrue' /\ Once'
    BY DEF Stacks, FramesTrue, FrameTrue, Once
  <2>3. HeldBySome' /\ GILHeld' /\ GILSaved'
    BY DEF HeldBySome, GILHeld, GILSaved, FromInit
  <2>4. TypesOK' /\ Ensured' /\ Published'
    BY DEF TypesOK, Ensured, Published
  <2> QED
    BY <2>1, <2>2, <2>3, <2>4 DEF Stacks
<1>2. CASE Start
  BY <1>2, StartKept
<1>3. ASSUME NEW t \in Threads, Step(t) PROVE SInv'
  BY <1>3, ImportingKept, InitXpcomKept, EnsureKept, LoaderKept DEF Step
<1> QED
  BY <1>1, <1>2, <1>3 DEF Next

\* The invariant that the theorems below follow from.
THEOREM Inductive == Spec => []SInv
BY SInvInit, SInvNext, PTL DEF Spec

-----------------------------------------------------------------------------
(* The theorems *)

\* Frames that wait for others differ in this, so there are no more of them.
Slot(t, i) ==
  IF i = 1 THEN 1 ELSE
    CASE stack[t][i].at \in CLabels -> 2
      [] stack[t][i].at = "package" -> 3
      [] stack[t][i].at = "ran" -> IF stack[t][i].mod = "xpcom" THEN 4 ELSE 5
      [] stack[t][i].at \in {"loader", "loader_got"} -> 6
      [] stack[t][i].at = "module" -> IF i = 2 THEN 7 ELSE 8

\* Of things with 8 different numbers there are at most 8.
LEMMA NoMore ==
  ASSUME NEW n \in Nat, NEW slot \in [1..n -> 1..8],
         \A i, j \in 1..n : slot[i] = slot[j] => i = j
  PROVE  n <= 8
<1> SUFFICES ASSUME n > 8 PROVE FALSE
  OBVIOUS
<1>1. \A k \in Nat : k > 0 => IsFiniteSet(1..k) /\ Cardinality(1..k) = k
  <2> SUFFICES ASSUME NEW k \in Nat, k > 0
               PROVE  IsFiniteSet(1..k) /\ Cardinality(1..k) = k
    OBVIOUS
  <2>1. 1 \in Int /\ k \in Int /\ k - 1 + 1 = k /\ ~(1 > k)
    OBVIOUS
  <2>2. IsFiniteSet(1..k)
        /\ Cardinality(1..k) = IF 1 > k THEN 0 ELSE k - 1 + 1
    BY <2>1, FS_Interval
  <2> QED
    BY <2>1, <2>2
<1>2. IsFiniteSet(1..n) /\ Cardinality(1..n) = n
  BY <1>1
<1>3. IsFiniteSet(1..8) /\ Cardinality(1..8) = 8
  BY <1>1
<1>4. Cardinality(1..8) < Cardinality(1..n)
  BY <1>2, <1>3
<1>5. \E i, j \in 1..n : i # j /\ slot[i] = slot[j]
  BY <1>2, <1>3, <1>4, FS_PigeonHole, Zenon
<1> QED
  BY <1>5

\* The imports that EnsurePythonEnvironment and init_xpcom make of each other
\* end: no stack is deeper than MaxDepth.
LEMMA Shallow ==
  ASSUME SInv, NEW t \in Threads
  PROVE  Len(stack[t]) <= MaxDepth
<1> DEFINE n == Len(stack[t])
<1>1. n \in Nat
  BY DEF SInv, TypesOK
<1>2. \A i \in 1..n :
        /\ FrameOK(stack[t][i])
        /\ i > 1 => /\ stack[t][i].at \in Waiting
                    /\ CalledBy(stack[t][i - 1], stack[t][i])
        /\ i < n => stack[t][i].at \notin {"loader", "loader_got"}
  BY DEF SInv, Stacks, Nested
<1>3. \A i, j \in 1..n :
        /\ Key(stack[t][i]) # "any"
        /\ Key(stack[t][i]) = Key(stack[t][j])
        => i = j
  BY DEF SInv, Stacks, Once
<1>4. \A i \in 1..n : Slot(t, i) \in 1..8
  <2> TAKE i \in 1..n
  <2>1. i = 1 \/ stack[t][i].at \in Waiting
    BY <1>1, <1>2
  <2> QED
    BY <2>1 DEF Slot, Waiting, CLabels
<1>5. ASSUME NEW i \in 1..n, NEW j \in 1..n, Slot(t, i) = Slot(t, j)
      PROVE  i = j
  <2> SUFFICES ASSUME i > 1, j > 1 PROVE i = j
    <3>1. \A k \in 1..n : k > 1 => Slot(t, k) # 1
      BY <1>2 DEF Slot, Waiting, CLabels
    <3>2. \A k \in 1..n : k = 1 => Slot(t, k) = 1
      BY DEF Slot
    <3>3. \A k \in 1..n : k = 1 \/ k > 1
      BY <1>1
    <3>4. i = 1 <=> j = 1
      BY <1>5, <3>1, <3>2, <3>3
    <3> QED
      BY <3>3, <3>4
  <2>1. stack[t][i].at \in Waiting /\ stack[t][j].at \in Waiting
        /\ FrameOK(stack[t][i]) /\ FrameOK(stack[t][j])
    BY <1>2
  <2>2. CASE Key(stack[t][i]) # "any"
    <3>1. Key(stack[t][j]) = Key(stack[t][i])
      BY <1>5, <2>1, <2>2
         DEF Slot, Waiting, CLabels, Key, Section, FrameOK
    <3> QED
      BY <1>3, <2>2, <3>1
  <2>3. CASE stack[t][i].at \in {"loader", "loader_got"}
    <3>1. stack[t][j].at \in {"loader", "loader_got"}
      BY <1>5, <2>1, <2>3 DEF Slot, Waiting, CLabels
    <3>2. ~(i < n) /\ ~(j < n)
      BY <1>2, <2>3, <3>1
    <3> QED
      BY <1>1, <3>2
  <2>4. CASE stack[t][i].at = "module"
    <3>1. stack[t][j].at = "module" /\ (i = 2 <=> j = 2)
      BY <1>5, <2>1, <2>4 DEF Slot, Waiting, CLabels
    <3>2. CASE i # 2
      <4>1. i - 1 \in 2..n /\ j - 1 \in 2..n
        BY <1>1, <3>1, <3>2
      <4>2. ASSUME NEW k \in {i, j}
            PROVE  /\ stack[t][k - 1].at \in Waiting
                   /\ stack[t][k - 1].at \in Ensuring
        <5>1. k - 1 \in 1..n /\ k - 1 > 1 /\ k \in 1..n /\ k > 1
          BY <1>1, <4>1
        <5>2. Callee(stack[t][k]) = Frame("ensure", None)
          BY <2>4, <3>1 DEF Callee
        <5> QED
          BY <1>2, <5>1, <5>2 DEF CalledBy, Frame
      <4>3. \A k \in {i, j} : Key(stack[t][k - 1]) = "section"
        BY <4>2 DEF Waiting, Ensuring, CLabels, Key, Section
      <4>4. i - 1 = j - 1
        BY <1>1, <1>3, <4>1, <4>3
      <4> QED
        BY <4>4
    <3> QED
      BY <3>1, <3>2
  <2>5. stack[t][i].at \in CLabels \cup {"package", "ran"}
          => Key(stack[t][i]) # "any"
    BY <2>1 DEF Key, CLabels, Section, FrameOK
  <2> QED
    BY <2>1, <2>2, <2>3, <2>4, <2>5 DEF Waiting
<1> DEFINE slot == [i \in 1..n |-> Slot(t, i)]
<1>6. slot \in [1..n -> 1..8] /\ \A i, j \in 1..n : slot[i] = slot[j] => i = j
  BY <1>4, <1>5
<1> HIDE DEF n, slot
<1>7. n <= 8
  BY <1>1, <1>6, NoMore
<1> QED
  BY <1>7 DEF n, MaxDepth

\* Every variable of the start of PyXPCOM stays in its range, and the stack of
\* each thread within MaxDepth, for any number of threads.
THEOREM TypeCorrect == Spec => []TypeOK
<1>1. ASSUME SInv PROVE TypeOK
  <2>1. TypesOK
    BY <1>1 DEF SInv
  <2>2. \A t \in Threads :
          /\ Len(stack[t]) <= MaxDepth
          /\ \A i \in DOMAIN stack[t] : /\ stack[t][i].at \in Labels
                                        /\ stack[t][i].mod \in Modules \cup {None}
    <3> TAKE t \in Threads
    <3>1. stack[t] \in Seq(FrameType)
      BY <2>1 DEF TypesOK
    <3>2. \A i \in DOMAIN stack[t] : stack[t][i] \in FrameType
      BY <3>1
    <3> QED
      BY <1>1, <3>2, Shallow DEF FrameType
  <2> QED
    BY <2>1, <2>2 DEF TypesOK, TypeOK
<1> QED
  BY <1>1, Inductive, PTL

\* When PyXPCOM_EnsurePythonEnvironment has returned to init_xpcom_real,
\* everything is set up, whichever thread has done it.
THEOREM AlwaysReady == Spec => []ReadyWhenUsed
<1>1. ASSUME SInv PROVE ReadyWhenUsed
  BY <1>1 DEF SInv, Ensured, Published, ReadyWhenUsed, At, TypesOK
<1> QED
  BY <1>1, Inductive, PTL

\* Nothing stays locked when every call has returned.
THEOREM NothingLockedInTheEnd == Spec => []NothingLockedAtRest
<1>1. ASSUME SInv PROVE NothingLockedAtRest
  <2> SUFFICES ASSUME \A t \in Threads : stack[t] = <<>>
               PROVE  gil = None /\ framework = None /\ imports = None
    BY DEF NothingLockedAtRest
  <2>1. \A t \in Threads : Len(stack[t]) = 0
    OBVIOUS
  <2>2. \A t \in Threads : gil # t /\ framework # t /\ imports # t
    BY <1>1, <2>1 DEF SInv, HeldBySome, GILHeld
  <2> QED
    BY <1>1, <2>2 DEF SInv, TypesOK
<1> QED
  BY <1>1, Inductive, PTL

\* The environment is set up once: PyXPCOM_EnsurePythonEnvironment changes
\* nothing of it any more when bIsInitialized is set.
THEOREM SetUpOnce == Spec => InitializedOnce
<1>1. ASSUME SInv, [Next]_vars, initialized PROVE UNCHANGED env
  <2>1. \A t \in Threads :
          ~At(t, "site") /\ ~At(t, "error") /\ ~At(t, "got_error")
          /\ ~At(t, "publish")
    BY <1>1, AtHead DEF FrameTrue
  <2>2. CASE UNCHANGED vars
    BY <2>2 DEF vars
  <2>3. CASE Start
    BY <2>3 DEF Start, ImportStatement, EmbedderEnsures, LoaderInit
  <2>4. ASSUME NEW t \in Threads, Importing(t) PROVE UNCHANGED env
    BY <2>4 DEF Importing, AlreadyImported, ImportFails, ImportPackage,
       PackageImported, RunModule, RunInit, RunCode, CodeRan
  <2>5. ASSUME NEW t \in Threads, InitXpcom(t) PROVE UNCHANGED env
    BY <2>5 DEF InitXpcom, AlreadyDanced, EnsureXPCOM, RegisterPyAppInfo,
       EnsurePyXPCOM, RegisterPyXPCOMComponents, DanceFails, InitXpcomReal,
       InitModule
  <2>6. ASSUME NEW t \in Threads, EnsurePythonEnvironment(t)
        PROVE  UNCHANGED env
    BY <1>1, <2>1, <2>6 DEF EnsurePythonEnvironment, AlreadyInitialized,
       NotInitialized, AcquireGlobalLock, BeatenToIt, InitPython,
       AddStandardPaths, ImportException, SetException, Publish, Leave,
       ReleaseGlobalLock
  <2>7. CASE LoaderImports \/ LoaderGot
    BY <2>7 DEF LoaderImports, LoaderGot
  <2> QED
    BY <1>1, <2>2, <2>3, <2>4, <2>5, <2>6, <2>7 DEF Next, Step
<1>2. SInv /\ [Next]_vars => [initialized => UNCHANGED env]_vars
  BY <1>1
<1> QED
  BY <1>2, Inductive, PTL DEF Spec, InitializedOnce

-----------------------------------------------------------------------------
(* Hosts without a stand-off *)

\* Either Python or XPCOM was there first, and nothing that is imported under
\* the framework lock imports _xpcom before its time.
SoundHost(h) ==
  /\ h.python \/ h.xpcom
  /\ ~(h.python /\ h.xpcom)
  /\ h.site # "_xpcom"
  /\ h.xpcom => ~h.warns

Locked == Ensuring \ {"ensure"}

\* What no step takes back.
Forward ==
  /\ host' = host
  /\ initialized => initialized'
  /\ modules["xpcom"] # "absent" => modules'["xpcom"] # "absent"
  /\ modules'["_xpcom"] = "loaded" => modules["_xpcom"] = "loaded" \/ initialized

GoesOn(t, l, k) ==
  /\ At(t, l) /\ Goto(t, k) /\ k # "ensure"
  /\ k \in Locked => l \in Locked \/ (l = "ensure" /\ ~initialized)
  /\ k \in InitLabels => l \in InitLabels \/ modules["xpcom"] # "absent"
  /\ l = "import" /\ Mod(t) = "xpcom" => modules["xpcom"] = "absent"

CallsOn(t, l, c, k) ==
  /\ At(t, l) /\ CallThen(t, c, k) /\ k # "ensure"
  /\ c.at \in {"import", "ensure"}
  /\ c.at = "ensure" => k = "module" /\ c.mod = None
  /\ c.at = "import" => c.mod \in Modules
  /\ k \in Locked => l \in Locked
  /\ k \in InitLabels => l \in InitLabels
  /\ k \in Section => c.mod \in {"sitepyxpcom", "xpcom"}
  /\ c.mod = "_xpcom"
       => initialized \/ (l = "run" /\ Imported(Mod(t)) = "_xpcom")
  /\ Mod(t) \in {"sitepyxpcom", "xpcom"}
       => l = "run" /\ c = Import(Imported(Mod(t)))

Begins(t, s) ==
  /\ stack[t] = <<>> /\ stack' = [stack EXCEPT ![t] = s]
  /\ Len(s) \in {1, 2} /\ s[1].at \in {"import", "ensure"}
  /\ Len(s) = 2 => s[2] = Frame("loader", None)
  /\ s[1].at = "import" => host.python \/ initialized
  /\ s[1].at = "ensure"
       => s[1].mod = None /\ (host.xpcom \/ modules["_xpcom"] = "loaded")

Moves(t) ==
  \/ \E l, k \in Labels : GoesOn(t, l, k)
  \/ \E l, k \in Labels, c \in FrameType : CallsOn(t, l, c, k)
  \/ stack[t] # <<>> /\ Return(t)
  \/ \E s \in Seq(FrameType) : Begins(t, s)

\* Of the modules, an import that ends changes the one it is about.
LEMMA EndImportMoves ==
  ASSUME SInv, NEW t \in Threads, NEW l \in ImportLabels, At(t, l),
         NEW m \in {"absent", "partial", "loaded"}, NEW ok, EndImport(t, ok, m),
         \/ Mod(t) = "_xpcom" /\ (m = "loaded" => initialized)
         \/ Mod(t) # "_xpcom" /\ m # "absent"
         \/ m = modules[Mod(t)],
         UNCHANGED <<host, initialized>>
  PROVE  Moves(t) /\ Forward
<1>1. stack[t] # <<>> /\ Return(t)
  BY AtHead DEF EndImport
<1>2. modules' = [modules EXCEPT ![Mod(t)] = m]
  BY DEF EndImport
<1> QED
  BY <1>1, <1>2 DEF Moves, Forward, SInv, TypesOK, Modules

\* Every step moves one stack, forward.
LEMMA ImportingMoves ==
  ASSUME SInv, NEW t \in Threads, Importing(t)
  PROVE  Moves(t) /\ Forward
<1> USE DEF Present
<1>a. modules \in [Modules -> {"absent", "partial", "loaded"}]
  BY DEF SInv, TypesOK
<1>b. \A l \in Labels : At(t, l) =>
        /\ l \in {"package"} \cup InitLabels => Mod(t) = "_xpcom"
        /\ l \in {"run", "ran"} => Mod(t) \in {"sitepyxpcom", "xpcom"}
        /\ l = "import" => Mod(t) \in Modules
  BY AtHead DEF FrameOK
<1>c. {"import", "package", "run", "ran", "init"} \subseteq Labels
      /\ {"import", "package", "run", "ran"} \cap InitLabels = {}
      /\ {"import", "package", "run", "ran", "init"} \cap Ensuring = {}
      /\ "import" \in ImportLabels /\ "package" \in ImportLabels
      /\ "run" \in ImportLabels /\ "ran" \in ImportLabels
  BY DEF Labels, ImportLabels, InitLabels, Ensuring, Section
<1>1. CASE AlreadyImported(t)
  <2>1. At(t, "import") /\ EndImport(t, TRUE, modules[Mod(t)])
        /\ UNCHANGED <<host, initialized>> /\ Mod(t) \in Modules
    BY <1>1, <1>b, <1>c DEF AlreadyImported, env
  <2>2. PICK m \in {"absent", "partial", "loaded"} : m = modules[Mod(t)]
    BY <1>a, <2>1
  <2> QED
    BY <1>c, <2>1, <2>2, EndImportMoves
<1>2. CASE ImportFails(t)
  <2>1. At(t, "import") /\ EndImport(t, FALSE, "absent")
        /\ UNCHANGED <<host, initialized>> /\ modules[Mod(t)] = "absent"
    BY <1>2 DEF ImportFails, env
  <2> QED
    BY <1>c, <2>1, EndImportMoves
<1>3. CASE ImportPackage(t)
  <2>1. At(t, "import") /\ CallThen(t, Import("xpcom"), "package")
        /\ Mod(t) = "_xpcom" /\ UNCHANGED <<host, initialized, modules>>
    BY <1>3 DEF ImportPackage, env
  <2>2. CallsOn(t, "import", Import("xpcom"), "package")
    BY <1>c, <2>1 DEF CallsOn, Import, Frame, Modules, Locked, Section, Ensuring
  <2>3. Import("xpcom") \in FrameType
    BY <1>c DEF Import, Frame, FrameType, Modules
  <2> QED
    BY <1>c, <2>1, <2>2, <2>3 DEF Moves, Forward
<1>4. CASE PackageImported(t)
  <2>1. At(t, "package") /\ UNCHANGED <<host, initialized>> /\ Mod(t) = "_xpcom"
    BY <1>4, <1>b, <1>c DEF PackageImported, env
  <2>2. CASE Goto(t, "import") /\ UNCHANGED modules
    <3>1. GoesOn(t, "package", "import")
      BY <1>c, <2>1, <2>2 DEF GoesOn, Locked
    <3> QED
      BY <1>c, <2>1, <2>2, <3>1 DEF Moves, Forward
  <2>3. CASE EndImport(t, FALSE, modules[Mod(t)])
    <3>1. PICK m \in {"absent", "partial", "loaded"} : m = modules[Mod(t)]
      BY <1>a, <2>1 DEF Modules
    <3> QED
      BY <1>c, <2>1, <2>3, <3>1, EndImportMoves
  <2> QED
    BY <1>4, <2>2, <2>3 DEF PackageImported
<1>5. CASE RunModule(t)
  <2>1. At(t, "import") /\ Goto(t, "run") /\ Mod(t) # "_xpcom"
        /\ Mod(t) \in Modules /\ modules[Mod(t)] = "absent"
        /\ modules' = [modules EXCEPT ![Mod(t)] = "partial"]
        /\ UNCHANGED <<host, initialized>>
    BY <1>5, <1>b, <1>c DEF RunModule, env
  <2>2. GoesOn(t, "import", "run")
    BY <1>c, <2>1 DEF GoesOn, Locked
  <2>3. Forward
    BY <1>a, <2>1 DEF Forward, Modules
  <2> QED
    BY <1>c, <2>2, <2>3 DEF Moves
<1>6. CASE RunInit(t)
  <2>1. At(t, "import") /\ Goto(t, "init") /\ Mod(t) = "_xpcom"
        /\ modules["xpcom"] # "absent"
        /\ UNCHANGED <<host, initialized, modules>>
    BY <1>6 DEF RunInit, env
  <2>2. GoesOn(t, "import", "init")
    BY <1>c, <2>1 DEF GoesOn, Locked
  <2> QED
    BY <1>c, <2>1, <2>2 DEF Moves, Forward
<1>7. CASE RunCode(t)
  <2>1. At(t, "run") /\ CallThen(t, Import(Imported(Mod(t))), "ran")
        /\ Imported(Mod(t)) # None /\ Mod(t) \in {"sitepyxpcom", "xpcom"}
        /\ UNCHANGED <<host, initialized, modules>>
    BY <1>7, <1>b, <1>c DEF RunCode, env
  <2>2. Imported(Mod(t)) \in Modules
    BY <2>1, HostAssumption DEF SInv, TypesOK, HostType, Imported, Modules
  <2>3. PICK m \in Modules : m = Imported(Mod(t))
    BY <2>2
  <2>4. CallsOn(t, "run", Import(m), "ran")
    BY <1>c, <2>1, <2>3
       DEF CallsOn, Import, Frame, Locked, Section, Ensuring
  <2>5. Import(m) \in FrameType
    BY <1>c DEF Import, Frame, FrameType
  <2> QED
    BY <1>c, <2>1, <2>4, <2>5 DEF Moves, Forward
<1>8. CASE CodeRan(t)
  <2>1. PICK l \in {"run", "ran"} : At(t, l)
    BY <1>8 DEF CodeRan
  <2>2. EndImport(t, TRUE, "loaded") /\ UNCHANGED <<host, initialized>>
        /\ Mod(t) # "_xpcom"
    BY <1>8, <1>b, <1>c, <2>1 DEF CodeRan, env
  <2> QED
    BY <1>c, <2>1, <2>2, EndImportMoves
<1> QED
  BY <1>1, <1>2, <1>3, <1>4, <1>5, <1>6, <1>7, <1>8 DEF Importing

LEMMA InitXpcomMoves ==
  ASSUME SInv, NEW t \in Threads, InitXpcom(t)
  PROVE  Moves(t) /\ Forward
<1>a. \A l \in InitLabels : At(t, l) => Mod(t) = "_xpcom"
  BY AtHead DEF FrameOK
<1>b. InitLabels \subseteq ImportLabels /\ ImportLabels \subseteq Labels
      /\ "ensure" \notin InitLabels /\ "import" \notin InitLabels
      /\ InitLabels \cap Ensuring = {}
  BY DEF InitLabels, ImportLabels, Labels, Ensuring, Section
<1>1. ASSUME NEW l \in InitLabels, NEW k \in InitLabels, At(t, l), Goto(t, k),
             UNCHANGED <<host, initialized, modules>>
      PROVE  Moves(t) /\ Forward
  <2>1. GoesOn(t, l, k)
    BY <1>1, <1>b DEF GoesOn, Locked
  <2> QED
    BY <1>1, <1>b, <2>1 DEF Moves, Forward
<1>2. CASE \/ AlreadyDanced(t) \/ EnsureXPCOM(t) \/ RegisterPyAppInfo(t)
           \/ EnsurePyXPCOM(t) \/ RegisterPyXPCOMComponents(t)
  <2>1. \E l, k \in InitLabels : At(t, l) /\ Goto(t, k)
    BY <1>2 DEF AlreadyDanced, EnsureXPCOM, RegisterPyAppInfo, EnsurePyXPCOM,
                RegisterPyXPCOMComponents, InitLabels
  <2>2. UNCHANGED <<host, initialized, modules>>
    BY <1>2 DEF AlreadyDanced, EnsureXPCOM, RegisterPyAppInfo, EnsurePyXPCOM,
                RegisterPyXPCOMComponents, env
  <2> QED
    BY <1>1, <2>1, <2>2
<1>3. CASE DanceFails(t)
  <2>1. PICK l \in InitLabels : At(t, l)
    BY <1>3 DEF DanceFails, InitLabels
  <2>2. EndImport(t, FALSE, "absent") /\ UNCHANGED <<host, initialized>>
    BY <1>3 DEF DanceFails, env
  <2> QED
    BY <1>a, <1>b, <2>1, <2>2, EndImportMoves
<1>4. CASE InitXpcomReal(t)
  <2> DEFINE c == Frame("ensure", None)
  <2>1. At(t, "real") /\ CallThen(t, c, "module")
        /\ UNCHANGED <<host, initialized, modules>>
    BY <1>4 DEF InitXpcomReal, env
  <2>2. Mod(t) = "_xpcom" /\ "real" \in InitLabels /\ "module" \in InitLabels
    BY <1>a, <2>1 DEF InitLabels
  <2>3. CallsOn(t, "real", c, "module")
    BY <1>b, <2>1, <2>2, NoneAssumption
       DEF CallsOn, Frame, Locked, Section, Ensuring, Modules
  <2>4. c \in FrameType
    BY DEF Frame, FrameType, Labels
  <2> QED
    BY <1>b, <2>1, <2>2, <2>3, <2>4 DEF Moves, Forward
<1>5. CASE InitModule(t)
  <2>1. At(t, "module") /\ error \in BOOLEAN /\ UNCHANGED <<host, initialized>>
        /\ EndImport(t, error, IF error THEN "loaded" ELSE "partial")
    BY <1>5 DEF InitModule, SInv, TypesOK, env
  <2>2. PICK m \in {"loaded", "partial"} :
          m = IF error THEN "loaded" ELSE "partial"
    BY <2>1
  <2>3. initialized /\ "module" \in InitLabels
    BY <2>1, AtHead DEF SInv, Ensured, InitLabels
  <2>4. EndImport(t, error, m)
    BY <2>1, <2>2
  <2> QED
    BY <1>a, <1>b, <2>1, <2>3, <2>4, EndImportMoves
<1> QED
  BY <1>2, <1>3, <1>4, <1>5 DEF InitXpcom

LEMMA EnsureMoves ==
  ASSUME SInv, NEW t \in Threads, EnsurePythonEnvironment(t)
  PROVE  Moves(t) /\ Forward
<1>a. \A l \in Ensuring : At(t, l) => Mod(t) = None
  BY AtHead DEF FrameOK
<1>b. /\ Ensuring \subseteq Labels /\ Ensuring \cap InitLabels = {}
      /\ "import" \notin Ensuring /\ "run" \notin Ensuring
      /\ CLabels \subseteq Locked /\ Locked \subseteq Ensuring
      /\ {"lock", "again", "site", "publish", "unlock"} \subseteq Locked
  BY DEF Ensuring, Labels, InitLabels, CLabels, Section, Locked
<1>1. ASSUME NEW l \in Ensuring, NEW k \in Locked, At(t, l), Goto(t, k),
             l \in Locked \/ ~initialized
      PROVE  Moves(t)
  <2>1. GoesOn(t, l, k)
    BY <1>1, <1>b DEF GoesOn, Locked
  <2> QED
    BY <1>1, <1>b, <2>1 DEF Moves
<1>2. ASSUME NEW l \in {"site", "error", "publish"}, NEW k \in CLabels,
             NEW m \in {"sitepyxpcom", "xpcom"}, At(t, l), ImportFromC(t, m, k)
      PROVE  Moves(t)
  <2>0. l \in Ensuring /\ l \in Locked /\ k \in Locked
    BY <1>b DEF CLabels
  <2>1. CASE Goto(t, k)
    BY <1>1, <1>2, <2>0, <2>1
  <2>2. CASE CallThen(t, Import(m), k)
    <3>1. CallsOn(t, l, Import(m), k)
      BY <1>2, <1>a, <1>b, <2>0, <2>2, NoneAssumption
         DEF CallsOn, Import, Frame, Modules, Locked
    <3>2. Import(m) \in FrameType
      BY DEF Import, Frame, FrameType, Modules, Labels, ImportLabels
    <3> QED
      BY <1>b, <2>0, <3>1, <3>2 DEF Moves
  <2> QED
    BY <1>2, <2>1, <2>2 DEF ImportFromC
<1>3. Moves(t)
  <2>1. CASE AlreadyInitialized(t) \/ BeatenToIt(t) \/ ReleaseGlobalLock(t)
    BY <2>1 DEF AlreadyInitialized, BeatenToIt, ReleaseGlobalLock, At, Moves
  <2>2. CASE NotInitialized(t)
    BY <1>1, <1>b, <2>2 DEF NotInitialized, Ensuring
  <2>3. CASE AcquireGlobalLock(t)
    BY <1>1, <1>b, <2>3 DEF AcquireGlobalLock
  <2>4. CASE InitPython(t)
    BY <1>1, <1>b, <2>4 DEF InitPython
  <2>5. CASE AddStandardPaths(t)
    BY <1>2, <2>5 DEF AddStandardPaths, CLabels
  <2>6. CASE ImportException(t)
    <3>1. CASE error
      BY <1>1, <1>b, <2>6, <3>1 DEF ImportException, CLabels
    <3>2. CASE ~error
      BY <1>2, <2>6, <3>2 DEF ImportException, CLabels
    <3> QED
      BY <3>1, <3>2
  <2>7. CASE SetException(t)
    BY <1>1, <1>b, <2>7 DEF SetException, CLabels
  <2>8. CASE Publish(t)
    BY <1>2, <2>8 DEF Publish, CLabels
  <2>9. CASE Leave(t)
    BY <1>1, <1>b, <2>9 DEF Leave, CLabels
  <2> QED
    BY <2>1, <2>2, <2>3, <2>4, <2>5, <2>6, <2>7, <2>8, <2>9
       DEF EnsurePythonEnvironment
<1>4. UNCHANGED <<host, modules>> /\ (initialized => initialized')
  BY DEF EnsurePythonEnvironment, AlreadyInitialized, NotInitialized,
     AcquireGlobalLock, BeatenToIt, InitPython, AddStandardPaths,
     ImportException, SetException, Publish, Leave, ReleaseGlobalLock, env
<1> QED
  BY <1>3, <1>4 DEF Forward

LEMMA StartMoves ==
  ASSUME SInv, Start
  PROVE  \E t \in Threads : Moves(t) /\ Forward
<1>a. Pythons \subseteq Threads /\ Natives \subseteq Threads /\ Main \in Threads
  BY ThreadAssumption DEF Threads
<1>b. Frame("ensure", None) \in FrameType /\ Frame("loader", None) \in FrameType
  BY DEF Frame, FrameType, Labels
<1>1. ASSUME NEW t \in Pythons, NEW m \in {"xpcom", "_xpcom"},
             ImportStatement(t, m)
      PROVE  Moves(t) /\ Forward
  <2>1. Import(m) \in FrameType /\ Import(m).at = "import"
    BY DEF Import, Frame, FrameType, Labels, ImportLabels, Modules
  <2>2. PICK s \in Seq(FrameType) :
          s = <<Import(m)>> /\ Len(s) = 1 /\ s[1] = Import(m)
    BY <2>1, OneFrame
  <2>3. /\ stack[t] = <<>> /\ stack' = [stack EXCEPT ![t] = s]
        /\ host.python \/ initialized
        /\ UNCHANGED <<host, initialized, modules>>
    BY <1>1, <2>2 DEF ImportStatement, env
  <2>4. Begins(t, s)
    BY <2>1, <2>2, <2>3 DEF Begins
  <2> QED
    BY <2>3, <2>4 DEF Moves, Forward
<1>2. ASSUME NEW t \in Natives, EmbedderEnsures(t)
      PROVE  Moves(t) /\ Forward
  <2>1. PICK s \in Seq(FrameType) :
          /\ s = <<Frame("ensure", None)>> /\ Len(s) = 1
          /\ s[1] = Frame("ensure", None)
    BY <1>b, OneFrame
  <2>2. /\ stack[t] = <<>> /\ stack' = [stack EXCEPT ![t] = s]
        /\ host.xpcom
        /\ UNCHANGED <<host, initialized, modules>>
    BY <1>2, <2>1 DEF EmbedderEnsures, env
  <2>3. Begins(t, s)
    BY <2>1, <2>2 DEF Begins, Frame
  <2> QED
    BY <2>2, <2>3 DEF Moves, Forward
<1>3. ASSUME LoaderInit PROVE Moves(Main) /\ Forward
  <2>1. PICK s \in Seq(FrameType) :
          /\ s = <<Frame("ensure", None), Frame("loader", None)>> /\ Len(s) = 2
          /\ s[1] = Frame("ensure", None) /\ s[2] = Frame("loader", None)
    <3>1. PICK e \in FrameType, h \in FrameType :
            e = Frame("ensure", None) /\ h = Frame("loader", None)
      BY <1>b
    <3>2. PICK s \in Seq(FrameType) :
            s = <<e, h>> /\ Len(s) = 2 /\ s[1] = e /\ s[2] = h
      <4>1. /\ <<e, h>> \in Seq(FrameType) /\ Len(<<e, h>>) = 2
            /\ <<e, h>>[1] = e /\ <<e, h>>[2] = h
        BY TwoFrames
      <4> QED
        BY <4>1
    <3> QED
      BY <3>1, <3>2
  <2>2. /\ stack[Main] = <<>> /\ stack' = [stack EXCEPT ![Main] = s]
        /\ host.xpcom \/ modules["_xpcom"] = "loaded"
        /\ UNCHANGED <<host, initialized, modules>>
    BY <1>3, <2>1 DEF LoaderInit, env
  <2>3. Begins(Main, s)
    BY <2>1, <2>2 DEF Begins, Frame
  <2> QED
    BY <2>2, <2>3 DEF Moves, Forward
<1> QED
  BY <1>a, <1>1, <1>2, <1>3 DEF Start

LEMMA LoaderMoves ==
  ASSUME SInv, LoaderImports \/ LoaderGot
  PROVE  Moves(Main) /\ Forward
<1>a. Main \in Threads
  BY ThreadAssumption DEF Threads
<1>1. CASE LoaderImports
  <2>1. At(Main, "loader") /\ CallThen(Main, Import("_xpcom"), "loader_got")
        /\ UNCHANGED <<host, initialized, modules>>
    BY <1>1 DEF LoaderImports, env
  <2>2. Mod(Main) = None /\ initialized
    BY <1>a, <2>1, AtHead DEF FrameOK, SInv, Ensured
  <2>3. CallsOn(Main, "loader", Import("_xpcom"), "loader_got")
    BY <2>1, <2>2, NoneAssumption
       DEF CallsOn, Import, Frame, Modules, Locked, Ensuring, Section, InitLabels
  <2>4. Import("_xpcom") \in FrameType
    BY DEF Import, Frame, FrameType, Modules, Labels, ImportLabels
  <2> QED
    BY <2>1, <2>3, <2>4 DEF Moves, Forward, Labels
<1>2. CASE LoaderGot
  BY <1>2 DEF LoaderGot, At, Moves, Forward, env
<1> QED
  BY <1>1, <1>2

LEMMA NextMoves ==
  ASSUME SInv, Next
  PROVE  \E t \in Threads : Moves(t) /\ Forward
BY StartMoves, ImportingMoves, InitXpcomMoves, EnsureMoves, LoaderMoves
   DEF Next, Step

-----------------------------------------------------------------------------
(* Python was there first: init_xpcom starts PyXPCOM, and holds the import *)
(* lock while it waits for the framework lock. *)

Inner(f) == f.mod = "sitepyxpcom" \/ f = Import("xpcom")

FrameSound(t, i) ==
  /\ stack[t][i].at \in Locked => FromInit(t, i)
  /\ stack[t][i].at = "ensure" => FromInit(t, i) \/ initialized
  /\ stack[t][i].at \in InitLabels => modules["xpcom"] # "absent"
  /\ stack[t][i].at \in Section => \A j \in 1..(i - 1) : Inner(stack[t][j])

PythonFirst ==
  /\ host.python /\ ~host.xpcom /\ host.site # "_xpcom"
  /\ modules["_xpcom"] = "loaded" => initialized
  /\ \A t \in Threads : \A i \in 1..Len(stack[t]) : FrameSound(t, i)

\* XPCOM was there first: until the set-up is done nothing imports _xpcom, so
\* init_xpcom never waits for the framework lock with the GIL in its hands.
XPCOMFirst ==
  /\ host.xpcom /\ ~host.python /\ host.site # "_xpcom" /\ ~host.warns
  /\ \A t \in Threads : \A i \in 1..Len(stack[t]) :
       /\ stack[t][i].mod = "_xpcom" => initialized
       /\ stack[t][i].at \in Locked => ~FromInit(t, i)

\* A move keeps what holds of a host where Python was first.
LEMMA PythonKept ==
  ASSUME SInv, PythonFirst, NEW t \in Threads, Moves(t), Forward
  PROVE  PythonFirst'
<1>1. StackType /\ \A u \in Threads : Len(stack[u]) \in Nat
  BY DEF SInv, TypesOK, StackType
<1>2. OthersStay(t) => \A u \in Threads \ {t} : \A i \in 1..Len(stack'[u]) :
                         FrameSound(u, i)'
  BY <1>1 DEF PythonFirst, FrameSound, FromInit, OthersStay, Forward
\* Where a frame is under the framework lock, xpcom has been imported.
<1>3. \A i \in 2..Len(stack[t]) : stack[t][i].at \in Section =>
        modules["xpcom"] # "absent" /\ Inner(stack[t][1])
  <2> SUFFICES ASSUME NEW i \in 2..Len(stack[t]), stack[t][i].at \in Section
               PROVE  modules["xpcom"] # "absent" /\ Inner(stack[t][1])
    OBVIOUS
  <2>1. i \in 1..Len(stack[t]) /\ 1 \in 1..(i - 1)
    BY <1>1
  <2>2. FromInit(t, i) /\ Inner(stack[t][1])
    BY <2>1 DEF PythonFirst, FrameSound, Locked, Ensuring, Section
  <2>3. i + 1 \in 1..Len(stack[t]) /\ stack[t][i + 1].at \in InitLabels
    BY <1>1, <2>2 DEF FromInit, InitLabels
  <2> QED
    BY <2>2, <2>3 DEF PythonFirst, FrameSound
<1>4. SUFFICES /\ OthersStay(t)
               /\ \A i \in 1..Len(stack'[t]) : FrameSound(t, i)'
  BY <1>2 DEF PythonFirst, Forward
<1>5. ASSUME NEW l \in Labels, NEW k \in Labels, GoesOn(t, l, k)
      PROVE  OthersStay(t) /\ \A i \in 1..Len(stack'[t]) : FrameSound(t, i)'
  <2>1. /\ stack[t] # <<>> /\ stack[t][1].at = l /\ Mod(t) = stack[t][1].mod
        /\ Len(stack[t]) \in Nat \ {0} /\ Goto(t, k)
    BY <1>5, AtHead DEF GoesOn
  <2>2. Replaces(t, Frame(k, Mod(t)))
    BY <1>1, <2>1, GotoReplaces
  <2>3. /\ stack'[t][1].at = k /\ stack'[t][1].mod = stack[t][1].mod
        /\ Len(stack'[t]) = Len(stack[t])
        /\ \A i \in 2..Len(stack[t]) : stack'[t][i] = stack[t][i]
    BY <2>1, <2>2 DEF Replaces, Frame
  <2>4. \A i \in 1..Len(stack[t]) : FromInit(t, i)' <=> FromInit(t, i)
    BY <2>1, <2>3 DEF FromInit
  <2>5. 1 \in 1..Len(stack[t]) /\ FrameSound(t, 1)
    BY <2>1 DEF PythonFirst
  <2>6. FrameSound(t, 1)'
    <3>1. k \in Locked => FromInit(t, 1)
      BY <1>5, <2>1, <2>5 DEF GoesOn, FrameSound
    <3>2. k \in InitLabels => modules'["xpcom"] # "absent"
      BY <1>5, <2>1, <2>5 DEF GoesOn, FrameSound, Forward
    <3>3. k # "ensure"
      BY <1>5 DEF GoesOn
    <3> QED
      BY <2>3, <2>4, <2>5, <3>1, <3>2, <3>3 DEF FrameSound
  <2>7. ASSUME NEW i \in 2..Len(stack[t]) PROVE FrameSound(t, i)'
    <3>1. i \in 1..Len(stack[t]) /\ FrameSound(t, i) /\ stack'[t][i] = stack[t][i]
      BY <2>1, <2>3 DEF PythonFirst
    <3>2. ASSUME stack[t][i].at \in Section, NEW j \in 1..(i - 1)
          PROVE  Inner(stack'[t][j])
      <4>1. CASE j = 1
        <5>1. modules["xpcom"] # "absent" /\ Inner(stack[t][1])
          BY <1>3, <3>2
        <5>2. stack[t][1] # Import("xpcom")
          BY <1>5, <2>1, <5>1 DEF GoesOn, Import, Frame
        <5> QED
          BY <2>3, <4>1, <5>1, <5>2 DEF Inner
      <4>2. CASE j # 1
        <5>1. j \in 2..Len(stack[t])
          BY <2>1, <4>2
        <5> QED
          BY <2>3, <3>1, <3>2, <5>1 DEF FrameSound
      <4> QED
        BY <4>1, <4>2
    <3> QED
      BY <2>4, <3>1, <3>2 DEF FrameSound, Forward, Inner
  <2>8. \A i \in 1..Len(stack'[t]) : FrameSound(t, i)'
    BY <2>1, <2>3, <2>6, <2>7
  <2> QED
    BY <2>2, <2>8 DEF Replaces
<1>6. ASSUME NEW l \in Labels, NEW k \in Labels, NEW c \in FrameType,
             CallsOn(t, l, c, k)
      PROVE  OthersStay(t) /\ \A i \in 1..Len(stack'[t]) : FrameSound(t, i)'
  <2>1. /\ stack[t] # <<>> /\ stack[t][1].at = l /\ Mod(t) = stack[t][1].mod
        /\ Len(stack[t]) \in Nat \ {0} /\ CallThen(t, c, k)
    BY <1>6, AtHead DEF CallsOn
  <2>2. Pushes(t, c, Frame(k, Mod(t)))
    BY <1>1, <2>1, CallPushes
  <2>3. /\ stack'[t][1] = c
        /\ stack'[t][2].at = k /\ stack'[t][2].mod = stack[t][1].mod
        /\ Len(stack'[t]) = Len(stack[t]) + 1
        /\ \A i \in 2..Len(stack[t]) : stack'[t][i + 1] = stack[t][i]
    BY <2>2, <2>1 DEF Pushes, Frame
  <2>4. \A i \in 1..Len(stack[t]) : FromInit(t, i + 1)' <=> FromInit(t, i)
    <3> TAKE i \in 1..Len(stack[t])
    <3>1. i < Len(stack[t]) => i + 1 \in 2..Len(stack[t])
      BY <2>1
    <3>2. i < Len(stack[t]) => stack'[t][i + 1 + 1] = stack[t][i + 1]
      BY <2>3, <3>1
    <3> QED
      BY <2>1, <2>3, <3>2 DEF FromInit
  <2>5. 1 \in 1..Len(stack[t]) /\ FrameSound(t, 1)
    BY <2>1 DEF PythonFirst
  <2>7. c.at = "import" /\ c.mod \in {"sitepyxpcom", "xpcom"} => Inner(c)
    BY DEF Inner, Import, Frame, FrameType
  <2>8. FrameSound(t, 1)'
    <3>1. c.at = "ensure" => FromInit(t, 1)'
      BY <1>6, <2>1, <2>3 DEF CallsOn, FromInit
    <3>2. c.at \notin Locked /\ c.at \notin InitLabels /\ c.at \notin Section
      BY <1>6 DEF CallsOn, Locked, InitLabels, Ensuring, Section
    <3> QED
      BY <2>3, <3>1, <3>2 DEF FrameSound
  <2>9. FrameSound(t, 2)'
    <3>1. k \in Locked => FromInit(t, 2)'
      BY <1>6, <2>1, <2>4, <2>5 DEF CallsOn, FrameSound
    <3>2. k # "ensure"
      BY <1>6 DEF CallsOn
    <3>3. k \in InitLabels => modules'["xpcom"] # "absent"
      BY <1>6, <2>1, <2>5 DEF CallsOn, FrameSound, Forward
    <3>4. k \in Section => Inner(c)
      BY <1>6, <2>7 DEF CallsOn, Section
    <3>5. \A j \in 1..(2 - 1) : j = 1
      OBVIOUS
    <3> QED
      BY <2>3, <3>1, <3>2, <3>3, <3>4, <3>5 DEF FrameSound, Inner
  <2>10. ASSUME NEW i \in 2..Len(stack[t]) PROVE FrameSound(t, i + 1)'
    <3>1. i \in 1..Len(stack[t]) /\ FrameSound(t, i)
          /\ stack'[t][i + 1] = stack[t][i]
      BY <2>1, <2>3 DEF PythonFirst
    <3>2. ASSUME stack[t][i].at \in Section, NEW j \in 1..(i + 1 - 1)
          PROVE  Inner(stack'[t][j])
      <4>0. Inner(stack[t][1])
        BY <1>3, <3>2
      <4>1. stack[t][1].mod = "sitepyxpcom" /\ c = Import(host.site)
            /\ host.site = "xpcom"
        <5>1. stack[t][1].mod \in {"sitepyxpcom", "xpcom"}
          BY <4>0 DEF Inner, Import, Frame
        <5>2. l = "run" /\ c = Import(Imported(Mod(t)))
          BY <1>6, <2>1, <5>1 DEF CallsOn
        <5>3. Mod(t) = "sitepyxpcom"
          BY <2>1, <4>0, <5>2 DEF Inner, Import, Frame
        <5>4. c = Import(host.site) /\ host.site \in Modules
          BY <1>6, <5>2, <5>3 DEF Imported, CallsOn, Import, Frame
        <5>5. host.site \in {"xpcom", "_xpcom", None}
          BY HostAssumption DEF SInv, TypesOK, HostType
        <5> QED
          BY <2>1, <5>3, <5>4, <5>5, NoneAssumption DEF PythonFirst
      <4>2. CASE j = 1
        BY <2>3, <4>1, <4>2 DEF Inner
      <4>3. CASE j = 2
        BY <2>3, <4>1, <4>3 DEF Inner
      <4>4. CASE j > 2
        <5>1. j - 1 \in 2..Len(stack[t]) /\ j - 1 \in 1..(i - 1)
              /\ j = (j - 1) + 1
          BY <2>1, <4>4
        <5>2. stack'[t][j] = stack[t][j - 1]
          BY <2>3, <5>1
        <5> QED
          BY <3>1, <3>2, <5>1, <5>2 DEF FrameSound
      <4> QED
        BY <4>2, <4>3, <4>4
    <3>3. FromInit(t, i + 1)' <=> FromInit(t, i)
      BY <2>4, <3>1
    <3>4. stack[t][i].at \in Section
            => \A j \in 1..(i + 1 - 1) : Inner(stack'[t][j])
      BY <3>2
    <3>5. /\ stack'[t][i + 1].at \in Locked => FromInit(t, i + 1)'
          /\ stack'[t][i + 1].at = "ensure" => FromInit(t, i + 1)' \/ initialized'
      BY <3>1, <3>3 DEF FrameSound, Forward
    <3>6. stack'[t][i + 1].at \in InitLabels => modules'["xpcom"] # "absent"
      BY <3>1 DEF FrameSound, Forward
    <3>7. stack'[t][i + 1].at \in Section
            => \A j \in 1..(i + 1 - 1) : Inner(stack'[t][j])
      BY <3>1, <3>4
    <3> QED
      BY <3>5, <3>6, <3>7 DEF FrameSound, Inner
  <2>11. ASSUME NEW i \in 1..Len(stack'[t]) PROVE FrameSound(t, i)'
    <3>1. CASE i \in {1, 2}
      BY <2>8, <2>9, <3>1
    <3>2. CASE i \notin {1, 2}
      <4>1. i - 1 \in 2..Len(stack[t])
        BY <2>1, <2>3, <3>2
      <4>2. PICK j \in 2..Len(stack[t]) : j = i - 1
        BY <4>1
      <4>3. j + 1 = i
        BY <4>2
      <4> QED
        BY <2>10, <4>3
    <3> QED
      BY <3>1, <3>2
  <2> QED
    BY <2>2, <2>11 DEF Pushes
<1>7. ASSUME stack[t] # <<>>, Return(t)
      PROVE  OthersStay(t) /\ \A i \in 1..Len(stack'[t]) : FrameSound(t, i)'
  <2>1. Pops(t)
    BY <1>1, <1>7, ReturnPops
  <2>2. ASSUME NEW i \in 1..Len(stack'[t]) PROVE FrameSound(t, i)'
    <3>1. i + 1 \in 1..Len(stack[t]) /\ stack'[t][i] = stack[t][i + 1]
      BY <1>1, <2>1 DEF Pops
    <3>2. PICK j \in 1..Len(stack[t]) : j = i + 1
      BY <3>1
    <3>3. FrameSound(t, j) /\ stack'[t][i] = stack[t][j]
      BY <3>1, <3>2 DEF PythonFirst
    <3>4. FromInit(t, j) => FromInit(t, i)'
      <4> HAVE FromInit(t, j)
      <4>1. i + 1 \in 1..(Len(stack[t]) - 1) /\ i < Len(stack'[t])
        BY <1>1, <2>1, <3>2 DEF FromInit, Pops
      <4> QED
        BY <2>1, <3>2, <4>1 DEF FromInit, Pops
    <3>5. ASSUME stack'[t][i].at \in Section, NEW p \in 1..(i - 1)
          PROVE  Inner(stack'[t][p])
      <4>1. p + 1 \in 1..(j - 1) /\ p \in 1..(Len(stack[t]) - 1)
        BY <1>1, <3>2
      <4>2. stack'[t][p] = stack[t][p + 1]
        BY <2>1, <4>1 DEF Pops
      <4> QED
        BY <3>3, <3>5, <4>1, <4>2 DEF FrameSound
    <3> QED
      BY <3>3, <3>4, <3>5 DEF FrameSound, Forward, Inner
  <2> QED
    BY <2>1, <2>2 DEF Pops
<1>8. ASSUME NEW s \in Seq(FrameType), Begins(t, s)
      PROVE  OthersStay(t) /\ \A i \in 1..Len(stack'[t]) : FrameSound(t, i)'
  <2>1. stack'[t] = s /\ OthersStay(t)
    BY <1>1, <1>8 DEF Begins, StackType, OthersStay
  <2>2. s[1].at = "ensure" => initialized'
    BY <1>8 DEF Begins, PythonFirst, Forward
  <2>3. \A i \in 1..Len(s) : s[i].at \in {"import", "ensure", "loader"}
                             /\ (s[i].at = "ensure" => initialized')
    BY <1>8, <2>2 DEF Begins, Frame
  <2> QED
    BY <2>1, <2>3 DEF FrameSound, Locked, InitLabels, Ensuring, Section
<1> QED
  BY <1>5, <1>6, <1>7, <1>8 DEF Moves

\* A move keeps what holds of a host where XPCOM was first.
LEMMA XPCOMKept ==
  ASSUME SInv, XPCOMFirst, NEW t \in Threads, Moves(t), Forward
  PROVE  XPCOMFirst'
<1> DEFINE Fine(u, i) ==
             /\ stack[u][i].mod = "_xpcom" => initialized
             /\ stack[u][i].at \in Locked => ~FromInit(u, i)
<1>1. StackType /\ \A u \in Threads : Len(stack[u]) \in Nat
  BY DEF SInv, TypesOK, StackType
<1>2. \A u \in Threads : \A i \in 1..Len(stack[u]) : Fine(u, i)
  BY DEF XPCOMFirst
<1>3. OthersStay(t) =>
        \A u \in Threads \ {t} : \A i \in 1..Len(stack'[u]) : Fine(u, i)'
  BY <1>1, <1>2 DEF FromInit, OthersStay, Forward
<1>4. SUFFICES /\ OthersStay(t)
               /\ \A i \in 1..Len(stack'[t]) : Fine(t, i)'
  BY <1>3 DEF XPCOMFirst, Forward
<1>5. ASSUME NEW l \in Labels, NEW k \in Labels, GoesOn(t, l, k)
      PROVE  OthersStay(t) /\ \A i \in 1..Len(stack'[t]) : Fine(t, i)'
  <2>1. /\ stack[t] # <<>> /\ stack[t][1].at = l /\ Mod(t) = stack[t][1].mod
        /\ Len(stack[t]) \in Nat \ {0} /\ Goto(t, k)
    BY <1>5, AtHead DEF GoesOn
  <2>2. Replaces(t, Frame(k, Mod(t)))
    BY <1>1, <2>1, GotoReplaces
  <2>3. /\ stack'[t][1].at = k /\ stack'[t][1].mod = stack[t][1].mod
        /\ Len(stack'[t]) = Len(stack[t])
        /\ \A i \in 2..Len(stack[t]) : stack'[t][i] = stack[t][i]
    BY <2>1, <2>2 DEF Replaces, Frame
  <2>4. \A i \in 1..Len(stack[t]) : FromInit(t, i)' <=> FromInit(t, i)
    BY <2>1, <2>3 DEF FromInit
  <2>5. 1 \in 1..Len(stack[t]) /\ Fine(t, 1)
    BY <1>2, <2>1
  \* Only init_xpcom calls with the GIL, and here it finds all set up.
  <2>6. FromInit(t, 1) => initialized
    <3> HAVE FromInit(t, 1)
    <3>1. 2 \in 1..Len(stack[t]) /\ stack[t][2].at = "module"
      BY <2>1 DEF FromInit
    <3>2. FrameOK(stack[t][2])
      BY <3>1 DEF SInv, Stacks, Nested
    <3>3. stack[t][2].mod = "_xpcom"
      BY <3>1, <3>2 DEF FrameOK, InitLabels
    <3> QED
      BY <1>2, <3>1, <3>3
  <2>7. Fine(t, 1)'
    <3>1. k \in Locked => ~FromInit(t, 1)
      BY <1>5, <2>1, <2>5, <2>6 DEF GoesOn
    <3> QED
      BY <2>3, <2>4, <2>5, <3>1 DEF Forward
  <2>8. \A i \in 2..Len(stack[t]) : Fine(t, i)'
    BY <1>2, <2>1, <2>3, <2>4 DEF Forward
  <2>9. \A i \in 1..Len(stack'[t]) : Fine(t, i)'
    BY <2>1, <2>3, <2>7, <2>8
  <2> QED
    BY <2>2, <2>9 DEF Replaces
<1>6. ASSUME NEW l \in Labels, NEW k \in Labels, NEW c \in FrameType,
             CallsOn(t, l, c, k)
      PROVE  OthersStay(t) /\ \A i \in 1..Len(stack'[t]) : Fine(t, i)'
  <2>1. /\ stack[t] # <<>> /\ stack[t][1].at = l /\ Mod(t) = stack[t][1].mod
        /\ Len(stack[t]) \in Nat \ {0} /\ CallThen(t, c, k)
    BY <1>6, AtHead DEF CallsOn
  <2>2. Pushes(t, c, Frame(k, Mod(t)))
    BY <1>1, <2>1, CallPushes
  <2>3. /\ stack'[t][1] = c
        /\ stack'[t][2].at = k /\ stack'[t][2].mod = stack[t][1].mod
        /\ Len(stack'[t]) = Len(stack[t]) + 1
        /\ \A i \in 2..Len(stack[t]) : stack'[t][i + 1] = stack[t][i]
    BY <2>2, <2>1 DEF Pushes, Frame
  <2>4. \A i \in 1..Len(stack[t]) : FromInit(t, i + 1)' <=> FromInit(t, i)
    <3> TAKE i \in 1..Len(stack[t])
    <3>1. i < Len(stack[t]) => i + 1 \in 2..Len(stack[t])
      BY <2>1
    <3>2. i < Len(stack[t]) => stack'[t][i + 1 + 1] = stack[t][i + 1]
      BY <2>3, <3>1
    <3> QED
      BY <2>1, <2>3, <3>2 DEF FromInit
  <2>5. 1 \in 1..Len(stack[t]) /\ Fine(t, 1)
    BY <1>2, <2>1
  <2>6. Fine(t, 1)'
    <3>1. c.at \notin Locked
      BY <1>6 DEF CallsOn, Locked, Ensuring, Section
    <3>2. Imported(Mod(t)) # "_xpcom" \/ l # "run"
      <4> SUFFICES ASSUME l = "run" PROVE Imported(Mod(t)) # "_xpcom"
        OBVIOUS
      <4>1. Mod(t) \in {"sitepyxpcom", "xpcom"}
        BY <1>6, AtHead DEF CallsOn, FrameOK
      <4> QED
        BY <4>1, NoneAssumption DEF Imported, XPCOMFirst, Modules
    <3>3. c.mod = "_xpcom" => initialized
      BY <1>6, <3>2 DEF CallsOn
    <3> QED
      BY <2>3, <3>1, <3>3 DEF Forward
  <2>7. Fine(t, 1 + 1)'
    <3>1. k \in Locked => l \in Locked
      BY <1>6 DEF CallsOn
    <3> QED
      BY <2>1, <2>3, <2>4, <2>5, <3>1 DEF Forward
  <2>8. \A i \in 2..Len(stack[t]) : Fine(t, i + 1)'
    <3> TAKE i \in 2..Len(stack[t])
    <3>1. i \in 1..Len(stack[t]) /\ Fine(t, i)
      BY <1>2, <2>1
    <3>2. FromInit(t, i + 1)' <=> FromInit(t, i)
      BY <2>4, <3>1
    <3> QED
      BY <2>3, <3>1, <3>2 DEF Forward
  <2>9. ASSUME NEW i \in 1..Len(stack'[t]) PROVE Fine(t, i)'
    <3>1. CASE i \in {1, 2}
      BY <2>6, <2>7, <3>1
    <3>2. CASE i \notin {1, 2}
      <4>1. i - 1 \in 2..Len(stack[t])
        BY <2>1, <2>3, <3>2
      <4>2. PICK j \in 2..Len(stack[t]) : j = i - 1
        BY <4>1
      <4>3. j + 1 = i
        BY <4>2
      <4> QED
        BY <2>8, <4>3
    <3> QED
      BY <3>1, <3>2
  <2> QED
    BY <2>2, <2>9 DEF Pushes
<1>7. ASSUME stack[t] # <<>>, Return(t)
      PROVE  OthersStay(t) /\ \A i \in 1..Len(stack'[t]) : Fine(t, i)'
  <2>1. Pops(t)
    BY <1>1, <1>7, ReturnPops
  <2>2. ASSUME NEW i \in 1..Len(stack'[t]) PROVE Fine(t, i)'
    <3>1. i + 1 \in 1..Len(stack[t]) /\ stack'[t][i] = stack[t][i + 1]
      BY <1>1, <2>1 DEF Pops
    <3>2. PICK j \in 1..Len(stack[t]) : j = i + 1
      BY <3>1
    <3>3. Fine(t, j) /\ stack'[t][i] = stack[t][j]
      BY <1>2, <3>1, <3>2
    <3>4. FromInit(t, i)' => FromInit(t, j)
      <4> HAVE FromInit(t, i)'
      <4>1. i + 1 \in 1..(Len(stack[t]) - 1) /\ j < Len(stack[t])
        BY <1>1, <2>1, <3>2 DEF FromInit, Pops
      <4> QED
        BY <2>1, <3>2, <4>1 DEF FromInit, Pops
    <3> QED
      BY <3>3, <3>4 DEF Forward
  <2> QED
    BY <2>1, <2>2 DEF Pops
<1>8. ASSUME NEW s \in Seq(FrameType), Begins(t, s)
      PROVE  OthersStay(t) /\ \A i \in 1..Len(stack'[t]) : Fine(t, i)'
  <2>1. stack'[t] = s /\ OthersStay(t)
    BY <1>1, <1>8 DEF Begins, StackType, OthersStay
  <2>2. s[1].mod = "_xpcom" => initialized
    BY <1>8, NoneAssumption DEF Begins, XPCOMFirst, Modules
  <2>3. \A i \in 1..Len(s) : /\ s[i].at \in {"import", "ensure", "loader"}
                             /\ s[i].mod = "_xpcom" => initialized
    BY <1>8, <2>2, NoneAssumption DEF Begins, Frame, Modules
  <2> QED
    BY <2>1, <2>3 DEF Locked, Ensuring, Section, Forward
<1> QED
  BY <1>5, <1>6, <1>7, <1>8 DEF Moves

\* Nobody waits with the GIL for a framework lock whose holder needs the GIL.
\* Where Python came first both threads would be in init_xpcom and have the
\* import lock; where XPCOM came first nobody waits with the GIL.
THEOREM NoStandOffOnSoundHosts ==
  ASSUME \A h \in Hosts : SoundHost(h)
  PROVE  Spec => []NoStandOff
<1> DEFINE Inv == SInv /\ (PythonFirst \/ XPCOMFirst)
<1>1. Init => Inv
  <2> SUFFICES ASSUME Init PROVE PythonFirst \/ XPCOMFirst
    BY SInvInit
  <2>1. SoundHost(host) /\ \A t \in Threads : Len(stack[t]) = 0
    BY DEF Init
  <2>2. modules["_xpcom"] # "loaded"
    BY DEF Init, Modules
  <2> QED
    BY <2>1, <2>2 DEF SoundHost, PythonFirst, XPCOMFirst
<1>2. Inv /\ [Next]_vars => Inv'
  <2> SUFFICES ASSUME Inv, [Next]_vars PROVE Inv'
    OBVIOUS
  <2>1. CASE Next
    BY <2>1, NextMoves, PythonKept, XPCOMKept, SInvNext
  <2>2. CASE UNCHANGED vars
    <3>1. PythonFirst => PythonFirst'
      BY <2>2 DEF vars, env, PythonFirst, FrameSound, FromInit
    <3>2. XPCOMFirst => XPCOMFirst'
      BY <2>2 DEF vars, env, XPCOMFirst, FromInit
    <3> QED
      BY <3>1, <3>2, SInvNext
  <2> QED
    BY <2>1, <2>2
<1>3. ASSUME Inv PROVE NoStandOff
  <2> SUFFICES ASSUME NEW t \in Threads, At(t, "lock"), gil = t,
                      framework # None
               PROVE  FALSE
    BY DEF NoStandOff
  <2>1. FromInit(t, 1) /\ stack[t][1].at = "lock" /\ Len(stack[t]) \in Nat
        /\ stack[t][1].mod = None
    BY <1>3, AtHead, CalledWithGIL DEF FrameOK, Ensuring
  <2>2. 1 \in 1..Len(stack[t]) /\ 2 \in 1..Len(stack[t])
    BY <2>1 DEF FromInit
  <2>3. CASE XPCOMFirst
    BY <2>1, <2>2, <2>3 DEF XPCOMFirst, Locked, Ensuring, Section
  <2>4. CASE PythonFirst
    <3>0. PICK u \in Threads : framework = u
      BY <1>3 DEF SInv, TypesOK
    <3>1. PICK i \in 1..Len(stack[u]) : stack[u][i].at \in Section
      BY <1>3, <3>0 DEF SInv, HeldBySome
    <3>2. FromInit(u, i) /\ \A j \in 1..(i - 1) : Inner(stack[u][j])
      BY <2>4, <3>1 DEF PythonFirst, FrameSound, Locked, Ensuring, Section
    <3>3. Len(stack[u]) \in Nat /\ i + 1 \in 1..Len(stack[u])
      BY <1>3, <3>1, <3>2 DEF SInv, TypesOK, FromInit
    <3>4. imports = u
      BY <1>3, <3>2, <3>3
         DEF SInv, Stacks, FramesTrue, FrameTrue, FromInit, Holding, ImportLabels
    <3>5. imports = t
      BY <1>3, <2>1, <2>2
         DEF SInv, Stacks, FramesTrue, FrameTrue, FromInit, Holding, ImportLabels
    <3>6. i # 1 /\ 1 \in 1..(i - 1)
      BY <2>1, <3>1, <3>4, <3>5 DEF Section
    <3>7. Inner(stack[t][1])
      BY <3>2, <3>4, <3>5, <3>6
    <3> QED
      BY <2>1, <3>7, NoneAssumption DEF Inner, Import, Frame, Modules
  <2> QED
    BY <1>3, <2>3, <2>4
<1> QED
  BY <1>1, <1>2, <1>3, PTL DEF Spec

-----------------------------------------------------------------------------
(* "The dance" of init_xpcom. *)

\* Between the look at init_xpcom_real and what it stands for.
Dancing == {"app_info", "load", "register", "real"}

\* As long as nothing has failed: who finds init_xpcom_real set finds the
\* dance done, or some thread about to finish it, which has the import lock.
Danced ==
  failures = 0 =>
    /\ \A t \in Threads, l \in Dancing : At(t, l) => xpcom
    /\ \A t \in Threads : At(t, "register") => realInit
    /\ \A t \in Threads : At(t, "real") => registered
    /\ realInit => xpcom /\ (registered \/ \E t \in Threads : At(t, "register"))

\* A step of t that has nothing to do with the dance.
Quiet(t) ==
  /\ OthersStay(t) /\ UNCHANGED dance
  /\ ~At(t, "register") /\ \A l \in Dancing : ~At(t, l)'

LEMMA GotoLands ==
  ASSUME StackType, NEW t \in Threads, NEW k \in Labels, stack[t] # <<>>,
         Goto(t, k)
  PROVE  OthersStay(t) /\ \A l : At(t, l)' <=> l = k
<1>1. Replaces(t, Frame(k, Mod(t))) /\ Len(stack[t]) > 0
  BY GotoReplaces, Innermost
<1>2. stack'[t] \in Seq(FrameType) /\ Len(stack'[t]) > 0 /\ stack'[t][1].at = k
  BY <1>1 DEF Replaces, StackType, Frame
<1> QED
  BY <1>1, <1>2 DEF Replaces, At

LEMMA CallLands ==
  ASSUME StackType, NEW t \in Threads, NEW k \in Labels, stack[t] # <<>>,
         NEW c \in FrameType, CallThen(t, c, k)
  PROVE  OthersStay(t) /\ \A l : At(t, l)' <=> l = c.at
<1>1. Pushes(t, c, Frame(k, Mod(t))) /\ Len(stack[t]) > 0
  BY CallPushes, Innermost
<1>2. stack'[t] \in Seq(FrameType) /\ Len(stack'[t]) > 0 /\ stack'[t][1] = c
  BY <1>1 DEF Pushes, StackType
<1> QED
  BY <1>1, <1>2 DEF Pushes, At

\* What has waited does not dance.
LEMMA ReturnLands ==
  ASSUME SInv, NEW t \in Threads, stack[t] # <<>>, Return(t)
  PROVE  OthersStay(t) /\ \A l \in Dancing : ~At(t, l)'
<1>1. StackType /\ Pops(t) /\ Len(stack[t]) \in Nat \ {0}
  BY ReturnPops, Innermost DEF SInv, TypesOK, StackType
<1>2. ASSUME stack'[t] # <<>> PROVE Head(stack'[t]).at \in Waiting
  <2>1. stack'[t] \in Seq(FrameType) /\ Len(stack'[t]) = Len(stack[t]) - 1
    BY <1>1 DEF Pops, StackType
  <2>2. Head(stack'[t]) = stack'[t][1] /\ Len(stack'[t]) > 0
    BY <1>2, <2>1
  <2>3. 1 \in 1..(Len(stack[t]) - 1) /\ 2 \in 1..Len(stack[t])
    BY <1>1, <2>1, <2>2
  <2>4. stack'[t][1] = stack[t][2]
    BY <1>1, <2>3 DEF Pops
  <2> QED
    BY <2>2, <2>3, <2>4 DEF SInv, Stacks, Nested
<1> QED
  BY <1>1, <1>2 DEF Pops, At, Dancing, Waiting, CLabels

LEMMA QuietKeeps ==
  ASSUME SInv, Danced, NEW t \in Threads, Quiet(t),
         failures' = 0 => failures = 0
  PROVE  Danced'
<1>1. \A u \in Threads : \A l : u # t => (At(u, l)' <=> At(u, l))
  BY DEF Quiet, OthersStay, At
<1> QED
  BY <1>1 DEF Quiet, Danced, Dancing, dance

\* Imports and PyXPCOM_EnsurePythonEnvironment leave the dance alone.
LEMMA OthersQuiet ==
  ASSUME SInv, NEW t \in Threads, Importing(t) \/ EnsurePythonEnvironment(t)
  PROVE  Quiet(t) /\ (failures' = 0 => failures = 0)
<1> DEFINE Stay == {"error", "got_error", "publish", "leave", "unlock", "lock",
                    "again", "site", "import", "package", "run", "ran", "init"}
<1>1. StackType /\ failures \in Nat /\ Stay \subseteq Labels
      /\ Stay \cap Dancing = {}
  BY DEF SInv, TypesOK, StackType, Labels, ImportLabels, CLabels, Dancing
<1>2. \A l : At(t, l) => stack[t] # <<>> /\ ~(l # "register" /\ At(t, "register"))
  BY DEF At
<1>3. ASSUME stack[t] # <<>>, NEW k \in Stay, Goto(t, k), ~At(t, "register"),
             UNCHANGED dance
      PROVE  Quiet(t)
  BY <1>1, <1>3, GotoLands DEF Quiet
<1>4. ASSUME stack[t] # <<>>, NEW k \in Stay, NEW m \in Modules,
             CallThen(t, Import(m), k), ~At(t, "register"), UNCHANGED dance
      PROVE  Quiet(t)
  <2>1. Import(m) \in FrameType /\ Import(m).at = "import"
    BY DEF Import, Frame, FrameType, Labels, ImportLabels
  <2> QED
    BY <1>1, <1>4, <2>1, CallLands DEF Quiet, Dancing
<1>5. ASSUME stack[t] # <<>>, Return(t), ~At(t, "register"), UNCHANGED dance
      PROVE  Quiet(t)
  BY <1>5, ReturnLands DEF Quiet
<1>6. ASSUME Importing(t) PROVE Quiet(t) /\ (failures' = 0 => failures = 0)
  <2>1. CASE AlreadyImported(t)
    BY <1>2, <1>5, <2>1 DEF AlreadyImported, EndImport
  <2>2. CASE ImportFails(t)
    BY <1>1, <1>2, <1>5, <2>2 DEF ImportFails, EndImport, Fail
  <2>3. CASE ImportPackage(t)
    BY <1>2, <1>4, <2>3 DEF ImportPackage, Modules
  <2>4. CASE PackageImported(t)
    BY <1>2, <1>3, <1>5, <2>4 DEF PackageImported, EndImport
  <2>5. CASE RunModule(t)
    BY <1>2, <1>3, <2>5 DEF RunModule
  <2>6. CASE RunInit(t)
    BY <1>2, <1>3, <2>6 DEF RunInit
  <2>7. CASE RunCode(t)
    <3>1. Mod(t) \in {"sitepyxpcom", "xpcom"}
      BY <2>7, AtHead DEF RunCode, FrameOK
    <3>2. Imported(Mod(t)) \in Modules
      BY <2>7, <3>1, HostAssumption
         DEF RunCode, Imported, SInv, TypesOK, HostType, Modules
    <3> QED
      BY <1>2, <1>4, <2>7, <3>2 DEF RunCode
  <2>8. CASE CodeRan(t)
    BY <1>2, <1>5, <2>8 DEF CodeRan, EndImport
  <2> QED
    BY <1>6, <2>1, <2>2, <2>3, <2>4, <2>5, <2>6, <2>7, <2>8 DEF Importing
<1>7. ASSUME EnsurePythonEnvironment(t)
      PROVE  Quiet(t) /\ (failures' = 0 => failures = 0)
  <2>1. CASE AlreadyInitialized(t)
    BY <1>2, <1>5, <2>1 DEF AlreadyInitialized
  <2>2. CASE NotInitialized(t)
    BY <1>2, <1>3, <2>2 DEF NotInitialized
  <2>3. CASE AcquireGlobalLock(t)
    BY <1>2, <1>3, <2>3 DEF AcquireGlobalLock
  <2>4. CASE BeatenToIt(t)
    BY <1>2, <1>5, <2>4 DEF BeatenToIt
  <2>5. CASE InitPython(t)
    BY <1>2, <1>3, <2>5 DEF InitPython
  <2>6. CASE AddStandardPaths(t)
    BY <1>2, <1>3, <1>4, <2>6 DEF AddStandardPaths, ImportFromC, Modules
  <2>7. CASE ImportException(t)
    BY <1>2, <1>3, <1>4, <2>7 DEF ImportException, ImportFromC, Modules
  <2>8. CASE SetException(t)
    BY <1>2, <1>3, <2>8 DEF SetException
  <2>9. CASE Publish(t)
    BY <1>2, <1>3, <1>4, <2>9 DEF Publish, ImportFromC, Modules
  <2>10. CASE Leave(t)
    BY <1>2, <1>3, <2>10 DEF Leave
  <2>11. CASE ReleaseGlobalLock(t)
    BY <1>2, <1>5, <2>11 DEF ReleaseGlobalLock
  <2> QED
    BY <1>7, <2>1, <2>2, <2>3, <2>4, <2>5, <2>6, <2>7, <2>8, <2>9, <2>10, <2>11
       DEF EnsurePythonEnvironment
<1> QED
  BY <1>6, <1>7

\* So do the beginning of a call and the module loader.
LEMMA StartQuiet ==
  ASSUME SInv, Start \/ LoaderImports \/ LoaderGot
  PROVE  \E t \in Threads : Quiet(t) /\ failures' = failures
<1>1. StackType
  BY DEF SInv, TypesOK, StackType
<1>2. ASSUME NEW t \in Threads, NEW s \in Seq(FrameType), Len(s) \in {1, 2},
             stack[t] = <<>>, stack' = [stack EXCEPT ![t] = s],
             s[1].at \in {"import", "ensure"}, UNCHANGED dance
      PROVE  Quiet(t)
  <2>1. stack'[t] = s /\ OthersStay(t)
    BY <1>1, <1>2 DEF StackType, OthersStay
  <2>2. Head(s) = s[1]
    BY <1>2
  <2> QED
    BY <1>2, <2>1, <2>2 DEF Quiet, At, Dancing
<1>b. /\ Frame("ensure", None) \in FrameType
      /\ Frame("loader", None) \in FrameType
      /\ Frame("ensure", None).at = "ensure"
  BY DEF Frame, FrameType, Labels
<1>3. CASE \E t \in Pythons, m \in {"xpcom", "_xpcom"} : ImportStatement(t, m)
  <2>1. PICK t \in Pythons, m \in {"xpcom", "_xpcom"} : ImportStatement(t, m)
    BY <1>3
  <2>2. Import(m) \in FrameType /\ Import(m).at = "import"
    BY DEF Import, Frame, FrameType, Labels, ImportLabels, Modules
  <2>3. PICK s \in Seq(FrameType) :
          s = <<Import(m)>> /\ Len(s) = 1 /\ s[1] = Import(m)
    BY <2>2, OneFrame
  <2> QED
    BY <1>2, <2>1, <2>2, <2>3 DEF ImportStatement, Threads
<1>4. CASE \E t \in Natives : EmbedderEnsures(t)
  <2>1. PICK t \in Natives : EmbedderEnsures(t)
    BY <1>4
  <2>2. PICK f \in FrameType : f = Frame("ensure", None) /\ f.at = "ensure"
    BY <1>b
  <2>3. PICK s \in Seq(FrameType) : s = <<f>> /\ Len(s) = 1 /\ s[1] = f
    BY <2>2, OneFrame
  <2> QED
    BY <1>2, <2>1, <2>2, <2>3 DEF EmbedderEnsures, Threads
<1>5. CASE LoaderInit
  <2>2. PICK f \in FrameType, g \in FrameType :
          f = Frame("ensure", None) /\ g = Frame("loader", None)
          /\ f.at = "ensure"
    BY <1>b
  <2>3. PICK s \in Seq(FrameType) : s = <<f, g>> /\ Len(s) = 2 /\ s[1] = f
    <3>1. /\ <<f, g>> \in Seq(FrameType) /\ Len(<<f, g>>) = 2
          /\ <<f, g>>[1] = f
      BY TwoFrames
    <3> QED
      BY <3>1
  <2> QED
    BY <1>2, <1>5, <2>2, <2>3, ThreadAssumption DEF LoaderInit, Threads
<1>6. CASE LoaderImports
  <2>1. Import("_xpcom") \in FrameType /\ Import("_xpcom").at = "import"
        /\ "loader_got" \in Labels
    BY DEF Import, Frame, FrameType, Labels, ImportLabels, Modules
  <2>2. Main \in Threads /\ stack[Main] # <<>> /\ ~At(Main, "register")
    BY <1>6, ThreadAssumption DEF LoaderImports, At, Threads
  <2> QED
    BY <1>1, <1>6, <2>1, <2>2, CallLands DEF LoaderImports, Quiet, Dancing
<1>7. CASE LoaderGot
  <2>1. Main \in Threads /\ stack[Main] # <<>> /\ ~At(Main, "register")
    BY <1>7, ThreadAssumption DEF LoaderGot, At, Threads
  <2> QED
    BY <1>7, <2>1, ReturnLands DEF LoaderGot, Quiet
<1> QED
  BY <1>3, <1>4, <1>5, <1>6, <1>7 DEF Start

\* init_xpcom finishes the dance before it goes on, and the import lock keeps
\* every other thread out of it until then.
LEMMA InitXpcomDances ==
  ASSUME SInv, Danced, NEW t \in Threads, InitXpcom(t)
  PROVE  Danced'
<1>1. StackType /\ failures \in Nat
  BY DEF SInv, TypesOK, StackType
<1>2. \A l : At(t, l) => stack[t] # <<>> /\ \A k : At(t, k) => k = l
  BY DEF At
<1>3. {"init", "app_info", "load", "register", "real", "module"} \subseteq Labels
  BY DEF Labels, ImportLabels
<1>4. \A u \in Threads : \A l : OthersStay(t) /\ u # t => (At(u, l)' <=> At(u, l))
  BY DEF OthersStay, At
<1>5. CASE AlreadyDanced(t)
  <2>1. /\ At(t, "init") /\ realInit /\ OthersStay(t)
        /\ \A l : At(t, l)' <=> l = "real"
    BY <1>1, <1>2, <1>3, <1>5, GotoLands DEF AlreadyDanced
  <2>2. \A u \in Threads : At(u, "register") => FALSE
    <3> SUFFICES ASSUME NEW u \in Threads, At(u, "register") PROVE FALSE
      OBVIOUS
    <3>1. imports = u
      BY AtHead DEF FrameTrue, Holding, ImportLabels
    <3>2. imports = t
      BY <2>1, AtHead DEF FrameTrue, Holding, ImportLabels
    <3> QED
      BY <1>2, <2>1, <3>1, <3>2
  <2>3. failures = 0 => xpcom /\ registered
    BY <2>1, <2>2 DEF Danced
  <2> QED
    BY <1>4, <1>5, <2>1, <2>2, <2>3 DEF AlreadyDanced, Danced, Dancing, dance
<1>6. CASE EnsureXPCOM(t)
  <2>1. OthersStay(t) /\ (\A l : At(t, l)' <=> l = "app_info")
        /\ At(t, "init") /\ ~At(t, "register")
    BY <1>1, <1>2, <1>3, <1>6, GotoLands DEF EnsureXPCOM
  <2> QED
    BY <1>4, <1>6, <2>1 DEF EnsureXPCOM, Danced, Dancing
<1>7. CASE RegisterPyAppInfo(t)
  <2>1. OthersStay(t) /\ (\A l : At(t, l)' <=> l = "load")
        /\ At(t, "app_info") /\ ~At(t, "register")
    BY <1>1, <1>2, <1>3, <1>7, GotoLands DEF RegisterPyAppInfo
  <2> QED
    BY <1>4, <1>7, <2>1 DEF RegisterPyAppInfo, Danced, Dancing, dance
<1>8. CASE EnsurePyXPCOM(t)
  <2>1. OthersStay(t) /\ (\A l : At(t, l)' <=> l = "register")
        /\ At(t, "load") /\ ~At(t, "register")
    BY <1>1, <1>2, <1>3, <1>8, GotoLands DEF EnsurePyXPCOM
  <2> QED
    BY <1>4, <1>8, <2>1 DEF EnsurePyXPCOM, Danced, Dancing
<1>9. CASE RegisterPyXPCOMComponents(t)
  <2>1. OthersStay(t) /\ (\A l : At(t, l)' <=> l = "real") /\ At(t, "register")
    BY <1>1, <1>2, <1>3, <1>9, GotoLands DEF RegisterPyXPCOMComponents
  <2> QED
    BY <1>4, <1>9, <2>1 DEF RegisterPyXPCOMComponents, Danced, Dancing
<1>10. CASE DanceFails(t)
  BY <1>1, <1>10 DEF DanceFails, Fail, Danced
<1>11. CASE InitXpcomReal(t)
  <2>1. Frame("ensure", None) \in FrameType /\ Frame("ensure", None).at = "ensure"
    BY DEF Frame, FrameType, Labels
  <2>2. Quiet(t)
    BY <1>1, <1>2, <1>3, <1>11, <2>1, CallLands DEF InitXpcomReal, Quiet, Dancing
  <2> QED
    BY <1>11, <2>2, QuietKeeps DEF InitXpcomReal
<1>12. CASE InitModule(t)
  <2>1. Quiet(t)
    BY <1>2, <1>12, ReturnLands DEF InitModule, EndImport, Quiet
  <2> QED
    BY <1>12, <2>1, QuietKeeps DEF InitModule
<1> QED
  BY <1>5, <1>6, <1>7, <1>8, <1>9, <1>10, <1>11, <1>12 DEF InitXpcom

\* Until the first failure a thread that finds init_xpcom_real set finds "the
\* dance" done: XPCOM started and the components of PyXPCOM registered
\* (init_xpcom).  After a failure it may not (run startup_retry).
THEOREM DanceDoneUntilFailure == Spec => [](failures = 0 => DanceDone)
<1>1. Init => Danced
  BY DEF Init, Danced, At
<1>2. SInv /\ Danced /\ [Next]_vars => Danced'
  <2> SUFFICES ASSUME SInv, Danced, [Next]_vars PROVE Danced'
    OBVIOUS
  <2>1. CASE UNCHANGED vars
    BY <2>1 DEF vars, dance, Danced, At
  <2>2. CASE Start \/ \E t \in Threads : t = Main /\ (LoaderImports \/ LoaderGot)
    BY <2>2, StartQuiet, QuietKeeps
  <2>3. CASE \E t \in Threads : Importing(t) \/ EnsurePythonEnvironment(t)
    BY <2>3, OthersQuiet, QuietKeeps
  <2>4. CASE \E t \in Threads : InitXpcom(t)
    BY <2>4, InitXpcomDances
  <2> QED
    BY <2>1, <2>2, <2>3, <2>4 DEF Next, Step
<1>3. Danced => (failures = 0 => DanceDone)
  BY DEF Danced, DanceDone, Dancing
<1> QED
  BY <1>1, <1>2, <1>3, Inductive, PTL DEF Spec
=============================================================================
