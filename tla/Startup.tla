------------------------------ MODULE Startup ------------------------------
(***************************************************************************)
(* The start of PyXPCOM in a process: "import _xpcom" (init_xpcom in       *)
(* src/module/_xpcom.cpp, init_xpcom_real in src/XPCOMFunctions.cpp), the  *)
(* Init of the module loader (src/loader/pyloader.cpp), and                *)
(* PyXPCOM_EnsurePythonEnvironment (src/dllmain.cpp), where both end up.   *)
(*                                                                         *)
(* EnsurePythonEnvironment imports Python modules while it holds the       *)
(* framework lock, and what it imports can import _xpcom again, so each    *)
(* thread has a stack of frames; the first frame is the innermost.         *)
(*                                                                         *)
(* Three locks meet here: the framework lock, which is not recursive, the  *)
(* GIL, and Python's import lock, which is recursive.  Between two steps   *)
(* of Python code the GIL is free for any thread to take; in C code it is  *)
(* held from one step to the next.                                         *)
(***************************************************************************)
EXTENDS Naturals, Sequences

CONSTANTS
  Pythons,     \* threads that run Python code
  Natives,     \* threads of XPCOM's that come without the GIL
  Main,        \* the one on which the module loader is made
  Hosts,       \* what the process may be like at the start
  MaxFailures, \* bound on the steps that fail
  None

Threads == Pythons \cup Natives

Modules == {"sitepyxpcom", "xpcom", "_xpcom"}

\* A host: is Python up, with threads of its own?  Is XPCOM up, with the
\* Python loader registered?  Is PYXPCOM_LOG_LEVEL invalid, so that importing
\* xpcom logs a warning?  Which module does sitepyxpcom import?
HostType == [python : BOOLEAN, xpcom : BOOLEAN, warns : BOOLEAN,
             site : {"xpcom", "_xpcom", None}]

ASSUME HostAssumption == Hosts \subseteq HostType
ASSUME ThreadAssumption ==
  /\ Main \in Natives /\ Pythons \cap Natives = {} /\ None \notin Threads
ASSUME NoneAssumption == None \notin Modules
ASSUME BoundAssumption == MaxFailures \in Nat

VARIABLES
  host,        \* the host there is
  gil,         \* the thread that holds the Python lock, or None
  framework,   \* the thread that holds the framework lock, or None
  imports,     \* the thread that holds Python's import lock, or None
  pyUp,        \* Py_IsInitialized()
  initialized, \* bIsInitialized
  types,       \* the interface types are registered (InitType)
  error,       \* PyXPCOM_Error is set
  didInit,     \* bDidInitPython of the thread in the initialisation
  saved,       \* the PyGILState it found
  xpcom,       \* XPCOM is up
  registered,  \* the Python module loader is registered with XPCOM
  realInit,    \* the pointer init_xpcom_real is set
  modules,     \* sys.modules
  loader,      \* the module loader of XPCOM
  stack,       \* the frames of each thread
  failed,      \* the last import of the thread failed
  failures     \* how many steps have failed

locks == <<gil, framework, imports>>
env   == <<pyUp, initialized, types, error, didInit, saved>>
dance == <<xpcom, registered, realInit>>
vars  == <<host, locks, env, dance, modules, loader, stack, failed, failures>>

Init ==
  /\ host \in Hosts
  /\ gil = None /\ framework = None /\ imports = None
  /\ pyUp = host.python
  /\ initialized = FALSE /\ types = FALSE /\ error = FALSE
  /\ didInit = FALSE /\ saved = "unlocked"
  /\ xpcom = host.xpcom /\ registered = host.xpcom /\ realInit = FALSE
  /\ modules = [m \in Modules |-> "absent"]
  /\ loader = "none"
  /\ stack = [t \in Threads |-> <<>>]
  /\ failed = [t \in Threads |-> FALSE]
  /\ failures = 0

-----------------------------------------------------------------------------
(* Frames *)

Frame(label, m) == [at |-> label, mod |-> m]
Import(m) == Frame("import", m)

At(t, label) == stack[t] # <<>> /\ Head(stack[t]).at = label
Mod(t) == Head(stack[t]).mod

Goto(t, label) ==
  stack' = [stack EXCEPT ![t] = <<Frame(label, Mod(t))>> \o Tail(@)]

\* Call a frame and go on at label when it has returned.
CallThen(t, callee, label) ==
  stack' = [stack EXCEPT ![t] = <<callee, Frame(label, Mod(t))>> \o Tail(@)]

Return(t) == stack' = [stack EXCEPT ![t] = Tail(@)]

ImportLabels == {"import", "package", "run", "ran", "init", "app_info",
                 "load", "register", "real", "module"}

\* Where C code goes on after an import, with the GIL held.
CLabels == {"error", "got_error", "leave"}

Fail == failures < MaxFailures /\ failures' = failures + 1

-----------------------------------------------------------------------------
(* Slips: actions below as a plausible mistake in the code would have them. *)
(* Nothing here is part of the specification.                               *)

\* bIsInitialized is set before the imports, so that those may re-enter.
PublishedEarly(t) ==
  /\ At(t, "again") /\ ~initialized
  /\ gil \in {None, t}
  /\ gil' = t
  /\ pyUp' = TRUE /\ didInit' = ~pyUp
  /\ saved' = IF pyUp /\ gil = None THEN "unlocked" ELSE "locked"
  /\ initialized' = TRUE
  /\ Goto(t, "site")
  /\ UNCHANGED <<host, framework, imports, types, error, dance, modules,
                 loader, failed, failures>>

\* No second look at bIsInitialized once the lock is there.
NotCheckedAgain(t) ==
  /\ At(t, "again")
  /\ gil \in {None, t}
  /\ gil' = t
  /\ pyUp' = TRUE /\ didInit' = ~pyUp
  /\ saved' = IF pyUp /\ gil = None THEN "unlocked" ELSE "locked"
  /\ Goto(t, "site")
  /\ UNCHANGED <<host, framework, imports, initialized, types, error, dance,
                 modules, loader, failed, failures>>

\* The GIL state is put back as PyGILState_Ensure found it.
LeftAsFound(t) ==
  /\ At(t, "leave")
  /\ gil' = IF saved = "unlocked" THEN None ELSE t
  /\ Goto(t, "unlock")
  /\ UNCHANGED <<host, framework, imports, env, dance, modules, loader,
                 failed, failures>>

\* The first look at bIsInitialized, without the lock, is left out.
AlwaysLocked(t) ==
  /\ At(t, "ensure")
  /\ Goto(t, "lock")
  /\ UNCHANGED <<host, locks, env, dance, modules, loader, failed, failures>>

\* The framework lock is not released.
LockKept(t) ==
  /\ At(t, "unlock")
  /\ Return(t)
  /\ UNCHANGED <<host, locks, env, dance, modules, loader, failed, failures>>

\* A module is put into sys.modules only when its code has run.
RunBeforePresent(t) ==
  /\ At(t, "import") /\ gil = None /\ imports \in {None, t}
  /\ Mod(t) # "_xpcom" /\ modules[Mod(t)] = "absent"
  /\ imports' = t
  /\ Goto(t, "run")
  /\ UNCHANGED <<host, gil, framework, env, dance, modules, loader, failed,
                 failures>>

-----------------------------------------------------------------------------
(* Who starts *)

\* Python code imports xpcom or _xpcom.  Without a Python of the host's there
\* is nothing to run it before PyXPCOM has started one.
ImportStatement(t, m) ==
  /\ stack[t] = <<>>
  /\ host.python \/ initialized
  /\ stack' = [stack EXCEPT ![t] = <<Import(m)>>]
  /\ failed' = [failed EXCEPT ![t] = FALSE]
  /\ UNCHANGED <<host, locks, env, dance, modules, loader, failures>>

\* "just call this any time you like, and the world will be setup!"
EmbedderEnsures(t) ==
  /\ stack[t] = <<>> /\ host.xpcom
  /\ stack' = [stack EXCEPT ![t] = <<Frame("ensure", None)>>]
  /\ UNCHANGED <<host, locks, env, dance, modules, loader, failed, failures>>

\* XPCOM makes its module loader, once: nsPythonModuleLoader::Init.
LoaderInit ==
  /\ stack[Main] = <<>> /\ registered /\ loader = "none"
  /\ host.xpcom \/ modules["_xpcom"] = "loaded"
  /\ loader' = "starting"
  /\ stack' = [stack EXCEPT
                 ![Main] = <<Frame("ensure", None), Frame("loader", None)>>]
  /\ UNCHANGED <<host, locks, env, dance, modules, failed, failures>>

\* It imports xpcom.server, which imports xpcom and _xpcom.
LoaderImports ==
  /\ At(Main, "loader")
  /\ CallThen(Main, Import("_xpcom"), "loader_got")
  /\ UNCHANGED <<host, locks, env, dance, modules, loader, failed, failures>>

LoaderGot ==
  /\ At(Main, "loader_got") /\ gil = None
  /\ loader' = IF failed[Main] THEN "failed" ELSE "ready"
  /\ Return(Main)
  /\ UNCHANGED <<host, locks, env, dance, modules, failed, failures>>

-----------------------------------------------------------------------------
(* Python's import of a module *)

Present(m) == modules[m] # "absent"
ImportLockFree(t) == imports \in {None, t}

\* C code imports a module.  If it is there nothing runs and the GIL stays;
\* otherwise the import goes on as Python code.
ImportFromC(t, m, label) ==
  \/ /\ Present(m) /\ ImportLockFree(t)
     /\ Goto(t, label)
     /\ failed' = [failed EXCEPT ![t] = FALSE]
     /\ UNCHANGED gil
  \/ /\ ~(Present(m) /\ ImportLockFree(t))
     /\ CallThen(t, Import(m), label)
     /\ gil' = None
     /\ UNCHANGED failed

\* The import is over, with the module in sys.modules as m says; the import
\* lock goes with the outermost import, the GIL to the C code that called.
EndImport(t, ok, m) ==
  LET rest == Tail(stack[t]) IN
  /\ gil \in {None, t}
  /\ gil' = IF rest # <<>> /\ Head(rest).at \in CLabels THEN t ELSE None
  /\ imports' = IF \E i \in DOMAIN rest : rest[i].at \in ImportLabels
                THEN t ELSE None
  /\ modules' = [modules EXCEPT ![Mod(t)] = m]
  /\ failed' = [failed EXCEPT ![t] = ~ok /\ rest # <<>>]
  /\ Return(t)

AlreadyImported(t) ==
  /\ At(t, "import") /\ gil = None /\ ImportLockFree(t)
  /\ Present(Mod(t))
  /\ EndImport(t, TRUE, modules[Mod(t)])
  /\ UNCHANGED <<host, framework, env, dance, loader, failures>>

\* xpcom cannot be found, or importing it raises.
ImportFails(t) ==
  /\ At(t, "import") /\ gil = None /\ ImportLockFree(t)
  /\ Mod(t) = "xpcom" /\ ~Present("xpcom")
  /\ Fail
  /\ EndImport(t, FALSE, "absent")
  /\ UNCHANGED <<host, framework, env, dance, loader>>

\* _xpcom is in the package xpcom, which is imported first.
ImportPackage(t) ==
  /\ At(t, "import") /\ gil = None /\ ImportLockFree(t)
  /\ Mod(t) = "_xpcom" /\ ~Present("_xpcom") /\ ~Present("xpcom")
  /\ imports' = t
  /\ CallThen(t, Import("xpcom"), "package")
  /\ UNCHANGED <<host, gil, framework, env, dance, modules, loader, failed,
                 failures>>

PackageImported(t) ==
  /\ At(t, "package") /\ gil = None
  /\ \/ /\ ~failed[t]
        /\ Goto(t, "import")
        /\ UNCHANGED <<gil, imports, modules, failed>>
     \/ /\ failed[t]
        /\ EndImport(t, FALSE, modules[Mod(t)])
  /\ UNCHANGED <<host, framework, env, dance, loader, failures>>

\* A Python module is in sys.modules before its code runs.
RunModule(t) ==
  /\ At(t, "import") /\ gil = None /\ ImportLockFree(t)
  /\ Mod(t) # "_xpcom" /\ ~Present(Mod(t))
  /\ imports' = t
  /\ modules' = [modules EXCEPT ![Mod(t)] = "partial"]
  /\ Goto(t, "run")
  /\ UNCHANGED <<host, gil, framework, env, dance, loader, failed, failures>>

\* The extension module is not, before its init function has made it.
RunInit(t) ==
  /\ At(t, "import") /\ gil = None /\ ImportLockFree(t)
  /\ Mod(t) = "_xpcom" /\ ~Present("_xpcom") /\ Present("xpcom")
  /\ imports' = t /\ gil' = t
  /\ Goto(t, "init")
  /\ UNCHANGED <<host, framework, env, dance, modules, loader, failed,
                 failures>>

\* What the module's code imports in its turn: setupLogging of xpcom logs a
\* warning, and the handler that writes it imports _xpcom.
Imported(m) ==
  CASE m = "sitepyxpcom" -> host.site
    [] m = "xpcom" -> IF host.warns THEN "_xpcom" ELSE None

RunCode(t) ==
  /\ At(t, "run") /\ gil = None
  /\ Imported(Mod(t)) # None
  /\ CallThen(t, Import(Imported(Mod(t))), "ran")
  /\ UNCHANGED <<host, locks, env, dance, modules, loader, failed, failures>>

\* An error in the logging handler is swallowed, one in sitepyxpcom logged.
CodeRan(t) ==
  /\ \/ At(t, "ran")
     \/ At(t, "run") /\ Imported(Mod(t)) = None
  /\ gil = None
  /\ EndImport(t, TRUE, "loaded")
  /\ UNCHANGED <<host, framework, env, dance, loader, failures>>

-----------------------------------------------------------------------------
(* init_xpcom *)

\* "We've already done the dance before; just do the real init"
AlreadyDanced(t) ==
  /\ At(t, "init") /\ realInit
  /\ Goto(t, "real")
  /\ UNCHANGED <<host, locks, env, dance, modules, loader, failed, failures>>

EnsureXPCOM(t) ==
  /\ At(t, "init") /\ ~realInit
  /\ xpcom' = TRUE
  /\ Goto(t, "app_info")
  /\ UNCHANGED <<host, locks, env, registered, realInit, modules, loader,
                 failed, failures>>

RegisterPyAppInfo(t) ==
  /\ At(t, "app_info")
  /\ Goto(t, "load")
  /\ UNCHANGED <<host, locks, env, dance, modules, loader, failed, failures>>

EnsurePyXPCOM(t) ==
  /\ At(t, "load")
  /\ realInit' = TRUE
  /\ Goto(t, "register")
  /\ UNCHANGED <<host, locks, env, xpcom, registered, modules, loader,
                 failed, failures>>

RegisterPyXPCOMComponents(t) ==
  /\ At(t, "register")
  /\ registered' = TRUE
  /\ Goto(t, "real")
  /\ UNCHANGED <<host, locks, env, xpcom, realInit, modules, loader,
                 failed, failures>>

\* Each of the four can fail, and then so does the import.
DanceFails(t) ==
  /\ \/ At(t, "init") /\ ~realInit
     \/ At(t, "app_info") \/ At(t, "load")
     \/ At(t, "register") /\ ~registered
  /\ Fail
  /\ EndImport(t, FALSE, "absent")
  /\ UNCHANGED <<host, framework, env, dance, loader>>

InitXpcomReal(t) ==
  /\ At(t, "real")
  /\ CallThen(t, Frame("ensure", None), "module")
  /\ UNCHANGED <<host, locks, env, dance, modules, loader, failed, failures>>

\* Py_InitModule has put the module into sys.modules; without an exception
\* class the import fails and leaves it there, half made.
InitModule(t) ==
  /\ At(t, "module")
  /\ EndImport(t, error, IF error THEN "loaded" ELSE "partial")
  /\ UNCHANGED <<host, framework, env, dance, loader, failures>>

-----------------------------------------------------------------------------
(* PyXPCOM_EnsurePythonEnvironment *)

AlreadyInitialized(t) ==
  /\ At(t, "ensure") /\ initialized
  /\ Return(t)
  /\ UNCHANGED <<host, locks, env, dance, modules, loader, failed, failures>>

NotInitialized(t) ==
  /\ At(t, "ensure") /\ ~initialized
  /\ Goto(t, "lock")
  /\ UNCHANGED <<host, locks, env, dance, modules, loader, failed, failures>>

AcquireGlobalLock(t) ==
  /\ At(t, "lock") /\ framework = None
  /\ framework' = t
  /\ Goto(t, "again")
  /\ UNCHANGED <<host, gil, imports, env, dance, modules, loader, failed,
                 failures>>

\* "another thread beat us to the init."
BeatenToIt(t) ==
  /\ At(t, "again") /\ initialized
  /\ framework' = None
  /\ Return(t)
  /\ UNCHANGED <<host, gil, imports, env, dance, modules, loader, failed,
                 failures>>

\* Py_Initialize, which leaves the GIL taken, and PyGILState_Ensure.
InitPython(t) ==
  /\ At(t, "again") /\ ~initialized
  /\ gil \in {None, t}
  /\ gil' = t
  /\ pyUp' = TRUE /\ didInit' = ~pyUp
  /\ saved' = IF pyUp /\ gil = None THEN "unlocked" ELSE "locked"
  /\ Goto(t, "site")
  /\ UNCHANGED <<host, framework, imports, initialized, types, error, dance,
                 modules, loader, failed, failures>>

AddStandardPaths(t) ==
  /\ At(t, "site")
  /\ ImportFromC(t, "sitepyxpcom", "error")
  /\ UNCHANGED <<host, framework, imports, env, dance, modules, loader,
                 failures>>

\* The exception class is fetched from xpcom, unless there was one.
ImportException(t) ==
  /\ At(t, "error")
  /\ IF error THEN Goto(t, "publish") /\ UNCHANGED <<gil, failed>>
              ELSE ImportFromC(t, "xpcom", "got_error")
  /\ UNCHANGED <<host, framework, imports, env, dance, modules, loader,
                 failures>>

SetException(t) ==
  /\ At(t, "got_error")
  /\ error' = ~failed[t]
  /\ Goto(t, "publish")
  /\ UNCHANGED <<host, locks, pyUp, initialized, types, didInit, saved,
                 dance, modules, loader, failed, failures>>

\* InitType of each interface, bIsInitialized, and "import the xpcom module
\* itself to setup the loggers".
Publish(t) ==
  /\ At(t, "publish")
  /\ types' = TRUE /\ initialized' = TRUE
  /\ ImportFromC(t, "xpcom", "leave")
  /\ UNCHANGED <<host, framework, imports, pyUp, error, didInit, saved,
                 dance, modules, loader, failures>>

\* "If we initialized Python ... we want to leave it unlocked"
Leave(t) ==
  /\ At(t, "leave")
  /\ gil' = IF didInit \/ saved = "unlocked" THEN None ELSE t
  /\ Goto(t, "unlock")
  /\ UNCHANGED <<host, framework, imports, env, dance, modules, loader,
                 failed, failures>>

ReleaseGlobalLock(t) ==
  /\ At(t, "unlock")
  /\ framework' = None
  /\ Return(t)
  /\ UNCHANGED <<host, gil, imports, env, dance, modules, loader, failed,
                 failures>>

-----------------------------------------------------------------------------
Start ==
  \/ \E t \in Pythons, m \in {"xpcom", "_xpcom"} : ImportStatement(t, m)
  \/ \E t \in Natives : EmbedderEnsures(t)
  \/ LoaderInit

Importing(t) ==
  \/ AlreadyImported(t) \/ ImportFails(t) \/ ImportPackage(t)
  \/ PackageImported(t) \/ RunModule(t) \/ RunInit(t) \/ RunCode(t)
  \/ CodeRan(t)

InitXpcom(t) ==
  \/ AlreadyDanced(t) \/ EnsureXPCOM(t) \/ RegisterPyAppInfo(t)
  \/ EnsurePyXPCOM(t) \/ RegisterPyXPCOMComponents(t) \/ DanceFails(t)
  \/ InitXpcomReal(t) \/ InitModule(t)

EnsurePythonEnvironment(t) ==
  \/ AlreadyInitialized(t) \/ NotInitialized(t) \/ AcquireGlobalLock(t)
  \/ BeatenToIt(t) \/ InitPython(t) \/ AddStandardPaths(t)
  \/ ImportException(t) \/ SetException(t) \/ Publish(t) \/ Leave(t)
  \/ ReleaseGlobalLock(t)

Step(t) ==
  \/ Importing(t) \/ InitXpcom(t) \/ EnsurePythonEnvironment(t)
  \/ t = Main /\ (LoaderImports \/ LoaderGot)

Next == Start \/ \E t \in Threads : Step(t)

Spec == Init /\ [][Next]_vars

\* A thread gets a lock that is free again and again; nobody has to start.
FairSpec == Spec /\ \A t \in Threads : SF_vars(Step(t))

-----------------------------------------------------------------------------
(* Properties *)

Labels == ImportLabels \cup CLabels \cup
  {"ensure", "lock", "again", "site", "publish", "unlock", "loader",
   "loader_got"}

\* The imports that EnsurePythonEnvironment and init_xpcom make of each other
\* end: no thread nests them deeper than this.
MaxDepth == 8

\* Every variable stays in its range, and every stack within MaxDepth.
TypeOK ==
  /\ host \in Hosts
  /\ {gil, framework, imports} \subseteq Threads \cup {None}
  /\ {pyUp, initialized, types, error, didInit} \subseteq BOOLEAN
  /\ saved \in {"locked", "unlocked"}
  /\ {xpcom, registered, realInit} \subseteq BOOLEAN
  /\ modules \in [Modules -> {"absent", "partial", "loaded"}]
  /\ loader \in {"none", "starting", "ready", "failed"}
  /\ DOMAIN stack = Threads
  /\ \A t \in Threads :
       /\ Len(stack[t]) <= MaxDepth
       /\ \A i \in DOMAIN stack[t] :
            /\ stack[t][i].at \in Labels
            /\ stack[t][i].mod \in Modules \cup {None}
  /\ failed \in [Threads -> BOOLEAN]
  /\ failures \in 0..MaxFailures

\* When PyXPCOM_EnsurePythonEnvironment has returned to init_xpcom_real the
\* types are there and, unless an import failed, so is the exception class,
\* whichever thread has done the work ("Must be thread-safe").
ReadyWhenUsed ==
  \A t \in Threads :
    At(t, "module") => types /\ initialized /\ (error \/ failures > 0)

\* The environment is set up once, whoever comes and however often: what
\* others have started to use is never set up again under their feet.
InitializedOnce ==
  [][initialized => UNCHANGED env]_vars

\* Nothing stays locked when every call has returned ("we want to leave it
\* unlocked, so other threads are free to run").
NothingLockedAtRest ==
  (\A t \in Threads : stack[t] = <<>>)
    => gil = None /\ framework = None /\ imports = None

\* A thread that waits for the framework lock with the GIL in its hands waits
\* for one that needs the GIL no more.
NoStandOff ==
  \A t \in Threads :
    At(t, "lock") /\ gil = t /\ framework # None
      => /\ framework # t
         /\ \/ At(framework, "unlock")
            \/ At(framework, "again") /\ initialized

\* Every import and every call of PyXPCOM_EnsurePythonEnvironment returns.
StartReturns == \A t \in Threads : stack[t] # <<>> ~> stack[t] = <<>>

\* init_xpcom: who finds init_xpcom_real set finds "the dance" done.
DanceDone ==
  \A t \in Threads : At(t, "real") => xpcom /\ registered
=============================================================================
