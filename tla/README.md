# PyXPCOM in TLA+

PyXPCOM joins Python and Mozilla's XPCOM: Python code calls XPCOM objects
through *wrappers*, and XPCOM calls Python objects through *gateways*. This
directory holds TLA+ models of the parts of it that are hard to get right,
TLC configurations that check them on small instances, and TLAPS proofs of
what matters most. All paths below are relative to `src/xpcom/`. Section 2 says which
module models what and how, 3 what the runs show, 4 what is proved, 5 what is left.

## 1. The system

| Part | State it keeps | Operations | Hard about it |
|---|---|---|---|
| **Gateways** `src/PyGBase.cpp`, `PyGStub.cpp`, `PyGWeakReference.cpp` | `mRefCnt`, `m_iid`, `m_pBaseObject`, chain `m_pNextObject`, `m_pWeakRef` per gateway; `m_pBase` per weak reference; the instance's attribute `_com_instance_default_gateway_` | `AutoWrapPythonInstance`, `CreateNew`, `QueryInterface`/`ThisAsIID`, `AddRef`, `Release`, `GetWeakReference`, `QueryReferent`, destructors | identity of one Python instance over many C++ objects, made and destroyed by threads that hold the GIL, the framework lock, or neither |
| **Environment** `src/dllmain.cpp` | the framework lock, `bIsInitialized`, the main thread's state | `PyXPCOM_EnsurePythonEnvironment`, acquire/release | checked once without and once with the lock; imports Python code while it holds the lock; two locks taken in both orders |
| **Interface wrappers** `src/PyISupports.cpp`, `TypeObject.cpp`, `PyIID.cpp` | one `nsISupports*` and IID per Python object, `cInterfaces` | `InterfaceFromPyObject`, `PyObjectFromInterface`, `QueryInterface`, `SafeRelease` | release is handed to the main thread with the GIL given up |
| **Client** `client/__init__.py` | `Component._interfaces_`, `_interface_infos_`, method caches, `contractid_info_cache` | `QueryInterface`, `__getattr__`, `__setattr__`, `BuildInterfaceInfo`, `WeakReference` | caches that are filled by calls which can fail half-way, shared between objects with one contract id |
| **components** `components.py` | lazily filled collections, the managers | attribute access, `ID`, `_on_shutdown` | first use and shutdown |
| **Shutdown** `shutdown.py`, `src/XPCOMFunctions.cpp` | the list of handlers | `register`, `_ShutdownHandler`, `NS_ShutdownXPCOM` | the order of handlers, code that runs after its globals were cleared |
| **Server policy** `server/policy.py`, `server/__init__.py`, `server/factory.py` | `class_info_cache`, `_interface_iid_map_`, the tracer | `_QueryInterface_`, `_CallMethod_`, `_GetProperty_`, `_MakeInterfaceParam_`, mapping of exceptions, `createInstance` | what a Python exception becomes at the XPCOM boundary |
| **Loader and modules** `server/loader.py`, `server/module.py`, `src/loader/pyloader.cpp`, `src/PyGModule.cpp` | `com_modules`, registered library paths, observer, refcount of native modules | `loadModule`, `getClassObject`, `registerSelf`, `Init` | a cache keyed by file across failures and shutdown |
| **`_xpcom`** `src/module/_xpcom.cpp`, `PyAppInfo.cpp`, `src/XPCOMFunctions.cpp` | whether XPCOM was started, the real init function | `init_xpcom`, `EnsureXPCOM`, `RegisterPyXPCOMComponents` | several steps that can fail, remembered half-done |
| **Call marshalling** `src/VariantUtils.cpp` (`PyXPCOM_InterfaceVariantHelper`, `PyXPCOM_GatewayVariantHelper`), `PyGStub.cpp`, `XPCOMFunctions.cpp` | type descriptors, parameter buffers, ownership flags | `Init`, `FillArray`, `PrepareOutVariant`, `MakePythonResult`, `CleanupParam`, `MakePyArgs`, `BackFillVariant`, `CallMethod` | which parameter is the size of which, who frees which buffer |
| **Variants** `src/VariantUtils.cpp`, `PyIVariant.cpp` | none | `BestVariantTypeForPyObject`, `PyObject_AsVariant`, `PyObject_FromVariant` | choice of a type, width of integers, nested arrays |
| **Streams, enumerators** `src/PyGInputStream.cpp`, `PyIInputStream.cpp`, `PyIEnumerator.cpp`, `server/enumerator.py` | an index | `Read`, `FetchBlock`, `getNext`, `hasMoreElements` | short reads, a null element against the end |
| **Errors** `src/ErrorUtils.cpp`, `nsError.py` | Python's error indicator, the log's re-entrancy guard | `PyXPCOM_SetCOMErrorFromPyException`, `LogError` | logging while an error is pending |
| **Type information** `src/Pyxpt_info.cpp`, `PyIInterfaceInfo*.cpp`, `xpt.py` | none | conversions to tuples | none worth a model |

How they meet. A Python object given to XPCOM goes through
`PyG_Base::AutoWrapPythonInstance` (GIL held, instance wrapped by
`server.WrapObject` in a policy, a gateway built by `CreateNew`). XPCOM calls the
gateway from any thread: each call takes the GIL (`CEnterLeavePython`) and
dispatches to the policy. An XPCOM object
given to Python becomes an interface wrapper and, with a `Component` around it,
is called through `XPTC_InvokeByIndex` with the GIL given up. The framework lock
(`CEnterLeaveXPCOMFramework`), which is a `PRLock` and not recursive, guards
`Release`, `QueryReferent`, the chain of tear-offs and the set-up of the environment
(`PyXPCOM_EnsurePythonEnvironment`), which the import of `_xpcom` and the module
loader both begin with.

What makes each part correct:

- Gateways: reference counts are exact, a weak reference never leads to a
  destroyed gateway, an instance has one XPCOM identity at a time, each call
  returns.
- Environment: initialised once and completely before anybody runs Python code
  that needs it; no thread waits for ever.
- Wrappers: every reference is released once and on the main thread.
- Client: what a cache answers is what XPCOM would answer; a failed call leaves
  the caches as they were.
- Shutdown: no handler runs twice, none is skipped, none needs what an earlier one
  has cleared.
- Policy: each exception becomes a defined `nsresult`, and results match the
  out-parameters.
- Loader, `_xpcom`: a failed step can be tried again.
- Marshalling: a buffer is freed exactly once, by its owner, for every method
  signature; sizes agree with the arrays they describe; a result goes to the
  parameter it was meant for.
- Errors: a failure is never reported as success, and leaves no exception pending.
- Variants, streams: a value survives the round trip or is refused.

## 2. Modules

| Module | What it is |
|---|---|
| `Gateway` | the gateways of one Python instance, called by several threads |
| `ObjectIdentity` | what they promise: one object at a time stands for the instance |
| `GatewayProofs` | theorems about `Gateway` and their proofs |
| `GatewayIdentityProofs` | that `Gateway` implements `ObjectIdentity` if it is wrapped with care, and what one thread alone can rely on |
| `MCGateway` | symmetry sets for the configurations `MCGateway*.cfg` |
| `Startup` | import of `_xpcom`, the module loader's Init, the Python environment |
| `StartupProofs` | theorems about `Startup` and their proofs |
| `MCStartup` | the processes in which `MCStartup*.cfg` start PyXPCOM |
| `Clients` | the Components of client/__init__.py, their caches, and the shutdown |
| `ClientsProofs` | theorems about `Clients` and their proofs |
| `MCClients` | two objects of one class for `MCClients.cfg` |
| `Variants` | Python values, and the conversions to and from `nsIVariant` |
| `Marshalling` | descriptors of parameters, the memory of a call, arrays |
| `InterfaceCall` | a call from Python to an interface |
| `GatewayCall` | a call from XPCOM to a Python object |
| `Calls` | the two put together, with native code at either end |
| `FoldProofs` | induction for folds and recursive functions, stated for sets |
| `FrameProofs` | what each operator of a call makes of the memory of that call |
| `CallsProofs` | theorems about `Calls` and their proofs |
| `MCCalls` | the methods of the test interface for `MCCalls*.cfg` |

`Marshalling` extends `Variants`; `InterfaceCall` and `GatewayCall` extend
`Marshalling`; `Calls` extends both and composes their actions. `Gateway`, `Startup`, `Clients` and `Calls` share no
state: a gateway can exist only when the environment is set up, and after that the
framework lock is free for the gateways; a call works on the memory of its own
arguments; and what a Component knows does not depend on what the calls carry.
In each model module a section "Slips" holds actions as a plausible mistake in the
code would have them. They are no part of the specification: with the action
replaced by its slip, TLC finds a property violated, which shows that the property
can tell the code from the mistake.

### Gateway

One Python instance, the threads that use it, and memory cells for the gateways
and weak references made for it. A cell goes from `free` to `live` (constructor)
to `dying` (the last `Release`) and back to `free` (`operator delete`).

| Model | Code |
|---|---|
| `gil`, `framework` | the Python lock; `g_lockMain` of `dllmain.cpp` |
| `refs`, `iid`, `base`, `weak` | `mRefCnt`, `m_iid`, `m_pBaseObject`, `m_pWeakRef` |
| `linked` | membership of a tear-off in the `m_pNextObject` chain of its base |
| `wbase` | `m_pBase` of `PyXPCOM_GatewayWeakReference` |
| `attr` | the weak reference in `_com_instance_default_gateway_` |
| `ext` | the references owned by clients: wrappers, C++ callers, a main-thread proxy |
| `pc`, `op`, `own`, `want`, `wk`, `got` | where each thread is in its call, and its local variables |

A thread that makes a call lends the call the reference it calls through
(`own`); the call ends with a result reference (`got`) that goes to the client
and the return of the lent one. `Start` holds what clients do, `Step` the code.
A call is cut into steps where another thread can come between: at each place
where a lock is taken or left, and at each access to shared memory that no lock
guards (`AddRef` after the walk of the chain, `m_pWeakRef` in `GetWeakReference`,
`m_pBase` after `QueryReferent` left its lock). A section that holds a lock from
its first to its last access is one step if it cannot wait inside. The actions
follow `AutoWrapPythonInstance` → `CheckDefaultGateway` → `QueryReferent`, or
`WrapObject` → `CreateNew` → `GetDefaultGateway` → `XPTStub` constructor →
`AddDefaultGateway` → `GetWeakReference`, and `Release` → destructors.

A step that touches a gateway that is not `live` is undefined behaviour. It sets
`fault` and the system stops; `NoTouchOfFreed` says that this cannot happen, and
the other properties speak of what happens until then.

Left out, with the reason:

- An `AddRef` and `Release` that cancel within one step, with the lock held or
  on an object kept alive by the call (`do_QueryReferent`/`do_QueryInterface` in
  `GetDefaultGateway` and `AddDefaultGateway`).
- The order of the chain. It decides only between two tear-offs for one
  interface, and either may then be found.
- A tear-off's first `ThisAsIID` looks at itself and walks from the base; the two
  walks are one.
- The policy's `_query_interface_`, `nsIClassInfo` and primitive variants: the policy
  nominates the interfaces in `Iids` and no others.
- Native gateways (`PyG_nsIModule`, `PyG_nsIInputStream`) are treated as XPT stubs.
  `PyGStub.cpp:67` casts a base to a stub without asking; that is a hazard about
  memory layout that no property here covers.
- Failing allocations. A thread that needs a cell waits for one.
- Code only in debug builds of Mozilla (`NS_BUILD_REFCNT_LOGGING`, `DEBUG`).

`Debug` is Python's `__debug__`. `server/policy.py` refuses an interface the
instance does not have only then; `dllmain.cpp` sets `Py_OptimizeFlag` in release
builds, so both values are real and both are checked.

### ObjectIdentity

The abstract specification: `standing`, the objects that now stand for the
instance, and `used`, those somebody uses. An object may be created only while
none stands, only a standing one may be used, and none dies in use.
`ImplementsIdentity` is the refinement: `standing` are the live base gateways that
own their weak reference, `used` the bases of all gateways a client or a call has a
reference to.

### Startup

| Model | Code |
|---|---|
| `gil`, `framework`, `imports` | the Python lock, `g_lockMain`, the import lock of Python 2 |
| `pyUp`, `initialized`, `types`, `error` | `Py_IsInitialized()`, `bIsInitialized`, the `InitType` calls, `PyXPCOM_Error` |
| `didInit`, `saved` | `bDidInitPython` and `state` in `PyXPCOM_EnsurePythonEnvironment` |
| `xpcom`, `registered`, `realInit` | XPCOM is up, the loader's contract id is registered, the static pointer `init_xpcom_real` |
| `modules` | `sys.modules`: absent, there but not finished, loaded |
| `loader` | the `nsPythonModuleLoader` of XPCOM and its `mPyLoader` |
| `stack` | the frames of each thread, the innermost first |
| `host` | what the process is like before: who started Python and XPCOM, the log level, what `sitepyxpcom` imports |

The set-up imports Python modules under the framework lock, and those may import
`_xpcom`, whose init function calls the set-up again: hence a stack of frames and
not a program counter. Between two steps of Python code the GIL is free (the
interpreter may switch anywhere); C code holds it, and a C call that finds the
module in `sys.modules` does not give it up. What Python's import machinery does
(the recursive import lock, `sys.modules`, the parent package first) is modelled as
far as the code leans on it and marked external. `init_xpcom` is one action for
each of its four steps, each of which may fail, and then so does the import.
`PyAppInfo` and the search for libraries and directories are outcomes only.

### Clients

| Model | Code |
|---|---|
| `made` | the Components whose `__init__` has returned |
| `interfaces` | `_interfaces_` and `_interface_names_`: absent, an interface, or `None` for "does not implement" |
| `infos`, `names`, `tried` | `_interface_infos_`, `_name_to_interface_iid_`, `_tried_classinfo_` |
| `interface_cache`, `contractid_info_cache`, `have_shutdown` | the globals of `client/__init__.py`; of a contract the cache has the dictionaries of one Component, by reference |
| `handlers`, `observer`, `current`, `ran`, `cleared` | `shutdown._handlers`, the observer and its loop, and how far `components._on_shutdown` is |
| `pc`, `op`, `comp`, `attr`, `iid`, `back`, `todo`, `cid`, `result` | the call each thread is in and its local variables; `back` is where `QueryInterface` returns to |

`Answers`, `Informed`, `Nominated`, `Contract` are the oracle: what each object says
to `QueryInterface` and through its `nsIClassInfo`. `Scriptable`, `Members` and
`Native` say the same of the interfaces. A thread makes a Component, asks it for an
interface, reads or sets an attribute, or calls `repr()` or `dir()`; `Requests` says
which thread does what. Each of these is a sequence of steps with at most one XPCOM
call in each, for there the GIL is given up, and other threads may come in between any
two of them. Every XPCOM call may fail for a reason of its own (`Fails`). An exception
ends where the code catches it: in the loop over the class info, in `__dir__`, or
nowhere (`Raise`, `BuildRaises`).

Left out, with the reason:

- `_interfaces_[iid]` and `_interface_names_[name]` are assigned one after the other
  and are one step here; so the assertion between a lookup by name and one by IID
  (`client/__init__.py:327`) is not a property.
- The generated code of methods, and `_Interface.__getattr__` and `__setattr__`:
  `Deliver` ends where they begin.
- The attributes answered from Python alone (names with two underscores, `_com_classes`),
  and how the strings of `__repr__` and `dir()` look.
- The IID that a name maps to when its interface has no information: there is no
  name then.
- Components that die. Their dictionaries stay in the cache; the model keeps all.
- A failure while `BuildInterfaceInfo` reads the methods one by one counts as one
  failure of `Describe`: nothing is stored before the last.
- That `import xpcom.shutdown` may be the first import of the package:
  `components.py` has always registered its handler before any other.

### Calls

One call of one XPCOM method, from its arguments as Python values to its results as
Python values, with Python at one end or at both and native code at the other. The
native ends are not in this repository; they keep XPCOM's rules about who owns what
and are marked external.

| Model | Code |
|---|---|
| `sig` | the descriptors: `mPyTypeDesc`, and `m_info` of the stub |
| `slots` | `mDispatchParams` with what the helper keeps about each; the same memory is `m_params` of the stub |
| `mem` | every block allocated for the call: the elements of arrays, strings, IIDs, and references to interfaces; `live` until freed or released |
| `faults` | what should never happen: freed twice, freed by the wrong side, read past the end, used when null |
| `err`, `rc` | Python's error indicator, the `nsresult` |
| `args`, `seen`, `answers`, `got` | the arguments as given and as they arrived, the results likewise |

`InterfaceCall` has one action for each phase of `PyXPCOMMethod_NS_InvokeByIndex`:
`InitCall` (number of arguments, descriptors), `PrepareParam` (one parameter:
`FillInVariant` and `PrepareOutVariant`), `PrepareSizes`, the call itself,
`BuildResult` (`MakePythonResult`), `DestroyHelper` (the destructor, which runs on
every path). `GatewayCall` has those of `PyXPCOM_XPTStub::CallMethod`: `StubMakeArgs`,
then `_CallMethod_` returning, raising, or returning something else, with
`ProcessPythonResult`, and `HandleException` for all that goes wrong. The conversion
of each type is an operator that takes the memory and gives it back changed, in the
order of the code: what was allocated or freed before it failed shows.

Types stand for those the code treats alike (the list is at the head of `Marshalling`).
Numbers are all one type of `Word` values, a C long has `LongWord`; a text is its
length, and "odd" if the parameter has no encoding for it. A Python value is `None`, a
truth value, a number, a text, an IID, an instance with or without an interface, or a
list; variants hold one of these with the type that `BestVariantTypeForPyObject`
chose. Octets are numbers, but an array of them is filled from a text as well as from
a list, and always comes out as a str (`Octets`). An array of characters takes the first of
each text, and cannot be read back: `UnpackSingleArray` does not know the type.

A signature that `ProcessPythonTypeDescriptors` refuses (`Insane`) is an error for a Python
caller. A native caller is not asked: `MakePyArgs` does not look at the answer, goes on
with descriptors that are repaired only up to the parameter refused (`Described`), and makes
the tuple of a size nobody has set. `StubMakeArgsInsane` has every outcome of that: no
memory, a tuple that is too short, null pointers left in it, or the right size by chance. The
exception handler of the policy may answer with any number, and `CallMethod` returns it as the
`nsresult`; one that says success is `rc = "excused"`.

Left out: floats; failing allocations; the policies that overwrite `_CallMethod_`; the
shortcut for UTF-8 of ASCII only; the assertions of debug builds; the early return of
`DoLogMessage`, which is the choice `ready`. Some detail of the code is too fine for the
model and is written down here for its readers: the reference to the number that
`FillNumber` leaks when it refuses it; that `VTYPE_ARRAY` frees with `NS_Free` what was
made with `new[]` (`src/VariantUtils.cpp:775`); that `SetSizeOrLengthIs` ignores the
result of `PrepareOutVariant` (line 1388); that line 1731 tests the flag "in" on the
type of the IID parameter and not on its flags.

## 3. What is checked

| Run | Instance | Result |
|---|---|---|
| `gateway_lifetime` | 2 threads, both wrap, 3 gateways, 5 weak references, 2 interfaces, an unsupported one asked for, `Debug = FALSE` | 9 invariants hold |
| `gateway_identity` | 2 threads, one wraps and only for interfaces the instance has, 4 gateways, 3 weak references, fairness | one identity, refinement, attribute, every call returns |
| `gateway_refused` | 1 thread | violated: two identities |
| `gateway_stale_check` | 2 threads that wrap | violated: two identities |
| `gateway_dying_stub` | 2 threads | violated: freed memory touched |
| `gateway_two_stubs` | 2 threads | violated: two pointers for one interface |
| `startup` | 2 Python threads, the main thread, 1 embedder's thread, 1 failure; Python starts XPCOM (with and without a warning when `xpcom` is imported) or XPCOM starts Python; `sitepyxpcom` imports `xpcom` or nothing | 5 safety properties and progress hold |
| `startup_standoff` | 1 Python thread that was there when the loader is made | violated: GIL against framework lock |
| `startup_retry` | 1 Python thread, 1 failure | violated: import succeeds with no loader registered |
| `clients` | 2 threads, 2 Components of one contract, 3 interfaces (one not scriptable, one not listed), 2 names, 1 failure, 1 handler beside that of `components.py` | 6 invariants and 2 action properties hold |
| `calls` | every method of `MCCalls` with every combination of its arguments and answers, in all three combinations of caller and callee | 7 invariants and 1 action property hold |
| `calls_byref` | two methods with a string to fill in beside other results | violated: results in the wrong place |

The invariants of `gateway_lifetime`: counts equal the references there are
(`RefsExact`); a weak reference points only to a live gateway that owns it
(`WeakRefExact`); `QueryReferent` finds again what it kept alive
(`KeepAliveHolds`); any base a client can reach has its weak reference, so the
unguarded creation in `GetWeakReference` is never a race (`PublishedHasWeakRef`);
one thread deletes (`DestroyedOnce`); a base outlives its tear-offs
(`BaseOutlivesTearOffs`); the assertion in `AddDefaultGateway` holds
(`NoDuplicateAssertion`); and where a gateway is reached under the framework lock it
is not being destroyed (`LockedUsesSafe`). They hold although the four races below are
possible in that very instance.

**What the violations show.**

1. *Refused interface.* `CheckDefaultGateway` takes every failure of
   `QueryReferent` for a dead weak reference. If the instance is passed where an
   interface is expected that it does not implement, the attribute is deleted
   while the gateway lives, and the next wrap builds a second base: one instance,
   two COM identities. One thread is enough.
2. *Stale check.* The GIL is given up around `QueryReferent`, and the attribute is
   then deleted without another look. A second thread that found the same dead
   weak reference and has meanwhile stored a new one loses it.
3. *Dying stub.* `ThisAsIID` returns a tear-off after it has left the lock;
   `QueryInterface` adds the reference afterwards. In between, the last `Release`
   may delete it.
4. *Two stubs.* The search for a tear-off and its creation are two critical
   sections; two threads may both create one.

**Starting.** `ReadyWhenUsed`: when the set-up has returned to `init_xpcom_real`, the
types and the exception class are there, whichever thread did the work (the exception class
only while no import has failed: after that `PyXPCOM_Error` stays null for good).
`InitializedOnce`: what is published is never set up again. `NothingLockedAtRest`:
with no call in progress all three locks are free, in particular the GIL that
`Py_Initialize` took. `NoStandOff`: nobody who holds the GIL waits for a framework lock
whose owner needs the GIL. `StartReturns`: all imports and calls return. These hold in
processes where Python threads come to `_xpcom` from Python alone, or only after
XPCOM has set the environment up. They fail otherwise:

5. *Stand-off.* Python was started by somebody else and has threads (the code allows
   for it: `bDidInitPython` may be false). The main thread makes the module loader,
   takes the framework lock and waits for the GIL; a Python thread imports `_xpcom`
   and waits for the framework lock with the GIL.
6. *Retry.* `init_xpcom_real` is set before the loader is registered. If that fails, the
   next import takes "the dance" for done.

The first has a variant with one thread: if `sitepyxpcom` imports `_xpcom`, or XPCOM
starts Python with an invalid `PYXPCOM_LOG_LEVEL` (importing `xpcom` then logs a warning
whose handler imports `_xpcom`), the set-up is entered again before `bIsInitialized` is
set and the thread waits for its own lock. `SoundHosts` in `MCStartup` leaves these
processes out; add them and `NoStandOff` fails in the same way.

**Components.** `AnswersTrue`: what a Component remembers of an interface is what its
object would say; in particular a call that fails for another reason is not remembered
as "does not implement". `RightInterface`: an attribute that is read or set goes to an
interface that has the name and that is in `_interfaces_`, although names come from
other Components of the same contract and two interfaces may share a name.
`NoKeyError`: `_interfaces_[iid]` after `QueryInterface` finds the interface, although
`QueryInterface` returns without storing it when there is no information. It holds
until the shutdown has emptied `interface_cache`. After that a name learnt through
the cache may belong to an interface that has to be described again, and if that
fails, the lookup ends in `KeyError`; the property leaves this out.
`RefusalsExplained`: `NS_ERROR_NO_INTERFACE` for an attribute has one cause. The
dictionary in the cache is the first Component's own and goes on growing with what it
learns by `QueryInterface`; another object of the contract may then be asked for an
interface it does not have. `ClassInfoRead`: after the class info has been read, or
found in the cache, all names of the listed interfaces are known, also when a second
thread reads it at the same time. It is stated for no failures: `GetInterfaces` that
fails is taken for an empty list, and that is cached for the contract.
`OursComesLast`, `NoneForgotten`: the handler of `components.py` runs last, and none is
forgotten, also if one fails, or a handler or another thread registers one meanwhile. That
holds from the loop on. Before it the observer removes itself, outside the `try`
(`shutdown.py:56`): if that fails no handler runs at all (`observer = "failed"`), and
nobody calls it again. `NoneForgotten` does not speak of that case.

What two threads in one Component can meet, and the properties allow: while one reads
the class info, the other finds the flag `_tried_classinfo_` set and gets
`AttributeError` for a name that is about to be known; or, if it had looked at the flag
before, the assertion at the head of `_build_all_supported_interfaces_`.
`__dir__` of a third resets the flag when it catches that assertion.

**Calls.** `NoFault`: no block is freed twice, by the wrong side, read when freed or
past its end, and no null pointer is used, wherever a conversion stops. Four cases are
left out by name, because the code does fault there: values that `PyObject_AsVariant` or
`BackFillVariant` answers with `MOZ_CRASH` or a null pointer (`DeadlyCall`); a native call of a
signature that is refused (`Unsized`); an inout array whose new elements fail to convert in the
stub; and what a caller reads of results that are not there because the handler excused the
exception (`Excused`). `NothingLeaked`: at the end all blocks are freed. After a failure, or an
exception that was excused, that is checked for Python callers whose method has no array and no
wide string with a size: the elements of an array converted in vain, the text that does not
have the right size, and the results a Python method stored before a later one failed are lost.
Native callers that were told of failure are left out.
`SizesAgree`: a method is told the true size of each array, also when several share it.
`ArgumentsArrive`, `ResultsArrive`: a value comes out as it went in. What is
allowed to change is in `Arrived`: a number is cut to the width of its parameter where
the code does not check it (variants, arrays, results), a truth value in a variant becomes
`True`, `None` becomes 0 or no elements, no elements come back as `None`, a text for
a character is its first, and octets come to Python as a str, whether they were a list or a
text. These changes are faults of the code as often as not; the two properties do not tell,
and nothing is said of the arguments of a refused signature and of excused results.
`InterfacesAsAsked`: a pointer that goes with an IID parameter
is of that interface. `ExceptionReported`: an exception in a method or in the
conversion of its results becomes a failure, whether or not the logger works, and none is left
pending. Only the exception handler can make it a success, by returning a number that says so:
`DefaultPolicy` returns the `errno` of a `ServerException` unchecked. A handler that fails, returns
something else, or cannot be called because the arguments could not be made, does not.

7. *Strings by reference.* The stub skips a string that the caller passes to be filled
   in when there is another result: the count of results has it, the loop that stores
   them does not. The string stays empty and the result after it takes its value.

**What no property here would catch.** Some of what can go wrong is what the code always does in
its case, and a property has to leave it out to hold. Listed as hazards without a property: the
set-up entered again by what it imports (`src/dllmain.cpp:213`), `PyXPCOM_Error` null after a failed
import (`src/dllmain.cpp:214`), class info that failed or is half read (`client/__init__.py:267`), the
observer that cannot be removed (`shutdown.py:56`), truth values in variants
(`src/VariantUtils.cpp:892`), values that end the process (line 807), refused signatures called from
native code (line 2472), the caller's array after its elements failed (line 3268), results stored
before a failure (line 3369), and an exception handler that reports success (`src/PyGStub.cpp:194`).
The models have all of these but the first, which `SoundHosts` keeps out of the run; where a
property leaves one out, its definition says so by name.

Bounds. `MaxExt` bounds the references clients own, counting one result for each
call in progress, `Gateways` and `Weaks` the cells. Two client references are what
a race between a use and the last `Release` needs; three gateways allow a base, a
tear-off and the one under construction, four a second base with its tear-off. A
weak reference object lives on while an attribute, a gateway or a call points to
it; five are never all in use in these instances (three in the run with fewer
interfaces). Cells are interchangeable, and so are threads with equal roles, hence
the symmetry sets; the liveness run uses none. In `startup`, `MaxFailures` bounds the
failing steps: one is enough to leave any step half-done, and the set-up is over after
one round. Two native threads are what the second look at `bIsInitialized` needs, two
Python threads what the import lock needs. Stacks stay within `MaxDepth` by
themselves; no guard uses it.

In `clients`, two Components are what a shared dictionary needs and two threads what a
race needs; `Requests` has the operation of each kind that reaches all actions, and the
names: `x` is in two interfaces, `z` is offered by raw interfaces only. Objects, names and
interfaces differ, so there is no symmetry. In `calls`, `Word = 4` and `LongWord = 8`
give numbers that fit (1 to 3), that fit only in a long (5) and in neither (9); texts have
up to 2 characters, arrays up to 2 elements. The signatures are those of
`test/test_component/py_test_component.idl`, octet arrays among them, and a few that it does
not have (strings by reference, IIDs in arrays, arrays of characters, a type that is not
supported). Arrays of octets are given as lists and as texts, with numbers that do not fit and
items that are none. `Missing`
lets native callers pass null for results they do not want. `Nesting` bounds the lists in
lists that the recursive conversions of variants take; `Nesting = 2` is what the deepest
value of `Anything` needs. A call has no loops beyond its parameters, and calls share
nothing, so one call is all there is.

Fairness (`FairSpec` in `Gateway` and `Startup`). `SF` of each thread's steps: the operating system runs
every thread, and a thread waiting for the GIL or for the `PRLock` gets it in the
end if it becomes free again and again. No fairness is assumed of clients: nobody
has to call, or to release. Threads in a call need nothing else.

`Clients` and `Calls` state no fairness. Nothing in them waits: every action of a call
that has begun is enabled until the call is over, and each call is finite.

Deadlock checking is on in every run: a state in which no thread can move is an error.

## 4. What is proved

`GatewayProofs` proves, for any finite number of threads and gateways, any
interfaces and any bound on client references:

| Theorem | Property |
|---|---|
| `TypeCorrect` | `TypeOK` |
| `RefCountsExact` | `RefsExact` |
| `WeakRefsExact` | `WeakRefExact` |
| `KeptAlive` | `KeepAliveHolds` |
| `UnguardedWeakRefSafe` | `PublishedHasWeakRef` |
| `DeletedOnce` | `DestroyedOnce` |
| `BasesOutlive` | `BaseOutlivesTearOffs` |
| `NoDuplicateGateway` | `NoDuplicateAssertion` |
| `SafeUnderLock` | `LockedUsesSafe` |

None of them is inductive alone, and they need each other. The inductive
invariant is `IInv == Control /\ RefsExact /\ Links`, in three layers:

- `Control`: what each program counter says of the thread's own variables and of
  the locks (who holds the GIL and the framework lock is determined by where the
  threads are). It needs nothing else.
- `RefsExact`: needs `Control`. The counts change by one where the sets of callers,
  holders and tear-offs do; lemmas on the cardinality of a set with one element
  more or less carry the arithmetic.
- `Links`: which pointers lead where: bases, weak references, the attribute, and
  the gateway under construction. It needs the exact counts, for a pointer is good
  because a reference is counted for it.

Each layer is shown to hold initially and to be kept by every action, one step per
action. The theorems then follow from `IInv`. The assumptions are those named in
`Gateway`: `None` is no member of the other sets, the interfaces are distinct,
`Threads` and `Gateways` are finite, `MaxExt` is a number.

`SafeUnderLock` tells where the fault of `gateway_dying_stub` can come from: of all the
places where a gateway is counted or counted down, only two are outside the framework
lock, the `AddRef` of `QueryInterface` on what `ThisAsIID` returned (`qi_addref`) and the
first reference of a new stub (`first_ref`), which is in the chain before it is counted.

`GatewayIdentityProofs` proves, for the same constants,

| Theorem | Property | Hypothesis |
|---|---|---|
| `SameIdentity` | `OneIdentity` | `OneCareful` |
| `DefaultStays` | `LiveAttributeStays` | `OneCareful` |
| `GatewaysImplementIdentity` | `ImplementsIdentity`, the refinement of `ObjectIdentity` | `OneCareful` |
| `SafeAlone` | `NoTouchOfFreed` | `Alone` |
| `OneStubAlone` | `OneStubPerInterface` | `Alone` and `OneCareful` |

`OneCareful`: at most one thread auto-wraps the instance (the others call the gateways it
made, as much as they like), and only for interfaces the instance has. Both halves are
needed: `gateway_stale_check` violates `OneIdentity` with two threads, `gateway_refused`
with an interface the instance refuses. `Alone` says that there is one thread; the
violations of these two properties (`gateway_dying_stub`, `gateway_two_stubs`) have two.

The invariant `IdInv` adds to `IInv` that the attribute holds the weak reference of each
base there is (`AttributeIsDefault`), and what a call under way knows (`CallsSound`):
auto-wrapping looks at the attribute as it still is, finds nothing only when its weak
reference is dead, and a new base is made the default only then. So only a dead attribute
is wiped or replaced, and all references lead to the one base whose weak reference it is.
For the refinement, what stands in `ObjectIdentity` is the gateways with a weak reference,
which only `NewWeakReference` and `ZapWeakReference` change; every other step is a use, the
end of a use, or a stutter, according to what it does to the bases in use (`UsedBases`).

`StartupProofs` proves, for any number of threads, any hosts and any number of failures:

| Theorem | Property |
|---|---|
| `TypeCorrect` | `TypeOK`, which bounds the depth of the stacks by `MaxDepth` |
| `AlwaysReady` | `ReadyWhenUsed` |
| `NothingLockedInTheEnd` | `NothingLockedAtRest` |
| `SetUpOnce` | `InitializedOnce` |
| `NoStandOffOnSoundHosts` | `NoStandOff`, if every host in `Hosts` is a `SoundHost` |
| `DanceDoneUntilFailure` | `failures = 0 => DanceDone` |

All rest on one invariant, `SInv` (theorem `Inductive`). The difficulty is the stacks:
a lock is not held by a thread as such but by a frame somewhere on its stack, with other
frames above it that were called in between. The parts of `SInv` are

- `Nested`: which frame can wait for which. Each frame but the innermost has called the
  one above it, and that one has gone on since within the same function.
- `FramesTrue`: what a frame says, wherever it is on its stack, of the locks, the modules
  and the environment; for example, a frame in the section under `g_lockMain` before the
  publication says that `bIsInitialized` is not set.
- `Once`: a thread has at most one frame in that section, one that runs each
  module, and one that imports a package. `PRLock` is not recursive, so this is what
  keeps a thread from passing a lock it holds.
- `HeldBySome`, `GILHeld`, `GILSaved`: who holds a lock has a frame that gives it
  back, where the GIL can be held, and what `PyGILState_Ensure` has found.
- `Ensured`, `Published`: what is set up when the calls return.

A step replaces the innermost frame of one thread, calls, or returns; lemmas say once for
each of the three what it keeps (`ReplaceKeepsAll`, `PushKeepsAll`, `PopKeepsAll`), and
each action is then shown to be one of them. The bound on the depth follows by the
pigeonhole principle: the frames that wait can be told apart by one of 8 numbers (`Slot`).
`InitializedOnce` follows from `FramesTrue`: no frame that could still change the
environment is there once `bIsInitialized` is set.

`NoStandOff` needs a hypothesis on the hosts, and the run `startup_standoff` shows that it
is false without it. `SoundHost` says that either Python or XPCOM was there before the
other, and that nothing imports `_xpcom` while the set-up runs. The two cases have
invariants of their own. `PythonFirst`: a thread is in the set-up only as a part of
`init_xpcom`, with the import lock of Python 2, so two threads cannot be in it. `XPCOMFirst`:
before the set-up is complete nobody waits for the framework lock with the GIL.

`DanceDone` is false (`startup_retry`), but only after a failure. `init_xpcom_real` is set
before the components are registered; what makes that safe until something fails is
the import lock, which the thread between the two still has, so that no other reads the
flag (`Danced`).

The assumptions are those of `Startup`: the sets of threads are apart, the main thread
is one of them, `MaxFailures` is a number, and `None` is neither a thread nor a module.

`ClientsProofs` proves, for any number of threads, Components, interfaces, names and
handlers, any requests and any number of failures:

| Theorem | Property |
|---|---|
| `TypeCorrect` | `TypeOK` |
| `AnswersAreTrue` | `AnswersTrue` |
| `RightInterfaces` | `RightInterface` |
| `NoKeyErrors` | `NoKeyError` |
| `RefusalsAreExplained` | `RefusalsExplained` |
| `ClassInfosRead` | `ClassInfoRead` |
| `ComponentsLast` | `OursComesLast` |
| `HandlersRun` | `NoneForgotten`, from the observer's loop on |

The shutdown needs only that the handler of `components.py` can stand nowhere but first
(`ShutdownInv`). The others rest on `IInv`, which adds to it, each part kept with the
help of those before it: `TypeOK`; `Control`, what the place a call has come to says of what was
asked for, and that a Component is used only when it has been made; `Truth`, that what is
remembered is true and what is held has been described; `Learnt`, that each name
belongs to an interface that has it, that has information, and that this object or
another of its contract answered to; and `Delivery`, the same of the name a call is
about to reach, with what the call may then return. The last part, `Reading`, is what
`ClassInfoRead` becomes while the class info is being read: of what is wanted of the list
every interface is still to do, done, or at hand (`NoneLost`); what the cache has is
complete; and a Component that has tried is complete unless some thread is in the loop.
It holds until a call fails or the caches are emptied, and needs `ShutdownInv`: the
assertion that breaks the loop off can fail only after that. `Learnt` needs that what a
finished Component knows only grows (`Grows`), for another's names point into it. The
assumptions are those of `Clients`. `ContractAssumption` is the one that says something of
the world: objects of one contract list the same interfaces and answer alike for those.
The cache by contract id is built on it, and `RefusalsExplained` and `ClassInfoRead` need
it.

`CallsProofs` proves, for any methods, arguments and answers, and any width of the numbers:

| Theorem | Property |
|---|---|
| `NoExceptionIsLost` | `ExceptionReported` |
| `CallsKeepTheirTypes` | `TypeOK` |
| `SizesAreTrue`, for methods with `PlainSizes` | `SizesAgree` |
| `InterfacesAreAsAsked`, for methods with `PlainIIDs` | `InterfacesAsAsked` |

`ExceptionReported` needs little: the stub comes to its handling of exceptions only with one
pending (`Pending`), and what it makes of it depends on that, on whether it has arguments to
call the handler with, and on what the handler answers; so nothing need be
known of the memory that the conversions leave. The theorem does not say that every exception
becomes a failure, which is not true: a handler that returns the number of a success has its way.

`TypeOK` says that every number in a variant has its width and every pointer leads into memory
that was allocated. It needs everything the conversions do, parameter by parameter, element by
element, and value within value; the model has those as folds and recursive functions. Three
layers lead to it.

- `FoldProofs`: induction. The induction theorems of the library take a predicate, which the
  provers cannot instantiate; here induction is over the set of the indices for which the claim
  holds (`SetInduction`), and rests on the library's theorem that strict inclusion of finite
  sets is well founded. `FoldInduction` uses it for folds: a set that the first value is in and
  that each step stays in has the result. It needs that the recursion of the fold defines
  something (`FoldExists`).
- `FrameProofs`: `Frames(N)` are the well-formed frames of a method with `N` parameters. Each
  operator of `Variants`, `Marshalling`, `InterfaceCall`, `GatewayCall` and `Calls` that makes
  a new frame takes well-formed frames to well-formed frames; those with a fold by
  `FoldInduction`, those that go into nested lists by induction over `Nesting`.
- `CallInv`: between two steps the frame is well-formed (`FrameKind`), the signature and the
  values are such as the methods give them (`MethodKind`), and the result is one of six kinds
 (`ResultKind`). `TypeOK` alone is not inductive: it says nothing of the cells inside a block,
  which `NativeStore`, `SetElement` and the back-filling copy into slots.

The assumptions are those of `Variants` and `Calls`: the width of a number is no more than that
of a long, signatures are well-formed (a size, a length, an IID is a parameter of the method),
and values have sizes that fit.

The proof found a flaw of the model that no run could show: a `CASE` whose guards overlap
leaves the choice open in TLA+, and TLC takes the first. The conversions that try one kind of
value after the other, as the code does, are now written with `IF ... ELSE IF`.

`SizesAreTrue` says that a method is told the true size of each array and text that Python gives
it: the size is a parameter that Python code never sees, `SetSizeOrLengthIs` fills it in from the
first argument it counts, and the arguments after that are checked against it.

`SizesAgree` is not true of every signature. Let an inout array and an "in" array share one
inout size, and the caller give `None` for the first: `PrepareOutVariant` makes space
for it "to dump the result into", as many cells as the size says by then, which is none
(`src/VariantUtils.cpp:1972`); the array that comes after sets the size to its own. The method
is told that size for both. The theorem therefore has a hypothesis on the methods, `PlainSizes`: a size is a
number that is no dipper, it comes in where what it counts comes in, and no array
after an inout array shares its size on the way in. The methods of the test interface have it;
`MCCalls` states that as an assumption, which TLC evaluates (`SizesAssumption`).

- The invariant is `CallInv /\ SizesInv`. `SizesAgree` alone is not inductive: it says nothing
  until the method is called. `SizesInv` says of the parameters prepared so far that what is in
  them has the size that is told, and that this size is final: either it is marked as told
  (`auto`), so that `SetSizeOrLengthIs` only compares, or nothing still to come counts with it.
- Each operator that fills or prepares a parameter gets a lemma of what it leaves alone
  (`Keeps`) and what it adds (`Wrote` a cell, `Made` a block); `TakenParts`, `FilledKnown` and
  `PreparedKnown` then take the invariant from one parameter to the next.
- An array is filled element by element, and setting an element frees what the cell held. That this
  does not reach the blocks of the other parameters is `Above`: while an array is filled, its cells point
  only to blocks allocated after it.
- A text tells the length of the text that is stored, after its encoding is forgotten:
  `PlainText`, from the equation of the recursive function `PlainOf`, whose existence is an
  induction over `Nesting` (`PlainExists`). `PlainOf` is written with `IF ... ELSE IF`: this version of
  tlapm loses the `CHOOSE` of a recursive function that calls itself in a later arm of a `CASE`.

`InterfacesAreAsAsked` says that a pointer that goes with an IID is the interface which that IID
asks for, both in what Python gives a method and in what a Python method gives back. The two are
different parameters, converted in different rounds; between them the memory of the call is
allocated, freed and overwritten for the others.

This is not true of every signature either. `FillInVariant` looks at the IID only if it has been filled in
(`src/VariantUtils.cpp:1728`), so an interface that comes in before its IID is looked up as
`nsISupports`; and results are stored the retval first, so that an IID among them may come after
the interface that it is for, or be replaced after it. `PlainIIDs` therefore has it that the IID of
an interface only comes in, and before an interface that comes in. It says nothing of methods
without such interfaces. Of those with one it also asks that sizes are numbers and dippers
strings, and that an inout array has a size that comes back, for otherwise its new contents are copied
into the block that is there, over cells that the proof does not follow. `MCCalls` states that the methods of the
test interface have it (`IIDsAssumption`).

- The invariant is `CallInv /\ Pending /\ AskedInv`. `AskedInv` follows the call: the parameters
  prepared so far are as asked (`PreparedAsked`), a Python method is called with its IIDs kept and the
  interfaces that only come back still null (`Handing`), and when it has answered those are as asked
  (`ResultsAsked`). `InterfacesAsAsked` says nothing between the preparation and the call, or between the call and
  the return.
- What keeps an IID while other parameters are converted is that nothing else leads to its block:
  no other slot, and no element of an array (`HoldsIID`). `Spares(w, x, I)` says what working on the
  slots in `I` may do to a frame `w`: the other slots are as they were, and so is each block
  that can be reached neither from those slots nor from an array (`Reached`); and a block that has an interface
  keeps it. Each operator of the callers and of the stub has a lemma that it spares what it is not working on.
- A variant whose contents are filled in where they are never points into a Python string or a
  number (`InPlace`), and the cells of a block lead to blocks that were allocated (`Closed`): a stale
  pointer could otherwise come to lead to a block allocated later.

Only model-checked: `CallsReturn` and `StartReturns`, for liveness under fairness is out
of the prover's reach; and the other invariants of `Calls`: `NoFault`, `NothingLeaked`,
`ArgumentsArrive`, `ResultsArrive`. They are about the
calls of the methods of the run, which are those that the test interface of the repository
has; they say more of the memory than that it is well-formed, its sizes true and its IIDs
kept (who owns each block, what a conversion there and back makes of a value).

## 5. Not modelled, and the plan

In this order; the components table of `PROJECT.json` has all parts.

1. Proofs about the calls, on top of `FrameProofs` and the lemmas on what each operator keeps (`Keeps`,
   `Made`, `Above`, `Spares`): the next invariant says of each block which
   slot or cell owns it, and that no two do; `NoFault` and `NothingLeaked` follow from it.
   `ArgumentsArrive` needs besides that a conversion there and back is the identity for each
   type, which is an induction over nested values.
2. The way of a call between the stub and the method: the lookup of attributes in
   `DefaultPolicy._CallMethod_`, and the loader's cache of modules and factories
   (`server/loader.py`, `server/module.py`), with its observer at shutdown.
3. The stream gateway's `Read` and the enumerators.

Not planned: the build system, the conversions of type information (`Pyxpt_info.cpp`,
`xpt.py`, `nsError.py`: tables and formatting without state), the command-line tools and
the tests.
