# TLA+ models of libglvnd

libglvnd dispatches OpenGL, GLX and EGL calls to vendor libraries, several of
which may be in use in one process. This directory holds TLA+ specifications of
its core: which vendor each thread's OpenGL calls go to, who may overwrite the
code of the shared entrypoints, how GLX and EGL contexts are switched and
counted, how vendor libraries are loaded and their functions given out, how an
object is traced to the vendor that made it, and how the libraries recover from
a `fork()`. TLC checks them on small instances; TLAPS proves the safety
properties for every instance.

Paths below are relative to the repository's root.

## 1. Inventory

### Components

| Component | State | Operations | Module |
|---|---|---|---|
| libGLdispatch (`src/GLdispatch/GLdispatch.c`) | dispatch lock, `numCurrentContexts`, current table list with use counts, stub list, patch owner, one `__GLdispatchThreadState` per thread in TLS | init/fini, register/unregister stubs, create/destroy table, make/lose current, thread destructor, force unpatch, get proc address, reset | `GLdispatch` |
| Entrypoint stubs (`vnd-glapi/stub.c`) | code of each library's stubs, `savedEntrypoints`, dynamic stubs | start/restore/abort patch, add a stub, cleanup | `GLdispatch` |
| Table pointer (`vnd-glapi/u_current_tls.c`, `u_current_tsd.c`) | `_glapi_Current`, `ThreadSafe`, one TSD key | get, set, set_multithreaded, init, destroy | `UCurrentTsd` (TSD variant) |
| Fork detection (`CheckFork` in `libglx.c` and `libegl.c`) | `g_threadsInCheck`, `g_lastPid` | called first by every entrypoint | `CheckFork` |
| libGLX contexts (`src/GLX/libglx.c`) | `glxContextHash` and its lock, list of thread states | make current, create, destroy, thread exit, display closed, reset on fork | `GlxContext` |
| libGLX mappings (`libglxmapping.c`) | hashes of vendors, displays, screens, configs, XIDs; client strings of a display | load a vendor, look up a display or screen, add/remove mappings, close a display | `GlxVendor` (vendors, screens), `GlxMapping` (displays, configs, XIDs, strings), `GlxContext` (a close with contexts) |
| libGLX dispatch indices (`util/winsys_dispatch.c`, `GLX/glvnd_genentry.c`) | dispatch index list, generated entrypoints, address cache, each vendor's dispatch table | get a function's address, assign index, generate, update, fetch | `GlxVendor` |
| libEGL current state (`libegl.c`, `libeglcurrent.c`) | per thread: an API state while it has a context, a thread state with error and client API; lists of both with a lock | make current, release thread, bind API, get error, thread exit, reset | `EglCurrent`, `EglDebug` (the locks) |
| libEGL debug output (`libeglerror.c`) | callback and enabled types with a lock, a label per thread | set and query the callback, report, label a thread | `EglDebug` |
| libEGL displays and vendors (`libeglmapping.c`, `libeglvendor.c`, `egldispatchstubs.c`) | vendor list, display and device hashes, index list, address cache, extension string | load vendors, get a display, query devices, get a function's address and call it, merge extensions, reset, unload | `EglDisplay` |
| libGL, libOpenGL, libGLES* (`src/GL/libgl.c`) | their own stub set | constructor, destructor | `GLdispatch` |
| Assembly stubs (`vnd-glapi/entry_*.c`) | machine code | load table, jump | unit of patching in `GLdispatch`, choice of pointer in `UCurrentTsd` |
| Utilities, generators, libHGL, tests | - | - | not modelled |

### How they interact

An application thread calls an entrypoint of libGLX or libEGL. Every such
function first runs `CheckFork` and `__glDispatchCheckMultithreaded`. To make a
context current, libGLX takes `glxContextHashLock`, calls into libGLdispatch
(`__glDispatchMakeCurrent`, under the dispatch lock) and then into the vendor
library, still holding its own lock; either call can fail, and libGLX rolls
back. libGLdispatch may overwrite the code of all registered entrypoints with
the vendor's on the way. OpenGL calls then go through the thread's table pointer
or through the patched code, without any lock. When a thread exits, the
destructor of libGLdispatch's TLS key calls back into libGLX or libEGL. When
libXext closes a display, it calls back into libGLX. When the process forks,
the child keeps one thread and all of the shared state; the first entrypoint to
run in the child resets libGLdispatch and the library it belongs to.

### What is hard

* State shared by all threads (the code of the entrypoints, the table list) is
  changed under a lock on the strength of a counter, and each thread updates its
  own state after the unlock: interleavings of several threads' operations.
* Entrypoints of a library exist while the library is being unloaded, and code
  of a vendor may be in them while the vendor is.
* A fork at any point, including inside fork detection and inside vendor calls.
* A thread's exit and a display's close, with contexts current, while other
  threads hold the lock.
* A switch of vendors that fails half-way.
* Lock-free reads and writes of `_glapi_Current` and `ThreadSafe`.
* Contexts destroyed while current, and handles that are reused.
* Functions that are given out before, while and after the vendors that have
  them are loaded, and called through addresses that never change.
* Names that are not libglvnd's own: the X server reuses XIDs, Xlib the
  addresses of displays, and vendors choose their handles. What libglvnd
  remembers about them has to end with them.
* Settings that libEGL and every vendor keep for themselves and that are changed
  one by one.

`PROJECT.json` lists each hazard at its line with the properties that watch it.

### What makes each component correct

* libGLdispatch: no thread with a current context ever runs an entrypoint of
  another vendor; code changes only when nobody can be running it; a patch is
  always taken out again before its vendor goes; counts equal uses; a table that
  a thread calls through has a slot for every stub; no assertion fails.
* Table pointer: a thread's OpenGL calls reach its own table, and never NULL.
* Fork detection: inherited state is reset exactly once and before any use; no
  call waits for ever.
* libGLX contexts: use counts equal uses; no freed info is ever touched; after
  every call, failed or not, libGLX, libGLdispatch and the vendors agree on what
  is current; libGLX knows every live context.
* libGLX vendors: a vendor is loaded once; a name has one address for ever,
  whatever is loaded meanwhile; a call through it reaches the function of that
  name in the vendor of the screen; a screen keeps its vendor.
* libGLX mappings: a display has one structure, which lives as long as somebody
  uses it and is gone when the display is; a drawable's functions reach the
  vendor of its screen; a drawable that libGLX could not record does not exist.
* libEGL displays: the list of vendors is complete when it is used; a display or
  a device leads to the vendor that made it, for ever; the same arguments give
  the same display; an address works on every vendor's displays; an error tells
  why there is no display.
* libEGL debug output: libEGL and the vendors have the same settings, and the
  same label for a thread; a report is made with settled settings.
* libEGL current state: the same agreement; `eglGetError` tells about the last
  call, whichever library has the error; libEGL and the vendors have the same
  client API for a thread.

## 2. The modules

`EntrypointOwnership` is the abstract specification: each thread has at most one
current vendor, the entrypoints have at most one owner, and while they have one
only its contexts are current. It is what libGLdispatch promises to the window
system libraries. `GLdispatch` is shown to implement it, and `GlxContext` and
`EglCurrent` are built on it, so that they compose: libGLX and libEGL see only
that interface.

### GLdispatch

One action per critical section of the dispatch lock, plus one for what a
thread does after unlocking (`PublishCurrent`, `ClearCurrent`). Variables carry
the names of the source where there is one variable for one; `tls`, `priv` and
`glapi` are a thread's TLS state, its `priv` structure and its table pointer.
A dispatch table is the set of names whose slots are filled; the code of a stub
set is the vendor that wrote it, or `Default`. `client` and `vendor` say where
each library is between load and unload. `ReplacePatch` chooses freely which
stub sets the new owner can patch, and, when `RestoreMayFail`, which cannot be
restored because `mprotect` fails. An assertion of the C code that fails sets
`failedAssert` and stops the process.

What is assumed of callers, because the code relies on it: an application
unloads a library or a vendor only when no context of it is current
(`ContextsReleased`), and a thread has no current state when it calls
`__glDispatchMakeCurrent`.

### UCurrentTsd

The builds without ELF TLS keep the table pointer in thread-specific data and,
while only one thread calls in, in a global. Every read and write of the two
shared variables is a step, and the switch to thread-specific data may come between
any two of them. Ghost variables: `own` is the table of the context the thread last
made current, `late` the thread that wrote the global as if it were alone although the
switch was over, `dropped` the threads that took the switch for a missing table. The
last two name what the race costs (section 6), and `OwnTable` promises the rest. The
constants `ExitWithTable` and `ReloadAfterSwitch` open two more windows.

### CheckFork

`CheckFork` instruction by instruction: increment, swap, reset, store of zero,
load and compare-and-swap of the clamped decrement, spin. The reset is a step
during which others may run. `state` is a ghost variable: whose the library
state is. The constants `ForkBeforeFirstCall` and `PidReuse` open two windows
(section 6). libEGL's copy of the function is the same code. Some names carry a
prefix so that one proof module can extend this module and `UCurrentTsd`.

### GlxContext

`CommonMakeCurrent` is split where it calls into a library, because each call
can fail and, before the lock is taken or while another thread waits for it,
other threads run: `MakeCurrent` up to the first call, then `SwitchContext`
(same vendor), `LoseCurrent`, `DispatchMakeCurrent` and `VendorMakeCurrent`,
with `AcquireFailed` for the rollback, which after a switch of vendors goes on
to the old context. `pc` and `call` are the position and the locals of that
function. `hash[c]` is the info of a context handle, `glx[t]` the thread state.
Drawables are left out: a switch to the same context stands for a change of
drawables.

The vendor libraries are external: `vendorCtx` and `vendorCur` are the contexts
that exist there and what is current, a vendor's make-current may fail at any
time, a context destroyed while current lives until it is released, and a
handle may be reused once its context is gone, also while libGLX still has the info of
the old one (`reused`). A vendor's hooks for thread exit and display close run before or
after libGLX's. An application does not use a display in one thread while another
closes it. Recording a new context may fail, as its `malloc` may.

The thread that forks is in no GLX function; the others may be anywhere, also in
`glXMakeCurrent` with `glxContextHashLock`. The child has the lock as it was: the holder is
then `Gone`, and every call that needs the lock waits for ever. `leaked` are the contexts
that a thread was creating or destroying at the fork, which no thread of the child has.

### GlxVendor

Each function that libGLX gives out is a dispatch stub of some vendor, an
OpenGL stub, or a generated entrypoint (`Stub(v)`, `GlAddr`, `Gen(n)`).
`glXGetProcAddress` is a look into the cache, `FindAddress` or `NewAddress`
under the lock of the vendor hash, and `CacheAddress`. The look-up of a screen's
vendor holds its display's lock from `WriteScreen` to `SetScreen`, and within it
`LockToLoad` to `TellVendor` hold that of the vendor hash, one step for each
entrypoint that is updated and each index that is told, because jumps through
entrypoints and stubs' reads of their index take no lock. `CallFunction` to
`FetchDispatchEntry` is a call of a dispatch stub, modelled on those of the
dummy vendor in `tests/dummy/GLX_dummy.c`; its three steps are the look into the vendor's
table (`LookupFunc`), the question to the vendor (`AskVendor`) and the record (`AddFunc`).

`Fork` includes the reset of the child's first call, which makes the locks of the vendor
hash and of the displays anew. It does not make those of the vendors' tables anew:
`tableLock` is how forks have left them, held for reading by a thread that was about to
look, or for writing by one that was about to add, or free. A call that needs one that is
held waits for ever (`WaitsForever`). `MaxLeftLocked` bounds the tables left so.

`unstubbed` are the OpenGL functions of a vendor for which libGLdispatch had no stub to
give at the load, for want of memory or slots, so that their entrypoint stays the default.

`given` is a ghost variable: the addresses that applications hold. An
application is assumed to call a function only when some vendor that it has seen
loaded has it, which the comment at `libglxmapping.c:149` asks for
(`Announced`; dropped by `EarlyCalls`), and a process not to fork while another
thread loads a vendor (dropped by `ForkDuringLoad`). A name is a GLX function
for all vendors or an OpenGL function for all. The functions that libGLX itself
implements are in the index list from the start and never change; they are left
out.

### EglCurrent

libEGL's thread state (`threadState`: the last error or the vendor to ask for
it, and the client API) and API state (`apiState`: the vendor and the binding
that are current) belong to one thread each and there is no lock, so a call is
one step for each access to libGLdispatch, with the vendor calls next to it:
`AcquireFirst` or `LoseCurrent`, then `DispatchMakeCurrent`, then
`VendorMakeCurrent`; `SwitchBinding` stays within a vendor. Each library that is
asked may refuse. A binding stands for a display, a context and its surfaces.

Functions that leave the context alone are taken together by what they do to the
error state: `Reject` (an error of libEGL's own), `Answer` (success), and
`VendorAnswers` (a dispatch stub). `eglReleaseThread`, and the error paths of
`eglBindAPI`, do not look for a fork, so `ReleaseThread` and `Reject` run in a
child before the reset; all other functions reset first.

libGLX is there with three actions, because libGLdispatch's state of a thread
belongs to either library and both reset it after a fork. `failed` is a ghost
variable: how the last function of a thread ended. Vendors are assumed to notice
a fork themselves, the thread that forked to be the first to call EGL in the
child, and vendors without a current context not to refuse `releaseThread`,
as a comment of `eglReleaseThread` demands.

### GlxMapping

The tables of displays, drawables and configs have a lock each that is held for
one access, and a GLX function makes several accesses; each is an action. The
look-up of a display, which every function starts with, is `FindDisplay`,
`BuildInfo` (without the lock, as it asks the X server) and `InstallInfo`;
`call[t].next` is where the caller goes on. The look-up of a drawable is
`DrawableVendor`, `QueryScreen`, `RememberVendor`, and `UnmapDrawable` for a
destruction; that of a screen is one step, `GlxVendor` has the rest.
`CloseDisplay` to `DisplayGone` are XCloseDisplay with the hooks of libGLX
(`OnDisplayClosed`, `ForgetDisplay`) and of another extension (`HookLookup`).
`info[i]` are the allocated structures, so that a use of freed memory and a leak
are visible. Client strings are merged screen by screen, and stand for the number of
screens merged; each turn may fail, and the call then unlocks (`giveUp`) and reads the
string again without the lock (`reread`), as a call that succeeds does (`answer`).

libGLX never removes the mapping of a config by itself, and no vendor in the repository
asks it to, so configs are recorded for good; they may be shared by displays and used on
any of them, as `include/glvnd/libglxabi.h:79-82` says. `given` is a ghost variable: the
configs that the application has. That no two vendors use the same address, which the same
comment demands, is the constant `ConfigVendor`.

External: the X server's drawables (`drawable`, of this client and of others),
what configs a vendor returns, and the open displays. What the code relies on is a
constant each: a drawable is not destroyed while another thread uses it
(`DestroyInUse`), a foreign XID is not reused (`ForeignReuse`), and no hook calls GLX
after libGLX's (`LateHook`). Section 6 says what goes wrong without each. Vendors create
drawables on their own screens only.

### EglDisplay

`WaitForVendors` to `VendorsLoaded` are `pthread_once` with the loop over the
config files; a file names a vendor, and how files are found is left out.
`GetPlatformDisplay` and `GetDisplay` lead to `FindPlatform`, which is the case
of a device display or starts the loop `AskVendor`, and to `RecordDisplay`
(`__eglAddDisplay`). `QueryVendorDevices` is one turn of the loop over vendors,
with the partial results the code has when a device cannot be added.
`eglGetProcAddress` is a look into the cache, `FindAddress` or `LockIndex` to
`TellVendor` with the lock held, and `CacheProcAddress`; `CallFunction` to
`CallVendor` is a dispatch stub with a display, as libEGL generates them. The
extension string is built under its lock in one step.

`given` and `seen` are ghost variables: the displays and devices that
applications have. `Supported` says which display a vendor returns for which
platform and native display; two vendors may use one handle. `call[t].error` is
what `eglGetError` says of the call, until it returns. Excluded by constants:
forks while another thread tells the vendors an index, merges the string, or
loads the vendors (section 6).

### EglDebug

`ReadEnabled` reads the enabled types without the lock; `SetSettings` changes
libEGL's settings with the lock taken, `TellVendor` those of one vendor, and
`VendorsTold` unlocks. `ReadCallback` is a report up to its unlock and `Report`
the rest, with the error it sets, for which a thread state may have to be made:
`LockList` and `AddState`. `tsd` is the set of threads whose key has a state and
`states` the states that are in the list; they differ while a state is being
freed by somebody else. `SetLabel` changes libEGL's label and the vendors', any of
which may refuse. Changes by two threads overlap as they do in the code.

Ghost variables say what the code leaves unequal: `refused` are the vendors that have
refused settings, of which nothing is claimed; `overtaken` says that the types were
computed from types that another thread replaced before this one took the lock; `behind`
are the vendors that have another label for a thread than libEGL, because they refused it
or because the reset of a child dropped libEGL's without telling them.

A fork may come at any time. A lock that another thread had is then that of `Gone`: the
reset makes the one of the list anew, and nobody `debugLock`. One constant: the thread that
forked is the first to call EGL in the child, unless `NewThreadResets`.

## 3. Runs

| Run | Bounds | Checks |
|---|---|---|
| `dispatch_core` | 3 threads, 2 GLX vendors and 1 EGL vendor, one of each patching, libGL, libGLX unloadable, 1 dynamic stub slot for 2 names | `CodeInv`: types, counts, owner, patch bookkeeping, no code of unloaded vendors; own code only, refusals justified, tables complete, no assertion, code changes only when unused |
| `dispatch_life` | 2 threads, 2 vendors, libGLX and libGL unloadable, `mprotect` may fail, 2 forks | `OwnershipInv`: types, counts cover contexts, owner; `TableInv`: the list of tables and their use counts, complete listed tables; implements `EntrypointOwnership` |
| `tsd_core` | 3 threads, 2 tables, 1 reload | own table; `PointerInv`: types, not NULL after the switch |
| `tsd_first_call` | 2 threads | finding: the switching thread is left with NULL |
| `checkfork` | 3 threads of 2 calls, 1 fork | reset before use, reset only inherited state, every call returns |
| `glx_context` | 2 threads, 2 vendors, 2 handles, 2 displays, 2 forks at any time | `ContextInv`: types, counts are uses, the lock belongs to threads in `glXMakeCurrent` or was left by a fork, what each step of a call relies on; no freed info, agreement, contexts known |
| `glx_vendor` | 2 threads, 2 vendors, 2 displays of one screen, a GLX and an OpenGL function, 1 generated entrypoint, 1 failure, forks without bound, 1 vendor's table left locked | `OnceOnly`: types, one load per vendor, one address per name; `EntrypointsResolved`: vendors told, announced and all entrypoints resolved, nothing used of a vendor before its load is over; `OwnFunction`: a call's index and what vendors were asked for under it; decisions stay; calls return, or wait for a table that a fork left locked |
| `egl_current` | 2 threads, 2 vendors, 3 bindings, 1 fork | `TypeInv`: types, states exist at each point of a call; agreement, error of the last call, client API |
| `glx_mapping` | 2 threads, 1 display of 2 screens of 2 vendors, with or without the libglvnd extension, 1 XID, 3 configs (2 of one vendor), 1 failure | `DisplayInv`: types, one structure per display, no leak, no stale display, what each call has at each point; `RightVendor`, with who may be at a drawable and what is known of it (`DrawablesOK`); own drawables known; `ConfigsKnown`: given configs lead to their vendor, with what is known of all (`ConfigsOK`); complete strings, with who merges them (`StringsOK`) |
| `egl_display` | 2 threads, 3 config files for 2 vendors or none, 3 native displays of which 1 is a device, 2 handles, 1 function, 1 failure, 1 fork, unload | `ListInv`: types, vendor list and extensions complete; `HandlesKnown`: displays keep their vendor, same display, devices known; errors tell why; `AddressesWork`: vendors told, calls reach the vendor; locks held by the living |
| `egl_debug` | 2 threads, 1 vendor with the extension and 1 without, 1 callback, 2 types, 1 label, 1 fork at any time | `StateInv`: types, states alive, locks held by the living or left by the fork; settings agree, labels agree |
| `egl_glx_reset` | 2 threads, 2 vendors, 3 bindings, 1 fork | finding: libGLX's reset drops an EGL context |

Invariants whose name ends in `Inv`, and `OnceOnly`, `EntrypointsResolved`,
`HandlesKnown`, `AddressesWork`, `RightVendor`, `ConfigsKnown` and `StringComplete`, are
conjunctions of named parts that the modules explain one by one. Where there is a proof,
the run checks the inductive invariant of the proof. `ReportsSettled` of `EglDebug` and
`CFTypeOK` of `CheckFork` are proved and in no run.

Why the bounds are enough: three threads give one that changes code, one that
has a context and one that is between counting and publishing; two vendors of
one library and one of the other give both a refused and an allowed patch; two
names for one dynamic slot fill it; two forks give a fork of a child that has
not been reset. For contexts, two handles let a thread switch within a vendor
and between vendors, and be rolled back while the other thread destroys the
context it came from. EGL's two vendors have two bindings and one, for the same
reason; its state is per thread, and the second thread is there for forks and
for libGLdispatch's entrypoints. For vendors, two displays let two threads
load under different display locks; one vendor is named by the environment, the
other by the X server after one that does not support the screen, so that both
get loaded in either order; both have the GLX function, so that the stub of one
is called for a screen of the other; one generated entrypoint for two names
makes the table full. One table that a fork has left locked is enough: a call needs
one table at a time. A third thread was tried with one display and one fork and
found nothing more for GLX.

For mappings, one display is enough because displays share nothing but the
config table, which does not say what display a config is for, and configs outlive the
close of the display; its two screens have different vendors, so that one XID, destroyed
and created again, changes its vendor. Two configs of one vendor are an array that a
failure can cut, after which another thread gets the same configs; the third is the other
vendor's. Two failures were tried, with each property holding. The display is closed and opened again at
the same address. For
EGL displays, one handle is used by both vendors for displays of different
platforms, so that the second to come is refused; a file names a vendor twice;
the function is one that only the second vendor has, so that the first is told
an index it never asked for. For debug output, a vendor without the extension comes
before one that has it; vendors do not know of each other, and each agrees with libEGL or
not for itself, so one with the extension is enough.

Four runs do without the deadlock check, because the system may really stop: in
`dispatch_life` at a failed assertion, in `glx_context`, `glx_vendor` and `egl_debug` when
all threads of a child wait for a lock that a fork has left locked. `CallsReturn`
says of `glx_vendor` that nothing else stops it.

Symmetry is used over threads (and, in `glx_context`, handles, vendors and
displays; in `glx_mapping`, configs of one vendor; in the table pointer runs, tables), for
safety properties only.

### Fairness

`CallReturns` and `CallsReturn` need it. `CFFairSpec` of `CheckFork` has weak fairness of each
thread's next instruction once it is in a call: the operating system runs every
runnable thread, and `sched_yield` in the loop lets it. A spinning thread only
leaves when it sees zero, so a stream of new calls could in principle keep it
there; the number of calls is bounded (`MaxCalls`), which is the assumption that
callers come to rest.

`FairSpec` of `GlxVendor` has weak fairness of each thread that is in a call. A
thread that waits for a lock gets it when the lock stays free; others can take
it again only to load another vendor or after a load that failed, and both are
finite (`MaxFailures` bounds the failures). `CallsReturn` is that each thread is in no call
again and again, unless it waits for a table that a fork has left locked: that lock has no
holder, and no fairness helps.

## 4. Proofs

The modules named `..._proof` hold the theorems; `PROJECT.json` lists the main
ones. They hold for any sets of threads, vendors and libraries and any numbers of
forks, under the assumptions named in the modules. `ThreadInitialize_proof` has those
of `CheckFork` and `UCurrentTsd`, the two things that `__glXThreadInitialize` does.

* `OwnershipInv` is inductive: the type invariant, what a thread's state is at
  each point of its operation (`ThreadInv`), which libraries are loaded
  (`LoadInv`), `numCurrentContexts` is at least the number of contexts, and the
  owner's patch excludes contexts of others. The last two need each other: a
  patch is installed only when the counter says that nobody else has a context,
  which is safe only if the counter never undercounts. From it follow
  `CountCoversContexts`, the refinement of `EntrypointOwnership` and
  `CodeChangesOnlyUnused`. Failing `mprotect` calls and resets by any thread are
  allowed for.
* `CodeInv` adds what each stub set's code is against its saved copy
  (`PatchInv`). It is inductive if restoring never fails (`~RestoreMayFail`),
  and gives `OwnCodeOnly`, `PatchOfLoadedVendor` and `PatchStateConsistent`.
* `TableInv` is inductive on top of `OwnershipInv`: a table is in the current list
  exactly while its use count is positive, the count is the number of threads that
  have taken the table and not given it back (`TableUsesCounted`), and each listed
  table has an entry for every stub (`ListedTablesComplete`). It needs that the
  thread that resets a child has no context (`~ResetWhileCurrent`). The counts are
  cardinalities of sets of threads, so a step adds or takes one element. It gives
  `CurrentTableComplete` and, with what each assertion checks, that those of
  `GLdispatch.c` hold (`DispatchAssertsHold`, also when `mprotect` fails) and, with
  `CodeInv`, that no assertion fails (`NoAsserts`, when no library with stubs is
  unloaded).
* `RefusalJustified` is proved for a process without forks (`MaxForks = 0`), where
  `numCurrentContexts` equals the number of contexts (`ExactInv`); with one the
  property is false (section 6).
* `PointerParts` of `UCurrentTsd` is inductive when no thread exits with a context and
  the libraries are not reloaded after the switch (`OrderlyEnd`); the switch itself may come
  between any two accesses. `ThreadInv` says what each thread has read and is about to write
  at each access of `u_current_get` and `u_current_set`, and `GlobalInv` that
  until the switch is over the shared pointer is the first thread's and no other
  thread has a context, and that afterwards it is null, or what the first thread wrote
  late. It gives `PointerInv` and `OwnTable`.
* `ContextInv` of `GlxContext` is inductive without any assumption, with forks at any
  time and handles that are reused early. The core is `CountIsUse`: an info's count is the
  number of threads that have it current or are about to. A child of a fork that left the
  lock behind keeps `ContextInv`, since no thread gets past the lock any more. `ContextKnown`
  leaves out the contexts in `reused`, whose info is that of a destroyed one. `CallOK` says at
  each point of
  `CommonMakeCurrent` that the infos the call goes from, to and back to are in the
  hash, and are those of the vendors it has seen; `StateOK` the same of the thread
  state. `CurrentOK` says at each point what libGLdispatch and the vendors have
  current, with the rollback of a failed call; `VendorContextOK` that nobody has to do
  with a context while it is created or destroyed; `CloseOK` that no display is closed
  twice at a time. The proof splits a step into its effect on the counts (a use moves
  from one info to another or to none) and on the other threads (none, except
  that infos nobody uses go). It gives `NoFreedInfo`, `Agreement` and
  `ContextKnown`.
* `GlxVendor` has three layers. `OnceOnly` and `DecidedStays` need no assumption: what
  a search or a look-up has found out stays true while it waits, because only the
  holder of a lock adds what it was looking for (`CallOK`, `IndexListOK`), and an
  address, once found, can be found again in the list (`AddressesFound`).
  `EntrypointsResolved` needs that no fork comes during another thread's load
  (`~ForkDuringLoad`): the vendors whose load is over (`Ready`) were told all
  indices, left no entrypoint unresolved, and only they are used (`ToldOK`,
  `UpdatedOK`, `UsedReady`); a vendor joins them when it has been told the last index.
  `OwnFunction` needs also that applications call what they have seen a vendor for
  (`~EarlyCalls`): then the entrypoint's stub belongs to a ready vendor, so it has the
  index of its name, which stays the same until the call is over (`CallIndexOK`)
  and under which each vendor was asked for that name only (`FetchedOK`). TLC
  refutes the last two properties without their assumption. The locks that forks leave
  behind need no assumption: they only stop calls. The functions that libGLdispatch had no
  stub for (`Lacks`) are excepted by name, and a vendor that comes later may still be
  the one whose entrypoint it is.
* `ForkInv` of `CheckFork` is inductive if process IDs are not reused
  (`~PidReuse`). Its core is `InheritedInv`: while inherited state is not reset,
  the counter is at least the number of threads whose increment is pending, so
  that nobody leaves the loop. It gives `ResetBeforeUse` and
  `ResetOnlyInherited`, also for forks before the first call.
* All properties of `EglCurrent` are proved. `TypeInv` says of each thread,
  at each point of a call, which of its states exist and what libGLdispatch has
  (`Owned`); types need it, because the code dereferences what it says is there.
  `Known` adds what the vendors have current, and is inductive if a child calls
  GLX before EGL (`~GlxAfterEgl`): it has to allow for a child in which libGLX
  has reset libGLdispatch and libEGL has yet to notice the fork. `ErrorInv` and
  `ApiInv` need `TypeInv` only. `ErrorInv` says at each point of a call what the
  thread state may hold: a call that libGLdispatch is about to refuse has
  recorded no error yet, so that a refusal leaves none.
* All properties of `EglDebug` are proved. They need that the thread that forked is the
  first of the child to call EGL (`~NewThreadResets`), and nothing else. `StateInv` says which
  locks are held at each point, by whom they may have been left, and that a state that a key
  leads to is in the list. `LabelInv` adds that a label exists only with a state, and is the
  vendors', except those that are `behind`. `SettingsInv` says of the thread that holds
  the lock that the vendors before its position have the new settings and those
  after it can still get there: the change of a vendor is computed from the
  vendor's own settings and libEGL's from those read before the lock. Both give the same
  callback always, and the same types unless the types read had been replaced meanwhile
  (`overtaken`), until the callback is removed, which sets the default types everywhere. That
  a vendor may be in the list twice does no harm because the change is idempotent.

* All properties of `EglDisplay` are proved. `ListInv` is inductive without any
  assumption: only one thread loads the vendors, while `once` says so (`LoadingOK`), and
  every other that is past `pthread_once` finds them loaded, so the list does not change
  under a loop over it, nor does the extension string under those that read it. `CallOK` says
  what a call has at each point, also while it waits for the load. Forks are
  harmless here because the child's first thread in a function is alone
  (`child`). Each step is put in one of a few forms (a thread moves on alone, adds to the
  list, records, tells), and the other properties are proved of the forms.
  `HandlesKnown` says of each display the vendor that it must have had: that of the device,
  or the first in the list that supports it (`ChosenOK`, with `NoneBefore` for
  the loop in between). Two threads may look for one display at the same time; since
  both choose the same vendor, it does not matter which of them records it.
  `ErrorTellsWhy` is proved on `ListInv` alone. Neither needs an assumption on forks.
  For `AddressesWork`, an index is known to all vendors, or some thread that holds
  `dispatchIndexMutex` has told those before its position (`IndexOK`, `ToldAll`); a child
  that makes the mutex anew loses that thread, hence `~ForkDuringTell`.
  `HolderAlive` needs `~ForkDuringMerge` and `~ForkDuringLoad`. The first stub in the list
  (`FirstStub`) is the minimum of a set of positions, which exists because the
  numbers are well-founded. `DevicesAssumption` says that a device is not
  `EGL_DEFAULT_DISPLAY`.

* All properties of `GlxMapping` are proved, in four layers.
  `DisplayInv` is inductive if no late hook calls GLX (`~LateHook`): a structure is
  new and its builder's own until it is in the table, who closes a display is alone
  with it (`StructuresOK`), and so every thread that has a structure has the one in
  the table. That `BuildInfo` finds a free structure is proved by counting:
  each structure in use belongs to a display or to a thread, and there are
  `MaxInfos`, one for each of them, of which the builder has none.
  `ConfigsOK` needs `~LateHook` only: a config is recorded before the call that returns it
  goes on to the next, mappings are never removed, and an array is given after its last. It
  gives `ConfigsKnown`.
  `DrawParts` is `DrawablesOK` and `OwnDrawablesMapped` told drawable by drawable
  (`AtOK`, `MadeOK`) and thread by thread (`UserOK`, `Sole`); it needs `ConfigsOK`, because a
  drawable's vendor may come from a config, and `~DestroyInUse` and `~ForeignReuse`. Its
  core is that whoever makes or destroys a drawable is the only one to have its XID
  (`Sole`), so that a mapping is never added behind a removal. Several threads may
  record the vendor of a drawable that they only use: all have the same. A step is
  one of a few kinds (`DrawStep`, `DrawOne`, `DrawLearns`, `DrawGoes`, `DrawFree`). It gives
  `RightVendor` and `OwnDrawablesMapped`.
  `StringsOK` needs `~LateHook`: a merge that fails sets the string back to none before the
  unlock, so that a string is complete or there is none whenever nobody has the lock.
  `StringComplete` promises the string to the calls whose own merge has not failed.
  Section 6 says what happens without each assumption.

Only model-checked: liveness (`CallReturns`, `CallsReturn`), which needs fairness
and so is beyond the prover.

## 5. Not modelled

* Most of the repository's lines are not libglvnd's logic: the API headers under
  `include/` are declarations, `cJSON.c` and `uthash` are vendored, and the
  entrypoints are generated.
* The code that only forwards calls or formats data: the GLX and EGL entrypoints
  that look up a vendor and call it, the wire protocol (`libglxproto.c`), string
  handling, logging, `app_error_check.c`, libHGL.
* How config files are found and parsed (`libeglvendor.c`): `EglDisplay` starts
  with the list of vendors that they name.
* The pthreads shim and the generators.
* Machine code of the stubs. A patch of one stub set is atomic with respect to
  calls; `CodeChangesOnlyUnused` is the property that makes this sound.
* Failing allocations, except that of a dispatch table, of a context's info, and those in
  `GlxVendor`, `GlxMapping` and `EglDisplay`. The thread states of libGLX and libEGL are
  always there.
* Contexts that a vendor fails to create: `glXCreateContext` records the NULL handle
  (`libglx.c:242`) as that vendor's. A later one that another vendor fails to create meets
  that record and has NULL destroyed; the application gets NULL in both cases, and
  `glXDestroyContext` and `glXMakeCurrent` never look NULL up. Functions that do, such as
  `glXIsDirect`, go to the vendor of the record. Contexts that exist are not affected.
* Config addresses that two vendors use at different times, which
  `include/glvnd/libglxabi.h` forbids; `libglxmapping.c:825` refuses the second.
* `__glXRemoveVendorFBConfigMapping`, which only a vendor could call.
* Vendors that create a drawable on a screen that is not theirs.
* `eglGetProcAddress` of OpenGL names and of libEGL's own functions, which never
  change. `EGL_PLATFORM` makes `eglGetDisplay` an `eglGetPlatformDisplay`.
* Debug callbacks that call EGL, and labels of objects other than threads.
* Process exit (`__glXFini` with `__glXAPITeardown(False)`).
* A fork inside a critical section of the dispatch lock: sections are atomic.
* Forks in `GlxMapping`.
* Vendor `threadAttach` callbacks, and vendors that call back into libGLX.

## 6. Findings

Two runs show the code contradict a comment of its own; `PROJECT.json` quotes
the lines. More weaknesses are of two kinds: some are in the passing runs, and the
properties say what is left of their promise; others are excluded, and were found by
changing one constant of the run's cfg to TRUE (or `MaxForks` to 1).

In the passing runs:

* A child's reset makes some locks anew and others not. `glxContextHashLock`
  (`libglx.c:1984`, `LockInv` of `GlxContext`), the lock of a vendor's dispatch table
  (`libglxmapping.c:1052`, `WaitsForever` of `GlxVendor`) and `debugLock`
  (`libeglerror.c:47`, `HolderAlive` of `EglDebug`) stay locked if another thread had
  them at the fork, and so does `clientStringLock`; whoever needs one waits for ever.
* The reset of libEGL takes `currentStateListMutex` before it makes it anew
  (`libeglcurrent.c:86-104`). It does nothing with the mutex if the list is empty; if it is
  not, and another thread had the mutex, the child's first EGL call waits for ever.
* A vendor's thread destructor that runs before libGLX's lets the handle of a destroyed
  context be reused while its info is there. `__glXAddVendorContextMapping` keeps that
  info, marked deleted (`libglx.c:721`), and the thread's exit frees the info of the live
  new context (`reused` in `GlxContext`).
* libGLX never forgets a config: `__glXRemoveVendorFBConfigMapping` is exported to vendors,
  which may not call it when a display is closed (`include/glvnd/libglxabi.h:129-132`), so the
  table only grows.
* `glXGetClientString` reads the string again after it unlocked (`libglx.c:1457`). A call
  whose own merge failed may return a string that another thread is merging, and about to
  free (`reread` in `GlxMapping`).
* `u_current_get` reads `ThreadSafe` before the switch and the global after it, and returns
  NULL where `u_current.h:23` says "Return pointer to current dispatch table for calling
  thread."; `__glDispatchCheckMultithreaded` then replaces the table of a current
  context by the no-op one (`dropped` in `UCurrentTsd`).
* `u_current_set` reads `ThreadSafe` and then writes the global, which after the switch
  keeps one thread's table for all (`late` in `UCurrentTsd`).
* The enabled types of debug messages are read before the lock is taken
  (`libeglerror.c:64`), and a change that comes in between is lost in libEGL but not in
  the vendors (`overtaken` in `EglDebug`).
* The reset in a child drops libEGL's label of a thread and does not tell the vendors, and
  a vendor that refuses a label leaves libEGL with another one (`libeglerror.c:174`; `behind`
  in `EglDebug`).

Excluded by a constant, libGLdispatch and libGLX:

* `GLdispatch` with `MaxForks = 1`: `__glDispatchReset` (`GLdispatch.c:706`) leaves
  `numCurrentContexts` as it was, "The number of current contexts that GLdispatch
  is aware of" (`:58`). A child of a thread that had a context never gets the
  entrypoints for another vendor (`RefusalJustified`).
* `GLdispatch` with `RestoreMayFail`: `PatchEntrypoints` ignores a failed
  `restoreFuncs` (`GLdispatch.c:522`). The stubs keep another vendor's code, which a thread
  that makes a context current then runs (`OwnCodeOnly`), and the next patch meets the
  assertion at `stub.c:219` (`NoAssertFails`).
* `GLdispatch` with `ResetWhileCurrent`: `__glDispatchReset` zeroes the use counts
  of all tables but clears the thread-specific state of the calling thread only.
  When a new thread of the child is the first to call, the surviving thread
  keeps its state, and losing it meets the assertion at `GLdispatch.c:241`.
* `GLdispatch` with libGL in `MayUnload`: libGL's destructor frees the saved
  entrypoints before it unregisters them (`libgl.c:57`), and a switch of vendors
  in between meets the assertion at `stub.c:246` (`NoAssertFails`).
* `CheckFork` with `ForkBeforeFirstCall`: a fork while a thread is in the first
  call ever, before it has stored a process ID, leaves a count that no reset sets
  to zero (`libglx.c:1932`); all threads of the child spin (`CallReturns`), where
  the comment at `:1950` says that the first of them will see the fork.
* `CheckFork` with `PidReuse`: a grandchild with the process ID of its dead
  grandparent does not notice the forks (`ResetBeforeUse`).
* `GlxVendor` with `EarlyCalls`: a load plugs the vendor's stub into a generated
  entrypoint (`libglxmapping.c:494`) before it tells the vendor the index
  (`libglxmapping.c:500`). A thread that jumps through the entrypoint between the
  two runs the stub with an index that it was never told, and
  `__glXFetchDispatchEntry` meets its assertion at `libglxmapping.c:275`, or finds
  another function (`OwnFunction`). The other order would close the window.
* `GlxVendor` with `ForkDuringLoad`: the child has the vendor in its hash, but
  nobody goes on to tell it the indices (`VendorsTold`).
* `GlxMapping` with `DestroyInUse`: a look-up that has asked the X server about a
  drawable adds the mapping (`libglxmapping.c:967`) that `glXDestroyPixmap` has just
  removed (`libglx.c:1574`). It stays, and the next drawable with that XID reaches
  the old one's vendor, or cannot be created (`RightVendor`).
* `GlxMapping` with `ForeignReuse`: the vendor of another client's drawable is
  remembered for as long as the display is open, although the XID may become that
  of a drawable on another screen (`RightVendor`).
* `GlxMapping` with `LateHook`: a hook that calls GLX after libGLX's has run makes a
  structure that no hook will remove (`NoStaleDisplay`).
* `UCurrentTsd` with `ReloadAfterSwitch`: `u_current_init` clears `ThreadSafe`
  while `isMultiThreaded` stays set, and two threads share the global.
* `UCurrentTsd` with `ExitWithTable`: a thread that exits with a current context
  leaves its table in the global for a thread that gets its `pthread_t`.

Excluded by a constant, libEGL:

* `EglDisplay` with `ForkDuringTell`: `dispatchIndexMutex` is made anew in the child,
  but nobody goes on to tell the vendors the index that was allocated
  (`AddressUsable`).
* `EglDisplay` with `ForkDuringMerge`: `clientExtensionStringMutex` is not made anew
  (`HolderAlive`).
* `EglDisplay` with `ForkDuringLoad`: the model's `pthread_once` never ends in the
  child (`HolderAlive`); that of glibc starts again there.
* `EglDebug` with `NewThreadResets`: if a new thread of the child is the first to
  call EGL, the state of the thread that forked is freed while its key still
  leads to it; only the caller's key is cleared (`libeglcurrent.c:94`)
  (`StateAlive`).

Noted while modelling, in no run: a display that cannot be recorded, because its
handle is another vendor's or for want of memory, may end with `EGL_SUCCESS`,
where `libegl.c:349` says "Every vendor library returned an error code"; the lock
of `__eglDeviceHash` is not made anew where `libeglmapping.c:252` says "Just reset
the corresponding locks"; `eglQueryDisplayAttrib*`, `eglReleaseThread` and the
error paths of `eglBindAPI` do not look for a fork; a report calls the callback
after the unlock, so a callback that has been replaced may still be called
(`libeglerror.c:231`), while `eglDebugMessageControlKHR` calls it with the lock held
for writing (`:107`).

## 7. Plan

Done: all modules; all safety properties that a run checks are proved.

Worth trying: a composition of `GlxContext` and `EglCurrent` on one
`EntrypointOwnership`; today `EglCurrent` has the three actions of libGLX that
touch what the two share.
