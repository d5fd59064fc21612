------------------------------ MODULE EglDisplay ------------------------------
(***************************************************************************)
(* How libEGL finds the vendor of a display, a device or a function: the   *)
(* list of vendors (src/EGL/libeglvendor.c), the tables of displays,       *)
(* devices and dispatch indices (src/EGL/libeglmapping.c), and the EGL     *)
(* functions that use them (src/EGL/libegl.c, egldispatchstubs.c).         *)
(*                                                                         *)
(* The vendors are loaded once, by the first thread that needs them; their *)
(* list does not change then.  The tables have a lock each, held for one   *)
(* access, except that libEGL calls the vendors with the lock of the       *)
(* indices and that of the extension string.  An access, and a call of a   *)
(* vendor, is a step.                                                      *)
(*                                                                         *)
(* The vendors are external.  What eglGetError says of a call is in the    *)
(* call's record until the call returns; EglCurrent has the rest of a      *)
(* thread's state.                                                         *)
(***************************************************************************)
EXTENDS Integers, Sequences, FiniteSets, SequencesExt

CONSTANTS
  Thread,
  Vendor,
  ConfigFiles,   \* the configurations that there may be: the vendor library that
                 \* each config file names, in order
  Native,        \* native displays; device handles are also passed for one
  Device,
  DeviceVendor,  \* the vendor of each device
  Handle,        \* the values that vendors return as an EGLDisplay
  Supported,     \* the handle of each vendor for a platform and a native display,
                 \* or None
  Recognised,    \* the platform of a native display that eglGetDisplay finds by
                 \* looking at it, or None
  Name,          \* names of functions
  Provided,      \* the vendors that have a dispatch stub for each function
  MaxFailures,   \* bound on the allocations and loads that fail
  MaxForks,
  ForkDuringTell,\* whether a process may fork while another thread tells the
                 \* vendors an index
  ForkDuringMerge, \* whether it may while another thread builds the extension string
  ForkDuringLoad,  \* whether it may while another thread loads the vendors
  None

Platform == {"none", "device", "x11"}

ASSUME ConstantsAssumption ==
  /\ \A f \in ConfigFiles : f \in Seq(Vendor)
  /\ Device \subseteq Native /\ IsFiniteSet(Device)
  /\ DeviceVendor \in [Device -> Vendor]
  /\ Supported \in [Vendor \X Platform \X Native -> Handle \cup {None}]
  /\ Recognised \in [Native -> Platform \cup {None}]
  /\ Provided \in [Name -> SUBSET Vendor]
  /\ MaxFailures \in Nat /\ MaxForks \in Nat
  /\ {ForkDuringTell, ForkDuringMerge, ForkDuringLoad} \subseteq BOOLEAN
  /\ None \notin Thread \cup Vendor \cup Native \cup Handle \cup Name \cup Platform

\* A device is not EGL_DEFAULT_DISPLAY, which is NULL as EGL_NO_DEVICE_EXT is.
ASSUME DevicesAssumption == \A d \in Device : Recognised[d] # "none"

VARIABLES
  files,        \* the configuration
  once,         \* loadVendorsOnceControl: "no", "loading" or "done"
  vendorList,   \* __eglVendorList
  told,         \* the names whose dispatch index each vendor has been told
  index,        \* the dispatch index list: whose stub each name has, or None
  indexLock,    \* the holder of dispatchIndexMutex, or None
  cache,        \* __eglProcAddressHash: whose stub each name has, or None
  found,        \* dynDispatch of the vendors: <<vendor, name>> pairs
  displays,     \* __eglDisplayInfoHash: the vendor of each handle, or None
  devices,      \* __eglDeviceHash: the vendor of each device, or None
  extensions,   \* clientExtensionString: the vendors whose string is in it, or None
  stringLock,   \* the holder of clientExtensionStringMutex, or None
  pc,           \* where each thread is: see TypeOK
  call,         \* the arguments and locals of an EGL function
  child,        \* whether the process is a child that has not noticed the fork
  given,        \* ghost: the displays that applications have got
  seen,         \* ghost: the devices that applications have got
  failures,
  forks

vendorVars  == <<files, once, vendorList>>
indexVars   == <<told, index, indexLock, cache, found>>
tableVars   == <<displays, devices, given, seen>>
stringVars  == <<extensions, stringLock>>
threadVars  == <<pc, call>>
processVars == <<child, forks>>
vars == <<vendorVars, indexVars, tableVars, stringVars, threadVars, processVars, failures>>

NoCall == [op |-> None, platform |-> None, native |-> None, handle |-> None, vendor |-> None,
           name |-> None, max |-> 0, pos |-> 1, next |-> None, said |-> {}, error |-> "success"]

Init ==
  /\ files \in ConfigFiles
  /\ once = "no"
  /\ vendorList = <<>>
  /\ told = [v \in Vendor |-> {}]
  /\ index = [n \in Name |-> None]
  /\ indexLock = None
  /\ cache = [n \in Name |-> None]
  /\ found = {}
  /\ displays = [h \in Handle |-> None]
  /\ devices = [d \in Device |-> None]
  /\ extensions = None
  /\ stringLock = None
  /\ pc = [t \in Thread |-> "idle"]
  /\ call = [t \in Thread |-> NoCall]
  /\ child = FALSE
  /\ given = {}
  /\ seen = {}
  /\ failures = 0
  /\ forks = 0

Goto(t, l, c) ==
  /\ pc' = [pc EXCEPT ![t] = l]
  /\ call' = [call EXCEPT ![t] = c]

Return(t) == Goto(t, "idle", NoCall)

\* The function is about to return, with that for eglGetError.
Finish(t, c, e) ==
  Goto(t, "done", [NoCall EXCEPT !.op = c.op, !.handle = c.handle, !.vendor = c.vendor,
                                 !.name = c.name, !.said = c.said, !.error = e])

\* __eglLoadVendors is called, and what comes after it.
Load(t, next, c) == IF once = "done" THEN Goto(t, next, c) ELSE Goto(t, "load", [c EXCEPT !.next = next])

Fail == failures < MaxFailures /\ failures' = failures + 1

\* An entrypoint that has looked for a fork.
Start(t) == pc[t] = "idle" /\ ~child

Loaded == ToSet(vendorList)

-----------------------------------------------------------------------------
(* The list of vendors.                                                    *)

\* Variant: a thread does not wait for the one that loads.
WaitForVendors_Not(t) ==
  /\ pc[t] = "load" /\ once # "no"
  /\ Goto(t, call[t].next, [call[t] EXCEPT !.next = None])
  /\ UNCHANGED <<vendorVars, indexVars, tableVars, stringVars, processVars, failures>>

\* pthread_once, when another thread has called it first.
WaitForVendors(t) ==
  /\ pc[t] = "load" /\ once = "done"
  /\ Goto(t, call[t].next, [call[t] EXCEPT !.next = None])
  /\ UNCHANGED <<vendorVars, indexVars, tableVars, stringVars, processVars, failures>>

\* LoadVendors
LoadVendors(t) ==
  /\ pc[t] = "load" /\ once = "no"
  /\ once' = "loading"
  /\ Goto(t, "file", call[t])
  /\ UNCHANGED <<files, vendorList, indexVars, tableVars, stringVars, processVars, failures>>

\* LoadVendor, which may be called for a library twice: dlopen gives the same handle.
Loads(v) == v \notin Loaded

\* LoadVendorFromConfigFile; a vendor that cannot be loaded is left out.
LoadVendorFromConfigFile(t) ==
  LET v == files[call[t].pos] IN
  /\ pc[t] = "file" /\ call[t].pos <= Len(files)
  /\ \/ /\ Loads(v)
        /\ vendorList' = Append(vendorList, v)
        /\ UNCHANGED failures
     \/ ~Loads(v) /\ UNCHANGED <<vendorList, failures>>
     \/ Loads(v) /\ Fail /\ UNCHANGED vendorList
  /\ Goto(t, "file", [call[t] EXCEPT !.pos = call[t].pos + 1])
  /\ UNCHANGED <<files, once, indexVars, tableVars, stringVars, processVars>>

VendorsLoaded(t) ==
  /\ pc[t] = "file" /\ call[t].pos > Len(files)
  /\ once' = "done"
  /\ Goto(t, call[t].next, [call[t] EXCEPT !.pos = 1, !.next = None])
  /\ UNCHANGED <<files, vendorList, indexVars, tableVars, stringVars, processVars, failures>>

-----------------------------------------------------------------------------
(* Displays.                                                               *)

\* Variant: the handle of another vendor's display is returned.
AddDisplay_AnyVendor(h, v, ok) ==
  \/ displays[h] = None /\ ok /\ displays' = [displays EXCEPT ![h] = v] /\ UNCHANGED failures
  \/ displays[h] = None /\ ~ok /\ Fail /\ UNCHANGED displays
  \/ displays[h] # None /\ ok /\ UNCHANGED <<displays, failures>>

\* __eglAddDisplay, with ok for a structure that is returned
AddDisplay(h, v, ok) ==
  \/ displays[h] = None /\ ok /\ displays' = [displays EXCEPT ![h] = v] /\ UNCHANGED failures
  \/ displays[h] = None /\ ~ok /\ Fail /\ UNCHANGED displays
  \/ displays[h] # None /\ ok = (displays[h] = v) /\ UNCHANGED <<displays, failures>>

\* eglGetPlatformDisplay and eglGetPlatformDisplayEXT, which first copies the
\* attributes.
GetPlatformDisplay(t, p, n) ==
  LET c == [NoCall EXCEPT !.op = "display", !.platform = p, !.native = n] IN
  /\ Start(t)
  /\ IF p = "none" THEN Finish(t, c, "parameter") /\ UNCHANGED failures
     ELSE \/ Load(t, "platform", c) /\ UNCHANGED failures
          \/ Fail /\ Finish(t, c, "alloc")
  /\ UNCHANGED <<vendorVars, indexVars, tableVars, stringVars, processVars>>

\* eglGetDisplay of EGL_DEFAULT_DISPLAY, or of a display whose platform has to be
\* guessed.  If the environment names the platform, it is eglGetPlatformDisplay.
GetDisplay(t, n) ==
  LET c == [NoCall EXCEPT !.op = "display", !.native = n] IN
  /\ Start(t)
  /\ IF Recognised[n] = "none" THEN Load(t, "platform", [c EXCEPT !.platform = "none"])
     ELSE Load(t, "guess", c)
  /\ UNCHANGED <<vendorVars, indexVars, tableVars, stringVars, processVars, failures>>

\* GuessPlatformType.  A platform is found only if a vendor supports it.
GuessPlatformType(t) ==
  LET n == call[t].native
      supports(q) == \E v \in Loaded, m \in Native : q # None /\ Supported[<<v, q, m>>] # None
      p == IF n \in Device /\ devices[n] # None THEN "device"
           ELSE IF supports(Recognised[n]) THEN Recognised[n] ELSE None
  IN
  /\ pc[t] = "guess"
  /\ IF p = None THEN Finish(t, [call[t] EXCEPT !.said = {"success"}], "success")
     ELSE Goto(t, "platform", [call[t] EXCEPT !.platform = p])
  /\ UNCHANGED <<vendorVars, indexVars, tableVars, stringVars, processVars, failures>>

\* GetPlatformDisplayCommon up to the vendor's answer for a device, or to the
\* loop over the vendors.
FindPlatform(t) ==
  LET n == call[t].native
      c == [call[t] EXCEPT !.vendor = IF n \in Device THEN devices[n] ELSE None]
      h == Supported[<<c.vendor, "device", n>>]
  IN
  /\ pc[t] = "platform"
  /\ CASE vendorList = <<>> -> Finish(t, call[t], "parameter")
       [] vendorList # <<>> /\ c.platform = "device" /\ Recognised[n] # "none" ->
            IF c.vendor = None THEN Finish(t, c, "parameter")
            ELSE IF h = None THEN Finish(t, c, "ask")
            ELSE Goto(t, "add", [c EXCEPT !.handle = h, !.error = "ask"])
       [] OTHER -> Goto(t, "scan", call[t])
  /\ UNCHANGED <<vendorVars, indexVars, tableVars, stringVars, processVars, failures>>

\* Variant: the error of the last vendor that had one counts, and not that a
\* vendor had none.
NoDisplay_Last(c) == IF c.said = {} THEN "success" ELSE "vendor's"

\* What is reported when no vendor had the display: an error only if each vendor had one.
NoDisplay(c) == IF "success" \in c.said \/ c.said = {} THEN "success" ELSE "vendor's"

\* One turn of the loop; a vendor without the display may or may not have an error.
AskVendor(t) ==
  LET v == vendorList[call[t].pos]
      h == Supported[<<v, call[t].platform, call[t].native>>]
      c == [call[t] EXCEPT !.pos = call[t].pos + 1]
  IN
  /\ pc[t] = "scan" /\ call[t].pos <= Len(vendorList)
  /\ IF h # None THEN Goto(t, "add", [c EXCEPT !.handle = h, !.vendor = v])
     ELSE \E e \in {"success", "error"} : Goto(t, "scan", [c EXCEPT !.said = call[t].said \cup {e}])
  /\ UNCHANGED <<vendorVars, indexVars, tableVars, stringVars, processVars, failures>>

NoVendorHasDisplay(t) ==
  /\ pc[t] = "scan" /\ call[t].pos > Len(vendorList)
  /\ Finish(t, call[t], NoDisplay(call[t]))
  /\ UNCHANGED <<vendorVars, indexVars, tableVars, stringVars, processVars, failures>>

\* A display that cannot be recorded ends the call, in the loop with the
\* errors of the vendors that came before.
DisplayLost(t) ==
  Finish(t, [call[t] EXCEPT !.handle = None],
         IF call[t].error = "ask" THEN "alloc" ELSE NoDisplay(call[t]))

RecordDisplay(t) ==
  LET h == call[t].handle
      v == call[t].vendor
  IN
  /\ pc[t] = "add"
  /\ \E ok \in BOOLEAN :
       /\ AddDisplay(h, v, ok)
       /\ IF ok THEN Finish(t, call[t], "success") ELSE DisplayLost(t)
       /\ given' = IF ok THEN given \cup {<<call[t].platform, call[t].native, h, v>>} ELSE given
  /\ UNCHANGED <<vendorVars, indexVars, devices, seen, stringVars, processVars>>

-----------------------------------------------------------------------------
(* Devices.                                                                *)

\* eglQueryDevicesEXT, for the number of devices (max = 0) or for at most max.
QueryDevices(t, max) ==
  /\ Start(t)
  /\ Load(t, "devices", [NoCall EXCEPT !.op = "devices", !.max = max])
  /\ UNCHANGED <<vendorVars, indexVars, tableVars, stringVars, processVars, failures>>

\* QueryVendorDevices.  The vendor returns some of its devices, fewer than it has
\* counted before if one has been unplugged, and only as many are returned as there is
\* room for.  If one cannot be added, the function fails, but those before it have
\* been returned.
QueryVendorDevices(t) ==
  LET v == vendorList[call[t].pos] IN
  /\ pc[t] = "devices" /\ call[t].pos <= Len(vendorList)
  /\ \E devs \in SUBSET {d \in Device : DeviceVendor[d] = v} :
     \E known \in SUBSET devs :
     \E returned \in SUBSET known :
       LET room == call[t].max - Cardinality(returned) IN
       /\ room >= 0 /\ (room > 0 => returned = known)
       /\ devices' = [d \in Device |-> IF d \in known THEN v ELSE devices[d]]
       /\ seen' = seen \cup returned
       /\ \/ /\ known = devs
             /\ Goto(t, "devices", [call[t] EXCEPT !.max = room, !.pos = call[t].pos + 1])
             /\ UNCHANGED failures
          \/ known # devs /\ Fail /\ Return(t)
  /\ UNCHANGED <<vendorVars, indexVars, displays, given, stringVars, processVars>>

DevicesQueried(t) ==
  /\ pc[t] = "devices" /\ call[t].pos > Len(vendorList)
  /\ Return(t)
  /\ UNCHANGED <<vendorVars, indexVars, tableVars, stringVars, processVars, failures>>

\* eglQueryDisplayAttribEXT, KHR and NV, for the device of a display.  They do not
\* look for a fork.
QueryDisplayAttrib(t, d) ==
  /\ pc[t] = "idle"
  /\ \E h \in Handle : displays[h] = DeviceVendor[d]
  /\ \/ /\ devices' = [devices EXCEPT ![d] = DeviceVendor[d]]
        /\ seen' = seen \cup {d}
        /\ UNCHANGED failures
     \/ devices[d] = None /\ Fail /\ UNCHANGED <<devices, seen>>
  /\ UNCHANGED <<vendorVars, indexVars, displays, given, stringVars, threadVars, processVars>>

-----------------------------------------------------------------------------
(* Functions.                                                              *)

\* eglGetProcAddress of an EGL function that the vendors have, up to the look into
\* the cache.
GetProcAddress(t, n) ==
  LET c == [NoCall EXCEPT !.op = "address", !.name = n] IN
  /\ Start(t)
  /\ IF cache[n] # None THEN Return(t)
     ELSE Load(t, "index", c)
  /\ UNCHANGED <<vendorVars, indexVars, tableVars, stringVars, processVars, failures>>

\* __eglGetEGLDispatchAddress for a name that has an index
FindAddress(t) ==
  LET n == call[t].name IN
  /\ pc[t] = "index" /\ indexLock = None
  /\ index[n] # None
  /\ Goto(t, "cache", [call[t] EXCEPT !.vendor = index[n]])
  /\ UNCHANGED <<vendorVars, indexVars, tableVars, stringVars, processVars, failures>>

\* ... and for one that has none: the vendors are asked for a stub.
LockIndex(t) ==
  /\ pc[t] = "index" /\ indexLock = None
  /\ index[call[t].name] = None
  /\ indexLock' = t
  /\ Goto(t, "stub", call[t])
  /\ UNCHANGED <<vendorVars, told, index, cache, found, tableVars, stringVars, processVars, failures>>

\* The first vendor that has a stub, or 0
FirstStub(n) == SelectInSeq(vendorList, LAMBDA v : v \in Provided[n])

\* Variant: the lock is given back before the vendors are told.
AllocIndex_Unlocks(t) ==
  LET n == call[t].name
      k == FirstStub(n)
  IN
  /\ pc[t] = "stub"
  /\ indexLock' = None
  /\ IF k = 0 THEN Return(t) /\ UNCHANGED index
     ELSE /\ index' = [index EXCEPT ![n] = vendorList[k]]
          /\ Goto(t, "tell", [call[t] EXCEPT !.vendor = vendorList[k]])
  /\ UNCHANGED <<vendorVars, told, cache, found, tableVars, stringVars, processVars, failures>>

\* The first vendor with a stub, and the index.
AllocIndex(t) ==
  LET n == call[t].name
      k == FirstStub(n)
  IN
  /\ pc[t] = "stub"
  /\ \/ /\ k > 0
        /\ index' = [index EXCEPT ![n] = vendorList[k]]
        /\ Goto(t, "tell", [call[t] EXCEPT !.vendor = vendorList[k]])
        /\ UNCHANGED <<indexLock, failures>>
     \/ /\ IF k = 0 THEN UNCHANGED failures ELSE Fail
        /\ indexLock' = None
        /\ Return(t)
        /\ UNCHANGED index
  /\ UNCHANGED <<vendorVars, told, cache, found, tableVars, stringVars, processVars>>

\* One turn of the loop over the vendors that are told the index.
TellVendor(t) ==
  LET last == call[t].pos = Len(vendorList) IN
  /\ pc[t] = "tell"
  /\ told' = [told EXCEPT ![vendorList[call[t].pos]] = @ \cup {call[t].name}]
  /\ Goto(t, IF last THEN "cache" ELSE "tell", [call[t] EXCEPT !.pos = call[t].pos + 1])
  /\ indexLock' = IF last THEN None ELSE indexLock
  /\ UNCHANGED <<vendorVars, index, cache, found, tableVars, stringVars, processVars, failures>>

\* CacheProcAddress, which does not mind if it has no memory.
CacheProcAddress(t) ==
  LET n == call[t].name IN
  /\ pc[t] = "cache"
  /\ \/ cache[n] = None /\ cache' = [cache EXCEPT ![n] = call[t].vendor] /\ UNCHANGED failures
     \/ cache[n] = None /\ Fail /\ UNCHANGED cache
     \/ cache[n] # None /\ UNCHANGED <<cache, failures>>
  /\ Return(t)
  /\ UNCHANGED <<vendorVars, told, index, indexLock, found, tableVars, stringVars, processVars>>

\* A dispatch stub with a display: an application calls a function that it has the
\* address of.  The stub gives its index to __eglFetchDispatchEntry, which looks
\* into the table of the display's vendor.
CallFunction(t, n, h) ==
  LET c == [NoCall EXCEPT !.op = "call", !.name = n, !.handle = h, !.vendor = displays[h]] IN
  /\ Start(t)
  /\ cache[n] # None
  /\ IF displays[h] = None THEN Finish(t, c, "display")
     ELSE Goto(t, IF <<displays[h], n>> \in found THEN "call" ELSE "fetch", c)
  /\ UNCHANGED <<vendorVars, indexVars, tableVars, stringVars, processVars, failures>>

\* The rest of __eglFetchDispatchEntry.  The function is not found if the vendor
\* has none, or if the stub has no index.
FetchDispatchEntry(t) ==
  LET n == call[t].name
      v == call[t].vendor
      finds == n \in told[index[n]] /\ v \in Provided[n]
  IN
  /\ pc[t] = "fetch" /\ indexLock = None
  /\ IF finds
     THEN /\ Goto(t, "call", call[t])
          /\ \/ found' = found \cup {<<v, n>>} /\ UNCHANGED failures
             \/ Fail /\ UNCHANGED found
     ELSE Finish(t, call[t], "display") /\ UNCHANGED <<found, failures>>
  /\ UNCHANGED <<vendorVars, told, index, indexLock, cache, tableVars, stringVars, processVars>>

\* The vendor's function; eglGetError will ask that vendor.
CallVendor(t) ==
  /\ pc[t] = "call"
  /\ Finish(t, call[t], "ask")
  /\ UNCHANGED <<vendorVars, indexVars, tableVars, stringVars, processVars, failures>>

-----------------------------------------------------------------------------
(* The extension string without a display.                                 *)

QueryString(t) ==
  /\ Start(t)
  /\ Load(t, "string", [NoCall EXCEPT !.op = "string"])
  /\ UNCHANGED <<vendorVars, indexVars, tableVars, stringVars, processVars, failures>>

LockString(t) ==
  /\ pc[t] = "string"
  /\ \/ vendorList = <<>> /\ Return(t) /\ UNCHANGED stringLock
     \/ /\ vendorList # <<>> /\ stringLock = None
        /\ stringLock' = t
        /\ Goto(t, "merge", call[t])
  /\ UNCHANGED <<vendorVars, indexVars, tableVars, extensions, processVars, failures>>

\* GetClientExtensionString: the strings of all vendors, or NULL
GetClientExtensionString(new) ==
  \/ new = Loaded /\ UNCHANGED failures
  \/ new = None /\ Fail

\* It is built if it is not there.
MergeStrings(t) ==
  /\ pc[t] = "merge"
  /\ \/ extensions = None /\ \E new \in (SUBSET Vendor) \cup {None} :
          extensions' = new /\ GetClientExtensionString(new)
     \/ extensions # None /\ UNCHANGED <<extensions, failures>>
  /\ stringLock' = None
  /\ Return(t)
  /\ UNCHANGED <<vendorVars, indexVars, tableVars, processVars>>

-----------------------------------------------------------------------------
(* Forks and the end of the library.                                       *)

Done(t) ==
  /\ pc[t] = "done"
  /\ Return(t)
  /\ UNCHANGED <<vendorVars, indexVars, tableVars, stringVars, processVars, failures>>

\* A thread forks.  The child has that thread only; others are started later.
Fork(t) ==
  LET others(l) == \E u \in Thread : pc[u] = l IN
  /\ forks < MaxForks
  /\ pc[t] = "idle"
  /\ others("tell") => ForkDuringTell
  /\ others("merge") => ForkDuringMerge
  /\ others("file") => ForkDuringLoad
  /\ forks' = forks + 1
  /\ child' = TRUE
  /\ pc' = [u \in Thread |-> "idle"]
  /\ call' = [u \in Thread |-> NoCall]
  /\ UNCHANGED <<vendorVars, indexVars, tableVars, stringVars, failures>>

\* Variant: the lock of the indices is not initialized in the child.
ResetOnFork_KeepsLock(t) ==
  /\ pc[t] = "idle" /\ child
  /\ child' = FALSE
  /\ UNCHANGED <<vendorVars, indexVars, tableVars, stringVars, threadVars, forks, failures>>

\* __eglAPITeardown and __eglMappingTeardown in the child
ResetOnFork(t) ==
  /\ pc[t] = "idle" /\ child
  /\ child' = FALSE
  /\ indexLock' = None
  /\ UNCHANGED <<vendorVars, told, index, cache, found, tableVars, stringVars, threadVars, forks, failures>>

\* The destructor of libEGL, when no function of it runs.
Unload ==
  /\ \A t \in Thread : pc[t] = "idle"
  /\ once' = "no"
  /\ vendorList' = <<>>
  /\ told' = [v \in Vendor |-> {}]
  /\ index' = [n \in Name |-> None]
  /\ cache' = [n \in Name |-> None]
  /\ found' = {}
  /\ displays' = [h \in Handle |-> None]
  /\ devices' = [d \in Device |-> None]
  /\ extensions' = None
  /\ child' = FALSE /\ given' = {} /\ seen' = {}
  /\ indexLock' = None /\ stringLock' = None
  /\ UNCHANGED <<files, threadVars, forks, failures>>

-----------------------------------------------------------------------------
Step(t) ==
  \/ WaitForVendors(t) \/ LoadVendors(t) \/ LoadVendorFromConfigFile(t) \/ VendorsLoaded(t)
  \/ GuessPlatformType(t) \/ FindPlatform(t) \/ AskVendor(t) \/ NoVendorHasDisplay(t)
  \/ RecordDisplay(t)
  \/ QueryVendorDevices(t) \/ DevicesQueried(t)
  \/ FindAddress(t) \/ LockIndex(t) \/ AllocIndex(t) \/ TellVendor(t) \/ CacheProcAddress(t)
  \/ FetchDispatchEntry(t) \/ CallVendor(t)
  \/ LockString(t) \/ MergeStrings(t)
  \/ Done(t)

Begin(t) ==
  \/ \E p \in Platform, n \in Native : GetPlatformDisplay(t, p, n)
  \/ \E n \in Native : GetDisplay(t, n)
  \/ \E max \in 0..Cardinality(Device) : QueryDevices(t, max)
  \/ \E d \in Device : QueryDisplayAttrib(t, d)
  \/ \E n \in Name : GetProcAddress(t, n)
  \/ \E n \in Name, h \in Handle : CallFunction(t, n, h)
  \/ QueryString(t) \/ Fork(t) \/ ResetOnFork(t)

Next ==
  \/ \E t \in Thread : Begin(t) \/ Step(t)
  \/ Unload

Spec == Init /\ [][Next]_vars

-----------------------------------------------------------------------------
(* Properties.                                                             *)

Label == {"idle", "load", "file", "guess", "platform", "scan", "add", "devices", "index",
          "stub", "tell", "cache", "fetch", "call", "string", "merge", "done"}

Error == {"success", "parameter", "alloc", "display", "ask", "vendor's"}

CallType == [op : {None, "display", "devices", "address", "call", "string"},
             platform : Platform \cup {None}, native : Native \cup {None},
             handle : Handle \cup {None}, vendor : Vendor \cup {None},
             name : Name \cup {None}, max : Nat, pos : Nat, next : Label \cup {None},
             said : SUBSET {"success", "error"}, error : Error]

TypeOK ==
  /\ files \in ConfigFiles
  /\ once \in {"no", "loading", "done"}
  /\ vendorList \in Seq(Vendor)
  /\ told \in [Vendor -> SUBSET Name]
  /\ index \in [Name -> Vendor \cup {None}]
  /\ indexLock \in Thread \cup {None}
  /\ cache \in [Name -> Vendor \cup {None}]
  /\ found \in SUBSET (Vendor \X Name)
  /\ displays \in [Handle -> Vendor \cup {None}]
  /\ devices \in [Device -> Vendor \cup {None}]
  /\ extensions \in (SUBSET Vendor) \cup {None}
  /\ stringLock \in Thread \cup {None}
  /\ pc \in [Thread -> Label]
  /\ call \in [Thread -> CallType]
  /\ child \in BOOLEAN
  /\ given \subseteq Platform \X Native \X Handle \X Vendor
  /\ seen \subseteq Device
  /\ failures \in 0..MaxFailures
  /\ forks \in 0..MaxForks

\* A display handle that an application has got leads to the vendor that made
\* it, for ever, although two vendors may use the same value for a handle; a display
\* of a device was made by the device's vendor (libeglmapping.c:202).
DisplayKeepsVendor ==
  \A g \in given :
    /\ displays[g[3]] = g[4]
    /\ g[1] = "device" /\ g[2] \in Device => DeviceVendor[g[2]] = g[4]

\* Calls with the same arguments get the same display, in all threads and in a
\* child process, whatever was loading or failing when they were made (libegl.c:308).
SameDisplay ==
  \A g, h \in given : g[1] = h[1] /\ g[2] = h[2] => g = h

\* libEGL finds the vendor of each device that an application has got, although
\* the function that returned it may have failed or been short of room (libegl.c:999).
SeenDevicesKnown == \A d \in seen : devices[d] = DeviceVendor[d]

\* A function returns a display, or its error tells why there is none: it is
\* EGL_SUCCESS if a vendor had no error, and only then, or if a vendor had the
\* display but it could not be recorded (libegl.c:338).
ErrorTellsWhy ==
  \A t \in Thread : LET c == call[t] IN
    /\ pc[t] = "done" /\ c.op = "display" =>
         /\ c.handle # None => c.error = "success"
         /\ c.handle = None /\ c.error = "success" => "success" \in c.said \/ c.vendor # None
         /\ c.error = "vendor's" => c.said = {"error"}
    /\ pc[t] = "scan" => vendorList # <<>> /\ (c.said = {} => c.pos = 1)

\* Threads that use the list see all of it, and each library in it once
\* (libeglvendor.c:525).
ListComplete ==
  /\ IsInjective(vendorList)
  /\ (\E t \in Thread : pc[t] \notin {"idle", "load", "file", "done", "fetch", "call"}) => once = "done"

\* Whenever an application has the address of a function, the vendor whose stub
\* it is and all others have been told its index, so that a call on any vendor's
\* display finds that vendor's function (libeglmapping.c:85).
AddressUsable ==
  \A n \in Name : cache[n] # None =>
    /\ index[n] = cache[n]
    /\ \A v \in Loaded : n \in told[v]

\* A call on a display of a vendor that has the function gets there
\* (libeglmapping.c:127).
CallReachesVendor ==
  \A t \in Thread : LET c == call[t] IN
    pc[t] = "done" /\ c.op = "call" /\ c.error = "display" =>
      c.vendor = None \/ c.vendor \notin Provided[c.name]

\* The extension string that applications get has the extensions of all vendors (libegl.c:932).
ExtensionsComplete == extensions # None => once = "done" /\ extensions = Loaded

\* What a thread at l does, or will do when the vendors are loaded.
Doing(l, c) == IF l \in {"load", "file"} THEN c.next ELSE l

\* What a thread in a function has: the arguments of the function and, while it looks for
\* a display, no vendor's answer yet.
CallOK(l, c) ==
  /\ l \in {"load", "file"} => c.next \in {"guess", "platform", "devices", "index", "string"}
  /\ l \in {"load", "guess", "platform", "index", "stub"} => c.pos = 1
  /\ l \in {"scan", "devices", "tell", "file"} => c.pos > 0
  /\ Doing(l, c) \in {"guess", "platform", "scan", "add"} => c.op = "display" /\ c.native # None
  /\ Doing(l, c) \in {"platform", "scan", "add"} => c.platform # None
  /\ Doing(l, c) \in {"guess", "platform", "scan"} =>
       c.handle = None /\ c.vendor = None /\ c.error = "success"
  /\ Doing(l, c) \in {"guess", "platform"} => c.said = {}
  /\ l = "add" => c.handle # None /\ c.vendor # None
  /\ Doing(l, c) \in {"index", "stub", "tell", "cache"} => c.op = "address" /\ c.name # None
  /\ l \in {"fetch", "call"} => c.op = "call" /\ c.name # None /\ c.vendor # None

\* One thread loads the vendors, and in a child that has not noticed the fork nobody
\* is in a function.
LoadingOK ==
  /\ \A t \in Thread : pc[t] = "file" => once = "loading"
  /\ \A t, u \in Thread : pc[t] = "file" /\ pc[u] = "file" => t = u
  /\ child => \A t \in Thread : pc[t] = "idle"

\* The vendor of a display: that of the device, or the first that has the display.
NoneBefore(k, p, n) ==
  \A j \in DOMAIN vendorList : j < k => Supported[<<vendorList[j], p, n>>] = None

ByDevice(p, n) == p = "device" /\ Recognised[n] # "none"

Chosen(p, n, h, v) ==
  /\ h = Supported[<<v, p, n>>]
  /\ IF ByDevice(p, n) THEN n \in Device /\ v = DeviceVendor[n]
     ELSE \E k \in DOMAIN vendorList : v = vendorList[k] /\ NoneBefore(k, p, n)

\* Each display that was returned or is about to be recorded is of that vendor.
ChosenOK ==
  /\ \A g \in given : Chosen(g[1], g[2], g[3], g[4])
  /\ given # {} => once = "done"
  /\ \A t \in Thread : LET c == call[t] IN
       /\ pc[t] = "scan" => ~ByDevice(c.platform, c.native) /\ NoneBefore(c.pos, c.platform, c.native)
       /\ pc[t] = "add" => Chosen(c.platform, c.native, c.handle, c.vendor)
  /\ \A d \in Device : devices[d] \in {None, DeviceVendor[d]}

\* The index of each name is known to all vendors but those that its finder, who holds
\* the lock, is still going to tell.
ToldAll(n) == \A v \in Loaded : n \in told[v]

IndexOK ==
  /\ \A n \in Name : index[n] # None =>
       /\ once = "done" /\ index[n] \in Loaded
       /\ ToldAll(n) \/ \E t \in Thread : pc[t] = "tell" /\ call[t].name = n
  /\ \A t \in Thread : LET c == call[t] IN
       /\ pc[t] \in {"stub", "tell"} => indexLock = t
       /\ pc[t] = "stub" => index[c.name] = None
       /\ pc[t] \in {"tell", "cache"} => c.vendor # None /\ c.vendor = index[c.name]
       /\ pc[t] = "tell" => /\ c.pos <= Len(vendorList)
                            /\ \A k \in DOMAIN vendorList : k < c.pos => c.name \in told[vendorList[k]]
       /\ pc[t] = "cache" => ToldAll(c.name)
       /\ pc[t] = "fetch" => cache[c.name] # None

\* A thread that waits for a lock waits for one that is alive and will give it back,
\* after a fork, too; only the lock of the indices has to be made anew first
\* (libeglmapping.c:254).
HolderAlive ==
  /\ ~child /\ indexLock # None => pc[indexLock] \in {"stub", "tell"}
  /\ stringLock # None => pc[stringLock] = "merge"
  /\ once = "loading" => \E t \in Thread : pc[t] = "file"
  /\ \A t \in Thread : /\ pc[t] \in {"stub", "tell"} => indexLock = t
                       /\ pc[t] = "merge" => stringLock = t

\* What all vendors are asked or told for is done for all that there are, and for no
\* vendor twice (libeglvendor.c:525, libegl.c:870).
ListInv ==
  /\ TypeOK /\ ListComplete /\ ExtensionsComplete /\ LoadingOK
  /\ \A t \in Thread : CallOK(pc[t], call[t])

\* The handles that applications hold are known, as those of the vendors that made
\* them (libeglmapping.c:202, libegl.c:999).
HandlesKnown == DisplayKeepsVendor /\ SameDisplay /\ SeenDevicesKnown /\ ChosenOK

\* An address that eglGetProcAddress has returned works on the displays of all vendors
\* (libeglmapping.c:85-127).
AddressesWork == AddressUsable /\ CallReachesVendor /\ IndexOK

===============================================================================
