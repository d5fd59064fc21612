------------------------------ MODULE GlxMapping ------------------------------
(***************************************************************************)
(* How libGLX finds the vendor of an object: the structures of displays,   *)
(* the mappings from drawables and framebuffer configs to vendors          *)
(* (src/GLX/libglxmapping.c), the GLX functions that use them and the      *)
(* client strings of a display (src/GLX/libglx.c).                         *)
(*                                                                         *)
(* The tables of displays, drawables and configs have a lock each, held    *)
(* for one access; a GLX function makes several accesses, calls a vendor   *)
(* and asks the X server in between.  Each access is a step.               *)
(*                                                                         *)
(* The X server, its other clients and the vendors are external.  A screen *)
(* has one vendor, which GlxVendor is about.                               *)
(***************************************************************************)
EXTENDS Integers, FiniteSets

CONSTANTS
  Thread,
  Display,
  Screen,
  DisplayOf,      \* the display of each screen
  Vendor,
  VendorOf,       \* the vendor that the X server names for each screen
  Fallback,       \* the vendor to use if the server does not name any
  Xid,            \* the XIDs of drawables
  Config,         \* the values that vendors return as a GLXFBConfig
  ConfigVendor,   \* the vendor whose address each of them is; libglxabi.h asks that
                  \* no two vendors use the same, displays may share it
  MaxInfos,       \* as many display structures as there can be at a time
  MaxFailures,    \* bound on the number of allocations, loads and vendors' strings that
                  \* fail
  DestroyInUse,   \* whether a drawable may be destroyed in one thread while
                  \* another thread uses it
  ForeignReuse,   \* whether the XID of another client's drawable may be reused
  LateHook,       \* whether another extension's hook for the closing of a
                  \* display may call GLX after libGLX's hook has run
  None

Op == {"configs", "create", "use", "destroy", "string", "close", "closed"}

Id == 1..MaxInfos

Info == [dpy : Display, closing : BOOLEAN, xids : [Xid -> Vendor \cup {None}],
         merged : Nat]

\* An XID that another client has given up for good.
Retired == [screen |-> None, own |-> FALSE]

Drawable == [screen : Screen, own : BOOLEAN] \cup {Retired}

ASSUME ConstantsAssumption ==
  /\ IsFiniteSet(Thread) /\ IsFiniteSet(Screen) /\ IsFiniteSet(Display)
  /\ DisplayOf \in [Screen -> Display]
  /\ VendorOf \in [Screen -> Vendor]
  /\ Fallback \in Vendor
  /\ ConfigVendor \in [Config -> Vendor]
  /\ MaxFailures \in Nat
  /\ MaxInfos = Cardinality(Display) + Cardinality(Thread)
  /\ {DestroyInUse, ForeignReuse, LateHook} \subseteq BOOLEAN
  /\ None \notin Thread \cup Display \cup Screen \cup Vendor \cup Xid \cup Config
  /\ None \notin Op /\ None \notin Id /\ None \notin Info /\ None \notin Drawable

VARIABLES
  table,       \* __glXDisplayInfoHash: the structure of each display, or None
  info,        \* the display structures that are allocated
  configs,     \* fbconfigHashtable: the vendor of each config, or None
  stringLock,  \* the holder of clientStringLock, or None
  pc,          \* where each thread is: see TypeOK
  call,        \* the arguments and locals of a GLX function
  glvnd,       \* the displays whose server supports GLX_EXT_libglvnd
  open,        \* the displays that are open
  drawable,    \* the drawables in the X server, by display and XID
  given,       \* the configs that the application has been given
  failures

tableVars  == <<table, info>>
threadVars == <<pc, call>>
outsideVars == <<glvnd, open, drawable, given>>
vars == <<tableVars, configs, stringLock, threadVars, outsideVars, failures>>

ScreensOf(d) == {s \in Screen : DisplayOf[s] = d}

\* The vendor of a screen, which GlxVendor finds; without the extension it is
\* that of all screens.
ScreenVendor(s) == IF DisplayOf[s] \in glvnd THEN VendorOf[s] ELSE Fallback

\* A structure as InitDisplayInfoEntry makes it.
NewInfo(d) == [dpy |-> d, closing |-> FALSE, xids |-> [x \in Xid |-> None], merged |-> 0]

\* A drawable of this client, or of another.
Own(s)     == [screen |-> s, own |-> TRUE]
Foreign(s) == [screen |-> s, own |-> FALSE]

Exists(d, x) == drawable[<<d, x>>] \notin {None, Retired}

NoCall == [op |-> None, dpy |-> None, xid |-> None, screen |-> None, vendor |-> None,
           info |-> None, mine |-> None, next |-> None, todo |-> {},
           array |-> {}]

Init ==
  /\ table = [d \in Display |-> None]
  /\ info = [i \in Id |-> None]
  /\ configs = [c \in Config |-> None]
  /\ stringLock = None
  /\ pc = [t \in Thread |-> "idle"]
  /\ call = [t \in Thread |-> NoCall]
  /\ glvnd \in SUBSET Display
  /\ open = Display
  /\ drawable = [dx \in Display \X Xid |-> None]
  /\ given = {}
  /\ failures = 0

Goto(t, l, c) ==
  /\ pc' = [pc EXCEPT ![t] = l]
  /\ call' = [call EXCEPT ![t] = c]

Return(t) == Goto(t, "idle", NoCall)

\* __glXLookupDisplay is called, and what comes after it.
Lookup(t, next, c) == Goto(t, "find", [c EXCEPT !.next = next])

\* __glXSendError needs the display's structure, too.
SendError(t) == Lookup(t, "done", call[t])

Fail == failures < MaxFailures /\ failures' = failures + 1

Start(t, d) == pc[t] = "idle" /\ d \in open

\* An application does not call GLX on a display while another thread closes it.
Closing(d) == \E t \in Thread : call[t].dpy = d /\ call[t].op \in {"close", "closed"}

\* It uses only XIDs that it has seen, and does not destroy a drawable while
\* another thread uses it.
MayUse(d, x, op) ==
  /\ drawable[<<d, x>>] # None
  /\ \/ DestroyInUse
     \/ \A t \in Thread : call[t].dpy = d /\ call[t].xid = x => {op, call[t].op} = {"use"}

-----------------------------------------------------------------------------
(* The structure of a display.                                             *)

\* The structure is known, or NULL, and the caller goes on.
Found(t, i) == Goto(t, call[t].next, [call[t] EXCEPT !.info = i, !.mine = None])

\* __glXLookupDisplay up to the first unlock
FindDisplay(t) ==
  LET i == table[call[t].dpy] IN
  /\ pc[t] = "find"
  /\ IF i = None THEN Goto(t, "build", call[t])
     ELSE Found(t, IF info[i].closing THEN None ELSE i)
  /\ UNCHANGED <<tableVars, configs, stringLock, outsideVars, failures>>

\* InitDisplayInfoEntry, which asks the X server and holds no lock.
BuildInfo(t) ==
  /\ pc[t] = "build"
  /\ \/ LET i == CHOOSE j \in Id : info[j] = None IN
        /\ info' = [info EXCEPT ![i] = NewInfo(call[t].dpy)]
        /\ Goto(t, "install", [call[t] EXCEPT !.mine = i])
        /\ UNCHANGED failures
     \/ Fail /\ Found(t, None) /\ UNCHANGED info
  /\ UNCHANGED <<table, configs, stringLock, outsideVars>>

\* Variant: the second thread keeps the structure that it built.
InstallInfo_KeepsOwn(t) ==
  LET d == call[t].dpy
      i == call[t].mine
  IN
  /\ pc[t] = "install"
  /\ IF table[d] = None THEN table' = [table EXCEPT ![d] = i] ELSE UNCHANGED table
  /\ Found(t, i)
  /\ UNCHANGED <<info, configs, stringLock, outsideVars, failures>>

\* The rest of __glXLookupDisplay, under the lock again.
InstallInfo(t) ==
  LET d == call[t].dpy
      i == call[t].mine
  IN
  /\ pc[t] = "install"
  /\ \/ /\ table[d] = None
        /\ table' = [table EXCEPT ![d] = i]
        /\ Found(t, i)
        /\ UNCHANGED <<info, failures>>
     \/ /\ table[d] = None /\ Fail               \* XAddExtension fails
        /\ info' = [info EXCEPT ![i] = None]
        /\ Found(t, None)
        /\ UNCHANGED table
     \/ /\ table[d] # None                       \* another thread was first
        /\ info' = [info EXCEPT ![i] = None]
        /\ Found(t, table[d])
        /\ UNCHANGED <<table, failures>>
  /\ UNCHANGED <<configs, stringLock, outsideVars>>

\* The look-up was the last thing to do: __glXSendError, or a vendor that has
\* created nothing.
Done(t) ==
  /\ pc[t] = "done"
  /\ Return(t)
  /\ UNCHANGED <<tableVars, configs, stringLock, outsideVars, failures>>

-----------------------------------------------------------------------------
(* The vendor of a screen, and the mappings of configs.                    *)

\* __glXLookupVendorByScreen.  Its caller is a function that creates a
\* drawable for a visual, one that returns configs, or one that forwards.
LookupVendorByScreen(t) ==
  LET s == call[t].screen
      c == [call[t] EXCEPT !.vendor = ScreenVendor(s)]
  IN
  /\ pc[t] = "screen"
  /\ \/ /\ call[t].info # None
        /\ Goto(t, call[t].op, c)
        /\ UNCHANGED failures
     \/ call[t].info = None /\ Return(t) /\ UNCHANGED failures
     \/ call[t].info # None /\ Fail /\ Return(t)
  /\ UNCHANGED <<tableVars, configs, stringLock, outsideVars>>

\* glXChooseFBConfig and glXGetFBConfigs
GetConfigs(t, s) ==
  /\ Start(t, DisplayOf[s]) /\ ~Closing(DisplayOf[s])
  /\ Lookup(t, "screen", [NoCall EXCEPT !.op = "configs", !.dpy = DisplayOf[s], !.screen = s])
  /\ UNCHANGED <<tableVars, configs, stringLock, outsideVars, failures>>

\* The vendor returns an array of its configs.  On another display it may return the
\* same, and while this display is open it returns what it likes.
VendorConfigs(t, cs) ==
  /\ pc[t] = "configs"
  /\ \A c \in cs : ConfigVendor[c] = call[t].vendor
  /\ IF cs = {} THEN Return(t) ELSE Goto(t, "addConfig", [call[t] EXCEPT !.todo = cs, !.array = cs])
  /\ UNCHANGED <<tableVars, configs, stringLock, outsideVars, failures>>

\* __glXAddVendorFBConfigMapping, with TRUE for 0
AddConfig(t, c, ok) ==
  \/ /\ configs[c] = None /\ ok
     /\ configs' = [configs EXCEPT ![c] = call[t].vendor]
     /\ UNCHANGED failures
  \/ configs[c] = None /\ ~ok /\ Fail /\ UNCHANGED configs
  \/ configs[c] # None /\ ok = (configs[c] = call[t].vendor) /\ UNCHANGED <<configs, failures>>

\* Variant: the application is given the array although one could not be recorded.
MapConfig_IgnoresFailure(t) ==
  /\ pc[t] = "addConfig"
  /\ \E c \in call[t].todo, ok \in BOOLEAN :
       /\ AddConfig(t, c, ok)
       /\ \/ call[t].todo # {c} /\ UNCHANGED given
             /\ Goto(t, "addConfig", [call[t] EXCEPT !.todo = @ \ {c}])
          \/ call[t].todo = {c} /\ given' = given \cup call[t].array /\ Return(t)
  /\ UNCHANGED <<tableVars, stringLock, glvnd, open, drawable>>

\* One turn of the loop over the array.  After the last the application is given the
\* array; after a failure it is freed, and what has been recorded stays.
MapConfig(t) ==
  /\ pc[t] = "addConfig"
  /\ \E c \in call[t].todo, ok \in BOOLEAN :
       /\ AddConfig(t, c, ok)
       /\ \/ ok /\ call[t].todo # {c} /\ UNCHANGED given
             /\ Goto(t, "addConfig", [call[t] EXCEPT !.todo = @ \ {c}])
          \/ ok /\ call[t].todo = {c} /\ given' = given \cup call[t].array /\ Return(t)
          \/ ~ok /\ UNCHANGED given /\ Return(t)
  /\ UNCHANGED <<tableVars, stringLock, glvnd, open, drawable>>

-----------------------------------------------------------------------------
(* The mappings of drawables.                                              *)

\* Variant: the mapping is not removed.
RemoveXid_Never(i, x) == UNCHANGED info

\* RemoveVendorXIDMapping
RemoveXid(i, x) == info' = [info EXCEPT ![i].xids[x] = None]

\* AddVendorXIDMapping, with ok for 0
AddXid(i, x, v, ok) ==
  \/ /\ info[i].xids[x] = None /\ ok
     /\ info' = [info EXCEPT ![i].xids[x] = v]
     /\ UNCHANGED failures
  \/ info[i].xids[x] = None /\ ~ok /\ Fail /\ UNCHANGED info
  \/ info[i].xids[x] # None /\ ok = (info[i].xids[x] = v) /\ UNCHANGED <<info, failures>>

\* The vendor creates a drawable, whose XID nobody uses.
Created(t, d, x, s, c) ==
  /\ drawable[<<d, x>>] = None
  /\ drawable' = [drawable EXCEPT ![<<d, x>>] = Own(s)]
  /\ Lookup(t, "map", [c EXCEPT !.xid = x])

\* glXCreatePixmap, glXCreateWindow and glXCreatePbuffer up to the vendor's return.  The
\* application may pass any config, that of another display or of a closed one, too, and
\* the vendor may fail; it creates drawables on its own screens.
CreateDrawable(t, d, k) ==
  LET c == [NoCall EXCEPT !.op = "create", !.dpy = d, !.vendor = configs[k]] IN
  /\ Start(t, d) /\ ~Closing(d)
  /\ \/ \E x \in Xid, s \in ScreensOf(d) :
          ScreenVendor(s) = configs[k] /\ Created(t, d, x, s, c)
     \/ Lookup(t, "done", c) /\ UNCHANGED drawable
  /\ UNCHANGED <<tableVars, configs, stringLock, glvnd, open, given, failures>>

\* glXCreateGLXPixmap, which goes by the screen of a visual
CreateGLXPixmap(t, s) ==
  /\ Start(t, DisplayOf[s]) /\ ~Closing(DisplayOf[s])
  /\ Lookup(t, "screen", [NoCall EXCEPT !.op = "create", !.dpy = DisplayOf[s], !.screen = s])
  /\ UNCHANGED <<tableVars, configs, stringLock, outsideVars, failures>>

VendorCreates(t) ==
  /\ pc[t] = "create"
  /\ \/ \E x \in Xid : Created(t, call[t].dpy, x, call[t].screen, call[t])
     \/ Lookup(t, "done", call[t]) /\ UNCHANGED drawable
  /\ UNCHANGED <<tableVars, configs, stringLock, glvnd, open, given, failures>>

\* Variant: a drawable that cannot be mapped is not destroyed.
Discard_Never(d, x) == UNCHANGED drawable

\* The vendor destroys a drawable of this client.
Discard(d, x) ==
  drawable' = IF Exists(d, x) /\ drawable[<<d, x>>].own THEN [drawable EXCEPT ![<<d, x>>] = None] ELSE drawable

\* __glXAddVendorDrawableMapping and the rest of the function.
MapDrawable(t) ==
  LET d == call[t].dpy
      x == call[t].xid
      i == call[t].info
  IN
  /\ pc[t] = "map"
  /\ \E ok \in BOOLEAN :
       /\ IF i = None THEN ~ok /\ UNCHANGED <<info, failures>> ELSE AddXid(i, x, call[t].vendor, ok)
       /\ IF ok THEN UNCHANGED drawable ELSE Discard(d, x)
  /\ Return(t)
  /\ UNCHANGED <<table, configs, stringLock, glvnd, open, given>>

\* CommonDispatchDrawable
WithDrawable(t, d, x, op) ==
  /\ Start(t, d) /\ ~Closing(d)
  /\ MayUse(d, x, op)
  /\ Lookup(t, "drawable", [NoCall EXCEPT !.op = op, !.dpy = d, !.xid = x])
  /\ UNCHANGED <<tableVars, configs, stringLock, outsideVars, failures>>

\* glXSwapBuffers, glXQueryDrawable and the others
UseDrawable(t, d, x) == WithDrawable(t, d, x, "use")

\* glXDestroyPixmap, glXDestroyWindow and glXDestroyPbuffer
DestroyDrawable(t, d, x) ==
  /\ Exists(d, x) /\ drawable[<<d, x>>].own
  /\ WithDrawable(t, d, x, "destroy")

\* The vendor is known: the function calls it, or first removes the mapping.
Forward(t, v) ==
  Goto(t, IF call[t].op = "destroy" THEN "unmap" ELSE "vendor", [call[t] EXCEPT !.vendor = v])

\* __glXVendorFromDrawable up to the first unlock of VendorFromXID
DrawableVendor(t) ==
  LET i == call[t].info
      d == call[t].dpy
  IN
  /\ pc[t] = "drawable"
  /\ \/ i = None /\ SendError(t) /\ UNCHANGED failures
     \/ i # None /\ d \notin glvnd /\ Forward(t, Fallback) /\ UNCHANGED failures
     \/ i # None /\ d \notin glvnd /\ Fail /\ SendError(t)
     \/ /\ i # None /\ d \in glvnd
        /\ LET v == info[i].xids[call[t].xid]
           IN IF v = None THEN Goto(t, "query", call[t]) ELSE Forward(t, v)
        /\ UNCHANGED failures
  /\ UNCHANGED <<tableVars, configs, stringLock, outsideVars>>

\* __glXGetDrawableScreen asks the X server, then the vendor of the screen is
\* looked up.
QueryScreen(t) ==
  LET d == call[t].dpy
      x == call[t].xid
  IN
  /\ pc[t] = "query"
  /\ \/ /\ Exists(d, x)
        /\ Goto(t, "remember", [call[t] EXCEPT !.vendor = ScreenVendor(drawable[<<d, x>>].screen)])
        /\ UNCHANGED failures
     \/ ~Exists(d, x) /\ SendError(t) /\ UNCHANGED failures
     \/ Exists(d, x) /\ Fail /\ SendError(t)
  /\ UNCHANGED <<tableVars, configs, stringLock, outsideVars>>

\* The end of VendorFromXID, which does not mind if there is no mapping then.
RememberVendor(t) ==
  /\ pc[t] = "remember"
  /\ \E ok \in BOOLEAN : AddXid(call[t].info, call[t].xid, call[t].vendor, ok)
  /\ Forward(t, call[t].vendor)
  /\ UNCHANGED <<table, configs, stringLock, outsideVars>>

\* __glXRemoveVendorDrawableMapping
UnmapDrawable(t) ==
  /\ pc[t] = "unmap"
  /\ RemoveXid(call[t].info, call[t].xid)
  /\ Goto(t, "vendor", call[t])
  /\ UNCHANGED <<table, configs, stringLock, outsideVars, failures>>

\* The call into the vendor library.
CallVendor(t) ==
  /\ pc[t] = "vendor"
  /\ IF call[t].op = "destroy" THEN Discard(call[t].dpy, call[t].xid) ELSE UNCHANGED drawable
  /\ Return(t)
  /\ UNCHANGED <<tableVars, configs, stringLock, glvnd, open, given, failures>>

-----------------------------------------------------------------------------
(* glXGetClientString of a display with several screens.  The string is    *)
(* stood for by the number of screens whose vendor's string is in it.      *)

GetClientString(t, d) ==
  /\ Start(t, d) /\ ~Closing(d)
  /\ Cardinality(ScreensOf(d)) > 1
  /\ Lookup(t, "strings", [NoCall EXCEPT !.op = "string", !.dpy = d])
  /\ UNCHANGED <<tableVars, configs, stringLock, outsideVars, failures>>

\* Variant: the string is looked at without the lock.
LockStrings_ReadFirst(t) ==
  LET i == call[t].info IN
  /\ pc[t] = "strings"
  /\ \/ i = None /\ Return(t) /\ UNCHANGED stringLock
     \/ i # None /\ info[i].merged > 0 /\ Goto(t, "answer", call[t]) /\ UNCHANGED stringLock
     \/ /\ i # None /\ info[i].merged = 0 /\ stringLock = None /\ stringLock' = t
        /\ Goto(t, "merge", call[t])
  /\ UNCHANGED <<tableVars, configs, outsideVars, failures>>

\* Up to the look at the string under the lock
LockStrings(t) ==
  LET i == call[t].info IN
  /\ pc[t] = "strings"
  /\ \/ i = None /\ Return(t) /\ UNCHANGED stringLock
     \/ /\ i # None /\ stringLock = None /\ stringLock' = t
        /\ Goto(t, IF info[i].merged > 0 THEN "unlock" ELSE "merge", call[t])
  /\ UNCHANGED <<tableVars, configs, outsideVars, failures>>

\* GetVendorClientStrings with strdup, and then each turn of the loop over the screens,
\* which replaces the string and frees the old one; it may fail and leave none.
MergeString(t) ==
  LET i == call[t].info
      n == info[i].merged + 1
  IN
  /\ pc[t] = "merge"
  /\ \/ /\ info' = [info EXCEPT ![i].merged = n]
        /\ Goto(t, IF n = Cardinality(ScreensOf(call[t].dpy)) THEN "unlock" ELSE "merge", call[t])
        /\ UNCHANGED failures
     \/ /\ Fail
        /\ info' = [info EXCEPT ![i].merged = 0]
        /\ Goto(t, "giveUp", call[t])
  /\ UNCHANGED <<table, configs, stringLock, outsideVars>>

UnlockStrings(t) ==
  /\ \/ pc[t] = "unlock" /\ Goto(t, "answer", call[t])
     \/ pc[t] = "giveUp" /\ Goto(t, "reread", call[t])
  /\ stringLock' = None
  /\ UNCHANGED <<tableVars, configs, outsideVars, failures>>

\* The string is read again for the return, without the lock; after a failure, too.
ReturnString(t) ==
  /\ pc[t] \in {"answer", "reread"}
  /\ Return(t)
  /\ UNCHANGED <<tableVars, configs, stringLock, outsideVars, failures>>

-----------------------------------------------------------------------------
(* A display is closed and opened again, with the same address.            *)

\* XCloseDisplay begins.  It calls the hooks of all extensions, the latest first, and
\* of those only that there were at the start.
CloseDisplay(t, d) ==
  /\ Start(t, d)
  /\ \A u \in Thread : call[u].dpy # d
  /\ Goto(t, "hooks", [NoCall EXCEPT !.op = IF table[d] = None THEN "closed" ELSE "close", !.dpy = d])
  /\ UNCHANGED <<tableVars, configs, stringLock, outsideVars, failures>>

\* The hook of another extension may look the display up (one of them, once).
HookLookup(t) ==
  /\ pc[t] = "hooks" /\ call[t].info = None
  /\ call[t].op # "closed" \/ LateHook
  /\ Goto(t, "find", [call[t] EXCEPT !.next = "hooks"])
  /\ UNCHANGED <<tableVars, configs, stringLock, outsideVars, failures>>

\* OnDisplayClosed up to the first unlock
OnDisplayClosed(t) ==
  LET i == table[call[t].dpy] IN
  /\ pc[t] = "hooks" /\ call[t].op = "close"
  /\ info' = [info EXCEPT ![i].closing = TRUE]
  /\ Goto(t, "closing", [call[t] EXCEPT !.mine = i, !.info = None, !.op = "closed"])
  /\ UNCHANGED <<table, configs, stringLock, outsideVars, failures>>

\* The rest of OnDisplayClosed, after __glXDisplayClosed, which GlxContext has.
ForgetDisplay(t) ==
  /\ pc[t] = "closing"
  /\ table' = [table EXCEPT ![call[t].dpy] = None]
  /\ info' = [info EXCEPT ![call[t].mine] = None]
  /\ Goto(t, "hooks", [call[t] EXCEPT !.mine = None])
  /\ UNCHANGED <<configs, stringLock, outsideVars, failures>>

\* The end of XCloseDisplay: the drawables of this client go.  Of the mappings of configs
\* libGLX removes none.
DisplayGone(t) ==
  LET d == call[t].dpy IN
  /\ pc[t] = "hooks"
  /\ call[t].op = "closed"
  /\ drawable' = [dx \in Display \X Xid |->
                    IF dx[1] = d /\ drawable[dx] # None /\ drawable[dx].own THEN None ELSE drawable[dx]]
  /\ open' = open \ {d}
  /\ Return(t)
  /\ UNCHANGED <<tableVars, configs, stringLock, glvnd, given, failures>>

OpenDisplay(d) ==
  /\ open' = open \cup {d}
  /\ d \notin open
  /\ UNCHANGED <<tableVars, configs, stringLock, threadVars, glvnd, drawable, given, failures>>

\* Another client creates a drawable, or destroys one.
ForeignDrawable(d, x) ==
  /\ \/ /\ drawable[<<d, x>>] = None
        /\ \E s \in ScreensOf(d) : drawable' = [drawable EXCEPT ![<<d, x>>] = Foreign(s)]
     \/ /\ Exists(d, x) /\ ~drawable[<<d, x>>].own
        /\ drawable' = [drawable EXCEPT ![<<d, x>>] = IF ForeignReuse THEN None ELSE Retired]
  /\ UNCHANGED <<tableVars, configs, stringLock, threadVars, glvnd, open, given, failures>>

-----------------------------------------------------------------------------
Step(t) ==
  \/ FindDisplay(t) \/ BuildInfo(t) \/ InstallInfo(t) \/ Done(t)
  \/ LookupVendorByScreen(t) \/ MapConfig(t)
  \/ \E cs \in SUBSET Config : VendorConfigs(t, cs)
  \/ VendorCreates(t) \/ MapDrawable(t)
  \/ DrawableVendor(t) \/ QueryScreen(t) \/ RememberVendor(t) \/ UnmapDrawable(t) \/ CallVendor(t)
  \/ LockStrings(t) \/ MergeString(t) \/ UnlockStrings(t) \/ ReturnString(t)
  \/ OnDisplayClosed(t) \/ ForgetDisplay(t) \/ DisplayGone(t)

Begin(t) ==
  \/ HookLookup(t)
  \/ \E s \in Screen : GetConfigs(t, s) \/ CreateGLXPixmap(t, s)
  \/ \E d \in Display :
       \/ CloseDisplay(t, d) \/ GetClientString(t, d)
       \/ \E c \in Config : CreateDrawable(t, d, c)
       \/ \E x \in Xid : UseDrawable(t, d, x) \/ DestroyDrawable(t, d, x)

Next ==
  \/ \E t \in Thread : Begin(t) \/ Step(t)
  \/ \E d \in Display : OpenDisplay(d)
  \/ \E d \in Display, x \in Xid : ForeignDrawable(d, x)

Spec == Init /\ [][Next]_vars

-----------------------------------------------------------------------------
(* Properties.                                                             *)

Label == {"idle", "find", "build", "install", "done", "screen", "configs", "addConfig",
          "create", "map", "drawable", "query", "remember", "unmap", "vendor",
          "strings", "merge", "unlock", "giveUp", "answer", "reread", "closing", "hooks"}

CallType ==
  [op : Op \cup {None}, dpy : Display \cup {None}, xid : Xid \cup {None}, screen : Screen \cup {None},
   vendor : Vendor \cup {None}, info : Id \cup {None}, mine : Id \cup {None},
   next : Label \cup {None}, todo : SUBSET Config, array : SUBSET Config]

TypeOK ==
  /\ table \in [Display -> Id \cup {None}]
  /\ info \in [Id -> Info \cup {None}]
  /\ configs \in [Config -> Vendor \cup {None}]
  /\ stringLock \in Thread \cup {None}
  /\ pc \in [Thread -> Label]
  /\ call \in [Thread -> CallType]
  /\ {glvnd, open} \subseteq SUBSET Display
  /\ drawable \in [Display \X Xid -> Drawable \cup {None}]
  /\ given \subseteq Config
  /\ failures \in 0..MaxFailures

\* All threads that use a display have the structure that is in the table, and
\* it has not been freed, although it is built without the lock and freed under it
\* (libglxmapping.c:752).
OneInfo ==
  \A t \in Thread : LET i == call[t].info IN
    i # None => /\ table[call[t].dpy] = i
                /\ info[i] # None
                /\ info[i].dpy = call[t].dpy

\* Each structure is in the table or is the one that a thread is building or
\* freeing: the thread that comes second throws its own away (libglxmapping.c:768).
NoLeak ==
  \A i \in Id : info[i] # None =>
    \/ \E d \in Display : table[d] = i
    \/ \E t \in Thread : call[t].mine = i

\* The table has no structure of a display that is closed, which would be taken
\* for that of the next display with the same address (libglxmapping.c:697).
NoStaleDisplay == \A d \in Display : table[d] # None => d \in open /\ info[table[d]] # None

\* What a thread does, or will do when it has looked its display up.
Doing(l, c) == IF l \in {"find", "build", "install"} THEN c.next ELSE l

\* What a thread has, at each point of a function.
CallOK(l, c) ==
  LET w == Doing(l, c) IN
  /\ (l = "idle") = (c.dpy = None)
  /\ l = "idle" => c = NoCall
  /\ l \in {"find", "build", "install"} => w \in {"done", "screen", "map", "drawable", "strings", "hooks"}
  /\ (l \in {"install", "closing"}) = (c.mine # None)
  /\ w = "done" => c.op \in {"create", "use", "destroy"}
  /\ w \in {"screen", "configs", "addConfig", "create"} =>
       /\ c.op = "configs" \/ (c.op = "create" /\ w \in {"screen", "create"})
       /\ c.xid = None /\ c.screen # None /\ DisplayOf[c.screen] = c.dpy
  /\ w = "create" => c.op = "create"
  /\ w = "map" => c.op = "create" /\ c.xid # None
  /\ c.op = "create" /\ c.xid # None => w = "map"
  /\ w \in {"drawable", "query", "remember", "unmap", "vendor"} => c.op \in {"use", "destroy"}
  /\ w = "unmap" => c.op = "destroy"
  /\ c.op \in {"use", "destroy"} => c.xid # None
  /\ c.xid # None => c.op \in {"create", "use", "destroy"}
  /\ w \in {"strings", "merge", "unlock", "giveUp", "answer", "reread"} => c.op = "string"
  /\ c.op = "string" => Cardinality(ScreensOf(c.dpy)) > 1
  /\ w \in {"query", "remember", "unmap", "vendor", "merge", "unlock", "giveUp", "answer", "reread"} =>
       c.info # None
  /\ (w \in {"closing", "hooks"}) = (c.op \in {"close", "closed"})
  /\ w = "closing" => c.op = "closed"
  /\ c.op = "closed" => c.info = None /\ w = l

\* A structure that a thread has built is new and its own until it is in the table, and
\* whoever closes a display is alone with it.
StructuresOK ==
  /\ \A d \in Display : table[d] # None => info[table[d]].dpy = d
  /\ \A t \in Thread : LET c == call[t] IN
       /\ CallOK(pc[t], c)
       /\ c.dpy # None => c.dpy \in open
       /\ pc[t] = "install" => info[c.mine] = NewInfo(c.dpy) /\ \A d \in Display : table[d] # c.mine
       /\ pc[t] = "closing" => table[c.dpy] = c.mine
       /\ c.op = "close" => table[c.dpy] # None
       /\ c.op = "closed" /\ pc[t] = "hooks" => table[c.dpy] = None
  /\ \A t, u \in Thread : t # u =>
       /\ ~(pc[t] = "install" /\ pc[u] = "install" /\ call[t].mine = call[u].mine)
       /\ ~(call[t].op \in {"close", "closed"} /\ call[u].dpy = call[t].dpy)

\* The structure of a display is made once, lives while somebody uses it, and goes
\* with the display (libglxmapping.c:697-780).
DisplayInv == TypeOK /\ OneInfo /\ NoLeak /\ NoStaleDisplay /\ StructuresOK

\* A config is recorded for the vendor whose it is, if at all.  All are that the application
\* has, and those of an array that have been dealt with.
ConfigsOK ==
  /\ \A k \in Config : configs[k] \in {None, ConfigVendor[k]}
  /\ \A k \in given : configs[k] # None
  /\ \A t \in Thread : LET c == call[t] IN
       /\ pc[t] \in {"configs", "addConfig", "create"} => c.vendor = ScreenVendor(c.screen)
       /\ pc[t] = "addConfig" =>
            /\ c.todo \subseteq c.array /\ \A k \in c.array : ConfigVendor[k] = c.vendor
            /\ \A k \in c.array \ c.todo : configs[k] # None

\* A mapping is that of a drawable, made after it and removed before it, and leads
\* to the vendor of its screen.  Whoever makes or destroys a drawable is alone with it.
DrawablesOK ==
  /\ \A d \in Display, x \in Xid :
       /\ Exists(d, x) => drawable[<<d, x>>].screen \in ScreensOf(d)
       /\ table[d] # None /\ info[table[d]].xids[x] # None =>
            /\ drawable[<<d, x>>] # None
            /\ Exists(d, x) => info[table[d]].xids[x] = ScreenVendor(drawable[<<d, x>>].screen)
  /\ \A t \in Thread : LET c == call[t]
                            new == table[c.dpy] = None \/ info[table[c.dpy]].xids[c.xid] = None
                        IN
       /\ c.xid # None => drawable[<<c.dpy, c.xid>>] # None
       /\ c.op = "destroy" => Exists(c.dpy, c.xid) /\ drawable[<<c.dpy, c.xid>>].own
       /\ c.op = "create" /\ c.xid # None =>
            /\ new
            /\ \E s \in ScreensOf(c.dpy) : drawable[<<c.dpy, c.xid>>] = Own(s) /\ c.vendor = ScreenVendor(s)
       /\ c.op = "destroy" /\ pc[t] = "vendor" => new
       /\ pc[t] \in {"remember", "unmap"} /\ Exists(c.dpy, c.xid) =>
            c.vendor = ScreenVendor(drawable[<<c.dpy, c.xid>>].screen)
  /\ \A t, u \in Thread :
       t # u /\ call[t].dpy = call[u].dpy /\ call[t].xid # None /\ call[t].xid = call[u].xid =>
         call[t].op = "use"

\* A function on a drawable that exists is forwarded to the vendor of its
\* screen, whether that comes from the table or from the X server, and whatever
\* drawables of this client had its XID before (libglxmapping.c:944).  It is so only
\* with ~DestroyInUse and ~ForeignReuse: what a look-up adds late, or another
\* client's drawable has left, stays in the table and leads its successor astray.
RightVendor ==
  /\ DrawablesOK
  /\ \A t \in Thread : LET d == call[t].dpy
                           x == call[t].xid
                       IN
       pc[t] = "vendor" /\ Exists(d, x) => call[t].vendor = ScreenVendor(drawable[<<d, x>>].screen)

\* The vendor of a drawable that this client has created is known, unless a thread is still
\* creating it, or is about to destroy it, or the display; one whose vendor could not be
\* recorded has been destroyed again (libglx.c:1534).
OwnDrawablesMapped ==
  \A d \in Display, x \in Xid :
    Exists(d, x) /\ drawable[<<d, x>>].own =>
      \/ \E t \in Thread : LET c == call[t] IN
           /\ c.dpy = d
           /\ \/ c.op = "closed"
              \/ c.xid = x /\ (c.op = "create" \/ (c.op = "destroy" /\ pc[t] = "vendor"))
      \/ /\ table[d] # None
         /\ info[table[d]].xids[x] = ScreenVendor(drawable[<<d, x>>].screen)

\* A config that an application has been given leads to its vendor from then on: on other
\* connections, after the display is closed, and although other threads' calls that
\* returned the same config failed half-way (libglx.c:1493, libglxmapping.c:821).
ConfigsKnown == ConfigsOK /\ \A k \in given : configs[k] = ConfigVendor[k]

\* The holder of the lock is the only one to merge strings, and a string is that of all
\* vendors, or of none, except while it does.
StringsOK ==
  LET all(d) == Cardinality(ScreensOf(d)) IN
  /\ \A t \in Thread : LET c == call[t] IN
       /\ (stringLock = t) = (pc[t] \in {"merge", "unlock", "giveUp"})
       /\ pc[t] = "merge" => info[c.info].merged < all(c.dpy)
       /\ pc[t] = "giveUp" => info[c.info].merged = 0
       /\ pc[t] \in {"unlock", "answer"} => info[c.info].merged = all(c.dpy)
  /\ \A i \in Id : info[i] # None =>
       \/ info[i].merged \in {0, all(info[i].dpy)}
       \/ \E t \in Thread : pc[t] = "merge" /\ call[t].info = i

\* glXGetClientString returns the strings of all vendors if its own attempt to merge them
\* has not failed, and never one that another thread is about to replace and free: neither
\* a merge that is under way nor one that fails half-way is seen (libglx.c:1417, 1457).
StringComplete ==
  /\ StringsOK
  /\ \A t \in Thread : LET c == call[t] IN
       pc[t] = "answer" => info[c.info].merged = Cardinality(ScreensOf(c.dpy))

================================================================================
