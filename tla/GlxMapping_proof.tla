--------------------------- MODULE GlxMapping_proof ---------------------------
(***************************************************************************)
(* Theorems about GlxMapping, for any numbers of threads, displays,        *)
(* screens, vendors, XIDs, configs and failures.  DisplayInv is inductive  *)
(* if no hook for the closing of a display calls GLX after libGLX's own.   *)
(* The others are inductive on top of it; those about drawables rely on    *)
(* that nobody uses a drawable that is being destroyed and that the XIDs   *)
(* of other clients are not reused.                                        *)
(***************************************************************************)
EXTENDS GlxMapping, FiniteSetTheorems, TLAPS

-----------------------------------------------------------------------------
(* What a thread is at.                                                    *)

\* What TypeOK says of the data.
DataOK ==
  /\ table \in [Display -> Id \cup {None}]
  /\ info \in [Id -> Info \cup {None}]
  /\ configs \in [Config -> Vendor \cup {None}]
  /\ stringLock \in Thread \cup {None}
  /\ {glvnd, open} \subseteq SUBSET Display
  /\ drawable \in [Display \X Xid -> Drawable \cup {None}]
  /\ given \subseteq Config
  /\ failures \in 0..MaxFailures

ThreadOK == pc \in [Thread -> Label] /\ call \in [Thread -> CallType]

LEMMA TypeParts == TypeOK <=> DataOK /\ ThreadOK
BY DEF TypeOK, DataOK, ThreadOK

CallsOK == ThreadOK /\ \A t \in Thread : CallOK(pc[t], call[t])

LEMMA CallFields ==
  ASSUME NEW c \in CallType
  PROVE  /\ c.dpy \in Display \cup {None} /\ c.xid \in Xid \cup {None}
         /\ c.screen \in Screen \cup {None} /\ c.vendor \in Vendor \cup {None}
         /\ c.info \in Id \cup {None} /\ c.mine \in Id \cup {None}
         /\ c.next \in Label \cup {None} /\ c.todo \subseteq Config
         /\ c.op \in Op \cup {None}
BY DEF CallType

LEMMA NoCallTyped ==
  /\ NoCall \in CallType
  /\ NoCall.dpy = None /\ NoCall.op = None /\ NoCall.mine = None /\ NoCall.xid = None
  /\ NoCall.info = None /\ NoCall.screen = None /\ NoCall.vendor = None /\ NoCall.next = None
  /\ NoCall.todo = {} /\ NoCall.array = {}
BY DEF CallType, NoCall

LEMMA IdleCall == CallOK("idle", NoCall)
BY NoCallTyped, ConstantsAssumption DEF CallOK, Doing, Op

\* What a move of a thread leaves: a place and a call that fit, and the others as they are.
Moved(t) ==
  /\ CallsOK'
  /\ \A u \in Thread \ {t} : pc'[u] = pc[u] /\ call'[u] = call[u]

LEMMA Moves ==
  ASSUME CallsOK, NEW t \in Thread, NEW l \in Label, NEW c \in CallType, CallOK(l, c), Goto(t, l, c)
  PROVE  Moved(t) /\ pc'[t] = l /\ call'[t] = c
BY DEF CallsOK, ThreadOK, Moved, Goto

LEMMA Returns ==
  ASSUME CallsOK, NEW t \in Thread, Return(t)
  PROVE  Moved(t) /\ pc'[t] = "idle" /\ call'[t] = NoCall
BY Moves, NoCallTyped, IdleCall DEF Return, Label

\* The call is one of the same function, with the same arguments.
Same(c, e) == e.op = c.op /\ e.dpy = c.dpy /\ e.xid = c.xid /\ e.screen = c.screen

\* A thread looks its display up.
Nexts == {"done", "screen", "map", "drawable", "strings", "hooks"}

LEMMA NextLabels == \A n \in Nexts : n \in Label /\ n \notin {"idle", "find", "build", "install"}
BY DEF Nexts, Label

LEMMA LooksUp ==
  ASSUME CallsOK, NEW t \in Thread, NEW n \in Nexts, NEW c \in CallType, Lookup(t, n, c),
         CallOK(n, c), c.op # "closed", c.dpy # None
  PROVE  /\ Moved(t) /\ pc'[t] = "find" /\ call'[t].next = n /\ Same(c, call'[t])
         /\ call'[t].vendor = c.vendor /\ call'[t].info = c.info /\ call'[t].todo = c.todo
         /\ call'[t].mine = None
<1> PICK e : e = [c EXCEPT !.next = n]
  OBVIOUS
<1>1. /\ e \in CallType /\ Same(c, e) /\ e.next = n /\ e.vendor = c.vendor /\ e.info = c.info
      /\ e.todo = c.todo /\ e.mine = c.mine
  BY NextLabels DEF CallType, Same
<1>2. CallOK("find", e) /\ e.mine = None
  BY <1>1 DEF CallOK, Doing, Nexts, Same
<1> QED
  BY <1>1, <1>2, Moves DEF Lookup, Label

\* The display has been looked up.
LEMMA Finds ==
  ASSUME CallsOK, NEW t \in Thread, pc[t] \in {"find", "build", "install"}, NEW i \in Id \cup {None},
         Found(t, i)
  PROVE  /\ Moved(t) /\ pc'[t] = call[t].next /\ Same(call[t], call'[t])
         /\ call'[t].vendor = call[t].vendor /\ call'[t].info = i /\ call'[t].todo = call[t].todo
         /\ call'[t].mine = None
         /\ call[t].next \in Nexts /\ call[t].op # "closed" /\ call[t].dpy # None
<1> DEFINE c == call[t]
<1>0. c \in CallType /\ CallOK(pc[t], c)
  BY DEF CallsOK, ThreadOK
<1> HIDE DEF c
<1> PICK e : e = [c EXCEPT !.info = i, !.mine = None]
  OBVIOUS
<1>1. /\ e \in CallType /\ Same(c, e) /\ e.next = c.next /\ e.vendor = c.vendor /\ e.info = i
      /\ e.todo = c.todo /\ e.mine = None
  BY <1>0 DEF CallType, Same
<1>2. c.next \in Nexts /\ c.op # "closed" /\ c.dpy # None
  BY <1>0, NextLabels DEF CallOK, Doing, Nexts
<1>3. CallOK(c.next, e)
  BY <1>0, <1>1, <1>2 DEF CallOK, Doing, Nexts, Same
<1>4. Goto(t, c.next, e)
  BY DEF Found, c
<1>5. Moved(t) /\ pc'[t] = c.next /\ call'[t] = e
  BY <1>1, <1>2, <1>3, <1>4, Moves, NextLabels
<1> QED
  BY <1>1, <1>2, <1>5 DEF c

\* A step that changes only where a thread is.
LEMMA GoesOn ==
  ASSUME CallsOK, NEW t \in Thread, NEW l \in Label, Goto(t, l, call[t]), CallOK(l, call[t])
  PROVE  Moved(t) /\ pc'[t] = l /\ call'[t] = call[t]
<1>1. call[t] \in CallType
  BY DEF CallsOK, ThreadOK
<1> QED
  BY <1>1, Moves

\* The vendor is found.
LEMMA GetsVendor ==
  ASSUME CallsOK, NEW t \in Thread, NEW l \in Label, NEW v \in Vendor \cup {None},
         Goto(t, l, [call[t] EXCEPT !.vendor = v]),
         \/ pc[t] = "screen" /\ l = call[t].op
         \/ pc[t] = "drawable" /\ call[t].info # None /\ l = "vendor"
         \/ pc[t] = "drawable" /\ call[t].info # None /\ l = "unmap" /\ call[t].op = "destroy"
         \/ pc[t] = "query" /\ l = "remember"
         \/ pc[t] = "remember" /\ l = "vendor"
         \/ pc[t] = "remember" /\ l = "unmap" /\ call[t].op = "destroy"
  PROVE  /\ Moved(t) /\ pc'[t] = l /\ Same(call[t], call'[t])
         /\ call'[t].vendor = v /\ call'[t].info = call[t].info /\ call'[t].todo = call[t].todo
         /\ call'[t].mine = None
<1> DEFINE c == call[t]
<1>0. c \in CallType /\ CallOK(pc[t], c)
  BY DEF CallsOK, ThreadOK
<1> HIDE DEF c
<1> PICK e : e = [c EXCEPT !.vendor = v]
  OBVIOUS
<1>1. /\ e \in CallType /\ Same(c, e) /\ e.next = c.next /\ e.vendor = v /\ e.info = c.info
      /\ e.todo = c.todo /\ e.mine = c.mine
  BY <1>0 DEF CallType, Same
<1>2. CallOK(l, e) /\ e.mine = None
  BY <1>0, <1>1 DEF CallOK, Doing, Same, c
<1>3. Goto(t, l, e)
  BY DEF c
<1>4. Moved(t) /\ pc'[t] = l /\ call'[t] = e
  BY <1>1, <1>2, <1>3, Moves
<1> QED
  BY <1>1, <1>2, <1>4 DEF c

-----------------------------------------------------------------------------
(* The functions that are called.                                          *)

\* A function of a display begins with a look-up.
Begins(t, n, o, d) ==
  /\ pc[t] = "idle" /\ d \in Display \cap open
  /\ Moved(t) /\ pc'[t] = "find" /\ call'[t].next = n
  /\ call'[t].op = o /\ call'[t].dpy = d /\ call'[t].info = None /\ call'[t].mine = None
  /\ call'[t].todo = {}

LEMMA GetConfigsMoves ==
  ASSUME CallsOK, NEW t \in Thread, NEW s \in Screen, GetConfigs(t, s)
  PROVE  /\ Begins(t, "screen", "configs", DisplayOf[s]) /\ call'[t].screen = s
         /\ call'[t].xid = None /\ ~Closing(DisplayOf[s])
<1>p. PICK c : c = [NoCall EXCEPT !.op = "configs", !.dpy = DisplayOf[s], !.screen = s]
  OBVIOUS
<1>0. DisplayOf[s] \in Display /\ DisplayOf[s] # None /\ s # None
  BY ConstantsAssumption
<1>1. /\ c \in CallType /\ c.op = "configs" /\ c.dpy = DisplayOf[s] /\ c.screen = s /\ c.xid = None
      /\ c.info = None /\ c.mine = None /\ c.todo = {}
  BY <1>p, <1>0 DEF NoCall, CallType, Op
<1>2. CallOK("screen", c)
  BY <1>0, <1>1 DEF CallOK, Doing
<1>3. /\ pc[t] = "idle" /\ DisplayOf[s] \in open /\ ~Closing(DisplayOf[s])
      /\ Lookup(t, "screen", c)
  BY <1>p DEF GetConfigs, Start
<1>5. c.op # "closed" /\ c.dpy # None /\ "screen" \in Nexts
  BY <1>0, <1>1 DEF Nexts
<1>4. /\ Moved(t) /\ pc'[t] = "find" /\ call'[t].next = "screen" /\ Same(c, call'[t])
      /\ call'[t].info = c.info /\ call'[t].todo = c.todo /\ call'[t].mine = None
  BY <1>1, <1>2, <1>3, <1>5, LooksUp
<1> QED
  BY <1>0, <1>1, <1>3, <1>4 DEF Begins, Same

LEMMA CreateGLXPixmapMoves ==
  ASSUME CallsOK, NEW t \in Thread, NEW s \in Screen, CreateGLXPixmap(t, s)
  PROVE  /\ Begins(t, "screen", "create", DisplayOf[s]) /\ call'[t].screen = s
         /\ call'[t].xid = None /\ ~Closing(DisplayOf[s])
<1>p. PICK c : c = [NoCall EXCEPT !.op = "create", !.dpy = DisplayOf[s], !.screen = s]
  OBVIOUS
<1>0. DisplayOf[s] \in Display /\ DisplayOf[s] # None /\ s # None
  BY ConstantsAssumption
<1>1. /\ c \in CallType /\ c.op = "create" /\ c.dpy = DisplayOf[s] /\ c.screen = s /\ c.xid = None
      /\ c.info = None /\ c.mine = None /\ c.todo = {}
  BY <1>p, <1>0 DEF NoCall, CallType, Op
<1>2. CallOK("screen", c)
  BY <1>0, <1>1 DEF CallOK, Doing
<1>3. /\ pc[t] = "idle" /\ DisplayOf[s] \in open /\ ~Closing(DisplayOf[s])
      /\ Lookup(t, "screen", c)
  BY <1>p DEF CreateGLXPixmap, Start
<1>5. c.op # "closed" /\ c.dpy # None /\ "screen" \in Nexts
  BY <1>0, <1>1 DEF Nexts
<1>4. /\ Moved(t) /\ pc'[t] = "find" /\ call'[t].next = "screen" /\ Same(c, call'[t])
      /\ call'[t].info = c.info /\ call'[t].todo = c.todo /\ call'[t].mine = None
  BY <1>1, <1>2, <1>3, <1>5, LooksUp
<1> QED
  BY <1>0, <1>1, <1>3, <1>4 DEF Begins, Same

LEMMA WithDrawableMoves ==
  ASSUME CallsOK, NEW t \in Thread, NEW d \in Display, NEW x \in Xid, NEW o \in {"use", "destroy"},
         WithDrawable(t, d, x, o)
  PROVE  /\ Begins(t, "drawable", o, d) /\ call'[t].xid = x
         /\ ~Closing(d) /\ MayUse(d, x, o)
<1>p. PICK c : c = [NoCall EXCEPT !.op = o, !.dpy = d, !.xid = x]
  OBVIOUS
<1>0. d # None /\ x # None
  BY ConstantsAssumption
<1>1. /\ c \in CallType /\ c.op = o /\ c.dpy = d /\ c.xid = x
      /\ c.info = None /\ c.mine = None /\ c.todo = {}
  BY <1>p DEF NoCall, CallType, Op
<1>2. CallOK("drawable", c)
  BY <1>0, <1>1 DEF CallOK, Doing
<1>3. pc[t] = "idle" /\ d \in open /\ ~Closing(d) /\ MayUse(d, x, o) /\ Lookup(t, "drawable", c)
  BY <1>p DEF WithDrawable, Start
<1>5. c.op # "closed" /\ c.dpy # None /\ "drawable" \in Nexts
  BY <1>0, <1>1 DEF Nexts
<1>4. /\ Moved(t) /\ pc'[t] = "find" /\ call'[t].next = "drawable" /\ Same(c, call'[t])
      /\ call'[t].info = c.info /\ call'[t].todo = c.todo /\ call'[t].mine = None
  BY <1>1, <1>2, <1>3, <1>5, LooksUp
<1> QED
  BY <1>0, <1>1, <1>3, <1>4 DEF Begins, Same

LEMMA GetClientStringMoves ==
  ASSUME CallsOK, NEW t \in Thread, NEW d \in Display, GetClientString(t, d)
  PROVE  /\ Begins(t, "strings", "string", d) /\ call'[t].xid = None
         /\ ~Closing(d)
<1>p. PICK c : c = [NoCall EXCEPT !.op = "string", !.dpy = d]
  OBVIOUS
<1>0. d # None
  BY ConstantsAssumption
<1>1. /\ c \in CallType /\ c.op = "string" /\ c.dpy = d /\ c.xid = None
      /\ c.info = None /\ c.mine = None /\ c.todo = {}
  BY <1>p DEF NoCall, CallType, Op
<1>3. /\ pc[t] = "idle" /\ d \in open /\ ~Closing(d) /\ Lookup(t, "strings", c)
      /\ Cardinality(ScreensOf(d)) > 1
  BY <1>p DEF GetClientString, Start
<1>2. CallOK("strings", c)
  BY <1>0, <1>1, <1>3 DEF CallOK, Doing
<1>5. c.op # "closed" /\ c.dpy # None /\ "strings" \in Nexts
  BY <1>0, <1>1 DEF Nexts
<1>4. /\ Moved(t) /\ pc'[t] = "find" /\ call'[t].next = "strings" /\ Same(c, call'[t])
      /\ call'[t].info = c.info /\ call'[t].todo = c.todo /\ call'[t].mine = None
  BY <1>1, <1>2, <1>3, <1>5, LooksUp
<1> QED
  BY <1>0, <1>1, <1>3, <1>4 DEF Begins, Same

\* The vendor has created a drawable on a screen, or none.
LEMMA Creates ==
  ASSUME CallsOK, DataOK, NEW t \in Thread, NEW d \in Display, NEW x \in Xid, NEW s, NEW c \in CallType,
         c.op = "create", c.dpy = d, c.mine = None,
         Created(t, d, x, s, c)
  PROVE  /\ Moved(t) /\ pc'[t] = "find" /\ call'[t].next = "map" /\ call'[t].op = "create"
         /\ call'[t].dpy = d /\ call'[t].xid = x /\ call'[t].vendor = c.vendor
         /\ call'[t].info = c.info /\ call'[t].mine = None /\ call'[t].todo = c.todo
         /\ drawable[<<d, x>>] = None /\ drawable' = [drawable EXCEPT ![<<d, x>>] = Own(s)]
<1>p. PICK e : e = [c EXCEPT !.xid = x]
  OBVIOUS
<1>0. d # None /\ x # None
  BY ConstantsAssumption
<1>1. /\ e \in CallType /\ e.op = "create" /\ e.dpy = d /\ e.xid = x /\ e.vendor = c.vendor
      /\ e.info = c.info /\ e.mine = None /\ e.todo = c.todo
  BY <1>p DEF CallType
<1>2. CallOK("map", e)
  BY <1>0, <1>1 DEF CallOK, Doing
<1>3. /\ drawable[<<d, x>>] = None /\ drawable' = [drawable EXCEPT ![<<d, x>>] = Own(s)]
      /\ Lookup(t, "map", e)
  BY <1>p DEF Created
<1>5. e.op # "closed" /\ e.dpy # None /\ "map" \in Nexts
  BY <1>0, <1>1 DEF Nexts
<1>4. /\ Moved(t) /\ pc'[t] = "find" /\ call'[t].next = "map" /\ Same(e, call'[t])
      /\ call'[t].vendor = e.vendor /\ call'[t].info = e.info /\ call'[t].todo = e.todo
      /\ call'[t].mine = None
  BY <1>1, <1>2, <1>3, <1>5, LooksUp
<1> QED
  BY <1>1, <1>3, <1>4 DEF Same

LEMMA CreateDrawableMoves ==
  ASSUME CallsOK, DataOK, NEW t \in Thread, NEW d \in Display, NEW k \in Config,
         CreateDrawable(t, d, k)
  PROVE  \E n \in {"map", "done"} :
           /\ Begins(t, n, "create", d) /\ ~Closing(d) /\ call'[t].vendor = configs[k]
           /\ \/ n = "done" /\ call'[t].xid = None /\ UNCHANGED drawable
              \/ /\ n = "map" /\ call'[t].xid \in Xid /\ drawable[<<d, call'[t].xid>>] = None
                 /\ \E s \in ScreensOf(d) :
                      /\ configs[k] = ScreenVendor(s)
                      /\ drawable' = [drawable EXCEPT ![<<d, call'[t].xid>>] = Own(s)]
<1>p. PICK c : c = [NoCall EXCEPT !.op = "create", !.dpy = d, !.vendor = configs[k]]
  OBVIOUS
<1>0. d # None
  BY ConstantsAssumption
<1>1. /\ c \in CallType /\ c.op = "create" /\ c.dpy = d /\ c.xid = None /\ c.vendor = configs[k]
      /\ c.info = None /\ c.mine = None /\ c.todo = {}
  BY <1>p DEF NoCall, CallType, DataOK, Op
<1>2. CallOK("done", c)
  BY <1>0, <1>1 DEF CallOK, Doing
<1>3. /\ pc[t] = "idle" /\ d \in open /\ ~Closing(d)
      /\ \/ \E x \in Xid, s \in ScreensOf(d) :
              ScreenVendor(s) = configs[k] /\ Created(t, d, x, s, c)
         \/ Lookup(t, "done", c) /\ UNCHANGED drawable
  BY <1>p DEF CreateDrawable, Start
<1>4. CASE Lookup(t, "done", c) /\ UNCHANGED drawable
  <2>1. c.op # "closed" /\ c.dpy # None /\ "done" \in Nexts
    BY <1>0, <1>1 DEF Nexts
  <2>2. /\ Moved(t) /\ pc'[t] = "find" /\ call'[t].next = "done" /\ Same(c, call'[t])
        /\ call'[t].vendor = c.vendor /\ call'[t].info = c.info /\ call'[t].todo = c.todo
        /\ call'[t].mine = None
    BY <1>1, <1>2, <1>4, <2>1, LooksUp
  <2>3. /\ Begins(t, "done", "create", d) /\ ~Closing(d) /\ call'[t].vendor = configs[k]
        /\ call'[t].xid = None
    BY <1>1, <1>3, <2>2 DEF Begins, Same
  <2> QED
    BY <1>4, <2>3
<1>5. ASSUME NEW x \in Xid, NEW s \in ScreensOf(d), Created(t, d, x, s, c)
      PROVE  /\ Begins(t, "map", "create", d) /\ call'[t].vendor = configs[k]
             /\ call'[t].xid = x /\ drawable[<<d, x>>] = None
             /\ drawable' = [drawable EXCEPT ![<<d, x>>] = Own(s)]
  <2>1. /\ Moved(t) /\ pc'[t] = "find" /\ call'[t].next = "map" /\ call'[t].op = "create"
        /\ call'[t].dpy = d /\ call'[t].xid = x /\ call'[t].vendor = c.vendor
        /\ call'[t].info = c.info /\ call'[t].mine = None /\ call'[t].todo = c.todo
        /\ drawable[<<d, x>>] = None
        /\ drawable' = [drawable EXCEPT ![<<d, x>>] = Own(s)]
    BY <1>1, <1>5, Creates
  <2> QED
    BY <1>1, <1>3, <2>1 DEF Begins
<1> QED
  BY <1>3, <1>4, <1>5

\* A display is closed.
LEMMA CloseDisplayMoves ==
  ASSUME CallsOK, NEW t \in Thread, NEW d \in Display, CloseDisplay(t, d)
  PROVE  /\ pc[t] = "idle" /\ d \in open /\ Moved(t) /\ pc'[t] = "hooks"
         /\ call'[t].op = IF table[d] = None THEN "closed" ELSE "close"
         /\ call'[t].dpy = d /\ call'[t].xid = None /\ call'[t].info = None /\ call'[t].mine = None
         /\ \A u \in Thread : call[u].dpy # d
<1> PICK o \in {"close", "closed"} : o = IF table[d] = None THEN "closed" ELSE "close"
  OBVIOUS
<1>p. PICK c : c = [NoCall EXCEPT !.op = o, !.dpy = d]
  OBVIOUS
<1>0. d # None
  BY ConstantsAssumption
<1>1. /\ c \in CallType /\ c.op = o /\ c.dpy = d /\ c.xid = None
      /\ c.info = None /\ c.mine = None
  BY <1>p DEF NoCall, CallType, Op
<1>2. CallOK("hooks", c)
  BY <1>0, <1>1 DEF CallOK, Doing
<1>3. pc[t] = "idle" /\ d \in open /\ Goto(t, "hooks", c) /\ \A u \in Thread : call[u].dpy # d
  BY <1>p DEF CloseDisplay, Start
<1> QED
  BY <1>1, <1>2, <1>3, Moves DEF Label

LEMMA HookLookupMoves ==
  ASSUME ~LateHook, CallsOK, NEW t \in Thread, HookLookup(t)
  PROVE  /\ pc[t] = "hooks" /\ call[t].op = "close" /\ call[t].info = None
         /\ Moved(t) /\ pc'[t] = "find" /\ call'[t].next = "hooks" /\ Same(call[t], call'[t])
         /\ call'[t].info = None /\ call'[t].mine = None
<1> DEFINE c == call[t]
<1>0. c \in CallType /\ CallOK(pc[t], c)
  BY DEF CallsOK, ThreadOK
<1>1. pc[t] = "hooks" /\ c.info = None /\ c.op # "closed" /\ Lookup(t, "hooks", c)
  BY DEF HookLookup, Lookup
<1> HIDE DEF c
<1>2. c.op = "close" /\ c.dpy # None /\ CallOK("hooks", c)
  BY <1>0, <1>1 DEF CallOK, Doing
<1>3. /\ Moved(t) /\ pc'[t] = "find" /\ call'[t].next = "hooks" /\ Same(c, call'[t])
      /\ call'[t].info = c.info /\ call'[t].mine = None
  BY <1>0, <1>1, <1>2, LooksUp DEF Nexts
<1> QED
  BY <1>1, <1>2, <1>3 DEF c

LEMMA BeginKeeps ==
  ASSUME NEW t \in Thread, Begin(t)
  PROVE  UNCHANGED <<table, info, configs, stringLock, glvnd, open, given, failures>>
<1> USE DEF tableVars, outsideVars
<1>1. ASSUME NEW s \in Screen, GetConfigs(t, s) \/ CreateGLXPixmap(t, s)
      PROVE  UNCHANGED <<table, info, configs, stringLock, glvnd, open, given, failures>>
  BY <1>1 DEF GetConfigs, CreateGLXPixmap
<1>2. ASSUME NEW d \in Display, CloseDisplay(t, d) \/ GetClientString(t, d)
      PROVE  UNCHANGED <<table, info, configs, stringLock, glvnd, open, given, failures>>
  BY <1>2 DEF CloseDisplay, GetClientString
<1>3. ASSUME NEW d \in Display, NEW c \in Config, CreateDrawable(t, d, c)
      PROVE  UNCHANGED <<table, info, configs, stringLock, glvnd, open, given, failures>>
  BY <1>3 DEF CreateDrawable
<1>4. ASSUME NEW d \in Display, NEW x \in Xid, UseDrawable(t, d, x) \/ DestroyDrawable(t, d, x)
      PROVE  UNCHANGED <<table, info, configs, stringLock, glvnd, open, given, failures>>
  BY <1>4 DEF UseDrawable, DestroyDrawable, WithDrawable
<1>5. CASE HookLookup(t)
  BY <1>5 DEF HookLookup
<1> QED
  BY <1>1, <1>2, <1>3, <1>4, <1>5 DEF Begin

LEMMA BeginMoves ==
  ASSUME CallsOK, DataOK, ~LateHook, NEW t \in Thread, Begin(t)
  PROVE  Moved(t) /\ pc[t] \in {"idle", "hooks"} /\ pc'[t] \in {"find", "hooks"}
<1>1. CASE HookLookup(t)
  BY <1>1, HookLookupMoves
<1>2. CASE \E s \in Screen : GetConfigs(t, s) \/ CreateGLXPixmap(t, s)
  BY <1>2, GetConfigsMoves, CreateGLXPixmapMoves DEF Begins
<1>3. CASE \E d \in Display : CloseDisplay(t, d) \/ GetClientString(t, d)
  BY <1>3, CloseDisplayMoves, GetClientStringMoves DEF Begins
<1>4. ASSUME NEW d \in Display, NEW c \in Config, CreateDrawable(t, d, c)
      PROVE  Moved(t) /\ pc[t] = "idle" /\ pc'[t] = "find"
  BY <1>4, CreateDrawableMoves DEF Begins
<1>5. ASSUME NEW d \in Display, NEW x \in Xid, UseDrawable(t, d, x) \/ DestroyDrawable(t, d, x)
      PROVE  Moved(t) /\ pc[t] = "idle" /\ pc'[t] = "find"
  BY <1>5, WithDrawableMoves DEF Begins, UseDrawable, DestroyDrawable
<1> QED
  BY <1>1, <1>2, <1>3, <1>4, <1>5 DEF Begin

-----------------------------------------------------------------------------
(* The steps of the functions.                                             *)

\* The display is looked up again, with all that is known.
LooksUpAgain(t, n) ==
  /\ Moved(t) /\ pc'[t] = "find" /\ call'[t].next = n /\ Same(call[t], call'[t])
  /\ call'[t].vendor = call[t].vendor /\ call'[t].info = call[t].info /\ call'[t].mine = None

\* The display has been looked up, with the result i.
HasFound(t, i) ==
  /\ Moved(t) /\ pc'[t] = call[t].next /\ Same(call[t], call'[t])
  /\ call'[t].vendor = call[t].vendor /\ call'[t].info = i /\ call'[t].mine = None
  /\ call[t].next \in Nexts /\ call[t].op # "closed" /\ call[t].dpy \in Display

HasReturned(t) == Moved(t) /\ pc'[t] = "idle" /\ call'[t] = NoCall

HasGoneOn(t, l) == Moved(t) /\ pc'[t] = l /\ call'[t] = call[t]

HasVendor(t, l, v) ==
  /\ Moved(t) /\ pc'[t] = l /\ Same(call[t], call'[t])
  /\ call'[t].vendor = v /\ call'[t].info = call[t].info /\ call'[t].mine = None

LEMMA SendErrorMoves ==
  ASSUME CallsOK, NEW t \in Thread, pc[t] \in {"create", "drawable", "query"},
         Lookup(t, "done", call[t])
  PROVE  LooksUpAgain(t, "done")
<1> DEFINE c == call[t]
<1>0. c \in CallType /\ CallOK(pc[t], c) /\ Lookup(t, "done", c)
  BY DEF CallsOK, ThreadOK
<1> HIDE DEF c
<1>1. CallOK("done", c) /\ c.op # "closed" /\ c.dpy # None
  BY <1>0 DEF CallOK, Doing
<1>2. "done" \in Nexts
  BY DEF Nexts
<1>3. /\ Moved(t) /\ pc'[t] = "find" /\ call'[t].next = "done" /\ Same(c, call'[t])
      /\ call'[t].vendor = c.vendor /\ call'[t].info = c.info /\ call'[t].mine = None
  BY <1>0, <1>1, <1>2, LooksUp
<1> QED
  BY <1>3 DEF LooksUpAgain, c

LEMMA FoundMoves ==
  ASSUME CallsOK, NEW t \in Thread, pc[t] \in {"find", "build", "install"}, NEW i \in Id \cup {None},
         Found(t, i)
  PROVE  HasFound(t, i)
<1>1. call[t] \in CallType
  BY DEF CallsOK, ThreadOK
<1> QED
  BY <1>1, Finds, CallFields DEF HasFound

LEMMA FindDisplayMoves ==
  ASSUME CallsOK, DataOK, NEW t \in Thread, FindDisplay(t)
  PROVE  /\ pc[t] = "find" /\ call[t].dpy \in Display /\ call[t].op # "closed"
         /\ \/ table[call[t].dpy] = None /\ HasGoneOn(t, "build")
            \/ \E i \in {None, table[call[t].dpy]} : HasFound(t, i)
<1>1. call[t] \in CallType /\ CallOK(pc[t], call[t]) /\ pc[t] = "find"
  BY DEF CallsOK, ThreadOK, FindDisplay
<1>2. call[t].dpy \in Display /\ call[t].op # "closed"
  BY <1>1, CallFields DEF CallOK, Doing
<1>3. table[call[t].dpy] \in Id \cup {None}
  BY <1>2 DEF DataOK
<1>4. CASE table[call[t].dpy] = None /\ Goto(t, "build", call[t])
  <2>1. CallOK("build", call[t])
    BY <1>1 DEF CallOK, Doing
  <2> QED
    BY <1>1, <1>2, <1>4, <2>1, GoesOn DEF Label, HasGoneOn
<1>5. CASE \E i \in {None, table[call[t].dpy]} : Found(t, i)
  BY <1>1, <1>2, <1>3, <1>5, FoundMoves
<1> QED
  BY <1>4, <1>5 DEF FindDisplay

LEMMA DoneMoves ==
  ASSUME CallsOK, NEW t \in Thread, Done(t)
  PROVE  pc[t] = "done" /\ HasReturned(t)
BY Returns DEF Done, HasReturned

LEMMA LookupVendorByScreenMoves ==
  ASSUME CallsOK, DataOK, NEW t \in Thread, LookupVendorByScreen(t)
  PROVE  /\ pc[t] = "screen" /\ failures' \in 0..MaxFailures
         /\ \/ HasReturned(t)
            \/ /\ HasVendor(t, call[t].op, ScreenVendor(call[t].screen))
               /\ call[t].op \in {"configs", "create"}
<1>1. call[t] \in CallType /\ CallOK(pc[t], call[t]) /\ pc[t] = "screen"
  BY DEF CallsOK, ThreadOK, LookupVendorByScreen
<1>2. call[t].op \in {"configs", "create"} /\ call[t].screen \in Screen
  BY <1>1, CallFields DEF CallOK, Doing
<1>3. ScreenVendor(call[t].screen) \in Vendor
  BY <1>2, ConstantsAssumption DEF ScreenVendor
<1>4. failures' \in 0..MaxFailures
  BY ConstantsAssumption DEF LookupVendorByScreen, Fail, DataOK
<1>5. CASE Return(t)
  BY <1>1, <1>4, <1>5, Returns DEF HasReturned
<1>6. CASE Goto(t, call[t].op, [call[t] EXCEPT !.vendor = ScreenVendor(call[t].screen)])
  <2>1. call[t].op \in Label
    BY <1>2 DEF Label
  <2> DEFINE v == ScreenVendor(call[t].screen)
             l == call[t].op
  <2>2. v \in Vendor \cup {None} /\ l \in Label /\ Goto(t, l, [call[t] EXCEPT !.vendor = v])
    BY <1>3, <1>6, <2>1
  <2>3. l = call[t].op
    OBVIOUS
  <2> HIDE DEF v, l
  <2>4. HasVendor(t, l, v)
    BY <1>1, <2>2, <2>3, GetsVendor DEF HasVendor
  <2> QED
    BY <1>1, <1>2, <1>4, <2>4 DEF v, l
<1> QED
  BY <1>5, <1>6 DEF LookupVendorByScreen

LEMMA VendorConfigsMoves ==
  ASSUME CallsOK, NEW t \in Thread, NEW cs \in SUBSET Config, VendorConfigs(t, cs)
  PROVE  /\ pc[t] = "configs" /\ call[t].screen \in Screen /\ call[t].mine = None
         /\ \/ HasReturned(t)
            \/ /\ HasVendor(t, "addConfig", call[t].vendor)
               /\ call'[t].todo = cs /\ call'[t].array = cs
<1> DEFINE c == call[t]
<1>0. c \in CallType /\ CallOK(pc[t], c) /\ pc[t] = "configs"
  BY DEF CallsOK, ThreadOK, VendorConfigs
<1>1. CASE Return(t)
  BY <1>0, <1>1, Returns, CallFields DEF HasReturned, CallOK, Doing
<1>2. CASE Goto(t, "addConfig", [c EXCEPT !.todo = cs, !.array = cs])
  <2> HIDE DEF c
  <2>p. PICK e : e = [c EXCEPT !.todo = cs, !.array = cs]
    OBVIOUS
  <2>1. /\ e \in CallType /\ Same(c, e) /\ e.vendor = c.vendor /\ e.info = c.info
        /\ e.todo = cs /\ e.array = cs /\ e.mine = c.mine
    BY <1>0, <2>p DEF CallType, Same
  <2>2. CallOK("addConfig", e) /\ c.mine = None /\ c.screen \in Screen
    BY <1>0, <2>1, CallFields DEF CallOK, Doing, Same
  <2>3. Goto(t, "addConfig", e) /\ "addConfig" \in Label
    BY <1>2, <2>p DEF Label
  <2>4. Moved(t) /\ pc'[t] = "addConfig" /\ call'[t] = e
    BY <2>1, <2>2, <2>3, Moves
  <2> QED
    BY <1>0, <2>1, <2>2, <2>4 DEF HasVendor, c
<1> QED
  BY <1>1, <1>2 DEF VendorConfigs

LEMMA VendorConfigsKeeps ==
  ASSUME NEW t \in Thread, NEW cs \in SUBSET Config, VendorConfigs(t, cs)
  PROVE  UNCHANGED <<table, info, configs, stringLock, glvnd, open, drawable, given, failures>>
BY DEF VendorConfigs, tableVars, outsideVars

LEMMA MapConfigMoves ==
  ASSUME CallsOK, NEW t \in Thread, MapConfig(t)
  PROVE  \E c \in call[t].todo, ok \in BOOLEAN :
           /\ pc[t] = "addConfig" /\ c \in Config /\ call[t].mine = None /\ call[t].vendor \in Vendor \cup {None}
           /\ AddConfig(t, c, ok)
           /\ \/ HasReturned(t) /\ ~ok /\ UNCHANGED given
              \/ HasReturned(t) /\ ok /\ call[t].todo = {c} /\ given' = given \cup call[t].array
              \/ /\ ok /\ HasVendor(t, "addConfig", call[t].vendor) /\ UNCHANGED given
                 /\ call'[t].todo = call[t].todo \ {c} /\ call'[t].array = call[t].array
<1>0. call[t] \in CallType /\ CallOK(pc[t], call[t]) /\ pc[t] = "addConfig"
  BY DEF CallsOK, ThreadOK, MapConfig
<1>1. PICK c \in call[t].todo, ok \in BOOLEAN :
        /\ AddConfig(t, c, ok)
        /\ \/ /\ ok /\ UNCHANGED given
              /\ Goto(t, "addConfig", [call[t] EXCEPT !.todo = call[t].todo \ {c}])
           \/ ok /\ call[t].todo = {c} /\ given' = given \cup call[t].array /\ Return(t)
           \/ ~ok /\ UNCHANGED given /\ Return(t)
  BY DEF MapConfig
<1>2. c \in Config /\ call[t].todo \subseteq Config /\ call[t].vendor \in Vendor \cup {None}
  BY <1>0, CallFields
<1>5. call[t].mine = None
  BY <1>0 DEF CallOK
<1>3. CASE \/ ok /\ call[t].todo = {c} /\ given' = given \cup call[t].array /\ Return(t)
           \/ ~ok /\ UNCHANGED given /\ Return(t)
  BY <1>0, <1>1, <1>2, <1>3, <1>5, Returns DEF HasReturned
<1>4. CASE ok /\ UNCHANGED given /\ Goto(t, "addConfig", [call[t] EXCEPT !.todo = call[t].todo \ {c}])
  <2> DEFINE d == call[t]
  <2>0. d \in CallType /\ CallOK("addConfig", d) /\ d.todo \subseteq Config
    BY <1>0, <1>2
  <2>a. Goto(t, "addConfig", [d EXCEPT !.todo = d.todo \ {c}])
    BY <1>4
  <2> HIDE DEF d
  <2>p. PICK e : e = [d EXCEPT !.todo = d.todo \ {c}]
    OBVIOUS
  <2>1. /\ e \in CallType /\ Same(d, e) /\ e.vendor = d.vendor /\ e.info = d.info
        /\ e.todo = d.todo \ {c} /\ e.array = d.array /\ e.mine = d.mine
    BY <2>0, <2>p DEF CallType, Same
  <2>2. CallOK("addConfig", e)
    BY <2>0, <2>1 DEF CallOK, Doing, Same
  <2>3. Goto(t, "addConfig", e) /\ "addConfig" \in Label
    BY <2>a, <2>p DEF Label
  <2>4. Moved(t) /\ pc'[t] = "addConfig" /\ call'[t] = e
    BY <2>1, <2>2, <2>3, Moves
  <2>5. HasVendor(t, "addConfig", call[t].vendor) /\ call'[t].todo = call[t].todo \ {c}
        /\ call'[t].array = call[t].array
    BY <1>5, <2>1, <2>4 DEF HasVendor, d
  <2> QED
    BY <1>0, <1>1, <1>2, <1>4, <1>5, <2>5
<1> QED
  BY <1>1, <1>3, <1>4

LEMMA VendorCreatesMoves ==
  ASSUME CallsOK, DataOK, NEW t \in Thread, VendorCreates(t)
  PROVE  /\ pc[t] = "create" /\ call[t].dpy \in Display /\ call[t].screen \in ScreensOf(call[t].dpy)
         /\ \/ LooksUpAgain(t, "done") /\ UNCHANGED drawable /\ call[t].xid = None
            \/ /\ Moved(t) /\ pc'[t] = "find" /\ call'[t].next = "map" /\ call'[t].op = "create"
               /\ call'[t].dpy = call[t].dpy /\ call'[t].xid \in Xid /\ call'[t].info = call[t].info
               /\ call'[t].vendor = call[t].vendor /\ call'[t].mine = None
               /\ drawable[<<call[t].dpy, call'[t].xid>>] = None
               /\ drawable' = [drawable EXCEPT ![<<call[t].dpy, call'[t].xid>>] = Own(call[t].screen)]
<1> DEFINE c == call[t]
<1>0. c \in CallType /\ CallOK("create", c) /\ pc[t] = "create"
  BY DEF CallsOK, ThreadOK, VendorCreates
<1>a. \/ \E x \in Xid : Created(t, c.dpy, x, c.screen, c)
      \/ Lookup(t, "done", c) /\ UNCHANGED drawable
  BY DEF VendorCreates
<1> HIDE DEF c
<1>1. /\ c.op = "create" /\ c.mine = None /\ c.dpy \in Display /\ c.screen \in ScreensOf(c.dpy)
      /\ c.xid = None
  BY <1>0, CallFields DEF CallOK, Doing, ScreensOf
<1>2. CASE Lookup(t, "done", c) /\ UNCHANGED drawable
  <2>1. LooksUpAgain(t, "done")
    BY <1>0, <1>2, SendErrorMoves DEF c
  <2> QED
    BY <1>0, <1>1, <1>2, <2>1 DEF c
<1>3. ASSUME NEW x \in Xid, Created(t, c.dpy, x, c.screen, c)
      PROVE  /\ Moved(t) /\ pc'[t] = "find" /\ call'[t].next = "map" /\ call'[t].op = "create"
             /\ call'[t].dpy = c.dpy /\ call'[t].xid = x /\ call'[t].vendor = c.vendor
             /\ call'[t].info = c.info /\ call'[t].mine = None
             /\ drawable[<<c.dpy, x>>] = None
             /\ drawable' = [drawable EXCEPT ![<<c.dpy, x>>] = Own(c.screen)]
  <2> DEFINE d == c.dpy
             s == c.screen
  <2>1. d \in Display /\ c.dpy = d /\ Created(t, d, x, s, c)
    BY <1>1, <1>3
  <2> HIDE DEF d, s
  <2>2. /\ Moved(t) /\ pc'[t] = "find" /\ call'[t].next = "map" /\ call'[t].op = "create"
        /\ call'[t].dpy = d /\ call'[t].xid = x /\ call'[t].vendor = c.vendor
        /\ call'[t].info = c.info /\ call'[t].mine = None
        /\ drawable[<<d, x>>] = None /\ drawable' = [drawable EXCEPT ![<<d, x>>] = Own(s)]
    BY <1>0, <1>1, <2>1, Creates
  <2> QED
    BY <2>2 DEF d, s
<1> QED
  BY <1>0, <1>1, <1>a, <1>2, <1>3 DEF c

LEMMA MapDrawableMoves ==
  ASSUME CallsOK, NEW t \in Thread, MapDrawable(t)
  PROVE  /\ pc[t] = "map" /\ HasReturned(t)
         /\ call[t].op = "create" /\ call[t].dpy \in Display /\ call[t].xid \in Xid
         /\ call[t].vendor \in Vendor \cup {None} /\ call[t].info \in Id \cup {None}
<1>1. call[t] \in CallType /\ CallOK("map", call[t]) /\ pc[t] = "map" /\ Return(t)
  BY DEF CallsOK, ThreadOK, MapDrawable
<1> QED
  BY <1>1, CallFields, Returns DEF HasReturned, CallOK, Doing

LEMMA ForwardMoves ==
  ASSUME CallsOK, NEW t \in Thread, NEW v \in Vendor \cup {None}, Forward(t, v),
         pc[t] = "remember" \/ (pc[t] = "drawable" /\ call[t].info # None)
  PROVE  HasVendor(t, IF call[t].op = "destroy" THEN "unmap" ELSE "vendor", v)
<1> PICK l \in {"unmap", "vendor"} : l = IF call[t].op = "destroy" THEN "unmap" ELSE "vendor"
  OBVIOUS
<1>1. l \in Label /\ Goto(t, l, [call[t] EXCEPT !.vendor = v])
  BY DEF Label, Forward
<1> QED
  BY <1>1, GetsVendor DEF HasVendor

\* What a thread has that looks for the vendor of a drawable.
WithXid(c) ==
  c.op \in {"use", "destroy"} /\ c.dpy \in Display /\ c.xid \in Xid /\ c.info \in Id \cup {None}
  /\ c.vendor \in Vendor \cup {None} /\ c.mine = None

LEMMA WithXidCalls ==
  ASSUME CallsOK, NEW t \in Thread, pc[t] \in {"drawable", "query", "remember", "unmap", "vendor"}
  PROVE  /\ WithXid(call[t])
         /\ pc[t] # "drawable" => call[t].info \in Id
         /\ pc[t] = "unmap" => call[t].op = "destroy"
<1> DEFINE c == call[t]
<1>0. c \in CallType /\ CallOK(pc[t], c)
  BY DEF CallsOK, ThreadOK
<1> HIDE DEF c
<1> QED
  BY <1>0, CallFields DEF CallOK, Doing, c, WithXid

LEMMA DrawableVendorMoves ==
  ASSUME CallsOK, DataOK, NEW t \in Thread, DrawableVendor(t),
         call[t].info # None => info[call[t].info] # None
  PROVE  /\ pc[t] = "drawable" /\ WithXid(call[t])
         /\ \/ LooksUpAgain(t, "done")
            \/ HasGoneOn(t, "query") /\ call[t].info # None
            \/ \E v \in Vendor :
                 /\ HasVendor(t, IF call[t].op = "destroy" THEN "unmap" ELSE "vendor", v)
                 /\ call[t].info # None
                 /\ \/ call[t].dpy \notin glvnd /\ v = Fallback
                    \/ v = info[call[t].info].xids[call[t].xid]
<1>0. pc[t] = "drawable" /\ CallOK(pc[t], call[t]) /\ WithXid(call[t])
  BY WithXidCalls DEF CallsOK, DrawableVendor
<1>1. CASE call[t].info = None
  <2>1. Lookup(t, "done", call[t])
    BY <1>1 DEF DrawableVendor, SendError
  <2> QED
    BY <1>0, <2>1, SendErrorMoves
<1>2. CASE call[t].info # None /\ call[t].dpy \notin glvnd /\ Lookup(t, "done", call[t])
  BY <1>0, <1>2, SendErrorMoves
<1>4. CASE call[t].info # None /\ call[t].dpy \notin glvnd /\ Forward(t, Fallback)
  <2>1. Forward(t, Fallback) /\ Fallback \in Vendor
    BY <1>4, ConstantsAssumption
  <2>2. HasVendor(t, IF call[t].op = "destroy" THEN "unmap" ELSE "vendor", Fallback)
    BY <1>0, <1>4, <2>1, ForwardMoves
  <2> QED
    BY <1>0, <1>4, <2>1, <2>2
<1>3. CASE call[t].info # None /\ call[t].dpy \in glvnd
  <2> DEFINE v == info[call[t].info].xids[call[t].xid]
  <2>1. v \in Vendor \cup {None}
    BY <1>0, <1>3 DEF DataOK, Info, WithXid
  <2>2. CASE v = None
    <3>1. Goto(t, "query", call[t])
      BY <1>3, <2>2 DEF DrawableVendor
    <3>2. CallOK("query", call[t])
      BY <1>0, <1>3 DEF CallOK, Doing
    <3> QED
      BY <1>0, <1>3, <3>1, <3>2, GoesOn DEF Label, HasGoneOn
  <2>3. CASE v # None
    <3>1. Forward(t, v)
      BY <1>3, <2>3 DEF DrawableVendor
    <3>2. v = info[call[t].info].xids[call[t].xid]
      OBVIOUS
    <3> HIDE DEF v
    <3>3. HasVendor(t, IF call[t].op = "destroy" THEN "unmap" ELSE "vendor", v)
      BY <1>0, <1>3, <2>1, <3>1, ForwardMoves
    <3> QED
      BY <1>0, <1>3, <2>1, <2>3, <3>2, <3>3
  <2> QED
    BY <2>2, <2>3
<1> QED
  BY <1>1, <1>2, <1>3, <1>4 DEF DrawableVendor, SendError

LEMMA DrawableScreen ==
  ASSUME DataOK, NEW d \in Display, NEW x \in Xid, Exists(d, x)
  PROVE  drawable[<<d, x>>].screen \in Screen /\ drawable[<<d, x>>].own \in BOOLEAN
BY DEF DataOK, Exists, Drawable

LEMMA QueryScreenMoves ==
  ASSUME CallsOK, DataOK, NEW t \in Thread, QueryScreen(t)
  PROVE  /\ pc[t] = "query" /\ WithXid(call[t]) /\ failures' \in 0..MaxFailures
         /\ \/ LooksUpAgain(t, "done")
            \/ /\ Exists(call[t].dpy, call[t].xid)
               /\ HasVendor(t, "remember", ScreenVendor(drawable[<<call[t].dpy, call[t].xid>>].screen))
<1>0. pc[t] = "query" /\ WithXid(call[t])
  BY WithXidCalls DEF QueryScreen
<1>1. failures' \in 0..MaxFailures
  BY ConstantsAssumption DEF QueryScreen, Fail, DataOK
<1>2. CASE Lookup(t, "done", call[t])
  BY <1>0, <1>1, <1>2, SendErrorMoves
<1> DEFINE v == ScreenVendor(drawable[<<call[t].dpy, call[t].xid>>].screen)
<1>3. CASE Exists(call[t].dpy, call[t].xid) /\ Goto(t, "remember", [call[t] EXCEPT !.vendor = v])
  <2>1. v \in Vendor \cup {None}
    BY <1>0, <1>3, DrawableScreen, ConstantsAssumption DEF ScreenVendor, WithXid
  <2> HIDE DEF v
  <2>2. HasVendor(t, "remember", v)
    BY <1>0, <1>3, <2>1, GetsVendor DEF HasVendor, Label
  <2> QED
    BY <1>0, <1>1, <1>3, <2>2 DEF v
<1> QED
  BY <1>2, <1>3 DEF QueryScreen, SendError

LEMMA RememberVendorMoves ==
  ASSUME CallsOK, NEW t \in Thread, RememberVendor(t)
  PROVE  /\ pc[t] = "remember" /\ WithXid(call[t]) /\ call[t].info \in Id
         /\ HasVendor(t, IF call[t].op = "destroy" THEN "unmap" ELSE "vendor", call[t].vendor)
         /\ \E ok \in BOOLEAN : AddXid(call[t].info, call[t].xid, call[t].vendor, ok)
<1>0. pc[t] = "remember" /\ WithXid(call[t]) /\ call[t].info \in Id
  BY WithXidCalls DEF RememberVendor
<1> DEFINE v == call[t].vendor
<1>1. v \in Vendor \cup {None} /\ Forward(t, v)
  BY <1>0 DEF RememberVendor, WithXid
<1> HIDE DEF v
<1>2. HasVendor(t, IF call[t].op = "destroy" THEN "unmap" ELSE "vendor", v)
  BY <1>0, <1>1, ForwardMoves
<1> QED
  BY <1>0, <1>2 DEF v, RememberVendor

LEMMA UnmapDrawableMoves ==
  ASSUME CallsOK, NEW t \in Thread, UnmapDrawable(t)
  PROVE  /\ pc[t] = "unmap" /\ WithXid(call[t]) /\ call[t].info \in Id /\ call[t].op = "destroy"
         /\ HasGoneOn(t, "vendor")
<1>0. pc[t] = "unmap" /\ WithXid(call[t]) /\ call[t].info \in Id /\ call[t].op = "destroy"
  BY WithXidCalls DEF UnmapDrawable
<1>1. CallOK("unmap", call[t])
  BY <1>0 DEF CallsOK
<1>2. CallOK("vendor", call[t]) /\ Goto(t, "vendor", call[t]) /\ "vendor" \in Label
  BY <1>0, <1>1 DEF CallOK, Doing, UnmapDrawable, Label
<1> QED
  BY <1>0, <1>2, GoesOn DEF HasGoneOn

LEMMA CallVendorMoves ==
  ASSUME CallsOK, NEW t \in Thread, CallVendor(t)
  PROVE  pc[t] = "vendor" /\ WithXid(call[t]) /\ HasReturned(t)
BY WithXidCalls, Returns DEF CallVendor, HasReturned

LEMMA LockStringsMoves ==
  ASSUME CallsOK, NEW t \in Thread, LockStrings(t)
  PROVE  /\ pc[t] = "strings" /\ call[t].mine = None
         /\ \/ HasReturned(t) /\ UNCHANGED stringLock
            \/ /\ call[t].info \in Id /\ stringLock = None /\ stringLock' = t
               /\ HasGoneOn(t, IF info[call[t].info].merged > 0 THEN "unlock" ELSE "merge")
<1>0. call[t] \in CallType /\ CallOK("strings", call[t]) /\ pc[t] = "strings"
  BY DEF CallsOK, ThreadOK, LockStrings
<1>1. call[t].mine = None /\ call[t].info \in Id \cup {None}
  BY <1>0, CallFields DEF CallOK
<1>2. CASE Return(t) /\ UNCHANGED stringLock
  BY <1>0, <1>1, <1>2, Returns DEF HasReturned
<1>3. ASSUME call[t].info # None, stringLock = None, stringLock' = t,
             Goto(t, IF info[call[t].info].merged > 0 THEN "unlock" ELSE "merge", call[t])
      PROVE  HasGoneOn(t, IF info[call[t].info].merged > 0 THEN "unlock" ELSE "merge")
  <2> PICK l \in {"unlock", "merge"} :
        l = IF info[call[t].info].merged > 0 THEN "unlock" ELSE "merge"
    OBVIOUS
  <2>1. CallOK(l, call[t])
    BY <1>0, <1>3 DEF CallOK, Doing
  <2>2. l \in Label /\ Goto(t, l, call[t])
    BY <1>3 DEF Label
  <2> QED
    BY <2>1, <2>2, GoesOn DEF HasGoneOn
<1> QED
  BY <1>0, <1>1, <1>2, <1>3 DEF LockStrings

LEMMA MergeStringMoves ==
  ASSUME CallsOK, NEW t \in Thread, MergeString(t)
  PROVE  /\ pc[t] = "merge" /\ call[t].mine = None /\ call[t].info \in Id
         /\ \/ /\ info' = [info EXCEPT ![call[t].info].merged = info[call[t].info].merged + 1]
               /\ HasGoneOn(t, IF info[call[t].info].merged + 1 = Cardinality(ScreensOf(call[t].dpy))
                               THEN "unlock" ELSE "merge")
               /\ UNCHANGED failures
            \/ /\ info' = [info EXCEPT ![call[t].info].merged = 0]
               /\ HasGoneOn(t, "giveUp") /\ Fail
<1>0. call[t] \in CallType /\ CallOK("merge", call[t]) /\ pc[t] = "merge"
  BY DEF CallsOK, ThreadOK, MergeString
<1>1. call[t].mine = None /\ call[t].info \in Id
  BY <1>0, CallFields DEF CallOK, Doing
<1>2. ASSUME NEW l \in {"unlock", "giveUp", "merge"}, Goto(t, l, call[t])
      PROVE  HasGoneOn(t, l)
  <2>1. CallOK(l, call[t]) /\ l \in Label
    BY <1>0 DEF CallOK, Doing, Label
  <2> QED
    BY <1>2, <2>1, GoesOn DEF HasGoneOn
<1>3. PICK l \in {"unlock", "giveUp", "merge"} :
        l = IF info[call[t].info].merged + 1 = Cardinality(ScreensOf(call[t].dpy))
            THEN "unlock" ELSE "merge"
  OBVIOUS
<1>4. CASE /\ info' = [info EXCEPT ![call[t].info].merged = info[call[t].info].merged + 1]
           /\ Goto(t, l, call[t]) /\ UNCHANGED failures
  BY <1>0, <1>1, <1>2, <1>3, <1>4
<1>5. CASE /\ info' = [info EXCEPT ![call[t].info].merged = 0]
           /\ Goto(t, "giveUp", call[t]) /\ Fail
  BY <1>0, <1>1, <1>2, <1>5
<1> QED
  BY <1>3, <1>4, <1>5 DEF MergeString

LEMMA UnlockStringsMoves ==
  ASSUME CallsOK, NEW t \in Thread, UnlockStrings(t)
  PROVE  /\ call[t].mine = None /\ call[t].info \in Id
         /\ \/ pc[t] = "unlock" /\ HasGoneOn(t, "answer")
            \/ pc[t] = "giveUp" /\ HasGoneOn(t, "reread")
<1>0. call[t] \in CallType /\ CallOK(pc[t], call[t]) /\ pc[t] \in {"unlock", "giveUp"}
  BY DEF CallsOK, ThreadOK, UnlockStrings
<1>1. call[t].mine = None /\ call[t].info \in Id
  BY <1>0, CallFields DEF CallOK, Doing
<1>2. CASE pc[t] = "unlock" /\ Goto(t, "answer", call[t])
  <2>1. CallOK("answer", call[t]) /\ "answer" \in Label
    BY <1>0, <1>2 DEF CallOK, Doing, Label
  <2> QED
    BY <1>1, <1>2, <2>1, GoesOn DEF HasGoneOn
<1>3. CASE pc[t] = "giveUp" /\ Goto(t, "reread", call[t])
  <2>1. CallOK("reread", call[t]) /\ "reread" \in Label
    BY <1>0, <1>3 DEF CallOK, Doing, Label
  <2> QED
    BY <1>1, <1>3, <2>1, GoesOn DEF HasGoneOn
<1> QED
  BY <1>2, <1>3 DEF UnlockStrings

LEMMA ReturnStringMoves ==
  ASSUME CallsOK, NEW t \in Thread, ReturnString(t)
  PROVE  pc[t] \in {"answer", "reread"} /\ HasReturned(t)
BY Returns DEF ReturnString, HasReturned

LEMMA BuildInfoMoves ==
  ASSUME CallsOK, NEW t \in Thread, BuildInfo(t), \E i \in Id : info[i] = None
  PROVE  /\ pc[t] = "build" /\ call[t].dpy \in Display /\ call[t].op # "closed"
         /\ \/ HasFound(t, None) /\ Fail /\ UNCHANGED info
            \/ \E i \in Id :
                 /\ info[i] = None /\ info' = [info EXCEPT ![i] = NewInfo(call[t].dpy)]
                 /\ UNCHANGED failures
                 /\ Moved(t) /\ pc'[t] = "install" /\ Same(call[t], call'[t]) /\ call'[t].mine = i
                 /\ call'[t].vendor = call[t].vendor /\ call'[t].info = call[t].info
                 /\ call'[t].next = call[t].next
<1> DEFINE c == call[t]
<1>0. c \in CallType /\ CallOK("build", c) /\ pc[t] = "build"
  BY DEF CallsOK, ThreadOK, BuildInfo
<1>a. c.dpy \in Display /\ c.op # "closed"
  BY <1>0, CallFields DEF CallOK, Doing
<1>1. CASE Fail /\ Found(t, None) /\ UNCHANGED info
  BY <1>0, <1>1, <1>a, FoundMoves
<1> DEFINE i == CHOOSE j \in Id : info[j] = None
<1>2. CASE /\ info' = [info EXCEPT ![i] = NewInfo(c.dpy)] /\ UNCHANGED failures
           /\ Goto(t, "install", [c EXCEPT !.mine = i])
  <2>1. i \in Id /\ info[i] = None
    OBVIOUS
  <2>a. Goto(t, "install", [c EXCEPT !.mine = i])
    BY <1>2
  <2> HIDE DEF c, i
  <2>p. PICK e : e = [c EXCEPT !.mine = i]
    OBVIOUS
  <2>2. /\ e \in CallType /\ Same(c, e) /\ e.vendor = c.vendor /\ e.info = c.info
        /\ e.next = c.next /\ e.todo = c.todo /\ e.mine = i /\ i # None
    BY <1>0, <2>1, <2>p, ConstantsAssumption DEF CallType, Same
  <2>3. CallOK("install", e)
    BY <1>0, <2>2 DEF CallOK, Doing, Same
  <2>4. Goto(t, "install", e) /\ "install" \in Label
    BY <2>a, <2>p DEF Label
  <2>5. Moved(t) /\ pc'[t] = "install" /\ call'[t] = e
    BY <2>2, <2>3, <2>4, Moves
  <2>6. /\ Same(c, call'[t]) /\ call'[t].mine = i /\ call'[t].vendor = c.vendor
        /\ call'[t].info = c.info /\ call'[t].next = c.next
    BY <2>2, <2>5
  <2> QED
    BY <1>0, <1>2, <1>a, <2>1, <2>5, <2>6 DEF c
<1> QED
  BY <1>1, <1>2 DEF BuildInfo

LEMMA InstallInfoMoves ==
  ASSUME CallsOK, DataOK, NEW t \in Thread, InstallInfo(t)
  PROVE  /\ pc[t] = "install" /\ call[t].dpy \in Display /\ call[t].mine \in Id
         /\ call[t].op # "closed"
         /\ \/ /\ table[call[t].dpy] = None
               /\ table' = [table EXCEPT ![call[t].dpy] = call[t].mine]
               /\ HasFound(t, call[t].mine) /\ UNCHANGED <<info, failures>>
            \/ /\ table[call[t].dpy] = None /\ Fail
               /\ info' = [info EXCEPT ![call[t].mine] = None]
               /\ HasFound(t, None) /\ UNCHANGED table
            \/ /\ table[call[t].dpy] # None
               /\ info' = [info EXCEPT ![call[t].mine] = None]
               /\ HasFound(t, table[call[t].dpy]) /\ UNCHANGED <<table, failures>>
<1>0. call[t] \in CallType /\ CallOK("install", call[t]) /\ pc[t] = "install"
  BY DEF CallsOK, ThreadOK, InstallInfo
<1>1. call[t].dpy \in Display /\ call[t].mine \in Id /\ call[t].op # "closed"
  BY <1>0, CallFields DEF CallOK, Doing
<1>2. {call[t].mine, None, table[call[t].dpy]} \subseteq Id \cup {None}
  BY <1>1 DEF DataOK
<1>3. \A i \in {call[t].mine, None, table[call[t].dpy]} : Found(t, i) => HasFound(t, i)
  BY <1>0, <1>2, FoundMoves
<1> QED
  BY <1>0, <1>1, <1>3 DEF InstallInfo

LEMMA OnDisplayClosedMoves ==
  ASSUME CallsOK, NEW t \in Thread, OnDisplayClosed(t), table[call[t].dpy] \in Id
  PROVE  /\ pc[t] = "hooks" /\ call[t].op = "close" /\ call[t].dpy \in Display
         /\ info' = [info EXCEPT ![table[call[t].dpy]].closing = TRUE]
         /\ Moved(t) /\ pc'[t] = "closing" /\ call'[t].op = "closed" /\ call'[t].dpy = call[t].dpy
         /\ call'[t].mine = table[call[t].dpy] /\ call'[t].info = None /\ call'[t].xid = call[t].xid
<1> DEFINE c == call[t]
           i == table[call[t].dpy]
<1>0. c \in CallType /\ CallOK("hooks", c) /\ pc[t] = "hooks" /\ c.op = "close" /\ i \in Id
  BY DEF CallsOK, ThreadOK, OnDisplayClosed
<1>a. Goto(t, "closing", [c EXCEPT !.mine = i, !.info = None, !.op = "closed"])
  BY DEF OnDisplayClosed
<1> HIDE DEF c, i
<1>p. PICK e : e = [c EXCEPT !.mine = i, !.info = None, !.op = "closed"]
  OBVIOUS
<1>1. /\ e \in CallType /\ e.dpy = c.dpy /\ e.xid = c.xid /\ e.screen = c.screen /\ e.mine = i
      /\ e.info = None /\ e.op = "closed" /\ e.next = c.next /\ i # None /\ c.dpy \in Display
  BY <1>0, <1>p, CallFields, ConstantsAssumption DEF CallType, Op, CallOK
<1>2. CallOK("closing", e)
  BY <1>0, <1>1 DEF CallOK, Doing
<1>3. Goto(t, "closing", e) /\ "closing" \in Label
  BY <1>a, <1>p DEF Label
<1>4. Moved(t) /\ pc'[t] = "closing" /\ call'[t] = e
  BY <1>1, <1>2, <1>3, Moves
<1>5. /\ call'[t].op = "closed" /\ call'[t].dpy = c.dpy /\ call'[t].mine = i /\ call'[t].info = None
      /\ call'[t].xid = c.xid
  BY <1>1, <1>4
<1>6. info' = [info EXCEPT ![i].closing = TRUE]
  BY DEF OnDisplayClosed, i
<1> QED
  BY <1>0, <1>1, <1>4, <1>5, <1>6 DEF c, i

LEMMA ForgetDisplayMoves ==
  ASSUME CallsOK, NEW t \in Thread, ForgetDisplay(t)
  PROVE  /\ pc[t] = "closing" /\ call[t].op = "closed" /\ call[t].dpy \in Display /\ call[t].mine \in Id
         /\ Moved(t) /\ pc'[t] = "hooks" /\ Same(call[t], call'[t])
         /\ call'[t].mine = None /\ call'[t].info = None
<1> DEFINE c == call[t]
<1>0. c \in CallType /\ CallOK("closing", c) /\ pc[t] = "closing"
  BY DEF CallsOK, ThreadOK, ForgetDisplay
<1>a. Goto(t, "hooks", [c EXCEPT !.mine = None])
  BY DEF ForgetDisplay
<1> HIDE DEF c
<1>p. PICK e : e = [c EXCEPT !.mine = None]
  OBVIOUS
<1>1. /\ e \in CallType /\ Same(c, e) /\ e.mine = None /\ e.info = c.info /\ e.next = c.next
  BY <1>0, <1>p DEF CallType, Same
<1>2. c.op = "closed" /\ c.dpy \in Display /\ c.mine \in Id /\ c.info = None
  BY <1>0, CallFields DEF CallOK, Doing
<1>3. CallOK("hooks", e)
  BY <1>0, <1>1, <1>2 DEF CallOK, Doing, Same
<1>4. Goto(t, "hooks", e) /\ "hooks" \in Label
  BY <1>a, <1>p DEF Label
<1>5. Moved(t) /\ pc'[t] = "hooks" /\ call'[t] = e
  BY <1>1, <1>3, <1>4, Moves
<1>6. Same(c, call'[t]) /\ call'[t].mine = None /\ call'[t].info = None
  BY <1>1, <1>2, <1>5
<1> QED
  BY <1>0, <1>2, <1>5, <1>6 DEF c

LEMMA DisplayGoneMoves ==
  ASSUME CallsOK, NEW t \in Thread, DisplayGone(t)
  PROVE  /\ pc[t] = "hooks" /\ call[t].op = "closed" /\ call[t].dpy \in Display /\ HasReturned(t)
<1>0. call[t] \in CallType /\ CallOK("hooks", call[t]) /\ pc[t] = "hooks" /\ call[t].op = "closed"
  BY DEF CallsOK, ThreadOK, DisplayGone
<1>1. call[t].dpy \in Display
  BY <1>0, CallFields DEF CallOK, Doing
<1> QED
  BY <1>0, <1>1, Returns DEF DisplayGone, HasReturned

-----------------------------------------------------------------------------
(* The structures of displays.                                             *)

LEMMA InvParts ==
  ASSUME DisplayInv
  PROVE  CallsOK /\ DataOK
BY TypeParts DEF DisplayInv, StructuresOK, CallsOK

LEMMA Informed ==
  ASSUME DisplayInv, NEW t \in Thread, call[t].info # None
  PROVE  /\ call[t].info \in Id /\ call[t].dpy \in Display /\ table[call[t].dpy] = call[t].info
         /\ info[call[t].info] \in Info /\ info[call[t].info].dpy = call[t].dpy
<1>1. call[t] \in CallType /\ CallOK(pc[t], call[t])
  BY InvParts DEF CallsOK, ThreadOK
<1>2. call[t].info \in Id /\ call[t].dpy \in Display
  BY <1>1, CallFields, NoCallTyped DEF CallOK
<1> QED
  BY <1>2, InvParts DEF DisplayInv, OneInfo, DataOK

LEMMA Listed ==
  ASSUME DisplayInv, NEW d \in Display, table[d] # None
  PROVE  table[d] \in Id /\ info[table[d]] \in Info /\ info[table[d]].dpy = d /\ d \in open
BY InvParts DEF DisplayInv, NoStaleDisplay, StructuresOK, DataOK

\* The mapping of x in the structure i becomes v, and nothing else changes.
XidSet(i, x, v) ==
  /\ info' \in [Id -> Info \cup {None}]
  /\ \A j \in Id \ {i} : info'[j] = info[j]
  /\ info'[i] \in Info /\ info'[i].dpy = info[i].dpy /\ info'[i].merged = info[i].merged
  /\ info'[i].xids[x] = v
  /\ \A y \in Xid \ {x} : info'[i].xids[y] = info[i].xids[y]

LEMMA SetXid ==
  ASSUME DataOK, NEW i \in Id, info[i] \in Info, NEW x \in Xid, NEW v \in Vendor \cup {None},
         info' = [info EXCEPT ![i].xids[x] = v]
  PROVE  XidSet(i, x, v)
<1>1. PICK r : r = [info[i] EXCEPT !.xids[x] = v]
  OBVIOUS
<1>2. r \in Info /\ r.dpy = info[i].dpy /\ r.merged = info[i].merged
  BY <1>1 DEF Info
<1>3. r.xids = [info[i].xids EXCEPT ![x] = v] /\ info[i].xids \in [Xid -> Vendor \cup {None}]
  BY <1>1 DEF Info
<1>4. info' = [info EXCEPT ![i] = r]
  BY <1>1
<1>5. info \in [Id -> Info \cup {None}]
  BY DEF DataOK
<1> HIDE <1>1
<1>6. info' \in [Id -> Info \cup {None}] /\ info'[i] = r /\ \A j \in Id \ {i} : info'[j] = info[j]
  BY <1>2, <1>4, <1>5
<1> QED
  BY <1>2, <1>3, <1>6 DEF XidSet

\* What comes of the attempt to record the vendor of a drawable.
XidAdded(i, x, v, ok) ==
  \/ ok /\ info[i].xids[x] = None /\ XidSet(i, x, v)
  \/ ~ok /\ info[i].xids[x] = None /\ UNCHANGED info
  \/ info[i].xids[x] # None /\ ok = (info[i].xids[x] = v) /\ UNCHANGED info

LEMMA AddsXid ==
  ASSUME DataOK, NEW i \in Id, info[i] \in Info, NEW x \in Xid, NEW v \in Vendor \cup {None},
         NEW ok \in BOOLEAN, AddXid(i, x, v, ok)
  PROVE  XidAdded(i, x, v, ok) /\ failures' \in 0..MaxFailures
<1>1. failures' \in 0..MaxFailures
  BY ConstantsAssumption DEF AddXid, Fail, DataOK
<1> QED
  BY <1>1, SetXid DEF AddXid, XidAdded

\* A step that makes no structure and frees none, and whose thread has none of its own.
InfoKept ==
  \A i \in Id : \/ info'[i] = info[i]
                \/ /\ info[i] # None /\ info'[i] # None /\ info'[i].dpy = info[i].dpy
                   /\ \E d \in Display : table[d] = i

Keeps(t) ==
  /\ DataOK' /\ Moved(t)
  /\ UNCHANGED <<table, open>> /\ InfoKept
  /\ {pc[t], pc'[t]} \cap {"install", "closing"} = {}
  /\ call'[t].info \in {None, table[call'[t].dpy]}
  /\ call'[t].dpy # None => call'[t].dpy \in open
  /\ call'[t].op \in {"close", "closed"} => call'[t].op = call[t].op /\ call'[t].dpy = call[t].dpy
  /\ call'[t].dpy # None => call'[t].dpy = call[t].dpy \/ ~Closing(call'[t].dpy)

\* What the invariant says of threads one by one.
Alone(t) ==
  LET c == call[t] IN
  /\ c.info # None => table[c.dpy] = c.info /\ info[c.info] # None /\ info[c.info].dpy = c.dpy
  /\ c.dpy # None => c.dpy \in open
  /\ pc[t] = "install" => info[c.mine] = NewInfo(c.dpy) /\ \A d \in Display : table[d] # c.mine
  /\ pc[t] = "closing" => table[c.dpy] = c.mine
  /\ c.op = "close" => table[c.dpy] # None
  /\ c.op = "closed" /\ pc[t] = "hooks" => table[c.dpy] = None

Apart(t, u) ==
  /\ ~(pc[t] = "install" /\ pc[u] = "install" /\ call[t].mine = call[u].mine)
  /\ ~(call[t].op \in {"close", "closed"} /\ call[u].dpy = call[t].dpy)

TableOK ==
  \A d \in Display : table[d] # None => d \in open /\ info[table[d]] # None /\ info[table[d]].dpy = d

LEMMA InvSplit ==
  DisplayInv <=> /\ DataOK /\ CallsOK /\ NoLeak /\ TableOK
                 /\ \A t \in Thread : Alone(t)
                 /\ \A t, u \in Thread : t # u => Apart(t, u)
BY TypeParts DEF DisplayInv, OneInfo, NoStaleDisplay, StructuresOK, CallsOK, TableOK, Alone, Apart

\* What CallOK says of the threads that make or free a structure, or close a display.
CallerOK(l, c) ==
  /\ c.dpy \in Display \cup {None} /\ c.info \in Id \cup {None} /\ c.mine \in Id \cup {None}
  /\ (l \in {"install", "closing"}) = (c.mine # None)
  /\ c.dpy = None => l = "idle" /\ c.info = None /\ c.op = None
  /\ l \in {"install", "closing"} => c.mine \in Id /\ c.dpy \in Display
  /\ l = "closing" => c.op = "closed"
  /\ c.op = "closed" => c.info = None /\ l \in {"closing", "hooks"}
  /\ c.op = "close" => l \in {"find", "build", "install", "hooks"}

LEMMA CallerFits ==
  ASSUME NEW l, NEW c \in CallType, CallOK(l, c)
  PROVE  CallerOK(l, c)
BY CallFields, NoCallTyped, ConstantsAssumption DEF CallerOK, CallOK, Doing

LEMMA Callers ==
  ASSUME CallsOK
  PROVE  \A t \in Thread : CallerOK(pc[t], call[t])
BY CallerFits DEF CallsOK, ThreadOK

LEMMA MovedCallers ==
  ASSUME CallsOK'
  PROVE  \A t \in Thread : CallerOK(pc'[t], call'[t])
<1>1. ASSUME NEW t \in Thread
      PROVE  CallOK(pc'[t], call'[t]) /\ call'[t] \in CallType
  BY DEF CallsOK, ThreadOK
<1> QED
  BY <1>1, CallerFits

LEMMA InvJoin ==
  ASSUME DataOK', CallsOK', NoLeak', TableOK',
         \A u \in Thread : Alone(u)',
         \A u, v \in Thread : u # v => Apart(u, v)'
  PROVE  DisplayInv'
BY DEF DisplayInv, OneInfo, NoStaleDisplay, StructuresOK, TypeOK, DataOK,
   CallsOK, ThreadOK, NoLeak, TableOK, Alone, Apart

LEMMA KeepsInv ==
  ASSUME DisplayInv, NEW t \in Thread, Keeps(t)
  PROVE  DisplayInv'
<1>1. DataOK' /\ CallsOK' /\ DataOK
  BY InvParts DEF Keeps, Moved
<1> USE DEF CallerOK
<1>2. \A u \in Thread : CallerOK(pc[u], call[u]) /\ CallerOK(pc'[u], call'[u])
  BY <1>1, InvParts, Callers, MovedCallers
<1>3. \A u \in Thread \ {t} : pc'[u] = pc[u] /\ call'[u] = call[u]
  BY DEF Keeps, Moved
<1>4. TableOK'
  BY InvSplit DEF Keeps, InfoKept, TableOK, DataOK
<1>5. NoLeak'
  <2> SUFFICES ASSUME NEW i \in Id, info'[i] # None
               PROVE  (\E d \in Display : table'[d] = i) \/ \E u \in Thread : call'[u].mine = i
    BY DEF NoLeak
  <2>1. (\E d \in Display : table[d] = i) \/ \E u \in Thread : call[u].mine = i
    BY InvSplit DEF Keeps, InfoKept, NoLeak
  <2>2. i # None /\ call[t].mine = None
    BY <1>2, ConstantsAssumption DEF Keeps
  <2> QED
    BY <1>3, <2>1, <2>2 DEF Keeps
<1>6. ASSUME NEW u \in Thread
      PROVE  Alone(u)'
  <2>1. Alone(u) /\ TableOK
    BY InvSplit
  <2>2. CASE u # t
    <3>1. pc'[u] = pc[u] /\ call'[u] = call[u]
      BY <1>3, <2>2
    <3>2. pc[u] = "install" => info'[call[u].mine] = info[call[u].mine]
      BY <1>2, <2>1 DEF Keeps, InfoKept, Alone
    <3>3. call[u].info # None =>
            info'[call[u].info] # None /\ info'[call[u].info].dpy = info[call[u].info].dpy
      BY <1>2, <2>1 DEF Keeps, InfoKept, Alone
    <3> QED
      BY <2>1, <3>1, <3>2, <3>3 DEF Keeps, Alone
  <2>3. CASE u = t
    <3>1. call'[t].info # None => call'[t].dpy \in Display /\ table'[call'[t].dpy] = call'[t].info
      BY <1>2 DEF Keeps
    <3>2. call'[t].op = "close" => table'[call'[t].dpy] # None
      BY <2>1, <2>3 DEF Keeps, Alone
    <3>3. call'[t].op = "closed" => pc[t] = "hooks" /\ table'[call'[t].dpy] = None
      BY <1>2, <2>1, <2>3 DEF Keeps, Alone
    <3> QED
      <4>1. call'[t].info # None =>
              /\ table'[call'[t].dpy] = call'[t].info /\ info'[call'[t].info] # None
              /\ info'[call'[t].info].dpy = call'[t].dpy
        BY <1>4, <3>1 DEF TableOK
      <4>2. /\ call'[t].dpy # None => call'[t].dpy \in open'
            /\ pc'[t] \notin {"install", "closing"}
        BY DEF Keeps
      <4> QED
        BY <2>3, <3>2, <3>3, <4>1, <4>2 DEF Alone
  <2> QED
    BY <2>2, <2>3
<1>7. ASSUME NEW u \in Thread, NEW v \in Thread, u # v
      PROVE  Apart(u, v)'
  <2>1. Apart(u, v) /\ Apart(v, u)
    BY <1>7, InvSplit
  <2>2. ~(pc'[u] = "install" /\ pc'[v] = "install" /\ call'[u].mine = call'[v].mine)
    BY <1>3, <1>7, <2>1 DEF Keeps, Apart
  <2>3. ASSUME call'[u].op \in {"close", "closed"}, call'[v].dpy = call'[u].dpy
        PROVE  FALSE
    <3>1. call'[u].dpy # None
      BY <1>2, <2>3, ConstantsAssumption DEF Op
    <3>2. CASE u = t
      <4>1. call[u].op \in {"close", "closed"} /\ call[v].dpy = call[u].dpy
        BY <1>3, <1>7, <2>3, <3>2 DEF Keeps
      <4> QED
        BY <2>1, <4>1 DEF Apart
    <3>3. CASE v = t
      <4>1. call[u].op \in {"close", "closed"} /\ call[u].dpy = call'[v].dpy
        BY <1>3, <1>7, <2>3, <3>3
      <4>2. call'[v].dpy = call[v].dpy
        BY <2>3, <3>1, <3>3, <4>1 DEF Keeps, Closing
      <4> QED
        BY <2>1, <4>1, <4>2 DEF Apart
    <3>4. CASE u # t /\ v # t
      BY <1>3, <2>1, <2>3, <3>4 DEF Apart
    <3> QED
      BY <3>2, <3>3, <3>4
  <2> QED
    BY <2>2, <2>3 DEF Apart
<1> QED
  BY <1>1, <1>4, <1>5, <1>6, <1>7, InvJoin

\* A function has at most as many values as its domain has elements.
LEMMA ImageSize ==
  ASSUME NEW S, IsFiniteSet(S), NEW f, f = [x \in S |-> f[x]]
  PROVE  IsFiniteSet({f[x] : x \in S}) /\ Cardinality({f[x] : x \in S}) <= Cardinality(S)
<1> DEFINE T == {f[x] : x \in S}
<1>1. \A y \in T : \E x \in S : f[x] = y
  OBVIOUS
<1>2. f \in [S -> T]
  OBVIOUS
<1>3. f \in Surjection(S, T)
  BY <1>1, <1>2 DEF Surjection
<1> HIDE DEF T
<1>4. IsFiniteSet(T) /\ Cardinality(T) <= Cardinality(S)
  BY <1>3, FS_Surjection
<1> QED
  BY <1>4 DEF T

\* There is room for one more structure: each is in the table or a thread's own, and the
\* thread that is to build one has none.
LEMMA RoomForInfo ==
  ASSUME DisplayInv, NEW t \in Thread, pc[t] = "build"
  PROVE  \E i \in Id : info[i] = None
<1> SUFFICES ASSUME \A i \in Id : info[i] # None
             PROVE  FALSE
  OBVIOUS
<1> DEFINE others == Thread \ {t}
           mine == [u \in others |-> call[u].mine]
           listed == {table[d] : d \in Display}
           own == {mine[u] : u \in others}
<1>1. call[t].mine = None
  BY InvParts, Callers DEF CallerOK
<1>2. Id \subseteq listed \cup own
  <2> SUFFICES ASSUME NEW i \in Id
               PROVE  i \in listed \cup own
    OBVIOUS
  <2>1. (\E d \in Display : table[d] = i) \/ \E u \in Thread : call[u].mine = i
    BY DEF DisplayInv, NoLeak
  <2>2. i # None
    BY ConstantsAssumption
  <2> QED
    BY <1>1, <2>1, <2>2
<1>3. IsFiniteSet(others) /\ Cardinality(others) = Cardinality(Thread) - 1
  BY FS_RemoveElement, ConstantsAssumption
<1>4. IsFiniteSet(listed) /\ Cardinality(listed) <= Cardinality(Display)
  BY InvParts, ImageSize, ConstantsAssumption DEF DataOK
<1> HIDE DEF others
<1>5. IsFiniteSet(own) /\ Cardinality(own) <= Cardinality(others)
  BY <1>3, ImageSize
<1> HIDE DEF listed, own
<1>6. IsFiniteSet(listed \cup own) /\ Cardinality(listed \cup own) <= Cardinality(listed) + Cardinality(own)
  <2>1. /\ IsFiniteSet(listed \cup own)
        /\ Cardinality(listed \cup own) = Cardinality(listed) + Cardinality(own) - Cardinality(listed \cap own)
    BY <1>4, <1>5, FS_Union
  <2>2. Cardinality(listed \cap own) \in Nat
    BY <1>4, FS_Intersection, FS_CardinalityType
  <2>3. Cardinality(listed) \in Nat /\ Cardinality(own) \in Nat
    BY <1>4, <1>5, FS_CardinalityType
  <2> QED
    BY <2>1, <2>2, <2>3
<1>7. Cardinality(Id) <= Cardinality(listed \cup own)
  BY <1>2, <1>6, FS_Subset
<1>8. Cardinality(Display) \in Nat /\ Cardinality(Thread) \in Nat
  BY ConstantsAssumption, FS_CardinalityType
<1>9. MaxInfos = Cardinality(Display) + Cardinality(Thread)
  BY ConstantsAssumption
<1>10. Cardinality(Id) = MaxInfos
  BY <1>8, <1>9, FS_Interval DEF Id
<1>11. Cardinality(listed) \in Nat /\ Cardinality(own) \in Nat /\ Cardinality(listed \cup own) \in Nat
  BY <1>4, <1>5, <1>6, FS_CardinalityType
<1> QED
  BY <1>3, <1>4, <1>5, <1>6, <1>7, <1>8, <1>9, <1>10, <1>11

LEMMA NewInfoTyped ==
  ASSUME NEW d \in Display
  PROVE  /\ NewInfo(d) \in Info /\ NewInfo(d) # None
         /\ NewInfo(d).dpy = d /\ NewInfo(d).merged = 0
         /\ \A x \in Xid : NewInfo(d).xids[x] = None
<1>3. NewInfo(d) \in Info
  BY DEF NewInfo, Info
<1>4. NewInfo(d) # None
  BY <1>3, ConstantsAssumption
<1> QED
  BY <1>3, <1>4 DEF NewInfo

\* A structure is made.
LEMMA BuildsInv ==
  ASSUME DisplayInv, NEW t \in Thread, pc[t] = "build", NEW i \in Id, info[i] = None,
         info' = [info EXCEPT ![i] = NewInfo(call[t].dpy)],
         Moved(t), pc'[t] = "install", Same(call[t], call'[t]), call'[t].mine = i,
         call'[t].info = call[t].info, UNCHANGED <<table, configs, stringLock, outsideVars, failures>>
  PROVE  DisplayInv'
<1> DEFINE d == call[t].dpy
<1> USE DEF CallerOK
<1>0. DataOK /\ CallsOK'
  BY InvParts DEF Moved
<1>1. \A u \in Thread : CallerOK(pc[u], call[u]) /\ CallerOK(pc'[u], call'[u])
  BY <1>0, InvParts, Callers, MovedCallers
<1>2. \A u \in Thread \ {t} : pc'[u] = pc[u] /\ call'[u] = call[u]
  BY DEF Moved
<1>3. d \in Display /\ call'[t].dpy = d /\ call'[t].op = call[t].op /\ call[t].op # "closed"
  BY <1>1, ConstantsAssumption DEF Same
<1>4. NewInfo(d) \in Info /\ NewInfo(d) # None /\ NewInfo(d).dpy = d /\ i # None
  BY <1>3, NewInfoTyped, ConstantsAssumption
<1>5. /\ info' \in [Id -> Info \cup {None}] /\ info'[i] = NewInfo(d)
      /\ \A j \in Id \ {i} : info'[j] = info[j]
  BY <1>0, <1>3, <1>4 DEF DataOK
<1>6. DataOK'
  BY <1>0, <1>5 DEF DataOK, outsideVars
<1>7. \A e \in Display : table[e] # i
  BY <1>4, InvSplit DEF TableOK
<1>8. TableOK'
  BY <1>0, <1>5, <1>7, InvSplit DEF TableOK, DataOK, outsideVars
<1>9. NoLeak'
  <2> SUFFICES ASSUME NEW j \in Id, info'[j] # None
               PROVE  (\E e \in Display : table'[e] = j) \/ \E u \in Thread : call'[u].mine = j
    BY DEF NoLeak
  <2>1. CASE j = i
    BY <2>1
  <2>2. CASE j # i
    <3>1. (\E e \in Display : table[e] = j) \/ \E u \in Thread : call[u].mine = j
      BY <1>5, <2>2, InvSplit DEF NoLeak
    <3>2. call[t].mine = None /\ j # None
      BY <1>1, ConstantsAssumption
    <3> QED
      BY <1>2, <3>1, <3>2
  <2> QED
    BY <2>1, <2>2
<1>10. ASSUME NEW u \in Thread
       PROVE  Alone(u)'
  <2>1. Alone(u)
    BY InvSplit
  <2>2. CASE u # t
    <3>1. call[u].info # None => call[u].info # i
      BY <2>1 DEF Alone
    <3>2. pc[u] = "install" => call[u].mine # i
      BY <1>1, <2>1, NewInfoTyped DEF Alone
    <3> QED
      BY <1>1, <1>2, <1>5, <2>1, <2>2, <3>1, <3>2 DEF Alone, outsideVars
  <2>3. CASE u = t
    <3>1. call[u].info # None => call[u].info # i
      BY <2>1 DEF Alone
    <3> QED
      BY <1>1, <1>3, <1>5, <1>7, <2>1, <2>3, <3>1 DEF Alone, outsideVars
  <2> QED
    BY <2>2, <2>3
<1>11. ASSUME NEW u \in Thread, NEW v \in Thread, u # v
       PROVE  Apart(u, v)'
  <2>1. Apart(u, v)
    BY <1>11, InvSplit
  <2>2. \A w \in Thread : pc[w] = "install" => call[w].mine # i
    <3> SUFFICES ASSUME NEW w \in Thread, pc[w] = "install"
                 PROVE  call[w].mine # i
      OBVIOUS
    <3>1. Alone(w) /\ call[w].dpy \in Display
      BY <1>1, InvSplit
    <3> QED
      BY <3>1, NewInfoTyped DEF Alone
  <2> QED
    BY <1>2, <1>3, <1>11, <2>1, <2>2 DEF Apart
<1> QED
  BY <1>0, <1>6, <1>8, <1>9, <1>10, <1>11, InvJoin

\* A structure gets into the table.
LEMMA InstallsInv ==
  ASSUME DisplayInv, NEW t \in Thread, pc[t] = "install", table[call[t].dpy] = None,
         table' = [table EXCEPT ![call[t].dpy] = call[t].mine], HasFound(t, call[t].mine),
         UNCHANGED <<info, configs, stringLock, outsideVars, failures>>
  PROVE  DisplayInv'
<1> DEFINE d == call[t].dpy
           i == call[t].mine
<1> USE DEF CallerOK
<1>0. DataOK /\ CallsOK'
  BY InvParts DEF HasFound, Moved
<1>1. \A u \in Thread : CallerOK(pc[u], call[u]) /\ CallerOK(pc'[u], call'[u])
  BY <1>0, InvParts, Callers, MovedCallers
<1>2. \A u \in Thread \ {t} : pc'[u] = pc[u] /\ call'[u] = call[u]
  BY DEF HasFound, Moved
<1>3. /\ d \in Display /\ i \in Id /\ i # None /\ call'[t].dpy = d /\ call'[t].op = call[t].op
      /\ call[t].op # "closed" /\ call'[t].info = i
      /\ pc'[t] \in {"done", "screen", "map", "drawable", "strings", "hooks"}
  BY <1>1, ConstantsAssumption DEF HasFound, Same, Nexts
<1>4. info[i] = NewInfo(d) /\ info[i] # None /\ info[i].dpy = d
  BY <1>3, NewInfoTyped, InvSplit DEF Alone
<1>5. table'[d] = i /\ \A e \in Display \ {d} : table'[e] = table[e]
  BY <1>0, <1>3 DEF DataOK
<1>6. DataOK'
  BY <1>0, <1>3 DEF DataOK, outsideVars
<1>7. TableOK'
  <2>1. d \in open
    BY <1>1, <1>3, InvSplit, ConstantsAssumption DEF Alone
  <2> QED
    BY <1>4, <1>5, <2>1, InvSplit DEF TableOK, outsideVars
<1>8. NoLeak'
  <2> SUFFICES ASSUME NEW j \in Id, info[j] # None
               PROVE  (\E e \in Display : table'[e] = j) \/ \E u \in Thread : call'[u].mine = j
    BY DEF NoLeak
  <2>1. (\E e \in Display : table[e] = j) \/ \E u \in Thread : call[u].mine = j
    BY InvSplit DEF NoLeak
  <2>2. j # None
    BY ConstantsAssumption
  <2>3. CASE \E e \in Display : table[e] = j
    BY <1>5, <2>2, <2>3
  <2>4. CASE \E u \in Thread : call[u].mine = j
    BY <1>2, <1>3, <1>5, <2>4
  <2> QED
    BY <2>1, <2>3, <2>4
<1>9. ASSUME NEW u \in Thread
      PROVE  Alone(u)'
  <2>1. Alone(u) /\ (u # t => Apart(t, u) /\ Apart(u, t))
    BY InvSplit
  <2>2. CASE u # t
    <3>1. pc'[u] = pc[u] /\ call'[u] = call[u]
      BY <1>2, <2>2
    <3>2. call[u].info # None => call[u].dpy # d /\ call[u].dpy \in Display
      BY <1>1, <2>1 DEF Alone
    <3>3. pc[u] = "install" => call[u].mine # i
      BY <2>1, <2>2 DEF Apart
    <3>4. pc[u] = "closing" => call[u].dpy # d /\ call[u].dpy \in Display
      BY <1>1, <2>1 DEF Alone
    <3>5. call[u].op = "close" => call[u].dpy \in Display
      BY <1>1, ConstantsAssumption DEF Op
    <3>6. call[u].op = "closed" => call[u].dpy \in Display /\ call[u].dpy # d
      BY <1>1, <1>3, <2>1, <2>2, ConstantsAssumption DEF Apart, Op
    <3>7. call[u].op = "close" => table'[call[u].dpy] # None
      BY <1>3, <1>5, <2>1, <3>5 DEF Alone
    <3> QED
      BY <1>1, <1>5, <2>1, <3>1, <3>2, <3>3, <3>4, <3>6, <3>7 DEF Alone, outsideVars
  <2>3. CASE u = t
    BY <1>1, <1>3, <1>4, <1>5, <2>1, <2>3 DEF Alone, outsideVars
  <2> QED
    BY <2>2, <2>3
<1>10. ASSUME NEW u \in Thread, NEW v \in Thread, u # v
       PROVE  Apart(u, v)'
  <2>1. Apart(u, v)
    BY <1>10, InvSplit
  <2> QED
    BY <1>2, <1>3, <1>10, <2>1 DEF Apart
<1> QED
  BY <1>0, <1>6, <1>7, <1>8, <1>9, <1>10, InvJoin

\* A structure is thrown away: there is one, or it could not be put in the table.
LEMMA DropsInv ==
  ASSUME DisplayInv, NEW t \in Thread, pc[t] = "install",
         info' = [info EXCEPT ![call[t].mine] = None],
         NEW j \in {None, table[call[t].dpy]}, HasFound(t, j), failures' \in 0..MaxFailures,
         UNCHANGED <<table, configs, stringLock, outsideVars>>
  PROVE  DisplayInv'
<1> DEFINE d == call[t].dpy
           i == call[t].mine
<1> USE DEF CallerOK
<1>0. DataOK /\ CallsOK'
  BY InvParts DEF HasFound, Moved
<1>1. \A u \in Thread : CallerOK(pc[u], call[u]) /\ CallerOK(pc'[u], call'[u])
  BY <1>0, InvParts, Callers, MovedCallers
<1>2. \A u \in Thread \ {t} : pc'[u] = pc[u] /\ call'[u] = call[u]
  BY DEF HasFound, Moved
<1>3. /\ d \in Display /\ i \in Id /\ i # None /\ call'[t].dpy = d /\ call'[t].op = call[t].op
      /\ call[t].op # "closed" /\ call'[t].info = j
      /\ pc'[t] \in {"done", "screen", "map", "drawable", "strings", "hooks"}
  BY <1>1, ConstantsAssumption DEF HasFound, Same, Nexts
<1>4. \A e \in Display : table[e] # i
  BY InvSplit DEF Alone
<1>5. info'[i] = None /\ \A k \in Id \ {i} : info'[k] = info[k]
  BY <1>0, <1>3 DEF DataOK
<1>6. DataOK'
  BY <1>0, <1>3 DEF DataOK, outsideVars
<1>7. TableOK'
  BY <1>0, <1>4, <1>5, InvSplit DEF TableOK, outsideVars, DataOK
<1>8. NoLeak'
  <2> SUFFICES ASSUME NEW k \in Id, info'[k] # None
               PROVE  (\E e \in Display : table'[e] = k) \/ \E u \in Thread : call'[u].mine = k
    BY DEF NoLeak
  <2>1. k # i /\ ((\E e \in Display : table[e] = k) \/ \E u \in Thread : call[u].mine = k)
    BY <1>5, InvSplit DEF NoLeak
  <2> QED
    BY <1>2, <2>1
<1>9. ASSUME NEW u \in Thread
      PROVE  Alone(u)'
  <2>1. Alone(u) /\ (u # t => Apart(t, u) /\ Apart(u, t))
    BY InvSplit
  <2>2. CASE u # t
    <3>1. pc'[u] = pc[u] /\ call'[u] = call[u]
      BY <1>2, <2>2
    <3>2. call[u].info # None => call[u].info \in Id \ {i}
      BY <1>1, <1>4, <2>1 DEF Alone
    <3>3. pc[u] = "install" => call[u].mine \in Id \ {i}
      BY <1>1, <2>1, <2>2 DEF Apart
    <3> QED
      BY <1>5, <2>1, <3>1, <3>2, <3>3 DEF Alone, outsideVars
  <2>3. CASE u = t
    <3>1. j # None => /\ table[d] = j /\ info'[j] # None /\ info'[j].dpy = d
      BY <1>3, <1>7 DEF TableOK
    <3> QED
      BY <1>1, <1>3, <2>1, <2>3, <3>1 DEF Alone, outsideVars
  <2> QED
    BY <2>2, <2>3
<1>10. ASSUME NEW u \in Thread, NEW v \in Thread, u # v
       PROVE  Apart(u, v)'
  <2>1. Apart(u, v)
    BY <1>10, InvSplit
  <2> QED
    BY <1>2, <1>3, <1>10, <2>1 DEF Apart
<1> QED
  BY <1>0, <1>6, <1>7, <1>8, <1>9, <1>10, InvJoin

\* Whoever closes a display is alone with it.
LEMMA ClosesAlone ==
  ASSUME DisplayInv, NEW t \in Thread, call[t].op \in {"close", "closed"}
  PROVE  /\ call[t].dpy \in Display
         /\ \A u \in Thread \ {t} : call[u].dpy # call[t].dpy
<1>1. call[t].dpy \in Display
  BY InvParts, Callers, ConstantsAssumption DEF CallerOK, Op
<1> QED
  BY <1>1, InvSplit DEF Apart

LEMMA OnDisplayClosedInv ==
  ASSUME DisplayInv, NEW t \in Thread, OnDisplayClosed(t)
  PROVE  DisplayInv'
<1> DEFINE d == call[t].dpy
           i == table[d]
<1> USE DEF CallerOK
<1>a. call[t].op = "close"
  BY DEF OnDisplayClosed
<1>b. d \in Display /\ \A u \in Thread \ {t} : call[u].dpy # d
  BY <1>a, ClosesAlone
<1>c. i \in Id /\ i # None /\ info[i] \in Info /\ info[i].dpy = d /\ d \in open
  BY <1>a, <1>b, InvSplit, Listed DEF Alone
<1>d. /\ pc[t] = "hooks" /\ info' = [info EXCEPT ![i].closing = TRUE]
      /\ Moved(t) /\ pc'[t] = "closing" /\ call'[t].op = "closed" /\ call'[t].dpy = d
      /\ call'[t].mine = i /\ call'[t].info = None
  BY <1>c, InvParts, OnDisplayClosedMoves
<1>e. UNCHANGED <<table, configs, stringLock, outsideVars, failures>>
  BY DEF OnDisplayClosed
<1>0. DataOK /\ CallsOK'
  BY <1>d, InvParts DEF Moved
<1>1. \A u \in Thread : CallerOK(pc[u], call[u]) /\ CallerOK(pc'[u], call'[u])
  BY <1>0, InvParts, Callers, MovedCallers
<1>2. \A u \in Thread \ {t} : pc'[u] = pc[u] /\ call'[u] = call[u]
  BY <1>d DEF Moved
<1>3. /\ info' \in [Id -> Info \cup {None}] /\ info'[i] \in Info /\ info'[i].dpy = d
      /\ \A j \in Id \ {i} : info'[j] = info[j]
  <2>1. PICK r : r = [info[i] EXCEPT !.closing = TRUE]
    OBVIOUS
  <2>2. r \in Info /\ r.dpy = d
    BY <1>c, <2>1 DEF Info
  <2>3. info' = [info EXCEPT ![i] = r]
    BY <1>d, <2>1
  <2> QED
    BY <1>0, <1>c, <2>2, <2>3 DEF DataOK
<1>4. info'[i] # None
  BY <1>3, ConstantsAssumption
<1>6. DataOK'
  BY <1>0, <1>3, <1>e DEF DataOK, outsideVars
<1>7. TableOK'
  BY <1>0, <1>3, <1>4, <1>c, <1>e, InvSplit DEF TableOK, outsideVars, DataOK
<1>8. NoLeak'
  <2> SUFFICES ASSUME NEW j \in Id, info'[j] # None
               PROVE  (\E e \in Display : table'[e] = j) \/ \E u \in Thread : call'[u].mine = j
    BY DEF NoLeak
  <2>1. (\E e \in Display : table[e] = j) \/ \E u \in Thread : call[u].mine = j
    BY <1>3, <1>c, InvSplit, ConstantsAssumption DEF NoLeak
  <2>2. call[t].mine = None /\ j # None
    BY <1>1, <1>d, ConstantsAssumption
  <2> QED
    BY <1>2, <1>e, <2>1, <2>2
<1>9. ASSUME NEW u \in Thread
      PROVE  Alone(u)'
  <2>1. Alone(u)
    BY InvSplit
  <2>2. CASE u # t
    <3>1. pc'[u] = pc[u] /\ call'[u] = call[u]
      BY <1>2, <2>2
    <3>2. call[u].info # None => /\ call[u].info \in Id /\ info'[call[u].info] # None
                                 /\ info'[call[u].info].dpy = info[call[u].info].dpy
      BY <1>1, <1>3, <1>4, <1>c, <2>1 DEF Alone
    <3>3. pc[u] = "install" => call[u].mine \in Id \ {i}
      BY <1>1, <1>b, <2>1 DEF Alone
    <3> QED
      BY <1>3, <1>e, <2>1, <3>1, <3>2, <3>3 DEF Alone, outsideVars
  <2>3. CASE u = t
    BY <1>c, <1>d, <1>e, <2>3 DEF Alone, outsideVars
  <2> QED
    BY <2>2, <2>3
<1>10. ASSUME NEW u \in Thread, NEW v \in Thread, u # v
       PROVE  Apart(u, v)'
  <2>1. Apart(u, v)
    BY <1>10, InvSplit
  <2> QED
    BY <1>2, <1>a, <1>b, <1>d, <1>10, <2>1 DEF Apart
<1> QED
  BY <1>0, <1>6, <1>7, <1>8, <1>9, <1>10, InvJoin

LEMMA ForgetDisplayInv ==
  ASSUME DisplayInv, NEW t \in Thread, ForgetDisplay(t)
  PROVE  DisplayInv'
<1> DEFINE d == call[t].dpy
           i == call[t].mine
<1> USE DEF CallerOK
<1>d. /\ pc[t] = "closing" /\ call[t].op = "closed" /\ d \in Display /\ i \in Id
      /\ Moved(t) /\ pc'[t] = "hooks" /\ Same(call[t], call'[t])
      /\ call'[t].mine = None /\ call'[t].info = None
  BY InvParts, ForgetDisplayMoves
<1>b. \A u \in Thread \ {t} : call[u].dpy # d
  BY <1>d, ClosesAlone
<1>e. /\ table' = [table EXCEPT ![d] = None] /\ info' = [info EXCEPT ![i] = None]
      /\ UNCHANGED <<configs, stringLock, outsideVars, failures>>
  BY DEF ForgetDisplay
<1>c. table[d] = i /\ i # None /\ info[i].dpy = d /\ d \in open
  <2>1. table[d] = i /\ i # None
    BY <1>d, InvSplit, ConstantsAssumption DEF Alone
  <2> QED
    BY <1>d, <2>1, Listed
<1>0. DataOK /\ CallsOK'
  BY <1>d, InvParts DEF Moved
<1>1. \A u \in Thread : CallerOK(pc[u], call[u]) /\ CallerOK(pc'[u], call'[u])
  BY <1>0, InvParts, Callers, MovedCallers
<1>2. \A u \in Thread \ {t} : pc'[u] = pc[u] /\ call'[u] = call[u]
  BY <1>d DEF Moved
<1>3. /\ table'[d] = None /\ \A e \in Display \ {d} : table'[e] = table[e]
      /\ info'[i] = None /\ \A j \in Id \ {i} : info'[j] = info[j]
  BY <1>0, <1>d, <1>e DEF DataOK
<1>4. \A e \in Display \ {d} : table[e] # i
  BY <1>c, Listed
<1>6. DataOK'
  BY <1>0, <1>d, <1>e DEF DataOK, outsideVars
<1>7. TableOK'
  BY <1>0, <1>3, <1>4, <1>e, InvSplit DEF TableOK, outsideVars, DataOK
<1>8. NoLeak'
  <2> SUFFICES ASSUME NEW j \in Id, info'[j] # None
               PROVE  (\E e \in Display : table'[e] = j) \/ \E u \in Thread : call'[u].mine = j
    BY DEF NoLeak
  <2>1. j # i /\ ((\E e \in Display : table[e] = j) \/ \E u \in Thread : call[u].mine = j)
    BY <1>3, InvSplit DEF NoLeak
  <2> QED
    BY <1>2, <1>3, <1>c, <2>1
<1>9. ASSUME NEW u \in Thread
      PROVE  Alone(u)'
  <2>1. Alone(u) /\ (u # t => Apart(t, u) /\ Apart(u, t))
    BY InvSplit
  <2>2. CASE u # t
    <3>1. pc'[u] = pc[u] /\ call'[u] = call[u] /\ call[u].dpy # d
      BY <1>2, <1>b, <2>2
    <3>2. call[u].info # None => call[u].info \in Id \ {i} /\ call[u].dpy \in Display \ {d}
      BY <1>1, <1>4, <2>1, <3>1 DEF Alone
    <3>3. pc[u] = "install" => call[u].mine \in Id \ {i}
      BY <1>1, <1>c, <1>d, <2>1 DEF Alone
    <3>4. call[u].op \in {"close", "closed"} => call[u].dpy \in Display \ {d}
      BY <1>1, <3>1, ConstantsAssumption DEF Op
    <3>5. pc[u] = "closing" => call[u].op = "closed"
      BY <1>1
    <3>6. pc[u] = "install" => \A e \in Display : table'[e] # call[u].mine
      BY <1>1, <1>3, <2>1, ConstantsAssumption DEF Alone
    <3> QED
      BY <1>3, <1>e, <2>1, <3>1, <3>2, <3>3, <3>4, <3>5, <3>6 DEF Alone, outsideVars
  <2>3. CASE u = t
    BY <1>3, <1>c, <1>d, <1>e, <2>3 DEF Alone, outsideVars, Same
  <2> QED
    BY <2>2, <2>3
<1>10. ASSUME NEW u \in Thread, NEW v \in Thread, u # v
       PROVE  Apart(u, v)'
  <2>1. Apart(u, v)
    BY <1>10, InvSplit
  <2> QED
    BY <1>2, <1>b, <1>d, <1>10, <2>1 DEF Apart, Same
<1> QED
  BY <1>0, <1>6, <1>7, <1>8, <1>9, <1>10, InvJoin

\* What the vendors and the server have after a display has gone is typed.
LEMMA GoneTyped ==
  ASSUME DataOK, NEW t \in Thread, DisplayGone(t)
  PROVE  DataOK'
<1>2. drawable' \in [Display \X Xid -> Drawable \cup {None}]
  BY DEF DisplayGone, DataOK
<1> QED
  BY <1>2 DEF DisplayGone, DataOK, tableVars

LEMMA DisplayGoneInv ==
  ASSUME DisplayInv, NEW t \in Thread, DisplayGone(t)
  PROVE  DisplayInv'
<1> DEFINE d == call[t].dpy
<1> USE DEF CallerOK
<1>d. pc[t] = "hooks" /\ call[t].op = "closed" /\ d \in Display /\ HasReturned(t)
  BY InvParts, DisplayGoneMoves
<1>b. \A u \in Thread \ {t} : call[u].dpy # d
  BY <1>d, ClosesAlone
<1>c. table[d] = None
  BY <1>d, InvSplit DEF Alone
<1>e. open' = open \ {d} /\ UNCHANGED <<table, info>>
  BY DEF DisplayGone, tableVars
<1>0. DataOK /\ CallsOK' /\ DataOK'
  BY <1>d, InvParts, GoneTyped DEF HasReturned, Moved
<1>1. \A u \in Thread : CallerOK(pc[u], call[u]) /\ CallerOK(pc'[u], call'[u])
  BY <1>0, InvParts, Callers, MovedCallers
<1>2. \A u \in Thread \ {t} : pc'[u] = pc[u] /\ call'[u] = call[u]
  BY <1>d DEF HasReturned, Moved
<1>7. TableOK'
  BY <1>c, <1>e, InvSplit DEF TableOK
<1>8. NoLeak'
  <2>1. call[t].mine = None
    BY <1>1, <1>d
  <2> QED
    BY <1>2, <1>e, <2>1, InvSplit, ConstantsAssumption DEF NoLeak
<1>9. ASSUME NEW u \in Thread
      PROVE  Alone(u)'
  <2>1. Alone(u)
    BY InvSplit
  <2>2. CASE u # t
    BY <1>2, <1>b, <1>e, <2>1, <2>2 DEF Alone
  <2>3. CASE u = t
    BY <1>d, <2>3, NoCallTyped, ConstantsAssumption DEF Alone, HasReturned, Op
  <2> QED
    BY <2>2, <2>3
<1>10. ASSUME NEW u \in Thread, NEW v \in Thread, u # v
       PROVE  Apart(u, v)'
  <2>1. Apart(u, v)
    BY <1>10, InvSplit
  <2>2. call'[t].op = None /\ call'[t].dpy = None /\ pc'[t] = "idle"
    BY <1>d, NoCallTyped DEF HasReturned
  <2> QED
    BY <1>1, <1>2, <1>10, <2>1, <2>2, ConstantsAssumption DEF Apart, Op
<1> QED
  BY <1>0, <1>7, <1>8, <1>9, <1>10, InvJoin

LEMMA CloseDisplayInv ==
  ASSUME DisplayInv, NEW t \in Thread, NEW d \in Display, CloseDisplay(t, d)
  PROVE  DisplayInv'
<1> USE DEF CallerOK
<1>d. /\ pc[t] = "idle" /\ d \in open /\ Moved(t) /\ pc'[t] = "hooks"
      /\ call'[t].op = IF table[d] = None THEN "closed" ELSE "close"
      /\ call'[t].dpy = d /\ call'[t].info = None
      /\ \A u \in Thread : call[u].dpy # d
  BY InvParts, CloseDisplayMoves
<1>e. UNCHANGED <<tableVars, configs, stringLock, outsideVars, failures>>
  BY DEF CloseDisplay
<1>0. DataOK /\ CallsOK' /\ DataOK'
  BY <1>d, <1>e, InvParts DEF DataOK, tableVars, outsideVars, Moved
<1>1. \A u \in Thread : CallerOK(pc[u], call[u]) /\ CallerOK(pc'[u], call'[u])
  BY <1>0, InvParts, Callers, MovedCallers
<1>2. \A u \in Thread \ {t} : pc'[u] = pc[u] /\ call'[u] = call[u]
  BY <1>d DEF Moved
<1>7. TableOK'
  BY <1>e, InvSplit DEF TableOK, tableVars, outsideVars
<1>8. NoLeak'
  <2>1. call[t].mine = None
    BY <1>1, <1>d
  <2> QED
    BY <1>2, <1>e, <2>1, InvSplit, ConstantsAssumption DEF NoLeak, tableVars
<1>9. ASSUME NEW u \in Thread
      PROVE  Alone(u)'
  <2>1. Alone(u)
    BY InvSplit
  <2>2. CASE u # t
    BY <1>2, <1>e, <2>1, <2>2 DEF Alone, tableVars, outsideVars
  <2>3. CASE u = t
    BY <1>d, <1>e, <2>3 DEF Alone, tableVars, outsideVars
  <2> QED
    BY <2>2, <2>3
<1>10. ASSUME NEW u \in Thread, NEW v \in Thread, u # v
       PROVE  Apart(u, v)'
  <2>1. Apart(u, v)
    BY <1>10, InvSplit
  <2> QED
    BY <1>2, <1>d, <1>10, <2>1 DEF Apart
<1> QED
  BY <1>0, <1>7, <1>8, <1>9, <1>10, InvJoin

\* What changes only what the server has: a display is opened, or another client does something.
LEMMA ServerInv ==
  ASSUME DisplayInv, DataOK', open \subseteq open', UNCHANGED <<table, info, pc, call>>
  PROVE  DisplayInv'
<1>1. CallsOK'
  BY InvParts DEF CallsOK, ThreadOK
<1>2. NoLeak' /\ TableOK'
  BY InvSplit DEF NoLeak, TableOK
<1>3. \A u \in Thread : Alone(u)'
  BY InvSplit DEF Alone
<1>4. \A u, v \in Thread : u # v => Apart(u, v)'
  BY InvSplit DEF Apart
<1> QED
  BY <1>1, <1>2, <1>3, <1>4, InvJoin

LEMMA OpenDisplayInv ==
  ASSUME DisplayInv, NEW d \in Display, OpenDisplay(d)
  PROVE  DisplayInv'
<1>1. DataOK'
  BY InvParts DEF OpenDisplay, DataOK, tableVars
<1> QED
  BY <1>1, ServerInv DEF OpenDisplay, tableVars, threadVars

LEMMA ForeignDrawableInv ==
  ASSUME DisplayInv, NEW d \in Display, NEW x \in Xid, ForeignDrawable(d, x)
  PROVE  DisplayInv'
<1>1. \A s \in ScreensOf(d) : Foreign(s) \in Drawable
  BY DEF ScreensOf, Foreign, Drawable
<1>2. Retired \in Drawable
  BY DEF Retired, Drawable
<1>3. DataOK'
  BY <1>1, <1>2, InvParts DEF ForeignDrawable, DataOK, tableVars
<1> QED
  BY <1>3, ServerInv DEF ForeignDrawable, tableVars, threadVars

\* The steps that keep the structures.
LEMMA KeepsSame ==
  ASSUME DisplayInv, NEW t \in Thread, DataOK', UNCHANGED <<table, open>>, InfoKept, Moved(t),
         {pc[t], pc'[t]} \cap {"install", "closing"} = {}, Same(call[t], call'[t]),
         call'[t].info \in {None, call[t].info, table[call[t].dpy]}
  PROVE  DisplayInv'
<1>1. Alone(t) /\ CallerOK(pc[t], call[t])
  BY InvSplit, InvParts, Callers
<1>2. call'[t].op = call[t].op /\ call'[t].dpy = call[t].dpy
  BY DEF Same
<1>3. Keeps(t)
  BY <1>1, <1>2 DEF Keeps, Alone, Same
<1> QED
  BY <1>3, KeepsInv

LEMMA KeepsReturned ==
  ASSUME DisplayInv, NEW t \in Thread, DataOK', UNCHANGED <<table, open>>, InfoKept, HasReturned(t),
         pc[t] \notin {"install", "closing"}
  PROVE  DisplayInv'
<1>1. pc'[t] = "idle" /\ call'[t].op = None /\ call'[t].dpy = None /\ call'[t].info = None
  BY NoCallTyped DEF HasReturned
<1>2. Keeps(t)
  BY <1>1, ConstantsAssumption DEF Keeps, HasReturned, Op
<1> QED
  BY <1>2, KeepsInv

LEMMA KeepsBegun ==
  ASSUME DisplayInv, NEW t \in Thread, DataOK', UNCHANGED <<tableVars, open>>,
         NEW n, NEW o, NEW d, Begins(t, n, o, d), o \notin {"close", "closed"}, ~Closing(d)
  PROVE  DisplayInv'
<1>1. Keeps(t)
  BY DEF Keeps, InfoKept, Begins, tableVars
<1> QED
  BY <1>1, KeepsInv

LEMMA DataUnchanged ==
  ASSUME DataOK, UNCHANGED <<tableVars, configs, stringLock, outsideVars>>, failures' \in 0..MaxFailures
  PROVE  DataOK' /\ UNCHANGED <<table, open, drawable>> /\ InfoKept
BY DEF DataOK, tableVars, outsideVars, InfoKept

LEMMA CreatedTyped ==
  ASSUME DataOK, NEW d \in Display, NEW x \in Xid, NEW s \in ScreensOf(d),
         drawable' = drawable \/ drawable' = [drawable EXCEPT ![<<d, x>>] = Own(s)]
  PROVE  drawable' \in [Display \X Xid -> Drawable \cup {None}]
<1>1. Own(s) \in Drawable
  BY DEF ScreensOf, Own, Drawable
<1> QED
  BY <1>1 DEF DataOK

\* The functions that are called.
LEMMA BeginInv ==
  ASSUME DisplayInv, ~LateHook, NEW t \in Thread, Begin(t)
  PROVE  DisplayInv'
<1> USE InvParts
<1>0. failures \in 0..MaxFailures
  BY DEF DataOK
<1>1. CASE HookLookup(t)
  <2>1. /\ pc[t] = "hooks" /\ Moved(t) /\ pc'[t] = "find" /\ Same(call[t], call'[t])
        /\ call'[t].info = None
    BY <1>1, HookLookupMoves
  <2>2. DataOK' /\ UNCHANGED <<table, open, drawable>> /\ InfoKept
    BY <1>0, <1>1, DataUnchanged DEF HookLookup
  <2> QED
    BY <2>1, <2>2, KeepsSame
<1>2. ASSUME NEW s \in Screen, GetConfigs(t, s)
      PROVE  DisplayInv'
  <2>1. Begins(t, "screen", "configs", DisplayOf[s]) /\ ~Closing(DisplayOf[s])
    BY <1>2, GetConfigsMoves
  <2>2. DataOK' /\ UNCHANGED <<tableVars, open>>
    BY <1>0, <1>2, DataUnchanged DEF GetConfigs, outsideVars
  <2> QED
    BY <2>1, <2>2, KeepsBegun
<1>3. ASSUME NEW s \in Screen, CreateGLXPixmap(t, s)
      PROVE  DisplayInv'
  <2>1. Begins(t, "screen", "create", DisplayOf[s]) /\ ~Closing(DisplayOf[s])
    BY <1>3, CreateGLXPixmapMoves
  <2>2. DataOK' /\ UNCHANGED <<tableVars, open>>
    BY <1>0, <1>3, DataUnchanged DEF CreateGLXPixmap, outsideVars
  <2> QED
    BY <2>1, <2>2, KeepsBegun
<1>4. ASSUME NEW d \in Display, GetClientString(t, d)
      PROVE  DisplayInv'
  <2>1. Begins(t, "strings", "string", d) /\ ~Closing(d)
    BY <1>4, GetClientStringMoves
  <2>2. DataOK' /\ UNCHANGED <<tableVars, open>>
    BY <1>0, <1>4, DataUnchanged DEF GetClientString, outsideVars
  <2> QED
    BY <2>1, <2>2, KeepsBegun
<1>5. ASSUME NEW d \in Display, NEW c \in Config, CreateDrawable(t, d, c)
      PROVE  DisplayInv'
  <2>1. PICK n \in {"map", "done"} :
           /\ Begins(t, n, "create", d) /\ ~Closing(d)
           /\ \/ UNCHANGED drawable
              \/ /\ call'[t].xid \in Xid
                 /\ \E s \in ScreensOf(d) : drawable' = [drawable EXCEPT ![<<d, call'[t].xid>>] = Own(s)]
    BY <1>5, CreateDrawableMoves
  <2>2. drawable' \in [Display \X Xid -> Drawable \cup {None}]
    BY <2>1, CreatedTyped DEF DataOK
  <2>3. UNCHANGED <<tableVars, configs, stringLock, glvnd, open, given, failures>>
    BY <1>5 DEF CreateDrawable
  <2>4. DataOK'
    BY <2>2, <2>3 DEF DataOK, tableVars
  <2> QED
    BY <2>1, <2>3, <2>4, KeepsBegun
<1>6. ASSUME NEW d \in Display, NEW x \in Xid, NEW o \in {"use", "destroy"}, WithDrawable(t, d, x, o)
      PROVE  DisplayInv'
  <2>1. Begins(t, "drawable", o, d) /\ ~Closing(d)
    BY <1>6, WithDrawableMoves
  <2>2. DataOK' /\ UNCHANGED <<tableVars, open>>
    BY <1>0, <1>6, DataUnchanged DEF WithDrawable, outsideVars
  <2> QED
    BY <2>1, <2>2, KeepsBegun
<1>7. ASSUME NEW d \in Display, CloseDisplay(t, d)
      PROVE  DisplayInv'
  BY <1>7, CloseDisplayInv
<1> QED
  BY <1>1, <1>2, <1>3, <1>4, <1>5, <1>6, <1>7 DEF Begin, UseDrawable, DestroyDrawable

\* The drawables that a vendor creates and destroys.
LEMMA DiscardTyped ==
  ASSUME DataOK, NEW d \in Display, NEW x \in Xid, Discard(d, x)
  PROVE  drawable' \in [Display \X Xid -> Drawable \cup {None}]
BY DEF DataOK, Discard

LEMMA XidKept ==
  ASSUME DisplayInv, NEW t \in Thread, call[t].info # None, NEW x, NEW v, NEW ok \in BOOLEAN,
         XidAdded(call[t].info, x, v, ok)
  PROVE  InfoKept /\ info' \in [Id -> Info \cup {None}]
<1> DEFINE i == call[t].info
<1>1. i \in Id /\ info[i] # None /\ \E d \in Display : table[d] = i
  BY Informed, ConstantsAssumption
<1>2. info \in [Id -> Info \cup {None}]
  BY InvParts DEF DataOK
<1> QED
  BY <1>1, <1>2, ConstantsAssumption DEF XidAdded, XidSet, InfoKept

LEMMA MergeStringTyped ==
  ASSUME DisplayInv, NEW t \in Thread, MergeString(t)
  PROVE  /\ DataOK' /\ InfoKept /\ call[t].info \in Id
         /\ \A j \in Id \ {call[t].info} : info'[j] = info[j]
         /\ info'[call[t].info] \in Info /\ info'[call[t].info].dpy = info[call[t].info].dpy
         /\ \/ /\ info'[call[t].info].merged = info[call[t].info].merged + 1
               /\ HasGoneOn(t, IF info[call[t].info].merged + 1 = Cardinality(ScreensOf(call[t].dpy))
                               THEN "unlock" ELSE "merge")
            \/ info'[call[t].info].merged = 0 /\ HasGoneOn(t, "giveUp")
         /\ info'[call[t].info].xids = info[call[t].info].xids
<1> DEFINE i == call[t].info
<1>1. i \in Id /\ i # None
  BY InvParts, MergeStringMoves, ConstantsAssumption
<1>2. info[i] \in Info /\ table[call[t].dpy] = i /\ call[t].dpy \in Display
  BY <1>1, Informed
<1>a. PICK n \in {info[i].merged + 1, 0} :
        /\ info' = [info EXCEPT ![i].merged = n]
        /\ \/ /\ n = info[i].merged + 1 /\ UNCHANGED failures
              /\ HasGoneOn(t, IF info[i].merged + 1 = Cardinality(ScreensOf(call[t].dpy))
                              THEN "unlock" ELSE "merge")
           \/ n = 0 /\ HasGoneOn(t, "giveUp") /\ Fail
  BY InvParts, MergeStringMoves
<1>3. n \in Nat
  BY <1>2 DEF Info
<1>4. PICK r : r = [info[i] EXCEPT !.merged = n]
  OBVIOUS
<1>5. r \in Info /\ r.dpy = info[i].dpy /\ r.merged = n /\ r.xids = info[i].xids
  BY <1>2, <1>3, <1>4 DEF Info
<1>6. info' = [info EXCEPT ![i] = r]
  BY <1>4, <1>a
<1>7. /\ info' \in [Id -> Info \cup {None}] /\ info'[i] = r
      /\ \A j \in Id \ {i} : info'[j] = info[j]
  BY <1>1, <1>5, <1>6, InvParts DEF DataOK
<1>b. failures' \in 0..MaxFailures
  BY <1>a, InvParts, ConstantsAssumption DEF Fail, DataOK
<1>8. DataOK'
  BY <1>7, <1>b, InvParts DEF MergeString, DataOK, outsideVars
<1>9. InfoKept
  BY <1>2, <1>5, <1>7, ConstantsAssumption DEF InfoKept
<1> QED
  BY <1>1, <1>5, <1>7, <1>8, <1>9, <1>a

\* The steps of a function.
LEMMA LookupInv ==
  ASSUME DisplayInv, NEW t \in Thread, FindDisplay(t) \/ BuildInfo(t) \/ InstallInfo(t)
  PROVE  DisplayInv'
<1> USE InvParts
<1>0. failures \in 0..MaxFailures
  BY DEF DataOK
<1>1. CASE FindDisplay(t)
  <2>1. /\ pc[t] = "find"
        /\ \/ HasGoneOn(t, "build")
           \/ \E i \in {None, table[call[t].dpy]} : HasFound(t, i)
    BY <1>1, FindDisplayMoves
  <2>2. DataOK' /\ UNCHANGED <<table, open, drawable>> /\ InfoKept
    BY <1>0, <1>1, DataUnchanged DEF FindDisplay
  <2>3. CASE HasGoneOn(t, "build")
    BY <2>1, <2>2, <2>3, KeepsSame DEF HasGoneOn, Same
  <2>4. CASE \E i \in {None, table[call[t].dpy]} : HasFound(t, i)
    BY <2>1, <2>2, <2>4, KeepsSame DEF HasFound, Nexts
  <2> QED
    BY <2>1, <2>3, <2>4
<1>2. CASE BuildInfo(t)
  <2>0. \E i \in Id : info[i] = None
    BY <1>2, RoomForInfo DEF BuildInfo
  <2>1. UNCHANGED <<table, configs, stringLock, outsideVars>> /\ pc[t] = "build"
    BY <1>2 DEF BuildInfo
  <2>2. CASE HasFound(t, None) /\ Fail /\ UNCHANGED info
    <3>1. failures' \in 0..MaxFailures
      BY <1>0, <2>2, ConstantsAssumption DEF Fail
    <3>2. DataOK' /\ UNCHANGED <<table, open, drawable>> /\ InfoKept
      BY <2>1, <2>2, <3>1, DataUnchanged DEF tableVars
    <3> QED
      BY <2>1, <2>2, <3>2, KeepsSame DEF HasFound, Nexts
  <2>3. ASSUME NEW i \in Id, info[i] = None, info' = [info EXCEPT ![i] = NewInfo(call[t].dpy)],
               UNCHANGED failures, Moved(t), pc'[t] = "install", Same(call[t], call'[t]),
               call'[t].mine = i, call'[t].info = call[t].info
        PROVE  DisplayInv'
    BY <2>1, <2>3, BuildsInv
  <2> QED
    BY <1>2, <2>0, <2>2, <2>3, BuildInfoMoves
<1>3. CASE InstallInfo(t)
  <2>1. UNCHANGED <<configs, stringLock, outsideVars>> /\ pc[t] = "install"
    BY <1>3 DEF InstallInfo
  <2>2. CASE /\ table[call[t].dpy] = None
             /\ table' = [table EXCEPT ![call[t].dpy] = call[t].mine]
             /\ HasFound(t, call[t].mine) /\ UNCHANGED <<info, failures>>
    BY <2>1, <2>2, InstallsInv
  <2>3. CASE /\ Fail /\ info' = [info EXCEPT ![call[t].mine] = None]
             /\ HasFound(t, None) /\ UNCHANGED table
    <3>1. failures' \in 0..MaxFailures
      BY <1>0, <2>3, ConstantsAssumption DEF Fail
    <3> QED
      BY <2>1, <2>3, <3>1, DropsInv
  <2>4. CASE /\ info' = [info EXCEPT ![call[t].mine] = None]
             /\ HasFound(t, table[call[t].dpy]) /\ UNCHANGED <<table, failures>>
    BY <1>0, <2>1, <2>4, DropsInv
  <2> QED
    BY <1>3, <2>2, <2>3, <2>4, InstallInfoMoves
<1> QED
  BY <1>1, <1>2, <1>3

LEMMA ConfigStepInv ==
  ASSUME DisplayInv, NEW t \in Thread,
         \/ Done(t) \/ LookupVendorByScreen(t) \/ MapConfig(t)
         \/ \E cs \in SUBSET Config : VendorConfigs(t, cs)
  PROVE  DisplayInv'
<1> USE InvParts
<1>0. failures \in 0..MaxFailures
  BY DEF DataOK
<1>1. CASE Done(t)
  <2>1. DataOK' /\ UNCHANGED <<table, open, drawable>> /\ InfoKept
    BY <1>0, <1>1, DataUnchanged DEF Done
  <2> QED
    BY <1>1, <2>1, DoneMoves, KeepsReturned
<1>2. CASE LookupVendorByScreen(t)
  <2>1. /\ pc[t] = "screen" /\ failures' \in 0..MaxFailures
        /\ \/ HasReturned(t)
           \/ /\ HasVendor(t, call[t].op, ScreenVendor(call[t].screen))
              /\ call[t].op \in {"configs", "create"}
    BY <1>2, LookupVendorByScreenMoves
  <2>2. DataOK' /\ UNCHANGED <<table, open, drawable>> /\ InfoKept
    BY <1>2, <2>1, DataUnchanged DEF LookupVendorByScreen
  <2>3. CASE HasReturned(t)
    BY <2>1, <2>2, <2>3, KeepsReturned
  <2>4. CASE HasVendor(t, call[t].op, ScreenVendor(call[t].screen)) /\ call[t].op \in {"configs", "create"}
    BY <2>1, <2>2, <2>4, KeepsSame DEF HasVendor
  <2> QED
    BY <2>1, <2>3, <2>4
<1>3. CASE MapConfig(t)
  <2>1. PICK c \in call[t].todo, ok \in BOOLEAN :
           /\ pc[t] = "addConfig" /\ c \in Config /\ call[t].vendor \in Vendor \cup {None}
           /\ AddConfig(t, c, ok)
           /\ HasReturned(t) \/ HasVendor(t, "addConfig", call[t].vendor)
           /\ given' = given \/ given' = given \cup call[t].array
    BY <1>3, MapConfigMoves
  <2>2. configs' \in [Config -> Vendor \cup {None}] /\ failures' \in 0..MaxFailures
    BY <1>0, <2>1, ConstantsAssumption DEF AddConfig, Fail, DataOK
  <2>3. UNCHANGED <<tableVars, stringLock, glvnd, open, drawable>>
    BY <1>3 DEF MapConfig
  <2>7. given' \subseteq Config
    <3>1. call[t] \in CallType
      BY DEF CallsOK, ThreadOK
    <3> QED
      BY <2>1, <3>1 DEF CallType, DataOK
  <2>4. DataOK' /\ UNCHANGED <<table, open>> /\ InfoKept
    BY <2>2, <2>3, <2>7 DEF DataOK, tableVars, InfoKept
  <2>5. CASE HasReturned(t)
    BY <2>1, <2>4, <2>5, KeepsReturned
  <2>6. CASE HasVendor(t, "addConfig", call[t].vendor)
    BY <2>1, <2>4, <2>6, KeepsSame DEF HasVendor
  <2> QED
    BY <2>1, <2>5, <2>6
<1>4. ASSUME NEW cs \in SUBSET Config, VendorConfigs(t, cs)
      PROVE  DisplayInv'
  <2>1. /\ pc[t] = "configs" /\ call[t].screen \in Screen
        /\ HasReturned(t) \/ HasVendor(t, "addConfig", call[t].vendor)
    BY <1>4, VendorConfigsMoves
  <2>4. DataOK' /\ UNCHANGED <<table, open>> /\ InfoKept
    BY <1>0, <1>4, VendorConfigsKeeps, DataUnchanged DEF tableVars, outsideVars
  <2>5. CASE HasReturned(t)
    BY <2>1, <2>4, <2>5, KeepsReturned
  <2>6. CASE HasVendor(t, "addConfig", call[t].vendor)
    BY <2>1, <2>4, <2>6, KeepsSame DEF HasVendor
  <2> QED
    BY <2>1, <2>5, <2>6
<1> QED
  BY <1>1, <1>2, <1>3, <1>4

LEMMA DrawableStepInv ==
  ASSUME DisplayInv, NEW t \in Thread,
         \/ VendorCreates(t) \/ MapDrawable(t) \/ DrawableVendor(t) \/ QueryScreen(t)
         \/ RememberVendor(t) \/ UnmapDrawable(t) \/ CallVendor(t)
  PROVE  DisplayInv'
<1> USE InvParts
<1>0. failures \in 0..MaxFailures /\ info \in [Id -> Info \cup {None}]
  BY DEF DataOK
<1>a. call[t].info # None => call[t].info \in Id /\ info[call[t].info] \in Info /\ info[call[t].info] # None
  BY Informed, ConstantsAssumption
<1>1. CASE VendorCreates(t)
  <2>1. /\ pc[t] = "create" /\ call[t].dpy \in Display /\ call[t].screen \in ScreensOf(call[t].dpy)
        /\ Moved(t) /\ pc'[t] = "find"
        /\ \/ Same(call[t], call'[t]) /\ call'[t].info = call[t].info /\ UNCHANGED drawable
           \/ /\ call'[t].op = "create" /\ call'[t].dpy = call[t].dpy /\ call'[t].xid \in Xid
              /\ call'[t].info = call[t].info
              /\ drawable' = [drawable EXCEPT ![<<call[t].dpy, call'[t].xid>>] = Own(call[t].screen)]
    BY <1>1, VendorCreatesMoves DEF LooksUpAgain
  <2>2. drawable' \in [Display \X Xid -> Drawable \cup {None}]
    BY <2>1, CreatedTyped DEF DataOK
  <2>3. UNCHANGED <<tableVars, configs, stringLock, glvnd, open, given, failures>>
    BY <1>1 DEF VendorCreates
  <2>4. DataOK' /\ UNCHANGED <<table, open>> /\ InfoKept
    BY <2>2, <2>3 DEF DataOK, tableVars, InfoKept
  <2>5. CASE Same(call[t], call'[t]) /\ call'[t].info = call[t].info
    BY <2>1, <2>4, <2>5, KeepsSame
  <2>6. CASE call'[t].op = "create" /\ call'[t].dpy = call[t].dpy /\ call'[t].info = call[t].info
    <3>1. Alone(t) /\ CallerOK(pc[t], call[t])
      BY InvSplit, Callers
    <3>2. Keeps(t)
      BY <2>1, <2>4, <2>6, <3>1 DEF Keeps, Alone, CallerOK
    <3> QED
      BY <3>2, KeepsInv
  <2> QED
    BY <2>1, <2>5, <2>6
<1>2. CASE MapDrawable(t)
  <2>1. /\ pc[t] = "map" /\ HasReturned(t)
        /\ call[t].dpy \in Display /\ call[t].xid \in Xid
        /\ call[t].vendor \in Vendor \cup {None} /\ call[t].info \in Id \cup {None}
    BY <1>2, MapDrawableMoves
  <2>2. PICK ok \in BOOLEAN :
          /\ IF call[t].info = None THEN ~ok /\ UNCHANGED <<info, failures>>
             ELSE AddXid(call[t].info, call[t].xid, call[t].vendor, ok)
          /\ IF ok THEN UNCHANGED drawable ELSE Discard(call[t].dpy, call[t].xid)
    BY <1>2 DEF MapDrawable
  <2>3. drawable' \in [Display \X Xid -> Drawable \cup {None}]
    BY <2>1, <2>2, DiscardTyped DEF DataOK
  <2>4. InfoKept /\ info' \in [Id -> Info \cup {None}] /\ failures' \in 0..MaxFailures
    <3>1. CASE call[t].info = None
      BY <1>0, <2>2, <3>1 DEF InfoKept
    <3>2. CASE call[t].info # None
      BY <1>a, <2>1, <2>2, <3>2, AddsXid, XidKept
    <3> QED
      BY <3>1, <3>2
  <2>5. UNCHANGED <<table, configs, stringLock, glvnd, open, given>>
    BY <1>2 DEF MapDrawable
  <2>6. DataOK'
    BY <2>3, <2>4, <2>5 DEF DataOK
  <2> QED
    BY <2>1, <2>4, <2>5, <2>6, KeepsReturned
<1>3. CASE DrawableVendor(t)
  <2>1. /\ pc[t] = "drawable"
        /\ \/ LooksUpAgain(t, "done") \/ HasGoneOn(t, "query")
           \/ \E v \in Vendor :
                HasVendor(t, IF call[t].op = "destroy" THEN "unmap" ELSE "vendor", v)
    BY <1>3, <1>a, DrawableVendorMoves
  <2>3. failures' \in 0..MaxFailures
    BY <1>0, <1>3, ConstantsAssumption DEF DrawableVendor, Fail
  <2>2. DataOK' /\ UNCHANGED <<table, open, drawable>> /\ InfoKept
    BY <2>3, <1>3, DataUnchanged DEF DrawableVendor
  <2> QED
    BY <2>1, <2>2, KeepsSame DEF LooksUpAgain, HasGoneOn, HasVendor, Same
<1>4. CASE QueryScreen(t)
  <2>1. /\ pc[t] = "query" /\ failures' \in 0..MaxFailures
        /\ \/ LooksUpAgain(t, "done")
           \/ HasVendor(t, "remember", ScreenVendor(drawable[<<call[t].dpy, call[t].xid>>].screen))
    BY <1>4, QueryScreenMoves
  <2>2. DataOK' /\ UNCHANGED <<table, open, drawable>> /\ InfoKept
    BY <2>1, <1>4, DataUnchanged DEF QueryScreen
  <2> QED
    BY <2>1, <2>2, KeepsSame DEF LooksUpAgain, HasVendor
<1>5. CASE RememberVendor(t)
  <2>1. /\ pc[t] = "remember" /\ WithXid(call[t]) /\ call[t].info \in Id
        /\ HasVendor(t, IF call[t].op = "destroy" THEN "unmap" ELSE "vendor", call[t].vendor)
        /\ \E ok \in BOOLEAN : AddXid(call[t].info, call[t].xid, call[t].vendor, ok)
    BY <1>5, RememberVendorMoves
  <2>2. call[t].info # None /\ call[t].xid \in Xid /\ call[t].vendor \in Vendor \cup {None}
    BY <2>1, ConstantsAssumption DEF WithXid
  <2>3. PICK ok \in BOOLEAN : /\ XidAdded(call[t].info, call[t].xid, call[t].vendor, ok)
                              /\ failures' \in 0..MaxFailures
    BY <1>a, <2>1, <2>2, AddsXid
  <2>4. InfoKept /\ info' \in [Id -> Info \cup {None}]
    BY <2>2, <2>3, XidKept
  <2>5. UNCHANGED <<table, configs, stringLock, outsideVars>>
    BY <1>5 DEF RememberVendor
  <2>6. DataOK'
    BY <2>3, <2>4, <2>5 DEF DataOK, outsideVars
  <2> QED
    BY <2>1, <2>4, <2>5, <2>6, KeepsSame DEF HasVendor, outsideVars
<1>6. CASE UnmapDrawable(t)
  <2>1. pc[t] = "unmap" /\ WithXid(call[t]) /\ call[t].info \in Id /\ HasGoneOn(t, "vendor")
    BY <1>6, UnmapDrawableMoves
  <2>2. call[t].info # None /\ call[t].xid \in Xid
    BY <2>1, ConstantsAssumption DEF WithXid
  <2>3. XidSet(call[t].info, call[t].xid, None)
    BY <1>a, <1>6, <2>2, SetXid DEF UnmapDrawable, RemoveXid
  <2>4. InfoKept /\ info' \in [Id -> Info \cup {None}]
    <3>1. \E d \in Display : table[d] = call[t].info
      BY <2>2, Informed
    <3> QED
      BY <1>a, <2>2, <2>3, <3>1, ConstantsAssumption DEF XidSet, InfoKept
  <2>5. UNCHANGED <<table, configs, stringLock, outsideVars, failures>>
    BY <1>6 DEF UnmapDrawable
  <2>6. DataOK'
    BY <2>4, <2>5 DEF DataOK, outsideVars
  <2> QED
    BY <2>1, <2>4, <2>5, <2>6, KeepsSame DEF HasGoneOn, Same, outsideVars
<1>7. CASE CallVendor(t)
  <2>1. pc[t] = "vendor" /\ call[t].dpy \in Display /\ call[t].xid \in Xid /\ HasReturned(t)
    BY <1>7, CallVendorMoves DEF WithXid
  <2>2. drawable' \in [Display \X Xid -> Drawable \cup {None}]
    BY <1>7, <2>1, DiscardTyped DEF CallVendor, DataOK
  <2>3. UNCHANGED <<tableVars, configs, stringLock, glvnd, open, given, failures>>
    BY <1>7 DEF CallVendor
  <2>4. DataOK' /\ UNCHANGED <<table, open>> /\ InfoKept
    BY <2>2, <2>3 DEF DataOK, tableVars, InfoKept
  <2> QED
    BY <2>1, <2>4, KeepsReturned
<1> QED
  BY <1>1, <1>2, <1>3, <1>4, <1>5, <1>6, <1>7

LEMMA StringStepInv ==
  ASSUME DisplayInv, NEW t \in Thread,
         LockStrings(t) \/ MergeString(t) \/ UnlockStrings(t) \/ ReturnString(t)
  PROVE  DisplayInv'
<1> USE InvParts
<1>1. CASE LockStrings(t)
  <2>1. /\ pc[t] = "strings"
        /\ \/ HasReturned(t)
           \/ HasGoneOn(t, IF info[call[t].info].merged > 0 THEN "unlock" ELSE "merge")
    BY <1>1, LockStringsMoves
  <2>2. DataOK' /\ UNCHANGED <<table, open>> /\ InfoKept
    BY <1>1 DEF LockStrings, DataOK, tableVars, outsideVars, InfoKept
  <2>3. CASE HasReturned(t)
    BY <2>1, <2>2, <2>3, KeepsReturned
  <2>4. CASE HasGoneOn(t, "unlock") \/ HasGoneOn(t, "merge")
    BY <2>1, <2>2, <2>4, KeepsSame DEF HasGoneOn, Same
  <2> QED
    BY <2>1, <2>3, <2>4
<1>2. CASE MergeString(t)
  <2>1. /\ pc[t] = "merge"
        /\ HasGoneOn(t, "unlock") \/ HasGoneOn(t, "merge") \/ HasGoneOn(t, "giveUp")
    BY <1>2, MergeStringMoves
  <2>2. DataOK' /\ InfoKept
    BY <1>2, MergeStringTyped
  <2>3. UNCHANGED <<table, open>>
    BY <1>2 DEF MergeString, outsideVars
  <2> QED
    BY <2>1, <2>2, <2>3, KeepsSame DEF HasGoneOn, Same
<1>3. CASE UnlockStrings(t)
  <2>1. \/ pc[t] = "unlock" /\ HasGoneOn(t, "answer")
        \/ pc[t] = "giveUp" /\ HasGoneOn(t, "reread")
    BY <1>3, UnlockStringsMoves
  <2>2. DataOK' /\ UNCHANGED <<table, open>> /\ InfoKept
    BY <1>3 DEF UnlockStrings, DataOK, tableVars, outsideVars, InfoKept
  <2> QED
    BY <2>1, <2>2, KeepsSame DEF HasGoneOn, Same
<1>4. CASE ReturnString(t)
  <2>1. DataOK' /\ UNCHANGED <<table, open>> /\ InfoKept
    BY <1>4 DEF ReturnString, DataOK, tableVars, outsideVars, InfoKept
  <2> QED
    BY <1>4, <2>1, ReturnStringMoves, KeepsReturned
<1> QED
  BY <1>1, <1>2, <1>3, <1>4

LEMMA DisplayInvStep ==
  ASSUME DisplayInv, ~LateHook, [Next]_vars
  PROVE  DisplayInv'
<1>1. ASSUME NEW t \in Thread, Begin(t)
      PROVE  DisplayInv'
  BY <1>1, BeginInv
<1>2. ASSUME NEW t \in Thread, Step(t)
      PROVE  DisplayInv'
  BY <1>2, LookupInv, ConfigStepInv, DrawableStepInv, StringStepInv, OnDisplayClosedInv,
     ForgetDisplayInv, DisplayGoneInv DEF Step
<1>3. CASE UNCHANGED vars
  BY <1>3, InvParts, ServerInv DEF vars, tableVars, threadVars, outsideVars, DataOK
<1> QED
  BY <1>1, <1>2, <1>3, OpenDisplayInv, ForeignDrawableInv DEF Next

LEMMA DisplayInvInit ==
  ASSUME Init
  PROVE  DisplayInv
<1>1. \A t \in Thread : pc[t] = "idle" /\ call[t] = NoCall
  BY DEF Init
<1>2. DataOK
  BY ConstantsAssumption DEF Init, DataOK
<1>3. CallsOK
  BY <1>1, NoCallTyped, IdleCall DEF Init, CallsOK, ThreadOK, Label
<1>4. NoLeak /\ TableOK
  BY DEF Init, NoLeak, TableOK
<1>5. (\A t \in Thread : Alone(t)) /\ (\A t, u \in Thread : t # u => Apart(t, u))
  BY <1>1, NoCallTyped, ConstantsAssumption DEF Alone, Apart, Op
<1> QED
  BY <1>2, <1>3, <1>4, <1>5, InvSplit

\* The display structures, for any number of threads and displays: all threads have the structure
\* that is in the table, none is lost, and none outlives its display
\* (libglxmapping.c:697-780), if no hook calls GLX after libGLX's own has run.
THEOREM DisplayInvariant == ASSUME ~LateHook PROVE Spec => []DisplayInv
<1>1. DisplayInv /\ [Next]_vars => DisplayInv'
  BY DisplayInvStep
<1>2. Init => DisplayInv
  BY DisplayInvInit
<1> QED
  BY <1>1, <1>2, PTL DEF Spec

-----------------------------------------------------------------------------
(* The mappings of configs.                                                *)

LEMMA ScreenVendorKept ==
  ASSUME UNCHANGED glvnd
  PROVE  \A s : ScreenVendor(s)' = ScreenVendor(s)
BY DEF ScreenVendor

\* What ConfigsOK says of a thread.
AtConfigs(t) ==
  /\ pc[t] \in {"configs", "addConfig", "create"} => call[t].vendor = ScreenVendor(call[t].screen)
  /\ pc[t] = "addConfig" =>
       /\ call[t].todo \subseteq call[t].array
       /\ \A k \in call[t].array : ConfigVendor[k] = call[t].vendor
       /\ \A k \in call[t].array \ call[t].todo : configs[k] # None

Recorded ==
  /\ \A k \in Config : configs[k] \in {None, ConfigVendor[k]}
  /\ \A k \in given : configs[k] # None

LEMMA ConfigsSplit == ConfigsOK <=> Recorded /\ \A t \in Thread : AtConfigs(t)
BY DEF ConfigsOK, Recorded, AtConfigs

LEMMA ConfigsJoin ==
  ASSUME Recorded', \A t \in Thread : AtConfigs(t)'
  PROVE  ConfigsOK'
BY DEF ConfigsOK, Recorded, AtConfigs, ScreenVendor

\* What is recorded stays, and so do those that rely on it.
LEMMA OthersAtConfigs ==
  ASSUME ConfigsOK, NEW t \in Thread, Moved(t), UNCHANGED glvnd,
         \A u \in Thread : call[u].array \subseteq Config,
         \A k \in Config : configs[k] # None => configs'[k] = configs[k]
  PROVE  \A u \in Thread \ {t} : AtConfigs(u)'
<1>1. \A u \in Thread \ {t} : pc'[u] = pc[u] /\ call'[u] = call[u]
  BY DEF Moved
<1> QED
  BY <1>1, ScreenVendorKept, ConfigsSplit DEF AtConfigs

LEMMA ArraysTyped ==
  ASSUME DisplayInv
  PROVE  \A u \in Thread : call[u].array \subseteq Config
BY InvParts DEF CallsOK, ThreadOK, CallType

\* The thread has nothing to do with configs.
LEMMA ConfigsKeep ==
  ASSUME ConfigsOK, NEW t \in Thread, Moved(t), UNCHANGED <<configs, given, glvnd>>,
         pc'[t] \notin {"configs", "addConfig", "create"}
  PROVE  ConfigsOK'
<1>1. \A u \in Thread \ {t} : pc'[u] = pc[u] /\ call'[u] = call[u]
  BY DEF Moved
<1> QED
  BY <1>1, ScreenVendorKept DEF ConfigsOK

LEMMA ConfigsBegin ==
  ASSUME DisplayInv, ~LateHook, ConfigsOK, NEW t \in Thread, Begin(t)
  PROVE  ConfigsOK'
BY InvParts, BeginMoves, BeginKeeps, ConfigsKeep

\* The thread does not get to where configs are handled.
Elsewhere(t) == Moved(t) /\ pc'[t] \notin {"configs", "addConfig", "create"}

LEMMA ElsewhereSteps ==
  ASSUME DisplayInv, NEW t \in Thread,
         \/ FindDisplay(t) \/ BuildInfo(t) \/ InstallInfo(t) \/ Done(t)
         \/ VendorCreates(t) \/ MapDrawable(t) \/ DrawableVendor(t) \/ QueryScreen(t)
         \/ RememberVendor(t) \/ UnmapDrawable(t) \/ CallVendor(t)
         \/ LockStrings(t) \/ MergeString(t) \/ UnlockStrings(t) \/ ReturnString(t)
         \/ OnDisplayClosed(t) \/ ForgetDisplay(t)
  PROVE  Elsewhere(t)
<1> USE InvParts DEF Elsewhere
<1>1. CASE FindDisplay(t) \/ BuildInfo(t) \/ InstallInfo(t)
  <2>1. ASSUME NEW i, HasFound(t, i)
        PROVE  Elsewhere(t)
    BY <2>1 DEF HasFound, Nexts
  <2>2. CASE FindDisplay(t)
    BY <2>1, <2>2, FindDisplayMoves DEF HasGoneOn
  <2>3. CASE BuildInfo(t)
    <3>1. \E i \in Id : info[i] = None
      BY <2>3, RoomForInfo DEF BuildInfo
    <3> QED
      BY <2>1, <2>3, <3>1, BuildInfoMoves
  <2>4. CASE InstallInfo(t)
    BY <2>1, <2>4, InstallInfoMoves
  <2> QED
    BY <1>1, <2>2, <2>3, <2>4
<1>2. CASE Done(t) \/ MapDrawable(t) \/ CallVendor(t) \/ ReturnString(t)
  BY <1>2, DoneMoves, MapDrawableMoves, CallVendorMoves, ReturnStringMoves DEF HasReturned
<1>3. CASE VendorCreates(t)
  BY <1>3, VendorCreatesMoves DEF LooksUpAgain
<1>4. CASE DrawableVendor(t)
  <2>1. call[t].info # None => info[call[t].info] # None
    BY Informed, ConstantsAssumption
  <2> QED
    BY <1>4, <2>1, DrawableVendorMoves DEF LooksUpAgain, HasGoneOn, HasVendor
<1>5. CASE QueryScreen(t) \/ RememberVendor(t) \/ UnmapDrawable(t)
  BY <1>5, QueryScreenMoves, RememberVendorMoves, UnmapDrawableMoves
     DEF LooksUpAgain, HasGoneOn, HasVendor
<1>6. CASE LockStrings(t) \/ MergeString(t) \/ UnlockStrings(t)
  BY <1>6, LockStringsMoves, MergeStringMoves, UnlockStringsMoves DEF HasReturned, HasGoneOn
<1>7. CASE OnDisplayClosed(t)
  <2>1. table[call[t].dpy] \in Id
    <3>1. call[t].op = "close"
      BY <1>7 DEF OnDisplayClosed
    <3> QED
      BY <3>1, ClosesAlone, InvSplit, Listed DEF Alone
  <2> QED
    BY <1>7, <2>1, OnDisplayClosedMoves
<1>8. CASE ForgetDisplay(t)
  BY <1>8, ForgetDisplayMoves
<1> QED
  BY <1>1, <1>2, <1>3, <1>4, <1>5, <1>6, <1>7, <1>8

LEMMA ConfigsOther ==
  ASSUME DisplayInv, ConfigsOK, NEW t \in Thread,
         \/ FindDisplay(t) \/ BuildInfo(t) \/ InstallInfo(t) \/ Done(t)
         \/ VendorCreates(t) \/ MapDrawable(t) \/ DrawableVendor(t) \/ QueryScreen(t)
         \/ RememberVendor(t) \/ UnmapDrawable(t) \/ CallVendor(t)
         \/ LockStrings(t) \/ MergeString(t) \/ UnlockStrings(t) \/ ReturnString(t)
         \/ OnDisplayClosed(t) \/ ForgetDisplay(t)
  PROVE  ConfigsOK'
<1>0. UNCHANGED <<configs, given, glvnd>>
  <2>1. CASE FindDisplay(t) \/ BuildInfo(t) \/ InstallInfo(t) \/ Done(t)
    BY <2>1 DEF FindDisplay, BuildInfo, InstallInfo, Done, outsideVars
  <2>2. CASE VendorCreates(t) \/ MapDrawable(t) \/ DrawableVendor(t) \/ QueryScreen(t)
    BY <2>2 DEF VendorCreates, MapDrawable, DrawableVendor, QueryScreen, outsideVars
  <2>3. CASE RememberVendor(t) \/ UnmapDrawable(t) \/ CallVendor(t)
    BY <2>3 DEF RememberVendor, UnmapDrawable, CallVendor, outsideVars
  <2>4. CASE LockStrings(t) \/ MergeString(t) \/ UnlockStrings(t) \/ ReturnString(t)
    BY <2>4 DEF LockStrings, MergeString, UnlockStrings, ReturnString, outsideVars
  <2>5. CASE OnDisplayClosed(t) \/ ForgetDisplay(t)
    BY <2>5 DEF OnDisplayClosed, ForgetDisplay, outsideVars
  <2> QED
    BY <2>1, <2>2, <2>3, <2>4, <2>5
<1> QED
  BY <1>0, ElsewhereSteps, ConfigsKeep DEF Elsewhere

LEMMA ConfigsLookup ==
  ASSUME DisplayInv, ConfigsOK, NEW t \in Thread, LookupVendorByScreen(t)
  PROVE  ConfigsOK'
<1> USE InvParts
<1>1. /\ pc[t] = "screen"
      /\ \/ HasReturned(t)
         \/ /\ HasVendor(t, call[t].op, ScreenVendor(call[t].screen))
            /\ call[t].op \in {"configs", "create"}
  BY LookupVendorByScreenMoves
<1>2. UNCHANGED <<configs, given, glvnd>>
  BY DEF LookupVendorByScreen, outsideVars
<1>3. CASE HasReturned(t)
  BY <1>2, <1>3, ConfigsKeep DEF HasReturned
<1>4. CASE HasVendor(t, call[t].op, ScreenVendor(call[t].screen)) /\ call[t].op \in {"configs", "create"}
  <2>1. \A u \in Thread \ {t} : pc'[u] = pc[u] /\ call'[u] = call[u]
    BY <1>4 DEF HasVendor, Moved
  <2>2. /\ pc'[t] \in {"configs", "create"} /\ call'[t].vendor = ScreenVendor(call[t].screen)
        /\ call'[t].screen = call[t].screen
    BY <1>4 DEF HasVendor, Same
  <2> QED
    BY <1>2, <2>1, <2>2, ScreenVendorKept DEF ConfigsOK
<1> QED
  BY <1>1, <1>3, <1>4

LEMMA ConfigsReturned ==
  ASSUME DisplayInv, ConfigsOK, NEW t \in Thread, NEW cs \in SUBSET Config, VendorConfigs(t, cs)
  PROVE  ConfigsOK'
<1> USE InvParts
<1>1. /\ pc[t] = "configs" /\ Moved(t)
      /\ \/ pc'[t] = "idle"
         \/ /\ pc'[t] = "addConfig" /\ call'[t].todo = cs /\ call'[t].array = cs
            /\ call'[t].screen = call[t].screen /\ call'[t].vendor = call[t].vendor
  BY VendorConfigsMoves DEF HasReturned, HasVendor, Same
<1>2. UNCHANGED <<configs, given, glvnd>> /\ \A k \in cs : ConfigVendor[k] = call[t].vendor
  BY DEF VendorConfigs, outsideVars
<1>3. Recorded'
  BY <1>2, ConfigsSplit DEF Recorded
<1>4. AtConfigs(t)'
  BY <1>1, <1>2, ScreenVendorKept, ConfigsSplit DEF AtConfigs
<1>5. \A u \in Thread \ {t} : AtConfigs(u)'
  BY <1>1, <1>2, ArraysTyped, OthersAtConfigs
<1> QED
  BY <1>3, <1>4, <1>5, ConfigsJoin

LEMMA ConfigsMapped ==
  ASSUME DisplayInv, ConfigsOK, NEW t \in Thread, MapConfig(t)
  PROVE  ConfigsOK'
<1> USE InvParts
<1>1. PICK c \in call[t].todo, ok \in BOOLEAN :
        /\ pc[t] = "addConfig" /\ c \in Config /\ AddConfig(t, c, ok)
        /\ \/ HasReturned(t) /\ ~ok /\ UNCHANGED given
           \/ HasReturned(t) /\ ok /\ call[t].todo = {c} /\ given' = given \cup call[t].array
           \/ /\ ok /\ HasVendor(t, "addConfig", call[t].vendor) /\ UNCHANGED given
              /\ call'[t].todo = call[t].todo \ {c} /\ call'[t].array = call[t].array
  BY MapConfigMoves
<1>2. Moved(t) /\ UNCHANGED glvnd
  BY <1>1 DEF HasReturned, HasVendor, MapConfig
<1>3. /\ call[t].vendor = ScreenVendor(call[t].screen) /\ call[t].vendor # None
      /\ \A k \in call[t].array : ConfigVendor[k] = call[t].vendor
      /\ \A k \in call[t].array \ call[t].todo : configs[k] # None
      /\ c \in call[t].array /\ call[t].todo \subseteq call[t].array
  <2>1. c \in call[t].array /\ ConfigVendor[c] \in Vendor
    BY <1>1, ConfigsSplit, ConstantsAssumption DEF AtConfigs
  <2> QED
    BY <1>1, <2>1, ConfigsSplit, ConstantsAssumption DEF AtConfigs
<1>4. /\ \A k \in Config : configs'[k] = configs[k] \/ (k = c /\ configs'[k] = call[t].vendor)
      /\ \A k \in Config : configs[k] # None => configs'[k] = configs[k]
      /\ ok => configs'[c] # None
  BY <1>1, <1>3 DEF AddConfig, DataOK
<1>5. \A k \in Config : configs'[k] \in {None, ConfigVendor[k]}
  BY <1>3, <1>4, ConfigsSplit DEF Recorded
<1>6. ok => \A k \in call[t].array \ (call[t].todo \ {c}) : configs'[k] # None
  BY <1>3, <1>4, ArraysTyped
<1>7. \A k \in given' : configs'[k] # None
  <2>1. \A k \in given : configs'[k] # None
    BY <1>4, ConfigsSplit DEF Recorded, DataOK
  <2> QED
    BY <1>1, <1>6, <2>1
<1>8. AtConfigs(t)'
  <2>1. CASE HasReturned(t)
    BY <2>1 DEF HasReturned, AtConfigs
  <2>2. CASE /\ ok /\ HasVendor(t, "addConfig", call[t].vendor)
             /\ call'[t].todo = call[t].todo \ {c} /\ call'[t].array = call[t].array
    <3>1. call'[t].screen = call[t].screen /\ call'[t].vendor = call[t].vendor
      BY <2>2 DEF HasVendor, Same
    <3> QED
      BY <1>2, <1>3, <1>6, <2>2, <3>1, ScreenVendorKept DEF AtConfigs
  <2> QED
    BY <1>1, <2>1, <2>2
<1>9. \A u \in Thread \ {t} : AtConfigs(u)'
  BY <1>2, <1>4, ArraysTyped, OthersAtConfigs
<1> QED
  BY <1>5, <1>7, <1>8, <1>9, ConfigsJoin DEF Recorded

LEMMA ConfigsGone ==
  ASSUME DisplayInv, ConfigsOK, NEW t \in Thread, DisplayGone(t)
  PROVE  ConfigsOK'
<1>1. HasReturned(t)
  BY InvParts, DisplayGoneMoves
<1>2. UNCHANGED <<configs, given, glvnd>>
  BY DEF DisplayGone
<1> QED
  BY <1>1, <1>2, ConfigsKeep DEF HasReturned

LEMMA ConfigsStep ==
  ASSUME DisplayInv, ~LateHook, ConfigsOK, [Next]_vars
  PROVE  ConfigsOK'
<1>1. ASSUME NEW t \in Thread, Begin(t)
      PROVE  ConfigsOK'
  BY <1>1, ConfigsBegin
<1>2. ASSUME NEW t \in Thread, Step(t)
      PROVE  ConfigsOK'
  BY <1>2, ConfigsOther, ConfigsLookup, ConfigsReturned, ConfigsMapped, ConfigsGone DEF Step
<1>3. CASE \/ UNCHANGED vars \/ \E d \in Display : OpenDisplay(d)
           \/ \E d \in Display, x \in Xid : ForeignDrawable(d, x)
  <2>1. UNCHANGED <<pc, call, configs, given, glvnd>>
    BY <1>3 DEF vars, threadVars, outsideVars, OpenDisplay, ForeignDrawable
  <2> QED
    BY <2>1, ScreenVendorKept DEF ConfigsOK
<1> QED
  BY <1>1, <1>2, <1>3 DEF Next

-----------------------------------------------------------------------------
(* The client strings of a display.                                        *)

AtStrings == {"merge", "unlock", "giveUp", "answer"}

\* No string is changed; new structures have none.
MergedKept ==
  \A i \in Id : info'[i] # None =>
    IF info[i] = None THEN info'[i].merged = 0
    ELSE info'[i].merged = info[i].merged /\ info'[i].dpy = info[i].dpy

LEMMA AtStringsInformed ==
  ASSUME DisplayInv, NEW t \in Thread, pc[t] \in AtStrings
  PROVE  /\ call[t].info \in Id /\ info[call[t].info] \in Info /\ info[call[t].info] # None
         /\ info[call[t].info].dpy = call[t].dpy
<1>1. call[t].info # None
  BY InvParts DEF CallsOK, CallOK, Doing, AtStrings
<1> QED
  BY <1>1, Informed, ConstantsAssumption

\* What StringsOK says of a thread.
StringOK(u) ==
  /\ (stringLock = u) = (pc[u] \in {"merge", "unlock", "giveUp"})
  /\ pc[u] = "merge" => info[call[u].info].merged < Cardinality(ScreensOf(call[u].dpy))
  /\ pc[u] = "giveUp" => info[call[u].info].merged = 0
  /\ pc[u] \in {"unlock", "answer"} =>
       info[call[u].info].merged = Cardinality(ScreensOf(call[u].dpy))

LEMMA StringsSplit == StringsOK => \A u \in Thread : StringOK(u)
BY DEF StringsOK, StringOK

LEMMA StringsJoin ==
  ASSUME \A u \in Thread : StringOK(u)',
         \A i \in Id : info'[i] # None =>
           \/ info'[i].merged \in {0, Cardinality(ScreensOf(info'[i].dpy))}
           \/ \E u \in Thread : pc'[u] = "merge" /\ call'[u].info = i
  PROVE  StringsOK'
BY DEF StringsOK, StringOK, ScreensOf

LEMMA StringsKeep ==
  ASSUME DisplayInv, DisplayInv', StringsOK, NEW t \in Thread, Moved(t), UNCHANGED stringLock,
         MergedKept, pc[t] \notin AtStrings, pc'[t] \notin AtStrings
  PROVE  StringsOK'
<1>1. \A u \in Thread \ {t} : pc'[u] = pc[u] /\ call'[u] = call[u]
  BY DEF Moved
<1>2. ASSUME NEW u \in Thread, pc'[u] \in AtStrings
      PROVE  /\ u # t /\ pc'[u] = pc[u] /\ call'[u] = call[u]
             /\ info'[call[u].info].merged = info[call[u].info].merged
  <2>1. u # t
    BY <1>2
  <2>2. call[u].info \in Id /\ info[call[u].info] # None /\ pc'[u] = pc[u] /\ call'[u] = call[u]
    BY <1>1, <1>2, <2>1, AtStringsInformed
  <2>3. info'[call[u].info] # None
    <3>1. call'[u].info # None
      BY <2>2, ConstantsAssumption
    <3> QED
      BY <2>2, <3>1 DEF DisplayInv, OneInfo
  <2> QED
    BY <2>1, <2>2, <2>3 DEF MergedKept
<1>4. ASSUME NEW i \in Id, info'[i] # None
      PROVE  \/ info'[i].merged \in {0, Cardinality(ScreensOf(info'[i].dpy))}
             \/ \E u \in Thread : pc'[u] = "merge" /\ call'[u].info = i
  <2>1. CASE info[i] = None
    BY <1>4, <2>1 DEF MergedKept
  <2>2. CASE info[i] # None
    <3>1. \/ info[i].merged \in {0, Cardinality(ScreensOf(info[i].dpy))}
          \/ \E u \in Thread : pc[u] = "merge" /\ call[u].info = i
      BY <2>2 DEF StringsOK
    <3>2. \A u \in Thread : pc[u] = "merge" => u # t
      BY DEF AtStrings
    <3> QED
      BY <1>1, <1>4, <2>2, <3>1, <3>2 DEF MergedKept
  <2> QED
    BY <2>1, <2>2
<1>5. ASSUME NEW u \in Thread
      PROVE  StringOK(u)'
  <2>1. StringOK(u)
    BY StringsSplit
  <2>2. CASE u = t
    BY <2>1, <2>2 DEF StringOK, AtStrings
  <2>3. CASE u # t
    <3>1. pc'[u] = pc[u] /\ call'[u] = call[u]
      BY <1>1, <2>3
    <3>2. CASE pc[u] \in AtStrings
      BY <1>2, <2>1, <3>1, <3>2 DEF StringOK, ScreensOf
    <3>3. CASE pc[u] \notin AtStrings
      BY <2>1, <3>1, <3>3 DEF StringOK, AtStrings
    <3> QED
      BY <3>2, <3>3
  <2> QED
    BY <2>2, <2>3
<1> QED
  BY <1>4, <1>5, StringsJoin

LEMMA MergedUnchanged ==
  ASSUME UNCHANGED info
  PROVE  MergedKept
BY DEF MergedKept

LEMMA MergedXid ==
  ASSUME NEW i \in Id, NEW x, NEW v, info[i] # None, XidSet(i, x, v)
  PROVE  MergedKept
BY DEF MergedKept, XidSet

\* The steps of the other functions.
StringsIdle(t) ==
  /\ Moved(t) /\ UNCHANGED stringLock /\ MergedKept
  /\ pc[t] \notin AtStrings /\ pc'[t] \notin AtStrings

LEMMA LookupStrings ==
  ASSUME DisplayInv, NEW t \in Thread, FindDisplay(t) \/ BuildInfo(t) \/ InstallInfo(t)
  PROVE  StringsIdle(t)
<1> USE InvParts
<1>0. ASSUME NEW i, HasFound(t, i)
      PROVE  Moved(t) /\ pc'[t] \notin AtStrings
  BY <1>0 DEF HasFound, Nexts, AtStrings
<1>1. CASE FindDisplay(t)
  <2>1. UNCHANGED <<info, stringLock>>
    BY <1>1 DEF FindDisplay, tableVars
  <2>2. pc[t] = "find" /\ Moved(t) /\ pc'[t] \notin AtStrings
    BY <1>0, <1>1, FindDisplayMoves DEF HasGoneOn, AtStrings
  <2> QED
    BY <2>1, <2>2, MergedUnchanged DEF StringsIdle, AtStrings
<1>2. CASE BuildInfo(t)
  <2>0. \E i \in Id : info[i] = None
    BY <1>2, RoomForInfo DEF BuildInfo
  <2>1. UNCHANGED stringLock
    BY <1>2 DEF BuildInfo
  <2>2. CASE HasFound(t, None) /\ UNCHANGED info
    <3>1. pc[t] = "build" /\ Moved(t) /\ pc'[t] \notin AtStrings
      BY <1>0, <1>2, <2>0, <2>2, BuildInfoMoves
    <3> QED
      BY <2>1, <2>2, <3>1, MergedUnchanged DEF StringsIdle, AtStrings
  <2>3. ASSUME NEW i \in Id, info[i] = None, info' = [info EXCEPT ![i] = NewInfo(call[t].dpy)],
               Moved(t), pc'[t] = "install", pc[t] = "build", call[t].dpy \in Display
        PROVE  StringsIdle(t)
    <3>1. \A j \in Id : info'[j] = IF j = i THEN NewInfo(call[t].dpy) ELSE info[j]
      BY <2>3 DEF DataOK
    <3>2. MergedKept
      BY <2>3, <3>1, NewInfoTyped DEF MergedKept
    <3> QED
      BY <2>1, <2>3, <3>2 DEF StringsIdle, AtStrings
  <2> QED
    BY <1>2, <2>0, <2>2, <2>3, BuildInfoMoves
<1>3. CASE InstallInfo(t)
  <2>1. UNCHANGED stringLock
    BY <1>3 DEF InstallInfo
  <2>2. /\ pc[t] = "install" /\ Moved(t) /\ pc'[t] \notin AtStrings /\ call[t].mine \in Id
        /\ UNCHANGED info \/ info' = [info EXCEPT ![call[t].mine] = None]
    BY <1>0, <1>3, InstallInfoMoves
  <2>3. MergedKept
    BY <2>2 DEF MergedKept, DataOK
  <2> QED
    BY <2>1, <2>2, <2>3 DEF StringsIdle, AtStrings
<1> QED
  BY <1>1, <1>2, <1>3

LEMMA ConfigStrings ==
  ASSUME DisplayInv, NEW t \in Thread,
         \/ Done(t) \/ LookupVendorByScreen(t) \/ MapConfig(t)
         \/ \E cs \in SUBSET Config : VendorConfigs(t, cs)
  PROVE  StringsIdle(t)
<1> USE InvParts, MergedUnchanged DEF StringsIdle, AtStrings, HasReturned, HasVendor
<1>1. CASE Done(t)
  <2>1. UNCHANGED <<info, stringLock>>
    BY <1>1 DEF Done, tableVars
  <2> QED
    BY <1>1, <2>1, DoneMoves
<1>2. CASE LookupVendorByScreen(t)
  <2>1. UNCHANGED <<info, stringLock>>
    BY <1>2 DEF LookupVendorByScreen, tableVars
  <2> QED
    BY <1>2, <2>1, LookupVendorByScreenMoves
<1>3. CASE MapConfig(t)
  <2>1. UNCHANGED <<info, stringLock>>
    BY <1>3 DEF MapConfig, tableVars
  <2> QED
    BY <1>3, <2>1, MapConfigMoves
<1>4. ASSUME NEW cs \in SUBSET Config, VendorConfigs(t, cs)
      PROVE  StringsIdle(t)
  <2>1. UNCHANGED <<info, stringLock>>
    BY <1>4, VendorConfigsKeeps
  <2> QED
    BY <1>4, <2>1, VendorConfigsMoves
<1> QED
  BY <1>1, <1>2, <1>3, <1>4

LEMMA DrawableStrings ==
  ASSUME DisplayInv, NEW t \in Thread,
         \/ VendorCreates(t) \/ MapDrawable(t) \/ DrawableVendor(t) \/ QueryScreen(t)
         \/ RememberVendor(t) \/ UnmapDrawable(t) \/ CallVendor(t)
  PROVE  StringsIdle(t)
<1> USE InvParts, MergedUnchanged
    DEF StringsIdle, AtStrings, HasReturned, HasVendor, LooksUpAgain, HasGoneOn
<1>a. call[t].info # None => call[t].info \in Id /\ info[call[t].info] \in Info /\ info[call[t].info] # None
  BY Informed, ConstantsAssumption
<1>b. ASSUME NEW x \in Xid, NEW v \in Vendor \cup {None}, NEW ok \in BOOLEAN, call[t].info # None,
             AddXid(call[t].info, x, v, ok)
      PROVE  MergedKept
  <2>1. XidAdded(call[t].info, x, v, ok)
    BY <1>a, <1>b, AddsXid
  <2> QED
    BY <1>a, <1>b, <2>1, MergedXid DEF XidAdded
<1>1. CASE VendorCreates(t)
  <2>1. UNCHANGED <<info, stringLock>>
    BY <1>1 DEF VendorCreates, tableVars
  <2> QED
    BY <1>1, <2>1, VendorCreatesMoves
<1>2. CASE MapDrawable(t)
  <2>1. UNCHANGED stringLock /\ \E ok \in BOOLEAN :
          IF call[t].info = None THEN UNCHANGED info
          ELSE AddXid(call[t].info, call[t].xid, call[t].vendor, ok)
    BY <1>2 DEF MapDrawable
  <2>2. /\ pc[t] = "map" /\ HasReturned(t) /\ call[t].xid \in Xid
        /\ call[t].vendor \in Vendor \cup {None}
    BY <1>2, MapDrawableMoves
  <2> QED
    BY <1>b, <2>1, <2>2
<1>3. CASE DrawableVendor(t)
  <2>1. UNCHANGED <<info, stringLock>>
    BY <1>3 DEF DrawableVendor, tableVars
  <2> QED
    BY <1>3, <1>a, <2>1, DrawableVendorMoves
<1>4. CASE QueryScreen(t)
  <2>1. UNCHANGED <<info, stringLock>>
    BY <1>4 DEF QueryScreen, tableVars
  <2> QED
    BY <1>4, <2>1, QueryScreenMoves
<1>5. CASE RememberVendor(t)
  <2>1. UNCHANGED stringLock
    BY <1>5 DEF RememberVendor
  <2>2. /\ pc[t] = "remember" /\ WithXid(call[t]) /\ call[t].info \in Id
        /\ HasVendor(t, IF call[t].op = "destroy" THEN "unmap" ELSE "vendor", call[t].vendor)
        /\ \E ok \in BOOLEAN : AddXid(call[t].info, call[t].xid, call[t].vendor, ok)
    BY <1>5, RememberVendorMoves
  <2>3. MergedKept
    BY <1>b, <2>2, ConstantsAssumption DEF WithXid
  <2> QED
    BY <2>1, <2>2, <2>3
<1>6. CASE UnmapDrawable(t)
  <2>1. UNCHANGED stringLock
    BY <1>6 DEF UnmapDrawable
  <2>2. pc[t] = "unmap" /\ WithXid(call[t]) /\ call[t].info \in Id /\ HasGoneOn(t, "vendor")
    BY <1>6, UnmapDrawableMoves
  <2>3. call[t].info # None /\ call[t].xid \in Xid
    BY <2>2, ConstantsAssumption DEF WithXid
  <2>4. XidSet(call[t].info, call[t].xid, None)
    BY <1>a, <1>6, <2>3, SetXid DEF UnmapDrawable, RemoveXid
  <2>5. MergedKept
    BY <1>a, <2>3, <2>4, MergedXid
  <2> QED
    BY <2>1, <2>2, <2>5
<1>7. CASE CallVendor(t)
  <2>1. UNCHANGED <<info, stringLock>>
    BY <1>7 DEF CallVendor, tableVars
  <2> QED
    BY <1>7, <2>1, CallVendorMoves
<1> QED
  BY <1>1, <1>2, <1>3, <1>4, <1>5, <1>6, <1>7

\* The display that is closed is in the table.
LEMMA ClosingListed ==
  ASSUME DisplayInv, NEW t \in Thread, OnDisplayClosed(t)
  PROVE  call[t].dpy \in Display /\ table[call[t].dpy] \in Id /\ info[table[call[t].dpy]] \in Info
<1>1. call[t].op = "close"
  BY DEF OnDisplayClosed
<1> QED
  BY <1>1, ClosesAlone, InvSplit, Listed DEF Alone

\* Only one field of a structure changes when a display is about to be closed.
LEMMA ClosingInfo ==
  ASSUME DisplayInv, NEW t \in Thread, OnDisplayClosed(t)
  PROVE  \A i \in Id : info[i] # None =>
           info'[i].dpy = info[i].dpy /\ info'[i].merged = info[i].merged /\ info'[i].xids = info[i].xids
<1> DEFINE i == table[call[t].dpy]
<1>0. i \in Id /\ info[i] \in Info
  BY ClosingListed
<1>1. i \in Id /\ info[i] \in Info /\ info' = [info EXCEPT ![i].closing = TRUE]
  BY <1>0 DEF OnDisplayClosed
<1> HIDE DEF i
<1>2. PICK r : r = [info[i] EXCEPT !.closing = TRUE]
  OBVIOUS
<1>3. r.dpy = info[i].dpy /\ r.merged = info[i].merged /\ r.xids = info[i].xids
  BY <1>1, <1>2 DEF Info
<1>4. info' = [info EXCEPT ![i] = r]
  BY <1>1, <1>2
<1> QED
  BY <1>1, <1>3, <1>4, InvParts DEF DataOK

LEMMA CloseStrings ==
  ASSUME DisplayInv, NEW t \in Thread, OnDisplayClosed(t) \/ ForgetDisplay(t) \/ DisplayGone(t)
  PROVE  StringsIdle(t)
<1> USE InvParts, MergedUnchanged DEF StringsIdle, AtStrings, HasReturned
<1>1. CASE OnDisplayClosed(t)
  <2>1. UNCHANGED stringLock
    BY <1>1 DEF OnDisplayClosed
  <2>0. table[call[t].dpy] \in Id /\ info[table[call[t].dpy]] \in Info
    BY <1>1, ClosingListed
  <2>2. /\ pc[t] = "hooks" /\ Moved(t) /\ pc'[t] = "closing"
        /\ info' = [info EXCEPT ![table[call[t].dpy]].closing = TRUE]
    BY <1>1, <2>0, OnDisplayClosedMoves
  <2>3. \A i \in Id : info[i] = None => info'[i] = None
    BY <2>0, <2>2, ConstantsAssumption DEF DataOK
  <2>4. MergedKept
    BY <1>1, <2>3, ClosingInfo DEF MergedKept
  <2> QED
    BY <2>1, <2>2, <2>4
<1>2. CASE ForgetDisplay(t)
  <2>1. UNCHANGED stringLock /\ info' = [info EXCEPT ![call[t].mine] = None]
    BY <1>2 DEF ForgetDisplay
  <2>2. MergedKept
    BY <2>1 DEF MergedKept, DataOK
  <2> QED
    BY <1>2, <2>1, <2>2, ForgetDisplayMoves
<1>3. CASE DisplayGone(t)
  <2>1. UNCHANGED <<info, stringLock>>
    BY <1>3 DEF DisplayGone, tableVars
  <2> QED
    BY <1>3, <2>1, DisplayGoneMoves
<1> QED
  BY <1>1, <1>2, <1>3

LEMMA StringNumbers ==
  ASSUME DisplayInv, NEW t \in Thread, pc[t] \in AtStrings \cup {"strings"}
  PROVE  /\ Cardinality(ScreensOf(call[t].dpy)) \in Nat /\ Cardinality(ScreensOf(call[t].dpy)) > 1
         /\ call[t].info # None => info[call[t].info].merged \in Nat
<1>1. call[t].op = "string"
  BY InvParts DEF CallsOK, CallOK, Doing, AtStrings
<1>2. Cardinality(ScreensOf(call[t].dpy)) > 1
  BY <1>1, InvParts DEF CallsOK, CallOK
<1>3. ScreensOf(call[t].dpy) \subseteq Screen
  BY DEF ScreensOf
<1>4. Cardinality(ScreensOf(call[t].dpy)) \in Nat
  BY <1>3, FS_Subset, FS_CardinalityType, ConstantsAssumption
<1>5. call[t].info # None => info[call[t].info].merged \in Nat
  BY Informed DEF Info
<1> QED
  BY <1>2, <1>4, <1>5

LEMMA LockStringsStep ==
  ASSUME DisplayInv, DisplayInv', StringsOK, NEW t \in Thread, LockStrings(t)
  PROVE  StringsOK'
<1> USE InvParts
<1>0. UNCHANGED info
  BY DEF LockStrings, tableVars
<1>1. /\ pc[t] = "strings"
      /\ \/ HasReturned(t) /\ UNCHANGED stringLock
         \/ /\ call[t].info \in Id /\ stringLock = None /\ stringLock' = t
            /\ HasGoneOn(t, IF info[call[t].info].merged > 0 THEN "unlock" ELSE "merge")
  BY LockStringsMoves
<1>2. CASE HasReturned(t) /\ UNCHANGED stringLock
  BY <1>0, <1>1, <1>2, MergedUnchanged, StringsKeep DEF HasReturned, AtStrings
<1>3. CASE /\ call[t].info \in Id /\ stringLock = None /\ stringLock' = t
           /\ HasGoneOn(t, IF info[call[t].info].merged > 0 THEN "unlock" ELSE "merge")
  <2> DEFINE i == call[t].info
             all == Cardinality(ScreensOf(call[t].dpy))
  <2>1. \A u \in Thread \ {t} : pc'[u] = pc[u] /\ call'[u] = call[u]
    BY <1>3 DEF HasGoneOn, Moved
  <2>2. \A u \in Thread : pc[u] \notin {"merge", "unlock", "giveUp"}
    BY <1>3, ConstantsAssumption DEF StringsOK
  <2>3. i # None /\ info[i] # None /\ info[i].dpy = call[t].dpy /\ info[i].merged \in Nat
    BY <1>1, <1>3, Informed, StringNumbers, ConstantsAssumption
  <2>4. info[i].merged \in {0, all}
    BY <1>3, <2>2, <2>3 DEF StringsOK
  <2>5. all \in Nat /\ all > 1
    BY <1>1, StringNumbers
  <2>6. /\ call'[t] = call[t] /\ pc'[t] \in {"merge", "unlock"}
        /\ pc'[t] = "merge" => info'[call'[t].info].merged < Cardinality(ScreensOf(call'[t].dpy))
        /\ pc'[t] = "unlock" => info'[call'[t].info].merged = Cardinality(ScreensOf(call'[t].dpy))
    <3>1. CASE info[i].merged = 0
      BY <1>0, <1>3, <2>5, <3>1 DEF HasGoneOn
    <3>2. CASE info[i].merged = all
      BY <1>0, <1>3, <2>5, <3>2 DEF HasGoneOn
    <3> QED
      BY <2>4, <3>1, <3>2
  <2>7. ASSUME NEW u \in Thread
        PROVE  StringOK(u)'
    <3>1. CASE u = t
      BY <1>3, <2>6, <3>1 DEF StringOK, ScreensOf
    <3>2. CASE u # t
      BY <1>0, <1>3, <2>1, <2>2, <3>2, StringsSplit DEF StringOK, ScreensOf
    <3> QED
      BY <3>1, <3>2
  <2>8. \A j \in Id : info'[j] # None => info'[j].merged \in {0, Cardinality(ScreensOf(info'[j].dpy))}
    BY <1>0, <2>2 DEF StringsOK
  <2> QED
    BY <2>7, <2>8, StringsJoin
<1> QED
  BY <1>1, <1>2, <1>3

LEMMA MergeStringStep ==
  ASSUME DisplayInv, StringsOK, NEW t \in Thread, MergeString(t)
  PROVE  StringsOK'
<1> DEFINE i == call[t].info
           all == Cardinality(ScreensOf(call[t].dpy))
           n == info[i].merged + 1
<1>0. UNCHANGED stringLock
  BY DEF MergeString
<1>1. pc[t] = "merge" /\ Moved(t) /\ call'[t] = call[t]
  BY InvParts, MergeStringMoves DEF HasGoneOn
<1>2. /\ i \in Id /\ info[i] # None /\ info[i].dpy = call[t].dpy
      /\ all \in Nat /\ all > 1 /\ info[i].merged \in Nat
  BY <1>1, AtStringsInformed, StringNumbers, ConstantsAssumption DEF AtStrings
<1>3. /\ \A j \in Id \ {i} : info'[j] = info[j]
      /\ info'[i] \in Info /\ info'[i].dpy = info[i].dpy
      /\ \/ info'[i].merged = n /\ pc'[t] = IF n = all THEN "unlock" ELSE "merge"
         \/ info'[i].merged = 0 /\ pc'[t] = "giveUp"
  BY MergeStringTyped DEF HasGoneOn
<1>4. info[i].merged < all /\ stringLock = t
  BY <1>1, StringsSplit DEF StringOK
<1>5. \A u \in Thread \ {t} : pc'[u] = pc[u] /\ call'[u] = call[u]
  BY <1>1 DEF Moved
<1> HIDE DEF n, all
<1>a. n = info[i].merged + 1 /\ all = Cardinality(ScreensOf(call[t].dpy))
  BY DEF n, all
<1>b. n # all => n < all
  BY <1>2, <1>4, <1>a
<1>c. StringOK(t)'
  BY <1>0, <1>1, <1>3, <1>4, <1>a, <1>b DEF StringOK, ScreensOf
<1>6. ASSUME NEW u \in Thread
      PROVE  StringOK(u)'
  <2>1. CASE u = t
    BY <1>c, <2>1
  <2>2. CASE u # t
    <3>1. pc'[u] = pc[u] /\ call'[u] = call[u] /\ pc[u] \notin {"merge", "unlock", "giveUp"}
      BY <1>4, <1>5, <2>2, StringsSplit DEF StringOK
    <3>2. CASE pc[u] = "answer"
      <4>1. call[u].info \in Id /\ info[call[u].info].dpy = call[u].dpy
        BY <3>2, AtStringsInformed DEF AtStrings
      <4>2. info[call[u].info].merged = Cardinality(ScreensOf(call[u].dpy))
        BY <3>2, StringsSplit DEF StringOK
      <4>3. call[u].info # i
        BY <1>2, <1>4, <1>a, <4>1, <4>2
      <4> QED
        BY <1>0, <1>3, <1>4, <2>2, <3>1, <3>2, <4>1, <4>2, <4>3 DEF StringOK, ScreensOf
    <3> QED
      BY <1>0, <1>4, <2>2, <3>1, <3>2 DEF StringOK
  <2> QED
    BY <2>1, <2>2
<1>7. ASSUME NEW j \in Id, info'[j] # None
      PROVE  \/ info'[j].merged \in {0, Cardinality(ScreensOf(info'[j].dpy))}
             \/ \E u \in Thread : pc'[u] = "merge" /\ call'[u].info = j
  <2>1. CASE j = i
    BY <1>1, <1>2, <1>3, <1>a, <2>1
  <2>2. CASE j # i
    <3>1. \A u \in Thread : pc[u] = "merge" => call[u].info = i
      BY <1>4, StringsSplit DEF StringOK
    <3>2. info[j].merged \in {0, Cardinality(ScreensOf(info[j].dpy))}
      BY <1>3, <1>7, <2>2, <3>1 DEF StringsOK
    <3> QED
      BY <1>3, <2>2, <3>2
  <2> QED
    BY <2>1, <2>2
<1> QED
  BY <1>6, <1>7, StringsJoin

LEMMA UnlockStringsStep ==
  ASSUME DisplayInv, StringsOK, NEW t \in Thread, UnlockStrings(t) \/ ReturnString(t)
  PROVE  StringsOK'
<1>0. UNCHANGED info
  BY DEF UnlockStrings, ReturnString, tableVars
<1>1. \A u \in Thread \ {t} : pc'[u] = pc[u] /\ call'[u] = call[u]
  BY InvParts, UnlockStringsMoves, ReturnStringMoves DEF HasGoneOn, HasReturned, Moved
<1>2. \/ /\ stringLock' = None /\ call'[t] = call[t]
         /\ \/ pc[t] = "unlock" /\ pc'[t] = "answer"
            \/ pc[t] = "giveUp" /\ pc'[t] = "reread"
      \/ pc[t] \in {"answer", "reread"} /\ pc'[t] = "idle" /\ UNCHANGED stringLock
  <2>1. CASE UnlockStrings(t)
    <3>1. stringLock' = None
      BY <2>1 DEF UnlockStrings
    <3> QED
      BY <2>1, <3>1, InvParts, UnlockStringsMoves DEF HasGoneOn
  <2>2. CASE ReturnString(t)
    <3>1. UNCHANGED stringLock
      BY <2>2 DEF ReturnString
    <3> QED
      BY <2>2, <3>1, InvParts, ReturnStringMoves DEF HasReturned
  <2> QED
    BY <2>1, <2>2
<1>3. ASSUME NEW u \in Thread
      PROVE  StringOK(u)'
  <2>0. StringOK(u) /\ StringOK(t)
    BY StringsSplit
  <2>1. None \notin Thread
    BY ConstantsAssumption
  <2>2. CASE u = t
    BY <1>0, <1>2, <2>0, <2>1, <2>2 DEF StringOK, ScreensOf
  <2>3. CASE u # t
    BY <1>0, <1>1, <1>2, <2>0, <2>1, <2>3 DEF StringOK, ScreensOf
  <2> QED
    BY <2>2, <2>3
<1>4. ASSUME NEW j \in Id, info'[j] # None
      PROVE  \/ info'[j].merged \in {0, Cardinality(ScreensOf(info'[j].dpy))}
             \/ \E u \in Thread : pc'[u] = "merge" /\ call'[u].info = j
  BY <1>0, <1>1, <1>2, <1>4 DEF StringsOK
<1> QED
  BY <1>3, <1>4, StringsJoin

LEMMA StringsStep ==
  ASSUME DisplayInv, DisplayInv', ~LateHook, StringsOK, [Next]_vars
  PROVE  StringsOK'
<1>0. ASSUME NEW t \in Thread, StringsIdle(t)
      PROVE  StringsOK'
  BY <1>0, StringsKeep DEF StringsIdle
<1>1. ASSUME NEW t \in Thread, Begin(t)
      PROVE  StringsOK'
  <2>1. /\ Moved(t) /\ pc[t] \notin AtStrings /\ pc'[t] \notin AtStrings
        /\ UNCHANGED <<info, stringLock>>
    BY <1>1, InvParts, BeginMoves, BeginKeeps DEF AtStrings
  <2> QED
    BY <1>0, <2>1, MergedUnchanged DEF StringsIdle
<1>2. ASSUME NEW t \in Thread, Step(t)
      PROVE  StringsOK'
  BY <1>0, <1>2, LookupStrings, ConfigStrings, DrawableStrings, CloseStrings, LockStringsStep,
     MergeStringStep, UnlockStringsStep DEF Step
<1>3. CASE \/ UNCHANGED vars \/ \E d \in Display : OpenDisplay(d)
           \/ \E d \in Display, x \in Xid : ForeignDrawable(d, x)
  <2>1. UNCHANGED <<pc, call, info, stringLock>>
    BY <1>3 DEF vars, threadVars, tableVars, OpenDisplay, ForeignDrawable
  <2> QED
    BY <2>1 DEF StringsOK, ScreensOf
<1> QED
  BY <1>1, <1>2, <1>3 DEF Next

\* A call of glXGetClientString whose own attempt to merge the strings has not failed returns
\* those of all vendors of the display, and never one that another thread is about to free,
\* although merges fail half-way in any thread (libglx.c:1417, 1426, 1457).  A call that has
\* failed itself is not covered: it reads what others are merging.  No hook calls GLX after
\* libGLX's own.
THEOREM StringInvariant == ASSUME ~LateHook PROVE Spec => []StringComplete
<1>1. Init => StringsOK
  BY ConstantsAssumption DEF Init, StringsOK
<1>2. DisplayInv /\ DisplayInv' /\ StringsOK /\ [Next]_vars => StringsOK'
  BY StringsStep
<1>3. Spec => []DisplayInv
  BY DisplayInvariant
<1>4. StringsOK => StringComplete
  BY DEF StringsOK, StringComplete
<1> QED
  BY <1>1, <1>2, <1>3, <1>4, PTL DEF Spec

-----------------------------------------------------------------------------
(* The mappings of drawables.                                              *)

\* The vendor that the table of a display has for a drawable, and the one it belongs to.
Known(d, x) == IF table[d] = None THEN None ELSE info[table[d]].xids[x]
Owner(d, x) == ScreenVendor(drawable[<<d, x>>].screen)

Uses(t, d, x) == call[t].dpy = d /\ call[t].xid = x

\* The thread is creating the drawable, is about to destroy it, or closes its display.
Making(t, d, x) ==
  /\ call[t].dpy = d
  /\ \/ call[t].op = "closed"
     \/ call[t].xid = x /\ (call[t].op = "create" \/ (call[t].op = "destroy" /\ pc[t] = "vendor"))

\* The invariants, drawable by drawable and thread by thread.
AtOK(d, x) ==
  /\ Exists(d, x) => drawable[<<d, x>>].screen \in ScreensOf(d)
  /\ Known(d, x) # None => drawable[<<d, x>>] # None /\ (Exists(d, x) => Known(d, x) = Owner(d, x))

MadeOK(d, x) ==
  Exists(d, x) /\ drawable[<<d, x>>].own =>
    Known(d, x) = Owner(d, x) \/ \E t \in Thread : Making(t, d, x)

UserOK(t) ==
  \A d \in Display, x \in Xid : Uses(t, d, x) =>
    /\ drawable[<<d, x>>] # None
    /\ call[t].op \in {"create", "destroy"} => Exists(d, x) /\ drawable[<<d, x>>].own
    /\ call[t].op = "create" => Known(d, x) = None /\ call[t].vendor = Owner(d, x)
    /\ call[t].op = "destroy" /\ pc[t] = "vendor" => Known(d, x) = None
    /\ pc[t] \in {"remember", "unmap", "vendor"} /\ Exists(d, x) => call[t].vendor = Owner(d, x)

Sole(t, u) ==
  \A d \in Display, x \in Xid : Uses(t, d, x) /\ Uses(u, d, x) => call[t].op = "use"

DrawParts ==
  /\ \A d \in Display, x \in Xid : AtOK(d, x) /\ MadeOK(d, x)
  /\ \A t \in Thread : UserOK(t)
  /\ \A t, u \in Thread : t # u => Sole(t, u)

\* Who has an XID has a display, too.
LEMMA Users ==
  ASSUME CallsOK, NEW t \in Thread, call[t].xid # None
  PROVE  /\ call[t].dpy \in Display /\ call[t].xid \in Xid
         /\ call[t].op \in {"create", "use", "destroy"}
         /\ call[t].op = "create" => pc[t] \in {"find", "build", "install", "map"}
<1>1. call[t] \in CallType /\ CallOK(pc[t], call[t])
  BY DEF CallsOK, ThreadOK
<1> QED
  BY <1>1, CallFields, NoCallTyped DEF CallOK, Doing

LEMMA DrawPartsImply ==
  ASSUME DisplayInv, DrawParts
  PROVE  RightVendor /\ OwnDrawablesMapped
<1> USE InvParts
<1>0. ASSUME NEW t \in Thread, call[t].xid # None
      PROVE  /\ call[t].dpy \in Display /\ call[t].xid \in Xid /\ UserOK(t)
             /\ call[t].op \in {"create", "use", "destroy"}
  BY <1>0, Users DEF DrawParts
<1>1. ASSUME NEW d \in Display, NEW x \in Xid
      PROVE  /\ Exists(d, x) => drawable[<<d, x>>].screen \in ScreensOf(d)
             /\ table[d] # None /\ info[table[d]].xids[x] # None =>
                  /\ drawable[<<d, x>>] # None
                  /\ Exists(d, x) => info[table[d]].xids[x] = ScreenVendor(drawable[<<d, x>>].screen)
  BY DEF DrawParts, AtOK, Known, Owner
<1>2. ASSUME NEW t \in Thread, call[t].xid # None
      PROVE  LET c == call[t]
                 new == table[c.dpy] = None \/ info[table[c.dpy]].xids[c.xid] = None
             IN
             /\ drawable[<<c.dpy, c.xid>>] # None
             /\ c.op = "destroy" => Exists(c.dpy, c.xid) /\ drawable[<<c.dpy, c.xid>>].own
             /\ c.op = "create" =>
                  /\ new
                  /\ \E s \in ScreensOf(c.dpy) : drawable[<<c.dpy, c.xid>>] = Own(s) /\ c.vendor = ScreenVendor(s)
             /\ c.op = "destroy" /\ pc[t] = "vendor" => new
             /\ pc[t] \in {"remember", "unmap", "vendor"} /\ Exists(c.dpy, c.xid) =>
                  c.vendor = ScreenVendor(drawable[<<c.dpy, c.xid>>].screen)
  <2> DEFINE d == call[t].dpy
             x == call[t].xid
  <2>1. d \in Display /\ x \in Xid /\ UserOK(t) /\ AtOK(d, x)
    BY <1>0, <1>2 DEF DrawParts
  <2>2. /\ drawable[<<d, x>>] # None
        /\ call[t].op \in {"create", "destroy"} => Exists(d, x) /\ drawable[<<d, x>>].own
        /\ call[t].op = "create" => Known(d, x) = None /\ call[t].vendor = Owner(d, x)
        /\ call[t].op = "destroy" /\ pc[t] = "vendor" => Known(d, x) = None
        /\ pc[t] \in {"remember", "unmap", "vendor"} /\ Exists(d, x) => call[t].vendor = Owner(d, x)
    BY <2>1 DEF UserOK, Uses
  <2>3. call[t].op = "create" => drawable[<<d, x>>] = Own(drawable[<<d, x>>].screen)
    BY <2>1, <2>2 DEF DataOK, Drawable, Own, Exists
  <2>4. call[t].op = "create" => drawable[<<d, x>>].screen \in ScreensOf(d)
    BY <2>1, <2>2 DEF AtOK
  <2> QED
    BY <2>1, <2>2, <2>3, <2>4 DEF Known, Owner
<1>3. \A t \in Thread : pc[t] \in {"remember", "unmap", "vendor"} \/ call[t].op = "destroy" => call[t].xid # None
  BY DEF CallsOK, CallOK, Doing
<1>4. \A t, u \in Thread :
        t # u /\ call[t].dpy = call[u].dpy /\ call[t].xid # None /\ call[t].xid = call[u].xid =>
          call[t].op = "use"
  BY <1>0 DEF DrawParts, Sole, Uses
<1>5. OwnDrawablesMapped
  <2> SUFFICES ASSUME NEW d \in Display, NEW x \in Xid, Exists(d, x), drawable[<<d, x>>].own
               PROVE  \/ \E t \in Thread : Making(t, d, x)
                      \/ /\ table[d] # None
                         /\ info[table[d]].xids[x] = ScreenVendor(drawable[<<d, x>>].screen)
    BY DEF OwnDrawablesMapped, Making
  <2>1. Owner(d, x) # None
    <3>1. drawable[<<d, x>>].screen \in Screen
      BY DrawableScreen
    <3> QED
      BY <3>1, ConstantsAssumption DEF Owner, ScreenVendor
  <2> QED
    BY <2>1 DEF DrawParts, MadeOK, Known, Owner
<1>6. DrawablesOK
  BY <1>1, <1>2, <1>3, <1>4 DEF DrawablesOK
<1> QED
  BY <1>2, <1>3, <1>5, <1>6 DEF RightVendor

\* Nothing happens to the drawable and what is known of it.
SameAt(d, x) == drawable'[<<d, x>>] = drawable[<<d, x>>] /\ Known(d, x)' = Known(d, x)

LEMMA SameState ==
  ASSUME NEW d, NEW x, drawable'[<<d, x>>] = drawable[<<d, x>>], UNCHANGED glvnd
  PROVE  Exists(d, x)' = Exists(d, x) /\ Owner(d, x)' = Owner(d, x)
BY DEF Exists, Owner, ScreenVendor

\* A thread that does not move, and whose drawable is left alone, up to the mapping of one that
\* is only used.
LEMMA UserKeeps ==
  ASSUME NEW u \in Thread, UserOK(u), pc'[u] = pc[u], call'[u] = call[u], UNCHANGED glvnd,
         \A d \in Display, x \in Xid : Uses(u, d, x) =>
           /\ drawable'[<<d, x>>] = drawable[<<d, x>>]
           /\ call[u].op = "use" \/ Known(d, x)' = Known(d, x)
  PROVE  UserOK(u)'
<1> SUFFICES ASSUME NEW d \in Display, NEW x \in Xid, Uses(u, d, x)'
             PROVE  /\ drawable'[<<d, x>>] # None
                    /\ call'[u].op \in {"create", "destroy"} => Exists(d, x)' /\ drawable'[<<d, x>>].own
                    /\ call'[u].op = "create" => Known(d, x)' = None /\ call'[u].vendor = Owner(d, x)'
                    /\ call'[u].op = "destroy" /\ pc'[u] = "vendor" => Known(d, x)' = None
                    /\ pc'[u] \in {"remember", "unmap", "vendor"} /\ Exists(d, x)' =>
                         call'[u].vendor = Owner(d, x)'
  BY DEF UserOK
<1>1. Uses(u, d, x)
  BY DEF Uses
<1>2. drawable'[<<d, x>>] = drawable[<<d, x>>] /\ (call[u].op = "use" \/ Known(d, x)' = Known(d, x))
  BY <1>1
<1>3. Exists(d, x)' = Exists(d, x) /\ Owner(d, x)' = Owner(d, x)
  BY <1>2, SameState
<1> QED
  BY <1>1, <1>2, <1>3 DEF UserOK

\* A step of a thread that does something to the drawables in E.
LEMMA DrawStep ==
  ASSUME DrawParts, NEW t \in Thread, Moved(t), UNCHANGED glvnd, NEW E,
         \A d \in Display, x \in Xid : <<d, x>> \notin E =>
           SameAt(d, x) /\ (Making(t, d, x) => Making(t, d, x)'),
         \A d \in Display, x \in Xid : <<d, x>> \in E => AtOK(d, x)' /\ MadeOK(d, x)',
         \A u \in Thread \ {t}, d \in Display, x \in Xid :
           Uses(u, d, x) /\ <<d, x>> \in E =>
             drawable'[<<d, x>>] = drawable[<<d, x>>] /\ call[u].op = "use",
         UserOK(t)',
         \A u \in Thread \ {t} : Sole(t, u)' /\ Sole(u, t)'
  PROVE  DrawParts'
<1>0. \A u \in Thread \ {t} : pc'[u] = pc[u] /\ call'[u] = call[u]
  BY DEF Moved
<1>1. ASSUME NEW d \in Display, NEW x \in Xid
      PROVE  AtOK(d, x)' /\ MadeOK(d, x)'
  <2>1. CASE <<d, x>> \in E
    BY <2>1
  <2>2. CASE <<d, x>> \notin E
    <3>1. AtOK(d, x) /\ MadeOK(d, x) /\ SameAt(d, x)
      BY <2>2 DEF DrawParts
    <3>2. Exists(d, x)' = Exists(d, x) /\ Owner(d, x)' = Owner(d, x)
      BY <3>1, SameState DEF SameAt
    <3>3. AtOK(d, x)'
      BY <3>1, <3>2 DEF AtOK, SameAt, ScreensOf
    <3>4. ASSUME NEW u \in Thread, Making(u, d, x)
          PROVE  Making(u, d, x)'
      BY <1>0, <2>2, <3>4 DEF Making
    <3>5. MadeOK(d, x)'
      BY <3>1, <3>2, <3>4 DEF MadeOK, SameAt
    <3> QED
      BY <3>3, <3>5
  <2> QED
    BY <2>1, <2>2
<1>2. ASSUME NEW u \in Thread
      PROVE  UserOK(u)'
  <2>1. CASE u = t
    BY <2>1
  <2>2. CASE u # t
    <3>1. UserOK(u) /\ pc'[u] = pc[u] /\ call'[u] = call[u]
      BY <1>0, <2>2 DEF DrawParts
    <3>2. \A d \in Display, x \in Xid : Uses(u, d, x) =>
            /\ drawable'[<<d, x>>] = drawable[<<d, x>>]
            /\ call[u].op = "use" \/ Known(d, x)' = Known(d, x)
      BY <2>2 DEF SameAt
    <3> QED
      BY <3>1, <3>2, UserKeeps
  <2> QED
    BY <2>1, <2>2
<1>3. ASSUME NEW u \in Thread, NEW v \in Thread, u # v
      PROVE  Sole(u, v)'
  <2>1. CASE u = t \/ v = t
    BY <1>3, <2>1
  <2>2. CASE u # t /\ v # t
    <3>1. Sole(u, v)
      BY <1>3 DEF DrawParts
    <3> QED
      BY <1>0, <2>2, <3>1 DEF Sole, Uses
  <2> QED
    BY <2>1, <2>2
<1> QED
  BY <1>1, <1>2, <1>3 DEF DrawParts

\* What a thread uses alone stays its own; a thread without a drawable is nobody's concern.
LEMMA SoleKeeps ==
  ASSUME DrawParts, NEW t \in Thread, Moved(t),
         call'[t].xid = None \/ Same(call[t], call'[t])
  PROVE  \A u \in Thread \ {t} : Sole(t, u)' /\ Sole(u, t)'
<1> SUFFICES ASSUME NEW u \in Thread \ {t}
             PROVE  Sole(t, u)' /\ Sole(u, t)'
  OBVIOUS
<1>1. call'[u] = call[u] /\ Sole(t, u) /\ Sole(u, t)
  BY DEF Moved, DrawParts
<1>2. CASE call'[t].xid = None
  BY <1>2, ConstantsAssumption DEF Sole, Uses
<1>3. CASE Same(call[t], call'[t])
  BY <1>1, <1>3 DEF Sole, Uses, Same
<1> QED
  BY <1>2, <1>3

AllSame == \A d \in Display, x \in Xid : SameAt(d, x)

\* The thread goes on with the same drawable, and does not learn of another vendor.
LEMMA DrawGoes ==
  ASSUME DrawParts, NEW t \in Thread, Moved(t), UNCHANGED glvnd, AllSame,
         Same(call[t], call'[t]), call'[t].vendor = call[t].vendor,
         pc[t] # "vendor", pc'[t] \notin {"remember", "unmap", "vendor"}
  PROVE  DrawParts'
<1>1. \A d \in Display, x \in Xid : Making(t, d, x) => Making(t, d, x)'
  BY DEF Making, Same
<1>2. UserOK(t)'
  <2> SUFFICES ASSUME NEW d \in Display, NEW x \in Xid, Uses(t, d, x)'
               PROVE  /\ drawable'[<<d, x>>] # None
                      /\ call'[t].op \in {"create", "destroy"} => Exists(d, x)' /\ drawable'[<<d, x>>].own
                      /\ call'[t].op = "create" => Known(d, x)' = None /\ call'[t].vendor = Owner(d, x)'
    BY DEF UserOK
  <2>1. Uses(t, d, x) /\ UserOK(t) /\ SameAt(d, x) /\ call'[t].op = call[t].op
    BY DEF Uses, Same, DrawParts, AllSame
  <2>2. Exists(d, x)' = Exists(d, x) /\ Owner(d, x)' = Owner(d, x)
    BY <2>1, SameState DEF SameAt
  <2> QED
    BY <2>1, <2>2 DEF UserOK, SameAt
<1>3. \A u \in Thread \ {t} : Sole(t, u)' /\ Sole(u, t)'
  BY SoleKeeps
<1> DEFINE E == {}
<1>4. /\ \A d \in Display, x \in Xid : <<d, x>> \notin E =>
           SameAt(d, x) /\ (Making(t, d, x) => Making(t, d, x)')
      /\ \A d \in Display, x \in Xid : <<d, x>> \notin E
  BY <1>1 DEF AllSame
<1> HIDE DEF E
<1> QED
  BY <1>2, <1>3, <1>4, DrawStep

\* The thread has no drawable any more, or not yet.
LEMMA DrawFree ==
  ASSUME DrawParts, NEW t \in Thread, Moved(t), UNCHANGED glvnd, AllSame,
         call'[t].xid = None, \A d \in Display, x \in Xid : Making(t, d, x) => Making(t, d, x)'
  PROVE  DrawParts'
<1>1. UserOK(t)'
  BY ConstantsAssumption DEF UserOK, Uses
<1>2. \A u \in Thread \ {t} : Sole(t, u)' /\ Sole(u, t)'
  BY SoleKeeps
<1> DEFINE E == {}
<1>3. /\ \A d \in Display, x \in Xid : <<d, x>> \notin E =>
           SameAt(d, x) /\ (Making(t, d, x) => Making(t, d, x)')
      /\ \A d \in Display, x \in Xid : <<d, x>> \notin E
  BY DEF AllSame
<1> HIDE DEF E
<1> QED
  BY <1>1, <1>2, <1>3, DrawStep

\* The table and the mappings in it are as they were.
LEMMA KnownKept ==
  ASSUME UNCHANGED <<table, drawable>>,
         \A d \in Display : table[d] # None => info'[table[d]].xids = info[table[d]].xids
  PROVE  AllSame
BY DEF AllSame, SameAt, Known

\* One mapping has changed.
LEMMA KnownSet ==
  ASSUME DisplayInv, UNCHANGED table, NEW d \in Display, table[d] # None, NEW x \in Xid, NEW v,
         XidSet(table[d], x, v)
  PROVE  /\ Known(d, x)' = v
         /\ \A e \in Display, y \in Xid : <<e, y>> # <<d, x>> => Known(e, y)' = Known(e, y)
<1>1. Known(d, x)' = v
  BY DEF Known, XidSet
<1>2. ASSUME NEW e \in Display, NEW y \in Xid, <<e, y>> # <<d, x>>
      PROVE  Known(e, y)' = Known(e, y)
  <2>1. CASE e = d
    BY <1>2, <2>1 DEF Known, XidSet
  <2>2. CASE e # d
    <3>1. table[e] # None => table[e] \in Id /\ table[e] # table[d]
      BY <2>2, Listed
    <3> QED
      BY <3>1 DEF Known, XidSet
  <2> QED
    BY <2>1, <2>2
<1> QED
  BY <1>1, <1>2

LEMMA NewKnowsNothing ==
  ASSUME NEW d, NEW x \in Xid
  PROVE  NewInfo(d).xids[x] = None
BY DEF NewInfo

\* The display is looked up.
LEMMA DrawLookup ==
  ASSUME DisplayInv, DrawParts, NEW t \in Thread, FindDisplay(t) \/ BuildInfo(t) \/ InstallInfo(t)
  PROVE  DrawParts'
<1> USE InvParts
<1>0. ASSUME NEW i, HasFound(t, i), UNCHANGED glvnd, AllSame, pc[t] # "vendor"
      PROVE  DrawParts'
  BY <1>0, DrawGoes DEF HasFound, Nexts
<1>1. CASE FindDisplay(t)
  <2>1. UNCHANGED <<table, info, drawable, glvnd>>
    BY <1>1 DEF FindDisplay, tableVars, outsideVars
  <2>2. AllSame
    BY <2>1, KnownKept
  <2>3. CASE HasGoneOn(t, "build") /\ pc[t] = "find"
    BY <2>1, <2>2, <2>3, DrawGoes DEF HasGoneOn, Same
  <2> QED
    BY <1>0, <1>1, <2>1, <2>2, <2>3, FindDisplayMoves
<1>2. CASE BuildInfo(t)
  <2>0. \E i \in Id : info[i] = None
    BY <1>2, RoomForInfo DEF BuildInfo
  <2>1. UNCHANGED <<table, drawable, glvnd>> /\ pc[t] = "build"
    BY <1>2 DEF BuildInfo, outsideVars
  <2>2. CASE HasFound(t, None) /\ UNCHANGED info
    <3>1. AllSame
      BY <2>1, <2>2, KnownKept
    <3> QED
      BY <1>0, <2>1, <2>2, <3>1
  <2>3. ASSUME NEW i \in Id, info[i] = None, info' = [info EXCEPT ![i] = NewInfo(call[t].dpy)],
               Moved(t), pc'[t] = "install", Same(call[t], call'[t]), call'[t].vendor = call[t].vendor
        PROVE  DrawParts'
    <3>1. \A d \in Display : table[d] # None => info'[table[d]] = info[table[d]]
      BY <2>3, Listed, ConstantsAssumption DEF DataOK
    <3>2. AllSame
      BY <2>1, <3>1, KnownKept
    <3> QED
      BY <2>1, <2>3, <3>2, DrawGoes
  <2> QED
    BY <1>2, <2>0, <2>2, <2>3, BuildInfoMoves
<1>3. CASE InstallInfo(t)
  <2> DEFINE e == call[t].dpy
             i == call[t].mine
  <2>1. UNCHANGED <<drawable, glvnd>> /\ pc[t] = "install" /\ e \in Display /\ i \in Id
    BY <1>3, InstallInfoMoves DEF InstallInfo, outsideVars
  <2>2. info[i] = NewInfo(e) /\ \A d \in Display : table[d] # i
    BY <2>1, InvSplit DEF Alone
  <2> HIDE DEF e, i
  <2>3. ASSUME table[e] = None, table' = [table EXCEPT ![e] = i], UNCHANGED info
        PROVE  AllSame
    <3>1. \A d \in Display : table'[d] = IF d = e THEN i ELSE table[d]
      BY <2>3 DEF DataOK
    <3>2. \A d \in Display, x \in Xid : Known(d, x)' = Known(d, x)
      BY <2>1, <2>2, <2>3, <3>1, NewKnowsNothing, ConstantsAssumption DEF Known
    <3> QED
      BY <2>1, <3>2 DEF AllSame, SameAt
  <2>4. ASSUME info' = [info EXCEPT ![i] = None], UNCHANGED table
        PROVE  AllSame
    <3>1. \A d \in Display : table[d] # None => info'[table[d]] = info[table[d]]
      BY <2>1, <2>2, <2>4, Listed DEF DataOK
    <3> QED
      BY <2>1, <2>4, <3>1, KnownKept
  <2>5. AllSame /\ \E j : HasFound(t, j)
    BY <1>3, <2>3, <2>4, InstallInfoMoves DEF e, i
  <2> QED
    BY <1>0, <2>1, <2>5
<1> QED
  BY <1>1, <1>2, <1>3

\* The thread has no drawable of its own making.
LEMMA NotMaking ==
  ASSUME CallsOK, NEW t \in Thread, call[t].op # "closed", pc[t] \notin {"find", "build", "install", "map", "vendor"}
  PROVE  \A d \in Display, x \in Xid : ~Making(t, d, x)
BY Users, ConstantsAssumption DEF Making

\* The function returns, and the drawables do not mind.
LEMMA DrawReturns ==
  ASSUME DisplayInv, DrawParts, NEW t \in Thread, HasReturned(t), UNCHANGED <<table, info, drawable, glvnd>>,
         \A d \in Display, x \in Xid : ~Making(t, d, x)
  PROVE  DrawParts'
<1>1. AllSame
  BY KnownKept
<1>2. call'[t].xid = None /\ Moved(t)
  BY NoCallTyped DEF HasReturned
<1> QED
  BY <1>1, <1>2, DrawFree

\* The functions about configs, and those that have looked up a display in vain.
LEMMA DrawConfigs ==
  ASSUME DisplayInv, DrawParts, NEW t \in Thread,
         \/ Done(t) \/ LookupVendorByScreen(t) \/ MapConfig(t)
         \/ \E cs \in SUBSET Config : VendorConfigs(t, cs)
  PROVE  DrawParts'
<1> USE InvParts
<1>0. ASSUME NEW l \in {"configs", "addConfig", "create"}, NEW v, HasVendor(t, l, v),
             UNCHANGED <<table, info, drawable, glvnd>>, pc[t] \in {"screen", "configs", "addConfig"},
             \A d \in Display, x \in Xid : ~Making(t, d, x)
      PROVE  DrawParts'
  <2>1. call[t].xid = None
    BY <1>0 DEF CallsOK, CallOK, Doing
  <2>2. call'[t].xid = None /\ Moved(t)
    BY <1>0, <2>1 DEF HasVendor, Same
  <2>3. AllSame
    BY <1>0, KnownKept
  <2> QED
    BY <1>0, <2>2, <2>3, DrawFree
<1>1. ASSUME pc[t] \in {"done", "screen", "configs", "addConfig"}
      PROVE  \A d \in Display, x \in Xid : ~Making(t, d, x)
  <2>1. call[t].op # "closed"
    BY <1>1 DEF CallsOK, CallOK, Doing
  <2> QED
    BY <1>1, <2>1, NotMaking
<1>2. CASE Done(t)
  <2>1. UNCHANGED <<table, info, drawable, glvnd>>
    BY <1>2 DEF Done, tableVars, outsideVars
  <2> QED
    BY <1>1, <1>2, <2>1, DoneMoves, DrawReturns
<1>3. CASE LookupVendorByScreen(t)
  <2>1. UNCHANGED <<table, info, drawable, glvnd>>
    BY <1>3 DEF LookupVendorByScreen, tableVars, outsideVars
  <2> QED
    BY <1>0, <1>1, <1>3, <2>1, LookupVendorByScreenMoves, DrawReturns
<1>4. CASE MapConfig(t)
  <2>1. UNCHANGED <<table, info, drawable, glvnd>>
    BY <1>4 DEF MapConfig, tableVars, outsideVars
  <2> QED
    BY <1>0, <1>1, <1>4, <2>1, MapConfigMoves, DrawReturns
<1>5. ASSUME NEW cs \in SUBSET Config, VendorConfigs(t, cs)
      PROVE  DrawParts'
  <2>1. UNCHANGED <<table, info, drawable, glvnd>>
    BY <1>5, VendorConfigsKeeps
  <2> QED
    BY <1>0, <1>1, <1>5, <2>1, VendorConfigsMoves, DrawReturns
<1> QED
  BY <1>2, <1>3, <1>4, <1>5

\* The client strings.
LEMMA DrawStrings ==
  ASSUME DisplayInv, DrawParts, NEW t \in Thread,
         LockStrings(t) \/ MergeString(t) \/ UnlockStrings(t) \/ ReturnString(t)
  PROVE  DrawParts'
<1> USE InvParts
<1>0. /\ pc[t] \in {"strings", "merge", "unlock", "giveUp", "answer", "reread"}
      /\ UNCHANGED <<table, drawable, glvnd>>
  BY DEF LockStrings, MergeString, UnlockStrings, ReturnString, tableVars, outsideVars
<1>1. \A d \in Display, x \in Xid : ~Making(t, d, x)
  <2>1. call[t].op # "closed"
    BY <1>0 DEF CallsOK, CallOK, Doing
  <2> QED
    BY <1>0, <2>1, NotMaking
<1>2. ASSUME NEW l \in {"merge", "unlock", "giveUp", "answer", "reread"}, HasGoneOn(t, l), AllSame
      PROVE  DrawParts'
  BY <1>0, <1>2, DrawGoes DEF HasGoneOn, Same
<1>3. UNCHANGED info => AllSame
  BY <1>0, KnownKept
<1>4. CASE LockStrings(t)
  <2>1. UNCHANGED info
    BY <1>4 DEF LockStrings, tableVars
  <2> QED
    BY <1>0, <1>1, <1>2, <1>3, <1>4, <2>1, LockStringsMoves, DrawReturns
<1>5. CASE MergeString(t)
  <2> DEFINE i == call[t].info
  <2>1. info[i] \in Info /\ i \in Id
    BY <1>5, MergeStringMoves, Informed, ConstantsAssumption
  <2>3. PICK n \in Nat : info' = [info EXCEPT ![i].merged = n]
    <3>1. info[i].merged + 1 \in Nat /\ 0 \in Nat
      BY <2>1 DEF Info
    <3> QED
      BY <1>5, <3>1 DEF MergeString
  <2> HIDE DEF i
  <2>4. PICK r : r = [info[i] EXCEPT !.merged = n]
    OBVIOUS
  <2>5. r.xids = info[i].xids /\ info' = [info EXCEPT ![i] = r]
    BY <2>1, <2>3, <2>4 DEF Info
  <2>6. \A d \in Display : table[d] # None => info'[table[d]].xids = info[table[d]].xids
    BY <2>1, <2>5, Listed DEF DataOK
  <2> QED
    BY <1>0, <1>2, <1>5, <2>6, KnownKept, MergeStringMoves
<1>6. CASE UnlockStrings(t)
  <2>1. UNCHANGED info
    BY <1>6 DEF UnlockStrings, tableVars
  <2> QED
    BY <1>2, <1>3, <1>6, <2>1, UnlockStringsMoves
<1>7. CASE ReturnString(t)
  <2>1. UNCHANGED info
    BY <1>7 DEF ReturnString, tableVars
  <2> QED
    BY <1>0, <1>1, <1>7, <2>1, ReturnStringMoves, DrawReturns
<1> QED
  BY <1>4, <1>5, <1>6, <1>7

\* The hook runs and nobody else is at the display.
LEMMA DrawClosing ==
  ASSUME DisplayInv, DrawParts, NEW t \in Thread, OnDisplayClosed(t)
  PROVE  DrawParts'
<1> USE InvParts
<1>0. table[call[t].dpy] \in Id /\ call[t].dpy \in Display
  BY ClosingListed
<1>1. /\ Moved(t) /\ call[t].op = "close" /\ call'[t].op = "closed" /\ call'[t].dpy = call[t].dpy
      /\ call'[t].xid = call[t].xid
  BY <1>0, OnDisplayClosedMoves
<1>2. call[t].xid = None
  BY <1>1, Users
<1>3. \A d \in Display, x \in Xid : Making(t, d, x) => Making(t, d, x)'
  BY <1>1 DEF Making
<1>4. \A d \in Display : table[d] # None => info'[table[d]].xids = info[table[d]].xids
  BY ClosingInfo, Listed, ConstantsAssumption
<1>5. UNCHANGED <<table, drawable, glvnd>>
  BY DEF OnDisplayClosed, outsideVars
<1> QED
  BY <1>1, <1>2, <1>3, <1>4, <1>5, KnownKept, DrawFree

\* A drawable is created whose XID nobody uses.
LEMMA DrawCreated ==
  ASSUME DisplayInv, DrawParts, NEW t \in Thread, Moved(t), UNCHANGED <<table, info, glvnd>>,
         NEW d \in Display, NEW x \in Xid, NEW s \in ScreensOf(d),
         drawable[<<d, x>>] = None, drawable' = [drawable EXCEPT ![<<d, x>>] = Own(s)],
         pc'[t] = "find", call'[t].op = "create", call'[t].dpy = d, call'[t].xid = x,
         call'[t].vendor = ScreenVendor(s),
         \A e \in Display, y \in Xid : ~Making(t, e, y)
  PROVE  DrawParts'
<1> USE InvParts
<1>1. s \in Screen /\ drawable'[<<d, x>>] = Own(s)
  BY DEF ScreensOf, DataOK
<1>2. /\ Exists(d, x)' /\ drawable'[<<d, x>>].own /\ drawable'[<<d, x>>].screen = s
      /\ Owner(d, x)' = ScreenVendor(s)
  <2>1. Own(s) \in Drawable /\ Own(s).own = TRUE /\ Own(s).screen = s
    BY <1>1 DEF Drawable, Own
  <2>2. Own(s) \notin {None, Retired}
    BY <2>1, ConstantsAssumption DEF Retired
  <2> QED
    BY <1>1, <2>1, <2>2 DEF Exists, Owner, ScreenVendor
<1>3. Known(d, x)' = None /\ \A e \in Display, y \in Xid : Known(e, y)' = Known(e, y)
  BY DEF Known, DrawParts, AtOK
<1>4. Making(t, d, x)'
  BY DEF Making
<1>5. AtOK(d, x)' /\ MadeOK(d, x)'
  BY <1>2, <1>3, <1>4 DEF AtOK, MadeOK, ScreensOf
<1>6. \A u \in Thread : ~Uses(u, d, x)
  BY DEF DrawParts, UserOK
<1>7. UserOK(t)'
  BY <1>1, <1>2, <1>3, ConstantsAssumption DEF UserOK, Uses, Exists
<1>8. \A u \in Thread \ {t} : Sole(t, u)' /\ Sole(u, t)'
  BY <1>6 DEF Sole, Uses, Moved
<1> DEFINE E == {<<d, x>>}
<1>9. \A e \in Display, y \in Xid : <<e, y>> \notin E =>
        SameAt(e, y) /\ (Making(t, e, y) => Making(t, e, y)')
  BY <1>3 DEF SameAt, DataOK
<1>10. /\ \A e \in Display, y \in Xid : <<e, y>> \in E => AtOK(e, y)' /\ MadeOK(e, y)'
       /\ \A u \in Thread \ {t}, e \in Display, y \in Xid :
            Uses(u, e, y) /\ <<e, y>> \in E =>
              drawable'[<<e, y>>] = drawable[<<e, y>>] /\ call[u].op = "use"
  BY <1>5, <1>6
<1> HIDE DEF E
<1> QED
  BY <1>7, <1>8, <1>9, <1>10, DrawStep

\* A thread begins to use or to destroy a drawable.
LEMMA DrawUsed ==
  ASSUME DisplayInv, DrawParts, ~DestroyInUse, NEW t \in Thread, UNCHANGED <<table, info, drawable, glvnd>>,
         NEW d \in Display, NEW x \in Xid, NEW o \in {"use", "destroy"},
         Begins(t, "drawable", o, d), call'[t].xid = x, MayUse(d, x, o),
         o = "destroy" => Exists(d, x) /\ drawable[<<d, x>>].own
  PROVE  DrawParts'
<1> USE InvParts
<1>1. Moved(t) /\ pc'[t] = "find" /\ call'[t].op = o /\ call'[t].dpy = d
  BY DEF Begins
<1>2. AllSame
  BY KnownKept
<1>3. call[t] = NoCall
  BY DEF Begins, CallsOK, CallOK
<1>4. \A e \in Display, y \in Xid : ~Making(t, e, y)
  BY <1>3, NoCallTyped, ConstantsAssumption DEF Making
<1>5. UserOK(t)'
  BY <1>1 DEF UserOK, Uses, MayUse, Exists
<1>6. ASSUME NEW u \in Thread, Uses(u, d, x)
      PROVE  o = "use" /\ call[u].op = "use"
  <2>1. {o, call[u].op} = {"use"}
    BY <1>6 DEF MayUse, Uses
  <2>2. o \in {"use"} /\ call[u].op \in {"use"}
    BY <2>1
  <2> QED
    BY <2>2
<1>7. \A u \in Thread \ {t} : Sole(t, u)' /\ Sole(u, t)'
  BY <1>1, <1>6 DEF Sole, Uses, Moved
<1> DEFINE E == {}
<1>8. /\ \A e \in Display, y \in Xid : <<e, y>> \notin E =>
           SameAt(e, y) /\ (Making(t, e, y) => Making(t, e, y)')
      /\ \A e \in Display, y \in Xid : <<e, y>> \notin E
  BY <1>2, <1>4 DEF AllSame
<1> HIDE DEF E
<1> QED
  BY <1>1, <1>5, <1>7, <1>8, DrawStep

LEMMA DrawBegin ==
  ASSUME DisplayInv, DrawParts, ConfigsOK, ~LateHook, ~DestroyInUse, NEW t \in Thread, Begin(t)
  PROVE  DrawParts'
<1> USE InvParts
<1>0. UNCHANGED <<table, info, glvnd>>
  BY BeginKeeps
<1>1. pc[t] = "idle" => \A e \in Display, y \in Xid : ~Making(t, e, y)
  BY NoCallTyped, ConstantsAssumption DEF CallsOK, CallOK, Making
<1>2. ASSUME UNCHANGED drawable, call'[t].xid = None, pc[t] = "idle", Moved(t)
      PROVE  DrawParts'
  BY <1>0, <1>1, <1>2, KnownKept, DrawFree
<1>3. CASE HookLookup(t)
  <2>1. UNCHANGED drawable
    BY <1>3 DEF HookLookup, outsideVars
  <2>2. /\ pc[t] = "hooks" /\ call[t].op = "close" /\ Moved(t) /\ Same(call[t], call'[t])
    BY <1>3, HookLookupMoves
  <2>3. call[t].xid = None /\ \A e \in Display, y \in Xid : ~Making(t, e, y)
    BY <2>2, Users, NotMaking
  <2> QED
    BY <1>0, <2>1, <2>2, <2>3, KnownKept, DrawFree DEF Same
<1>4. ASSUME NEW s \in Screen, GetConfigs(t, s) \/ CreateGLXPixmap(t, s)
      PROVE  DrawParts'
  <2>1. UNCHANGED drawable
    BY <1>4 DEF GetConfigs, CreateGLXPixmap, outsideVars
  <2> QED
    BY <1>2, <1>4, <2>1, GetConfigsMoves, CreateGLXPixmapMoves DEF Begins
<1>5. ASSUME NEW d \in Display, CloseDisplay(t, d) \/ GetClientString(t, d)
      PROVE  DrawParts'
  <2>1. UNCHANGED drawable
    BY <1>5 DEF CloseDisplay, GetClientString, outsideVars
  <2> QED
    BY <1>2, <1>5, <2>1, CloseDisplayMoves, GetClientStringMoves DEF Begins
<1>6. ASSUME NEW d \in Display, NEW k \in Config, CreateDrawable(t, d, k)
      PROVE  DrawParts'
  <2>1. PICK n \in {"map", "done"} :
          /\ Begins(t, n, "create", d) /\ call'[t].vendor = configs[k]
          /\ \/ n = "done" /\ call'[t].xid = None /\ UNCHANGED drawable
             \/ /\ n = "map" /\ call'[t].xid \in Xid /\ drawable[<<d, call'[t].xid>>] = None
                /\ \E s \in ScreensOf(d) :
                     /\ configs[k] = ScreenVendor(s)
                     /\ drawable' = [drawable EXCEPT ![<<d, call'[t].xid>>] = Own(s)]
    BY <1>6, CreateDrawableMoves
  <2>2. /\ pc[t] = "idle" /\ Moved(t) /\ pc'[t] = "find" /\ call'[t].op = "create"
        /\ call'[t].dpy = d
    BY <2>1 DEF Begins
  <2>3. CASE n = "done"
    BY <1>2, <2>1, <2>2, <2>3
  <2>4. CASE n = "map"
    <3>1. PICK s \in ScreensOf(d) :
            /\ configs[k] = ScreenVendor(s)
            /\ drawable' = [drawable EXCEPT ![<<d, call'[t].xid>>] = Own(s)]
      BY <2>1, <2>4
    <3>2. PICK x \in Xid : x = call'[t].xid /\ drawable[<<d, x>>] = None
      BY <2>1, <2>4
    <3>3. drawable' = [drawable EXCEPT ![<<d, x>>] = Own(s)] /\ call'[t].vendor = ScreenVendor(s)
      BY <2>1, <3>1, <3>2
    <3> QED
      BY <1>0, <1>1, <2>2, <3>2, <3>3, DrawCreated
  <2> QED
    BY <2>3, <2>4
<1>7. ASSUME NEW d \in Display, NEW x \in Xid, NEW o \in {"use", "destroy"}, WithDrawable(t, d, x, o),
             o = "destroy" => Exists(d, x) /\ drawable[<<d, x>>].own
      PROVE  DrawParts'
  <2>1. UNCHANGED drawable
    BY <1>7 DEF WithDrawable, outsideVars
  <2> QED
    BY <1>0, <1>7, <2>1, WithDrawableMoves, DrawUsed
<1> QED
  BY <1>3, <1>4, <1>5, <1>6, <1>7 DEF Begin, UseDrawable, DestroyDrawable

\* What the steps below have in common: all that changes is one drawable, whose mapping or
\* existence is that thread's business.
LEMMA DrawOne ==
  ASSUME CallsOK, DrawParts, NEW t \in Thread, Moved(t), UNCHANGED glvnd,
         NEW d \in Display, NEW x \in Xid, Uses(t, d, x),
         \A e \in Display, y \in Xid : <<e, y>> # <<d, x>> => SameAt(e, y),
         call'[t] = NoCall \/ Same(call[t], call'[t]),
         AtOK(d, x)', MadeOK(d, x)', UserOK(t)',
         drawable'[<<d, x>>] = drawable[<<d, x>>] \/ call[t].op # "use"
  PROVE  DrawParts'
<1>1. \A u \in Thread \ {t} : Sole(t, u)' /\ Sole(u, t)'
  BY NoCallTyped, SoleKeeps
<1>2. call[t].op # "closed"
  BY Users, ConstantsAssumption DEF Uses
<1>3. \A e \in Display, y \in Xid : <<e, y>> # <<d, x>> => ~Making(t, e, y)
  BY <1>2 DEF Making, Uses
<1>4. \A u \in Thread \ {t} : Uses(u, d, x) => call[u].op = "use" /\ call[t].op = "use"
  BY DEF DrawParts, Sole
<1> DEFINE E == {<<d, x>>}
<1>5. /\ \A e \in Display, y \in Xid : <<e, y>> \notin E =>
           SameAt(e, y) /\ (Making(t, e, y) => Making(t, e, y)')
      /\ \A e \in Display, y \in Xid : <<e, y>> \in E => AtOK(e, y)' /\ MadeOK(e, y)'
      /\ \A u \in Thread \ {t}, e \in Display, y \in Xid :
           Uses(u, e, y) /\ <<e, y>> \in E =>
             drawable'[<<e, y>>] = drawable[<<e, y>>] /\ call[u].op = "use"
  BY <1>3, <1>4
<1> HIDE DEF E
<1> QED
  BY <1>1, <1>5, DrawStep

\* A thread learns who owns its drawable, and may record it.
LEMMA DrawLearns ==
  ASSUME DisplayInv, DrawParts, NEW t \in Thread, WithXid(call[t]), UNCHANGED <<drawable, glvnd>>,
         pc[t] \in {"drawable", "query", "remember"},
         NEW d \in Display, NEW x \in Xid, Uses(t, d, x),
         \A e \in Display, y \in Xid : <<e, y>> # <<d, x>> => Known(e, y)' = Known(e, y),
         NEW l \in {"remember", "unmap", "vendor"}, l = "vendor" => call[t].op # "destroy",
         NEW v, HasVendor(t, l, v), Exists(d, x) => v = Owner(d, x),
         Known(d, x)' \in {Known(d, x), v}
  PROVE  DrawParts'
<1> USE InvParts
<1>1. Exists(d, x)' = Exists(d, x) /\ Owner(d, x)' = Owner(d, x) /\ drawable' = drawable
  BY SameState
<1>2. AtOK(d, x) /\ MadeOK(d, x) /\ UserOK(t)
  BY DEF DrawParts
<1>3. drawable[<<d, x>>] # None
  BY <1>2 DEF UserOK
<1>4. AtOK(d, x)'
  BY <1>1, <1>2, <1>3 DEF AtOK, ScreensOf
<1>5. MadeOK(d, x)'
  <2>1. ~Making(t, d, x)
    BY DEF Making, WithXid
  <2>2. \A u \in Thread \ {t} : Making(u, d, x) => Making(u, d, x)'
    BY DEF Making, HasVendor, Moved
  <2> QED
    BY <1>1, <1>2, <2>1, <2>2 DEF MadeOK
<1>6. UserOK(t)'
  <2>1. /\ pc'[t] = l /\ call'[t].op = call[t].op /\ call'[t].dpy = d /\ call'[t].xid = x
        /\ call'[t].vendor = v /\ call[t].op \in {"use", "destroy"}
    BY DEF HasVendor, Same, Uses, WithXid
  <2>2. call[t].op = "destroy" => Exists(d, x) /\ drawable[<<d, x>>].own
    BY <1>2 DEF UserOK
  <2> QED
    BY <1>1, <1>3, <2>1, <2>2 DEF UserOK, Uses
<1>7. Moved(t) /\ Same(call[t], call'[t])
  BY DEF HasVendor
<1> QED
  BY <1>1, <1>4, <1>5, <1>6, <1>7, DrawOne DEF SameAt

LEMMA DrawVendor ==
  ASSUME DisplayInv, DrawParts, NEW t \in Thread, DrawableVendor(t)
  PROVE  DrawParts'
<1> USE InvParts
<1>0. UNCHANGED <<table, info, drawable, glvnd>> /\ (call[t].info # None => info[call[t].info] # None)
  BY Informed, ConstantsAssumption DEF DrawableVendor, tableVars, outsideVars
<1>1. AllSame
  BY <1>0, KnownKept
<1>2. pc[t] = "drawable" /\ WithXid(call[t])
  BY <1>0, DrawableVendorMoves
<1>3. CASE LooksUpAgain(t, "done")
  BY <1>0, <1>1, <1>2, <1>3, DrawGoes DEF LooksUpAgain
<1>4. CASE HasGoneOn(t, "query")
  BY <1>0, <1>1, <1>2, <1>4, DrawGoes DEF HasGoneOn, Same
<1>5. ASSUME NEW v \in Vendor, call[t].info # None,
             HasVendor(t, IF call[t].op = "destroy" THEN "unmap" ELSE "vendor", v),
             \/ call[t].dpy \notin glvnd /\ v = Fallback
             \/ v = info[call[t].info].xids[call[t].xid]
      PROVE  DrawParts'
  <2>1. PICK d \in Display, x \in Xid : d = call[t].dpy /\ x = call[t].xid
    BY <1>2 DEF WithXid
  <2>2. Uses(t, d, x) /\ AtOK(d, x) /\ table[d] = call[t].info
    BY <1>5, <2>1, Informed DEF Uses, DrawParts
  <2>3. PICK l \in {"unmap", "vendor"} : l = IF call[t].op = "destroy" THEN "unmap" ELSE "vendor"
    OBVIOUS
  <2>4. ASSUME Exists(d, x)
        PROVE  v = Owner(d, x)
    <3>1. CASE d \notin glvnd /\ v = Fallback
      BY <2>2, <2>4, <3>1 DEF AtOK, Owner, ScreensOf, ScreenVendor
    <3>2. CASE v = info[call[t].info].xids[x]
      BY <1>5, <2>2, <2>4, <3>2, ConstantsAssumption DEF AtOK, Known
    <3> QED
      BY <1>5, <2>1, <3>1, <3>2
  <2>5. \A e \in Display, y \in Xid : Known(e, y)' = Known(e, y)
    BY <1>1 DEF AllSame, SameAt
  <2> QED
    BY <1>0, <1>2, <1>5, <2>2, <2>3, <2>4, <2>5, DrawLearns
<1> QED
  BY <1>0, <1>3, <1>4, <1>5, DrawableVendorMoves

LEMMA DrawQuery ==
  ASSUME DisplayInv, DrawParts, NEW t \in Thread, QueryScreen(t)
  PROVE  DrawParts'
<1> USE InvParts
<1>0. UNCHANGED <<table, info, drawable, glvnd>>
  BY DEF QueryScreen, tableVars, outsideVars
<1>1. AllSame
  BY <1>0, KnownKept
<1>2. pc[t] = "query" /\ WithXid(call[t])
  BY QueryScreenMoves
<1>3. CASE LooksUpAgain(t, "done")
  BY <1>0, <1>1, <1>2, <1>3, DrawGoes DEF LooksUpAgain
<1>4. CASE HasVendor(t, "remember", Owner(call[t].dpy, call[t].xid))
  <2>1. PICK d \in Display, x \in Xid : d = call[t].dpy /\ x = call[t].xid
    BY <1>2 DEF WithXid
  <2>2. Uses(t, d, x) /\ HasVendor(t, "remember", Owner(d, x))
    BY <1>4, <2>1 DEF Uses
  <2>3. \A e \in Display, y \in Xid : Known(e, y)' = Known(e, y)
    BY <1>1 DEF AllSame, SameAt
  <2> QED
    BY <1>0, <1>2, <2>2, <2>3, DrawLearns
<1> QED
  BY <1>3, <1>4, QueryScreenMoves DEF Owner

LEMMA DrawRemember ==
  ASSUME DisplayInv, DrawParts, NEW t \in Thread, RememberVendor(t)
  PROVE  DrawParts'
<1> USE InvParts
<1>0. UNCHANGED <<table, drawable, glvnd>>
  BY DEF RememberVendor, outsideVars
<1>1. /\ pc[t] = "remember" /\ WithXid(call[t]) /\ call[t].info \in Id
      /\ HasVendor(t, IF call[t].op = "destroy" THEN "unmap" ELSE "vendor", call[t].vendor)
  BY RememberVendorMoves
<1>2. PICK ok \in BOOLEAN : AddXid(call[t].info, call[t].xid, call[t].vendor, ok)
  BY RememberVendorMoves
<1>3. PICK d \in Display, x \in Xid : d = call[t].dpy /\ x = call[t].xid
  BY <1>1 DEF WithXid
<1>4. PICK v \in Vendor \cup {None} : v = call[t].vendor
  BY <1>1 DEF WithXid
<1>5. table[d] = call[t].info /\ table[d] \in Id /\ info[table[d]] \in Info /\ table[d] # None
  BY <1>1, <1>3, Informed, ConstantsAssumption
<1>6. XidAdded(table[d], x, v, ok)
  BY <1>2, <1>3, <1>4, <1>5, AddsXid
<1>7. /\ \A e \in Display, y \in Xid : <<e, y>> # <<d, x>> => Known(e, y)' = Known(e, y)
      /\ Known(d, x)' \in {Known(d, x), v}
  <2>1. CASE UNCHANGED info
    BY <1>0, <2>1 DEF Known
  <2>2. CASE XidSet(table[d], x, v)
    BY <1>0, <1>5, <2>2, KnownSet
  <2> QED
    BY <1>6, <2>1, <2>2 DEF XidAdded
<1>8. Uses(t, d, x) /\ (Exists(d, x) => v = Owner(d, x))
  BY <1>1, <1>3, <1>4 DEF DrawParts, UserOK, Uses
<1>9. PICK l \in {"unmap", "vendor"} : l = IF call[t].op = "destroy" THEN "unmap" ELSE "vendor"
  OBVIOUS
<1> QED
  BY <1>0, <1>1, <1>4, <1>7, <1>8, <1>9, DrawLearns

LEMMA DrawUnmap ==
  ASSUME DisplayInv, DrawParts, NEW t \in Thread, UnmapDrawable(t)
  PROVE  DrawParts'
<1> USE InvParts
<1>0. UNCHANGED <<table, drawable, glvnd>>
  BY DEF UnmapDrawable, outsideVars
<1>1. /\ pc[t] = "unmap" /\ WithXid(call[t]) /\ call[t].info \in Id /\ call[t].op = "destroy"
      /\ HasGoneOn(t, "vendor")
  BY UnmapDrawableMoves
<1>2. PICK d \in Display, x \in Xid : d = call[t].dpy /\ x = call[t].xid
  BY <1>1 DEF WithXid
<1>3. table[d] = call[t].info /\ table[d] \in Id /\ info[table[d]] \in Info /\ table[d] # None
  BY <1>1, <1>2, Informed, ConstantsAssumption
<1>4. XidSet(table[d], x, None)
  BY <1>2, <1>3, SetXid DEF UnmapDrawable, RemoveXid
<1>5. /\ Known(d, x)' = None
      /\ \A e \in Display, y \in Xid : <<e, y>> # <<d, x>> => SameAt(e, y)
  BY <1>0, <1>3, <1>4, KnownSet DEF SameAt
<1>6. Uses(t, d, x) /\ UserOK(t) /\ AtOK(d, x)
  BY <1>2 DEF Uses, DrawParts
<1>7. Exists(d, x)' = Exists(d, x) /\ Owner(d, x)' = Owner(d, x)
  BY <1>0, SameState
<1>8. /\ Moved(t) /\ call'[t] = call[t] /\ pc'[t] = "vendor" /\ Making(t, d, x)'
  BY <1>1, <1>2 DEF HasGoneOn, Making
<1>9. AtOK(d, x)' /\ MadeOK(d, x)'
  BY <1>0, <1>5, <1>6, <1>7, <1>8 DEF AtOK, MadeOK, ScreensOf
<1>10. UserOK(t)'
  BY <1>0, <1>1, <1>2, <1>5, <1>6, <1>7, <1>8 DEF UserOK, Uses
<1> QED
  BY <1>0, <1>5, <1>6, <1>8, <1>9, <1>10, DrawOne DEF Same

\* The drawable of a thread that returns is gone.
LEMMA DrawDiscarded ==
  ASSUME DisplayInv, DrawParts, NEW t \in Thread, HasReturned(t), UNCHANGED <<table, info, glvnd>>,
         NEW d \in Display, NEW x \in Xid, Uses(t, d, x), Known(d, x) = None,
         call[t].op \in {"create", "destroy"}, Discard(d, x)
  PROVE  DrawParts'
<1> USE InvParts
<1>1. Exists(d, x) /\ drawable[<<d, x>>].own
  BY DEF DrawParts, UserOK
<1>2. drawable' = [drawable EXCEPT ![<<d, x>>] = None]
  BY <1>1 DEF Discard
<1>3. drawable'[<<d, x>>] = None /\ \A e \in Display, y \in Xid :
        <<e, y>> # <<d, x>> => drawable'[<<e, y>>] = drawable[<<e, y>>]
  BY <1>2 DEF DataOK
<1>4. \A e \in Display, y \in Xid : Known(e, y)' = Known(e, y)
  BY DEF Known
<1>5. AtOK(d, x)' /\ MadeOK(d, x)'
  BY <1>3, <1>4 DEF AtOK, MadeOK, Exists
<1>6. UserOK(t)' /\ Moved(t) /\ call'[t] = NoCall
  BY NoCallTyped, ConstantsAssumption DEF HasReturned, UserOK, Uses
<1> QED
  BY <1>3, <1>4, <1>5, <1>6, DrawOne DEF SameAt

LEMMA DrawCall ==
  ASSUME DisplayInv, DrawParts, NEW t \in Thread, CallVendor(t)
  PROVE  DrawParts'
<1> USE InvParts
<1>0. UNCHANGED <<table, info, glvnd>>
  BY DEF CallVendor, tableVars
<1>1. pc[t] = "vendor" /\ WithXid(call[t]) /\ HasReturned(t)
  BY CallVendorMoves
<1>2. CASE call[t].op = "destroy"
  <2>1. PICK d \in Display, x \in Xid : d = call[t].dpy /\ x = call[t].xid
    BY <1>1 DEF WithXid
  <2>2. Uses(t, d, x) /\ Discard(d, x)
    BY <1>2, <2>1 DEF CallVendor, Uses
  <2>3. Known(d, x) = None
    BY <1>1, <1>2, <2>2 DEF DrawParts, UserOK
  <2> QED
    BY <1>0, <1>1, <1>2, <2>2, <2>3, DrawDiscarded
<1>3. CASE call[t].op # "destroy"
  <2>1. UNCHANGED drawable
    BY <1>3 DEF CallVendor
  <2>2. \A d \in Display, x \in Xid : ~Making(t, d, x)
    BY <1>1, <1>3 DEF WithXid, Making
  <2> QED
    BY <1>0, <1>1, <2>1, <2>2, DrawReturns
<1> QED
  BY <1>2, <1>3

LEMMA DrawMap ==
  ASSUME DisplayInv, DrawParts, NEW t \in Thread, MapDrawable(t)
  PROVE  DrawParts'
<1> USE InvParts
<1>0. UNCHANGED <<table, glvnd>>
  BY DEF MapDrawable
<1>1. /\ pc[t] = "map" /\ HasReturned(t) /\ call[t].op = "create"
      /\ call[t].vendor \in Vendor \cup {None} /\ call[t].info \in Id \cup {None}
  BY MapDrawableMoves
<1>2. PICK d \in Display, x \in Xid : d = call[t].dpy /\ x = call[t].xid
  BY MapDrawableMoves
<1>3. PICK v \in Vendor \cup {None}, i \in Id \cup {None} : v = call[t].vendor /\ i = call[t].info
  BY <1>1
<1>4. PICK ok \in BOOLEAN :
        /\ IF i = None THEN ~ok /\ UNCHANGED info ELSE AddXid(i, x, v, ok)
        /\ IF ok THEN UNCHANGED drawable ELSE Discard(d, x)
  BY <1>2, <1>3 DEF MapDrawable
<1>5. Uses(t, d, x) /\ Known(d, x) = None /\ v = Owner(d, x) /\ drawable[<<d, x>>] # None /\ AtOK(d, x)
  <2>1. Uses(t, d, x)
    BY <1>2 DEF Uses
  <2> QED
    BY <1>1, <1>3, <2>1 DEF DrawParts, UserOK
<1>6. i # None => table[d] = i /\ i \in Id /\ info[i] \in Info /\ info[i].xids[x] = None
  BY <1>2, <1>3, <1>5, Informed DEF Known
<1>7. CASE ~ok
  <2>1. UNCHANGED info
    BY <1>4, <1>6, <1>7, AddsXid DEF XidAdded
  <2> QED
    BY <1>0, <1>1, <1>4, <1>5, <1>7, <2>1, DrawDiscarded
<1>8. CASE ok
  <2>1. UNCHANGED drawable /\ i # None /\ XidSet(i, x, v)
    BY <1>4, <1>6, <1>8, AddsXid DEF XidAdded
  <2>2. /\ Known(d, x)' = v
        /\ \A e \in Display, y \in Xid : <<e, y>> # <<d, x>> => SameAt(e, y)
    BY <1>0, <1>6, <2>1, KnownSet DEF SameAt
  <2>3. Exists(d, x)' = Exists(d, x) /\ Owner(d, x)' = Owner(d, x)
    BY <1>0, <2>1, SameState
  <2>4. AtOK(d, x)' /\ MadeOK(d, x)'
    BY <1>5, <2>1, <2>2, <2>3 DEF AtOK, MadeOK, ScreensOf
  <2>5. UserOK(t)' /\ Moved(t) /\ call'[t] = NoCall
    BY <1>1, NoCallTyped, ConstantsAssumption DEF HasReturned, UserOK, Uses
  <2> QED
    BY <1>0, <1>5, <2>1, <2>2, <2>4, <2>5, DrawOne
<1> QED
  BY <1>7, <1>8

LEMMA DrawCreates ==
  ASSUME DisplayInv, DrawParts, ConfigsOK, NEW t \in Thread, VendorCreates(t)
  PROVE  DrawParts'
<1> USE InvParts
<1>0. UNCHANGED <<table, info, glvnd>>
  BY DEF VendorCreates, tableVars
<1>1. pc[t] = "create" /\ call[t].dpy \in Display /\ call[t].screen \in ScreensOf(call[t].dpy)
  BY VendorCreatesMoves
<1>2. call[t].vendor = ScreenVendor(call[t].screen)
  BY <1>1 DEF ConfigsOK
<1>3. call[t].op # "closed"
  BY <1>1 DEF CallsOK, CallOK, Doing
<1>4. \A e \in Display, y \in Xid : ~Making(t, e, y)
  BY <1>1, <1>3, NotMaking
<1>5. CASE LooksUpAgain(t, "done") /\ UNCHANGED drawable
  BY <1>0, <1>1, <1>5, KnownKept, DrawGoes DEF LooksUpAgain
<1>6. CASE /\ Moved(t) /\ pc'[t] = "find" /\ call'[t].op = "create"
           /\ call'[t].dpy = call[t].dpy /\ call'[t].xid \in Xid /\ call'[t].vendor = call[t].vendor
           /\ drawable[<<call[t].dpy, call'[t].xid>>] = None
           /\ drawable' = [drawable EXCEPT ![<<call[t].dpy, call'[t].xid>>] = Own(call[t].screen)]
  BY <1>0, <1>1, <1>2, <1>4, <1>6, DrawCreated
<1> QED
  BY <1>5, <1>6, VendorCreatesMoves

\* The display is forgotten, and its mappings with it.
LEMMA DrawForget ==
  ASSUME DisplayInv, DrawParts, NEW t \in Thread, ForgetDisplay(t)
  PROVE  DrawParts'
<1> USE InvParts
<1>1. /\ call[t].op = "closed" /\ call[t].dpy \in Display /\ call[t].mine \in Id /\ pc[t] = "closing"
      /\ Moved(t) /\ Same(call[t], call'[t])
  BY ForgetDisplayMoves
<1>2. PICK d \in Display, i \in Id : d = call[t].dpy /\ i = call[t].mine
  BY <1>1
<1>3. /\ UNCHANGED <<drawable, glvnd>> /\ table[d] = i
      /\ table' = [table EXCEPT ![d] = None] /\ info' = [info EXCEPT ![i] = None]
  BY <1>1, <1>2, InvSplit DEF ForgetDisplay, outsideVars, Alone
<1>4. \A x \in Xid : Known(d, x)' = None
  BY <1>3 DEF Known, DataOK
<1>5. ASSUME NEW e \in Display, e # d, NEW y \in Xid
      PROVE  Known(e, y)' = Known(e, y)
  <2>1. table[e] # None => table[e] \in Id /\ table[e] # i
    BY <1>3, <1>5, Listed, ConstantsAssumption
  <2>2. table'[e] = table[e] /\ (table[e] # None => info'[table[e]] = info[table[e]])
    BY <1>3, <1>5, <2>1 DEF DataOK
  <2> QED
    BY <2>2 DEF Known
<1>6. call'[t].op = "closed" /\ call'[t].dpy = d /\ call'[t].xid = None
  BY <1>1, <1>2, Users DEF Same
<1>7. \A x \in Xid : Making(t, d, x)' /\ AtOK(d, x)' /\ MadeOK(d, x)'
  <2>1. \A x \in Xid : Making(t, d, x)'
    BY <1>6 DEF Making
  <2>2. \A x \in Xid : Exists(d, x)' = Exists(d, x) /\ AtOK(d, x) /\ drawable' = drawable
    BY <1>3 DEF Exists, DrawParts
  <2> QED
    BY <1>4, <2>1, <2>2 DEF AtOK, MadeOK, ScreensOf
<1>8. \A u \in Thread \ {t}, x \in Xid : ~Uses(u, d, x)
  BY <1>1, <1>2, ClosesAlone DEF Uses
<1>9. UserOK(t)' /\ \A u \in Thread \ {t} : Sole(t, u)' /\ Sole(u, t)'
  BY <1>1, <1>6, SoleKeeps, ConstantsAssumption DEF UserOK, Uses
<1> DEFINE E == {d} \X Xid
<1>10. \A e \in Display, y \in Xid : <<e, y>> \notin E =>
         SameAt(e, y) /\ (Making(t, e, y) => Making(t, e, y)')
  BY <1>2, <1>3, <1>5 DEF SameAt, Making
<1>11. /\ \A e \in Display, y \in Xid : <<e, y>> \in E => AtOK(e, y)' /\ MadeOK(e, y)'
       /\ \A u \in Thread \ {t}, e \in Display, y \in Xid :
            Uses(u, e, y) /\ <<e, y>> \in E =>
              drawable'[<<e, y>>] = drawable[<<e, y>>] /\ call[u].op = "use"
  BY <1>7, <1>8
<1> HIDE DEF E
<1> QED
  BY <1>1, <1>3, <1>9, <1>10, <1>11, DrawStep

\* The display is closed, and the drawables of this client go.
LEMMA DrawGone ==
  ASSUME DisplayInv, DrawParts, NEW t \in Thread, DisplayGone(t)
  PROVE  DrawParts'
<1> USE InvParts
<1>1. call[t].op = "closed" /\ call[t].dpy \in Display /\ pc[t] = "hooks" /\ HasReturned(t)
  BY DisplayGoneMoves
<1>2. PICK d \in Display : d = call[t].dpy
  BY <1>1
<1>3. /\ UNCHANGED <<table, info, glvnd>> /\ table[d] = None
      /\ drawable' = [dx \in Display \X Xid |->
                        IF dx[1] = d /\ drawable[dx] # None /\ drawable[dx].own THEN None ELSE drawable[dx]]
  BY <1>1, <1>2, InvSplit DEF DisplayGone, tableVars, Alone
<1>4. \A e \in Display, y \in Xid : Known(e, y)' = Known(e, y)
  BY <1>3 DEF Known
<1>5. ASSUME NEW x \in Xid
      PROVE  AtOK(d, x)' /\ MadeOK(d, x)'
  <2>1. Known(d, x)' = None
    BY <1>3 DEF Known
  <2>2. /\ drawable'[<<d, x>>] \in {None, drawable[<<d, x>>]}
        /\ drawable'[<<d, x>>] # None => ~drawable'[<<d, x>>].own
    BY <1>3
  <2>3. AtOK(d, x)
    BY DEF DrawParts
  <2> QED
    BY <2>1, <2>2, <2>3 DEF AtOK, MadeOK, Exists, ScreensOf
<1>6. \A u \in Thread \ {t}, x \in Xid : ~Uses(u, d, x)
  BY <1>1, <1>2, ClosesAlone DEF Uses
<1>7. Moved(t) /\ call'[t].xid = None
  BY <1>1, NoCallTyped DEF HasReturned
<1>8. UserOK(t)' /\ \A u \in Thread \ {t} : Sole(t, u)' /\ Sole(u, t)'
  BY <1>7, SoleKeeps, ConstantsAssumption DEF UserOK, Uses
<1> DEFINE E == {d} \X Xid
<1>9. \A e \in Display, y \in Xid : <<e, y>> \notin E =>
        SameAt(e, y) /\ (Making(t, e, y) => Making(t, e, y)')
  BY <1>2, <1>3, <1>4 DEF SameAt, Making
<1>10. /\ \A e \in Display, y \in Xid : <<e, y>> \in E => AtOK(e, y)' /\ MadeOK(e, y)'
       /\ \A u \in Thread \ {t}, e \in Display, y \in Xid :
            Uses(u, e, y) /\ <<e, y>> \in E =>
              drawable'[<<e, y>>] = drawable[<<e, y>>] /\ call[u].op = "use"
  BY <1>5, <1>6
<1> HIDE DEF E
<1> QED
  BY <1>3, <1>7, <1>8, <1>9, <1>10, DrawStep

\* Another client's drawable comes, with an XID that nobody uses, or goes and is no more than used.
LEMMA DrawForeign ==
  ASSUME DisplayInv, DrawParts, ~ForeignReuse, NEW d \in Display, NEW x \in Xid, ForeignDrawable(d, x)
  PROVE  DrawParts'
<1> USE InvParts
<1>1. UNCHANGED <<table, info, pc, call, glvnd>>
  BY DEF ForeignDrawable, tableVars, threadVars
<1>2. \A e \in Display, y \in Xid : Known(e, y)' = Known(e, y)
  BY <1>1 DEF Known
<1>3. \A e \in Display, y \in Xid, u \in Thread :
        Making(u, e, y)' = Making(u, e, y) /\ Uses(u, e, y)' = Uses(u, e, y)
  BY <1>1 DEF Making, Uses
<1>4. \A t, u \in Thread : t # u => Sole(t, u)'
  BY <1>1 DEF DrawParts, Sole, Uses
<1>5. AtOK(d, x)' /\ MadeOK(d, x)' /\ \A u \in Thread : Uses(u, d, x) =>
        drawable'[<<d, x>>] # None /\ ~Exists(d, x)' /\ call[u].op \notin {"create", "destroy"}
  <2>0. AtOK(d, x)
    BY DEF DrawParts
  <2>1. ASSUME drawable[<<d, x>>] = None, NEW s \in ScreensOf(d),
               drawable' = [drawable EXCEPT ![<<d, x>>] = Foreign(s)]
        PROVE  AtOK(d, x)' /\ MadeOK(d, x)' /\ \A u \in Thread : ~Uses(u, d, x)
    <3>1. drawable'[<<d, x>>] = Foreign(s)
      BY <2>1 DEF DataOK
    <3>2. Known(d, x)' = None
      BY <1>2, <2>0, <2>1 DEF AtOK
    <3>3. \A u \in Thread : ~Uses(u, d, x)
      BY <2>1 DEF DrawParts, UserOK
    <3> QED
      BY <2>1, <3>1, <3>2, <3>3 DEF AtOK, MadeOK, Foreign, ScreensOf
  <2>2. ASSUME ~drawable[<<d, x>>].own, drawable' = [drawable EXCEPT ![<<d, x>>] = Retired]
        PROVE  /\ AtOK(d, x)' /\ MadeOK(d, x)' /\ drawable'[<<d, x>>] # None /\ ~Exists(d, x)'
               /\ \A u \in Thread : Uses(u, d, x) => call[u].op \notin {"create", "destroy"}
    <3>1. drawable'[<<d, x>>] = Retired /\ Retired # None
      BY <2>2, ConstantsAssumption DEF DataOK, Drawable
    <3>2. ~Exists(d, x)'
      BY <3>1 DEF Exists
    <3>3. \A u \in Thread : Uses(u, d, x) => call[u].op \notin {"create", "destroy"}
      BY <2>2 DEF DrawParts, UserOK
    <3> QED
      BY <3>1, <3>2, <3>3 DEF AtOK, MadeOK
  <2> QED
    BY <2>1, <2>2 DEF ForeignDrawable
<1>6. \A e \in Display, y \in Xid : <<e, y>> # <<d, x>> => drawable'[<<e, y>>] = drawable[<<e, y>>]
  BY DEF ForeignDrawable, DataOK
<1>7. ASSUME NEW e \in Display, NEW y \in Xid
      PROVE  AtOK(e, y)' /\ MadeOK(e, y)'
  <2>1. CASE <<e, y>> = <<d, x>>
    BY <1>5, <2>1
  <2>2. CASE <<e, y>> # <<d, x>>
    <3>1. /\ Exists(e, y)' = Exists(e, y) /\ Owner(e, y)' = Owner(e, y)
          /\ drawable'[<<e, y>>] = drawable[<<e, y>>] /\ AtOK(e, y) /\ MadeOK(e, y)
      BY <1>1, <1>6, <2>2, SameState DEF DrawParts
    <3> QED
      BY <1>2, <1>3, <3>1 DEF AtOK, MadeOK, ScreensOf
  <2> QED
    BY <2>1, <2>2
<1>8. ASSUME NEW u \in Thread
      PROVE  UserOK(u)'
  <2> SUFFICES ASSUME NEW e \in Display, NEW y \in Xid, Uses(u, e, y)
               PROVE  /\ drawable'[<<e, y>>] # None
                      /\ call'[u].op \in {"create", "destroy"} => Exists(e, y)' /\ drawable'[<<e, y>>].own
                      /\ call'[u].op = "create" => Known(e, y)' = None /\ call'[u].vendor = Owner(e, y)'
                      /\ call'[u].op = "destroy" /\ pc'[u] = "vendor" => Known(e, y)' = None
                      /\ pc'[u] \in {"remember", "unmap", "vendor"} /\ Exists(e, y)' =>
                           call'[u].vendor = Owner(e, y)'
    BY <1>3 DEF UserOK
  <2>1. CASE <<e, y>> = <<d, x>>
    BY <1>1, <1>5, <2>1
  <2>2. CASE <<e, y>> # <<d, x>>
    <3>1. /\ Exists(e, y)' = Exists(e, y) /\ Owner(e, y)' = Owner(e, y)
          /\ drawable'[<<e, y>>] = drawable[<<e, y>>] /\ UserOK(u)
      BY <1>1, <1>6, <2>2, SameState DEF DrawParts
    <3> QED
      BY <1>1, <1>2, <3>1 DEF UserOK
  <2> QED
    BY <2>1, <2>2
<1> QED
  BY <1>4, <1>7, <1>8 DEF DrawParts

LEMMA DrawPartsStep ==
  ASSUME DisplayInv, DrawParts, ConfigsOK, ~LateHook, ~DestroyInUse, ~ForeignReuse, [Next]_vars
  PROVE  DrawParts'
<1>1. ASSUME NEW t \in Thread, Begin(t)
      PROVE  DrawParts'
  BY <1>1, DrawBegin
<1>2. ASSUME NEW t \in Thread, Step(t)
      PROVE  DrawParts'
  BY <1>2, DrawLookup, DrawConfigs, DrawStrings, DrawClosing, DrawVendor, DrawQuery, DrawRemember,
     DrawUnmap, DrawCall, DrawMap, DrawCreates, DrawForget, DrawGone DEF Step
<1>3. ASSUME NEW d \in Display, NEW x \in Xid, ForeignDrawable(d, x)
      PROVE  DrawParts'
  BY <1>3, DrawForeign
<1>4. CASE UNCHANGED vars \/ \E d \in Display : OpenDisplay(d)
  <2>1. UNCHANGED <<table, info, pc, call, drawable, glvnd>>
    BY <1>4 DEF vars, tableVars, threadVars, outsideVars, OpenDisplay
  <2> QED
    BY <2>1 DEF DrawParts, AtOK, MadeOK, UserOK, Sole, Uses, Making, Exists, Known, Owner,
                ScreenVendor, ScreensOf
<1> QED
  BY <1>1, <1>2, <1>3, <1>4 DEF Next

LEMMA DrawPartsInit ==
  ASSUME Init
  PROVE  DrawParts
<1>1. \A t \in Thread : call[t] = NoCall
  BY DEF Init
<1>2. \A t \in Thread, d \in Display, x \in Xid : ~Uses(t, d, x)
  BY <1>1, NoCallTyped, ConstantsAssumption DEF Uses
<1>3. \A d \in Display, x \in Xid : drawable[<<d, x>>] = None /\ Known(d, x) = None
  BY DEF Init, Known
<1> QED
  BY <1>2, <1>3 DEF DrawParts, AtOK, MadeOK, UserOK, Sole, Exists

\* What the threads have to keep to, in all that the theorems say of mappings.
LEMMA DrawPartsInvariant ==
  ASSUME ~LateHook, ~DestroyInUse, ~ForeignReuse
  PROVE  Spec => [](DisplayInv /\ ConfigsOK /\ DrawParts)
<1>1. Init => ConfigsOK /\ DrawParts
  <2>1. Init => ConfigsOK
    BY ConstantsAssumption DEF Init, ConfigsOK
  <2> QED
    BY <2>1, DrawPartsInit
<1>2. DisplayInv /\ ConfigsOK /\ DrawParts /\ [Next]_vars => ConfigsOK' /\ DrawParts'
  BY ConfigsStep, DrawPartsStep
<1>3. Spec => []DisplayInv
  BY DisplayInvariant
<1> QED
  BY <1>1, <1>2, <1>3, PTL DEF Spec

\* A function on a drawable that exists reaches the vendor of its screen (libglxmapping.c:944), if
\* nobody uses a drawable that is being destroyed and the XIDs of other clients are not reused.
THEOREM VendorInvariant ==
  ASSUME ~LateHook, ~DestroyInUse, ~ForeignReuse
  PROVE  Spec => []RightVendor
<1>1. DisplayInv /\ DrawParts => RightVendor
  BY DrawPartsImply
<1> QED
  BY <1>1, DrawPartsInvariant, PTL

\* The vendor of each drawable that this client has made is recorded for as long as the drawable
\* lives, but while a thread makes or destroys it (libglx.c:1534), under the same conditions.
THEOREM MappedInvariant ==
  ASSUME ~LateHook, ~DestroyInUse, ~ForeignReuse
  PROVE  Spec => []OwnDrawablesMapped
<1>1. DisplayInv /\ DrawParts => OwnDrawablesMapped
  BY DrawPartsImply
<1> QED
  BY <1>1, DrawPartsInvariant, PTL

\* A config that an application has been given leads to its vendor from then on (libglx.c:1493,
\* libglxmapping.c:821): it is recorded before it is given, under whatever failures in this and
\* other threads, and no display that is closed takes it away.  That no two vendors use the same
\* address is what libglxabi.h asks of them; no hook calls GLX after libGLX's own.
THEOREM ConfigInvariant == ASSUME ~LateHook PROVE Spec => []ConfigsKnown
<1>1. Init => ConfigsOK
  BY ConstantsAssumption DEF Init, ConfigsOK
<1>2. DisplayInv /\ ConfigsOK /\ [Next]_vars => ConfigsOK'
  BY ConfigsStep
<1>3. DisplayInv /\ ConfigsOK => ConfigsKnown
  <2> SUFFICES ASSUME DisplayInv, ConfigsOK PROVE ConfigsKnown
    OBVIOUS
  <2>1. given \subseteq Config
    BY InvParts DEF DataOK
  <2> QED
    BY <2>1 DEF ConfigsOK, ConfigsKnown
<1>4. Spec => []DisplayInv
  BY DisplayInvariant
<1> QED
  BY <1>1, <1>2, <1>3, <1>4, PTL DEF Spec

===============================================================================
