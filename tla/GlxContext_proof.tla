--------------------------- MODULE GlxContext_proof ---------------------------
(***************************************************************************)
(* Proofs about GlxContext, for any threads, vendors, contexts, displays   *)
(* and forks.                                                              *)
(***************************************************************************)
EXTENDS GlxContext, FiniteSetTheorems, TLAPS

Hash == [Handle -> Info \cup {None}]

-----------------------------------------------------------------------------
(* The operations on the hash of context infos.                            *)

\* An info is of the same vendor as before, and deleted if it was.
Same(info, was) == info.vendor = was.vendor /\ info.deleted = was.deleted

\* One more use of a context changes nothing but its count.
LEMMA AddUseInfo ==
  ASSUME NEW h \in Hash, NEW c \in Handle, h[c] # None
  PROVE  /\ AddUse(h, c) \in Hash
         /\ AddUse(h, c)[c] # None /\ Same(AddUse(h, c)[c], h[c])
         /\ AddUse(h, c)[c].currentCount = h[c].currentCount + 1
         /\ \A d \in Handle \ {c} : AddUse(h, c)[d] = h[d]
<1>1. h[c] \in Info /\ h[c].currentCount \in Nat
  BY DEF Hash, Info
<1> DEFINE info == [h[c] EXCEPT !.currentCount = @ + 1]
<1>2. info \in Info /\ Same(info, h[c]) /\ info.currentCount = h[c].currentCount + 1
  BY <1>1 DEF Info, Same
<1>3. AddUse(h, c) = [h EXCEPT ![c] = info]
  BY DEF AddUse
<1> HIDE DEF info
<1>4. info # None
  BY <1>2, ConstantsAssumption
<1> QED
  BY <1>2, <1>3, <1>4 DEF Hash

\* One use less frees the info of a deleted context if it was the last.
LEMMA DropUseInfo ==
  ASSUME NEW h \in Hash, NEW c \in Handle, h[c] # None, h[c].currentCount >= 1
  PROVE  /\ DropUse(h, c) \in Hash
         /\ DropUse(h, c)[c] = None <=> h[c].deleted /\ h[c].currentCount = 1
         /\ DropUse(h, c)[c] # None =>
              /\ Same(DropUse(h, c)[c], h[c])
              /\ DropUse(h, c)[c].currentCount = h[c].currentCount - 1
         /\ \A d \in Handle \ {c} : DropUse(h, c)[d] = h[d]
<1>1. h[c] \in Info /\ h[c].currentCount \in Nat
  BY DEF Hash, Info
<1> DEFINE info == [h[c] EXCEPT !.currentCount = @ - 1]
<1>2. info \in Info /\ Same(info, h[c]) /\ info.currentCount = h[c].currentCount - 1
  BY <1>1 DEF Info, Same
<1>3. DropUse(h, c) = [h EXCEPT ![c] = FreeIfUnused(info)]
  BY DEF DropUse
<1> HIDE DEF info
<1>4. FreeIfUnused(info) = IF h[c].deleted /\ h[c].currentCount = 1 THEN None ELSE info
  BY <1>1, <1>2 DEF FreeIfUnused, Same
<1>5. DropUse(h, c)[c] = FreeIfUnused(info) /\ \A d \in Handle \ {c} : DropUse(h, c)[d] = h[d]
  BY <1>3 DEF Hash
<1>6. DropUse(h, c) \in Hash
  BY <1>2, <1>3, <1>4 DEF Hash
<1>7. info # None
  BY <1>2, ConstantsAssumption
<1> QED
  BY <1>2, <1>4, <1>5, <1>6, <1>7

-----------------------------------------------------------------------------
(* Counts and uses.                                                        *)

\* What each thread counts for, and who counts for a context.
UseType == [Thread -> Handle \cup {None}]
Users(use, c) == {t \in Thread : use[t] = c}

\* CountIsUse of a hash, of the uses there are, and of whether no fork was missed.
Counted(h, use, exact) ==
  \A c \in Handle : h[c] # None =>
    /\ h[c].currentCount >= Cardinality(Users(use, c))
    /\ exact => h[c].currentCount = Cardinality(Users(use, c))

\* NoFreedInfo of the contexts in use.
Held(h, use) == \A t \in Thread : use[t] # None => h[use[t]] # None

LEMMA UsersFinite ==
  ASSUME NEW use, NEW c
  PROVE  IsFiniteSet(Users(use, c)) /\ Cardinality(Users(use, c)) \in Nat
BY ConstantsAssumption, FS_Subset, FS_CardinalityType DEF Users

\* A thread starts to use a context that is known.
LEMMA AddUseCounted ==
  ASSUME NEW h \in Hash, NEW use \in UseType, NEW exact \in BOOLEAN, Counted(h, use, exact), Held(h, use),
         NEW t \in Thread, use[t] = None, NEW c \in Handle, h[c] # None
  PROVE  LET after == [use EXCEPT ![t] = c]
         IN  Counted(AddUse(h, c), after, exact) /\ Held(AddUse(h, c), after)
<1> DEFINE after == [use EXCEPT ![t] = c]
           g == AddUse(h, c)
<1>1. /\ g[c] # None /\ g[c].currentCount = h[c].currentCount + 1
      /\ \A d \in Handle \ {c} : g[d] = h[d]
  BY AddUseInfo
<1>0. h[c].currentCount \in Nat /\ \A d \in Handle : h[d] # None => h[d].currentCount \in Nat
  BY DEF Hash, Info
<1> HIDE DEF g
<1>2. Users(after, c) = Users(use, c) \cup {t} /\ t \notin Users(use, c)
  BY ConstantsAssumption DEF Users, UseType
<1>3. Cardinality(Users(after, c)) = Cardinality(Users(use, c)) + 1
  BY <1>2, UsersFinite, FS_AddElement
<1>4. \A d \in Handle \ {c} : Users(after, d) = Users(use, d)
  BY ConstantsAssumption DEF Users, UseType
<1>5. Cardinality(Users(use, c)) \in Nat
  BY UsersFinite
<1>6. Counted(g, after, exact)
  <2> SUFFICES ASSUME NEW d \in Handle, g[d] # None
               PROVE  /\ g[d].currentCount >= Cardinality(Users(after, d))
                      /\ exact => g[d].currentCount = Cardinality(Users(after, d))
    BY DEF Counted
  <2>1. CASE d = c
    BY <1>0, <1>1, <1>3, <1>5, <2>1 DEF Counted
  <2>2. CASE d # c
    BY <1>1, <1>4, <2>2 DEF Counted
  <2> QED
    BY <2>1, <2>2
<1>7. Held(g, after)
  BY <1>1, ConstantsAssumption DEF Held, UseType
<1> QED
  BY <1>6, <1>7 DEF g

\* A thread stops using a context: it was counted, and if that frees the info no
\* other thread uses it.
LEMMA DropUseCounted ==
  ASSUME NEW h \in Hash, NEW use \in UseType, NEW exact \in BOOLEAN, Counted(h, use, exact), Held(h, use),
         NEW t \in Thread, NEW c \in Handle, use[t] = c
  PROVE  LET after == [use EXCEPT ![t] = None]
         IN  /\ h[c] # None /\ h[c].currentCount >= 1
             /\ Counted(DropUse(h, c), after, exact) /\ Held(DropUse(h, c), after)
<1> DEFINE after == [use EXCEPT ![t] = None]
           g == DropUse(h, c)
           n == Cardinality(Users(use, c))
<1>1. h[c] # None
  BY ConstantsAssumption DEF Held
<1>2. n \in Nat /\ n >= 1
  <2>1. t \in Users(use, c)
    BY DEF Users
  <2>2. n \in Nat /\ IsFiniteSet(Users(use, c))
    BY UsersFinite
  <2> QED
    BY <2>1, <2>2, FS_EmptySet
<1>3. h[c].currentCount \in Nat /\ h[c].currentCount >= n
  BY <1>1 DEF Hash, Info, Counted
<1>4. h[c].currentCount >= 1
  BY <1>2, <1>3
<1>5. Users(after, c) = Users(use, c) \ {t} /\ t \in Users(use, c)
  BY ConstantsAssumption DEF Users, UseType
<1>6. Cardinality(Users(after, c)) = n - 1
  BY <1>5, UsersFinite, FS_RemoveElement
<1>7. \A d \in Handle \ {c} : Users(after, d) = Users(use, d)
  BY ConstantsAssumption DEF Users, UseType
<1>8. /\ g[c] = None => h[c].currentCount = 1
      /\ g[c] # None => g[c].currentCount = h[c].currentCount - 1
      /\ \A d \in Handle \ {c} : g[d] = h[d]
  BY <1>1, <1>4, DropUseInfo
<1>9. \A u \in Thread \ {t} : use[u] = c => g[c] # None
  <2> SUFFICES ASSUME NEW u \in Thread \ {t}, use[u] = c, g[c] = None
               PROVE  FALSE
    OBVIOUS
  <2>1. n = 1
    BY <1>2, <1>3, <1>8
  <2>2. PICK x : Users(use, c) = {x}
    BY <2>1, UsersFinite, FS_Singleton
  <2>3. u \in Users(use, c) /\ t \in Users(use, c)
    BY DEF Users
  <2> QED
    BY <2>2, <2>3
<1> HIDE DEF g
<1>10. Counted(g, after, exact)
  <2> SUFFICES ASSUME NEW d \in Handle, g[d] # None
               PROVE  /\ g[d].currentCount >= Cardinality(Users(after, d))
                      /\ exact => g[d].currentCount = Cardinality(Users(after, d))
    BY DEF Counted
  <2>1. CASE d = c
    BY <1>1, <1>2, <1>3, <1>6, <1>8, <2>1 DEF Counted
  <2>2. CASE d # c
    BY <1>7, <1>8, <2>2 DEF Counted
  <2> QED
    BY <2>1, <2>2
<1>11. Held(g, after)
  <2> SUFFICES ASSUME NEW u \in Thread, after[u] # None
               PROVE  g[after[u]] # None
    BY DEF Held
  <2>1. u # t /\ after[u] = use[u]
    BY DEF UseType
  <2>2. CASE use[u] = c
    BY <1>9, <2>1, <2>2
  <2>3. CASE use[u] # c
    BY <1>8, <2>1, <2>3 DEF UseType, Held
  <2> QED
    BY <2>2, <2>3
<1> QED
  BY <1>1, <1>4, <1>10, <1>11 DEF g

\* What glXMakeCurrent does to the infos keeps their vendors and deleted flags, adds
\* none, and frees only deleted ones.
Kept(h, g) ==
  \A c \in Handle :
    /\ h[c] # None /\ g[c] # None => Same(g[c], h[c])
    /\ h[c] = None => g[c] = None
    /\ h[c] # None /\ ~h[c].deleted => g[c] # None

\* The hash g comes from h in a step in which the uses become those of use.
HashStep(h, g, use, exact) ==
  g \in Hash /\ Kept(h, g) /\ Counted(g, use, exact) /\ Held(g, use)

LEMMA NoMove ==
  ASSUME NEW h \in Hash, NEW use \in UseType, NEW exact \in BOOLEAN, Counted(h, use, exact),
         Held(h, use)
  PROVE  HashStep(h, h, use, exact)
BY DEF HashStep, Kept, Same

LEMMA AddMove ==
  ASSUME NEW h \in Hash, NEW use \in UseType, NEW exact \in BOOLEAN, Counted(h, use, exact),
         Held(h, use), NEW t \in Thread, use[t] = None, NEW c \in Handle, h[c] # None
  PROVE  HashStep(h, AddUse(h, c), [use EXCEPT ![t] = c], exact)
<1>1. Kept(h, AddUse(h, c))
  <2>1. \A d \in Handle : d # c => AddUse(h, c)[d] = h[d]
    BY AddUseInfo
  <2> QED
    BY <2>1, AddUseInfo DEF Kept, Same
<1> QED
  BY <1>1, AddUseInfo, AddUseCounted DEF HashStep

LEMMA DropMove ==
  ASSUME NEW h \in Hash, NEW use \in UseType, NEW exact \in BOOLEAN, Counted(h, use, exact),
         Held(h, use), NEW t \in Thread, NEW c \in Handle, use[t] = c
  PROVE  /\ h[c] # None
         /\ HashStep(h, DropUse(h, c), [use EXCEPT ![t] = None], exact)
         /\ ~(h[c].deleted /\ h[c].currentCount = 1) => DropUse(h, c)[c] # None
         /\ \A d \in Handle \ {c} : DropUse(h, c)[d] = h[d]
<1>1. h[c] # None /\ h[c].currentCount >= 1
  BY DropUseCounted
<1>2. Kept(h, DropUse(h, c))
  <2>1. \A d \in Handle : d # c => DropUse(h, c)[d] = h[d]
    BY <1>1, DropUseInfo
  <2>2. DropUse(h, c)[c] # None \/ h[c].deleted
    BY <1>1, DropUseInfo
  <2>3. DropUse(h, c)[c] # None => Same(DropUse(h, c)[c], h[c])
    BY <1>1, DropUseInfo
  <2> QED
    BY <1>1, <2>1, <2>2, <2>3 DEF Kept, Same
<1> QED
  BY <1>1, <1>2, DropUseInfo, DropUseCounted DEF HashStep

\* From one context to another that is known.
LEMMA DropAddMove ==
  ASSUME NEW h \in Hash, NEW use \in UseType, NEW exact \in BOOLEAN, Counted(h, use, exact),
         Held(h, use), NEW t \in Thread, NEW old \in Handle, use[t] = old,
         NEW new \in Handle, new # old, h[new] # None
  PROVE  /\ h[old] # None
         /\ HashStep(h, AddUse(DropUse(h, old), new), [use EXCEPT ![t] = new], exact)
         /\ ~(h[old].deleted /\ h[old].currentCount = 1) =>
              AddUse(DropUse(h, old), new)[old] # None
         /\ DropUse(h, old)[new] = h[new]
         /\ \A d \in Handle : h[d] # None /\ d # old => AddUse(DropUse(h, old), new)[d] # None
<1> DEFINE g == DropUse(h, old)
           left == [use EXCEPT ![t] = None]
<1>1. /\ h[old] # None
      /\ g \in Hash /\ Kept(h, g) /\ Counted(g, left, exact) /\ Held(g, left)
      /\ ~(h[old].deleted /\ h[old].currentCount = 1) => g[old] # None
      /\ \A d \in Handle \ {old} : g[d] = h[d]
  BY DropMove DEF HashStep
<1>2. g[new] = h[new] /\ g[new] # None
  BY <1>1
<1>3. left \in UseType /\ left[t] = None /\ [left EXCEPT ![t] = new] = [use EXCEPT ![t] = new]
  BY DEF UseType
<1> HIDE DEF g, left
<1>4. HashStep(g, AddUse(g, new), [use EXCEPT ![t] = new], exact)
  <2>1. HashStep(g, AddUse(g, new), [left EXCEPT ![t] = new], exact)
    BY <1>1, <1>2, <1>3, AddMove
  <2> QED
    BY <1>3, <2>1
<1>5. Kept(h, AddUse(g, new))
  BY <1>1, <1>4 DEF Kept, HashStep, Same
<1>6. \A d \in Handle \ {new} : AddUse(g, new)[d] = g[d]
  BY <1>1, <1>2, AddUseInfo
<1>7. AddUse(g, new)[new] # None
  BY <1>1, <1>2, AddUseInfo
<1> QED
  BY <1>1, <1>2, <1>4, <1>5, <1>6, <1>7 DEF HashStep, g

\* UpdateCurrentContext counts the new context first; for two known contexts that
\* is no different.
LEMMA SwitchMove ==
  ASSUME NEW h \in Hash, NEW use \in UseType, NEW exact \in BOOLEAN, Counted(h, use, exact),
         Held(h, use), NEW t \in Thread, NEW old \in Handle, use[t] = old,
         NEW new \in Handle, h[new] # None
  PROVE  HashStep(h, UpdateCurrentContext(h, new, old), [use EXCEPT ![t] = new], exact)
<1>1. CASE new = old
  <2>1. [use EXCEPT ![t] = new] = use
    BY <1>1 DEF UseType
  <2> QED
    BY <1>1, <2>1, NoMove DEF UpdateCurrentContext
<1>2. CASE new # old
  <2>1. h[old] # None
    BY DropMove
  <2>2. DropUse(AddUse(h, new), old) = AddUse(DropUse(h, old), new)
    BY <1>2, <2>1 DEF DropUse, AddUse, Hash
  <2> QED
    BY <1>2, <2>2, DropAddMove DEF UpdateCurrentContext
<1> QED
  BY <1>1, <1>2

-----------------------------------------------------------------------------
(* The uses of a state.                                                    *)

Use == [t \in Thread |-> InUse(t)]

Locked == {"switch", "release", "dispatch", "vendor"}

LEMMA UseTyped ==
  ASSUME TypeOK
  PROVE  Use \in UseType /\ hash \in Hash /\ (~forkPending) \in BOOLEAN
<1>1. \A t \in Thread : InUse(t) \in Handle \cup {None}
  BY DEF TypeOK, InUse, ThreadState, Request
<1> QED
  BY <1>1 DEF TypeOK, Use, UseType, Hash

LEMMA CountHeld ==
  ASSUME ContextInv
  PROVE  /\ Use \in UseType /\ hash \in Hash /\ (~forkPending) \in BOOLEAN
         /\ Counted(hash, Use, ~forkPending) /\ Held(hash, Use)
<1>1. \A c : Users(Use, c) = Uses(c)
  BY DEF Users, Use, Uses
<1>2. Counted(hash, Use, ~forkPending)
  BY <1>1 DEF ContextInv, CountIsUse, Counted
<1>3. Held(hash, Use)
  <2> SUFFICES ASSUME NEW t \in Thread, InUse(t) # None
               PROVE  hash[InUse(t)] # None
    BY DEF Held, Use
  <2>1. glx[t] # None
    BY DEF InUse
  <2> QED
    BY <2>1 DEF ContextInv, StateOK
<1> QED
  BY <1>2, <1>3, UseTyped DEF ContextInv

LEMMA DropTyped ==
  ASSUME ContextInv, NEW t \in Thread, NEW old \in Handle, InUse(t) = old
  PROVE  DropUse(hash, old) \in Hash
<1>1. Use[t] = old
  BY DEF Use
<1>2. PICK h \in Hash, use \in UseType, exact \in BOOLEAN :
        h = hash /\ use = Use /\ exact = ~forkPending
  BY CountHeld
<1>3. Counted(h, use, exact) /\ Held(h, use) /\ use[t] = old
  BY <1>1, <1>2, CountHeld
<1>4. HashStep(h, DropUse(h, old), [use EXCEPT ![t] = None], exact)
  BY <1>3, DropMove
<1> QED
  BY <1>2, <1>4 DEF HashStep

LEMMA CountAfter ==
  ASSUME Counted(hash', Use', ~forkPending')
  PROVE  CountIsUse'
<1>1. \A c : Users(Use', c) = Uses(c)'
  BY DEF Users, Use, Uses
<1> QED
  BY <1>1 DEF CountIsUse, Counted

-----------------------------------------------------------------------------
(* What a step of one thread leaves to the others.                         *)

\* Everything that is another thread's own stays as it is.
OthersSame(t) ==
  \A u \in Thread \ {t} :
    /\ pc'[u] = pc[u] /\ call'[u] = call[u] /\ glx'[u] = glx[u] /\ current'[u] = current[u]
    /\ \A v \in Vendor : vendorCur'[<<u, v>>] = vendorCur[<<u, v>>]

\* The lock protects what a thread in CommonMakeCurrent has read from the hash.
HashGuarded(t) == hash' = hash \/ lock \in {None, Gone, t}

KeptVendor(h, g) ==
  \A c \in Handle : h[c] # None /\ g[c] # None => g[c].vendor = h[c].vendor

LEMMA InUseSame ==
  ASSUME NEW u, pc'[u] = pc[u], call'[u] = call[u], glx'[u] = glx[u]
  PROVE  InUse(u)' = InUse(u)
BY DEF InUse

LEMMA OthersKeep ==
  ASSUME ContextInv, NEW t \in Thread, OthersSame(t), HashGuarded(t),
         KeptVendor(hash, hash'), Held(hash', Use'), NEW u \in Thread \ {t}
  PROVE  CallOK(u)' /\ StateOK(u)' /\ CurrentOK(u)'
<1>1. CallOK(u) /\ StateOK(u) /\ CurrentOK(u) /\ TypeOK /\ LockInv
  BY DEF ContextInv
<1>2. pc'[u] = pc[u] /\ call'[u] = call[u] /\ glx'[u] = glx[u] /\ InUse(u)' = InUse(u)
  BY InUseSame DEF OthersSame
<1>3. hash' = hash \/ pc[u] \notin Locked
  BY <1>1, ConstantsAssumption DEF HashGuarded, LockInv, Locked
<1>4. CallOK(u)'
  BY <1>1, <1>2, <1>3 DEF CallOK, CanRestoreOldContext, Locked
<1>5. StateOK(u)'
  <2>1. InUse(u) \in Handle \cup {None} /\ Use'[u] = InUse(u)'
    BY <1>1 DEF TypeOK, InUse, ThreadState, Request, Use
  <2>2. InUse(u) # None => hash'[InUse(u)] # None
    BY <1>2, <2>1 DEF Held
  <2>3. glx[u] # None => InUse(u) \in Handle /\ InUse(u) # None /\ hash[InUse(u)] # None
    BY <1>1, <2>1 DEF StateOK
  <2>4. glx[u] # None => hash'[InUse(u)].vendor = hash[InUse(u)].vendor
    BY <2>1, <2>2, <2>3 DEF KeptVendor
  <2> QED
    BY <1>1, <1>2, <2>2, <2>3, <2>4 DEF StateOK
<1>6. CurrentOK(u)'
  <2>1. current'[u] = current[u] /\ \A v \in Vendor : vendorCur'[<<u, v>>] = vendorCur[<<u, v>>]
    BY DEF OthersSame
  <2> QED
    BY <1>1, <1>2, <2>1 DEF CurrentOK, Closing
<1> QED
  BY <1>4, <1>5, <1>6

\* No context that is still wanted goes away, and none appears.
ContextsStay ==
  \A c \in Handle :
    /\ vendorCtx[c] # None /\ ~vendorCtx[c].doomed => vendorCtx'[c] = vendorCtx[c]
    /\ vendorCtx'[c] # None => vendorCtx'[c] = vendorCtx[c]

LEMMA SurvivingStay ==
  ASSUME TypeOK, vendorCtx' = vendorCtx \/ vendorCtx' = Surviving(vendorCtx, vendorCur')
  PROVE  vendorCtx' \in [Handle -> VendorContext \cup {None}] /\ ContextsStay
BY DEF TypeOK, Surviving, ContextsStay

\* A step of glXMakeCurrent, or of a thread that exits.
PlainStep(t) ==
  /\ OthersSame(t)
  /\ HashGuarded(t)
  /\ HashStep(hash, hash', Use', ~forkPending)
  /\ ContextsStay
  /\ {pc[t], pc'[t]} \cap {"add", "destroy", "close"} = {}
  /\ forkPending' = forkPending /\ UNCHANGED <<forks, leaked, reused>>
  /\ \/ lock' = lock /\ (pc[t] \in Locked <=> pc'[t] \in Locked)
     \/ /\ lock \in {None, t} /\ ~forkPending
        /\ lock' = IF pc'[t] \in Locked THEN t ELSE None

LEMMA PlainStepInv ==
  ASSUME ContextInv, NEW t \in Thread, PlainStep(t), TypeOK',
         CallOK(t)', StateOK(t)', CurrentOK(t)'
  PROVE  ContextInv'
<1>1. TypeOK /\ LockInv /\ ContextKnown /\ CloseOK /\ \A u \in Thread : VendorContextOK(u)
  BY DEF ContextInv
<1>2. \A u \in Thread : /\ pc'[u] \in {"add", "destroy", "close"} <=> pc[u] \in {"add", "destroy", "close"}
                        /\ pc[u] \in {"add", "destroy", "close"} =>
                             u # t /\ pc'[u] = pc[u] /\ call'[u] = call[u]
  BY DEF PlainStep, OthersSame
<1>3. CountIsUse'
  BY CountAfter DEF PlainStep, HashStep
<1>4. LockInv'
  <2>1. \A u \in Thread \ {t} : pc'[u] = pc[u]
    BY DEF PlainStep, OthersSame
  <2>2. CASE lock' = lock /\ (pc[t] \in Locked <=> pc'[t] \in Locked)
    BY <1>1, <1>2, <2>1, <2>2 DEF LockInv, Locked, PlainStep
  <2>3. CASE lock \in {None, t} /\ ~forkPending /\ lock' = IF pc'[t] \in Locked THEN t ELSE None
    BY <1>1, <2>1, <2>3, ConstantsAssumption DEF LockInv, Locked, PlainStep
  <2> QED
    BY <2>2, <2>3 DEF PlainStep
<1>5. ContextKnown'
  <2> SUFFICES ASSUME NEW c \in Handle \ reused, Created(c)'
               PROVE  /\ hash'[c] # None /\ hash'[c].vendor = vendorCtx'[c].vendor
                      /\ ~hash'[c].deleted
    BY DEF ContextKnown, PlainStep
  <2>1. vendorCtx'[c] = vendorCtx[c]
    BY DEF PlainStep, ContextsStay, Created
  <2>2. Created(c)
    BY <1>2, <2>1 DEF Created, PlainStep
  <2>3. hash[c] # None /\ hash[c].vendor = vendorCtx[c].vendor /\ ~hash[c].deleted
    BY <1>1, <2>2 DEF ContextKnown
  <2> QED
    BY <2>1, <2>3 DEF PlainStep, HashStep, Kept, Same
<1>6. \A u \in Thread : VendorContextOK(u)'
  <2> SUFFICES ASSUME NEW u \in Thread, pc'[u] \in {"add", "destroy"}
               PROVE  VendorContextOK(u)'
    BY DEF VendorContextOK
  <2>0. PICK c : c = call[u].new
    OBVIOUS
  <2>1. pc'[u] = pc[u] /\ call'[u] = call[u]
    BY <1>2
  <2>2. /\ vendorCtx[c] # None /\ ~vendorCtx[c].doomed /\ vendorCtx[c].dpy = call[u].dpy
        /\ \A w \in Thread \ {u} : /\ pc[w] \in {"add", "destroy"} => call[w].new # c
                                   /\ pc[w] = "close" => call[w].dpy # call[u].dpy
    BY <1>1, <2>0, <2>1 DEF VendorContextOK
  <2>3. c \in Handle
    <3>1. CallOK(u)
      BY DEF ContextInv
    <3> QED
      BY <1>1, <2>0, <2>1, <3>1 DEF TypeOK, Request, CallOK
  <2>4. vendorCtx'[c] = vendorCtx[c]
    BY <2>2, <2>3 DEF PlainStep, ContextsStay
  <2>5. \A w \in Thread \ {u} : /\ pc'[w] \in {"add", "destroy"} => call'[w].new # c
                                /\ pc'[w] = "close" => call'[w].dpy # call[u].dpy
    BY <1>2, <2>2
  <2>6. call'[u].new = c /\ call'[u].dpy = call[u].dpy
    BY <2>0, <2>1
  <2>7. /\ vendorCtx'[call'[u].new] # None /\ ~vendorCtx'[call'[u].new].doomed
        /\ vendorCtx'[call'[u].new].dpy = call'[u].dpy
    BY <2>2, <2>4, <2>6
  <2>8. \A w \in Thread \ {u} :
          /\ pc'[w] \in {"add", "destroy"} => call'[w].new # call'[u].new
          /\ pc'[w] = "close" => call'[w].dpy # call'[u].dpy
    BY <2>5, <2>6
  <2> QED
    BY <2>7, <2>8 DEF VendorContextOK
<1>7. CloseOK'
  BY <1>1, <1>2 DEF CloseOK
<1>8. \A u \in Thread \ {t} : CallOK(u)' /\ StateOK(u)' /\ CurrentOK(u)'
  <2>1. KeptVendor(hash, hash')
    BY DEF PlainStep, HashStep, Kept, KeptVendor, Same
  <2> QED
    BY <2>1, OthersKeep DEF PlainStep, HashStep
<1> QED
  BY <1>3, <1>4, <1>5, <1>6, <1>7, <1>8 DEF ContextInv

LEMMA UseAfter ==
  ASSUME TypeOK, NEW t \in Thread, OthersSame(t)
  PROVE  /\ Use' = [Use EXCEPT ![t] = InUse(t)']
         /\ InUse(t)' = InUse(t) => Use' = Use
<1>1. \A u \in Thread \ {t} : InUse(u)' = InUse(u)
  BY InUseSame DEF OthersSame
<1>2. Use = [u \in Thread |-> InUse(u)] /\ Use' = [u \in Thread |-> InUse(u)']
  BY DEF Use
<1> QED
  BY <1>1, <1>2

-----------------------------------------------------------------------------
(* What the vendor libraries do.                                           *)

LEMMA VendorCurAfter ==
  ASSUME TypeOK, NEW t \in Thread
  PROVE  /\ \A v \in Vendor, d \in Display \cup {None}, c \in Handle :
              VendorMakesCurrent(t, v, d, c) =>
                /\ vendorCur' \in [Thread \X Vendor -> Handle \cup {None}]
                /\ \A u \in Thread, w \in Vendor :
                     vendorCur'[<<u, w>>] = IF u = t /\ w = v THEN c ELSE vendorCur[<<u, w>>]
                /\ vendorCtx' = Surviving(vendorCtx, vendorCur')
         /\ \A vs \in SUBSET Vendor :
              VendorLosesCurrent(t, vs) =>
                /\ vendorCur' \in [Thread \X Vendor -> Handle \cup {None}]
                /\ \A u \in Thread, w \in Vendor :
                     vendorCur'[<<u, w>>] = IF u = t /\ w \in vs THEN None ELSE vendorCur[<<u, w>>]
                /\ vendorCtx' = Surviving(vendorCtx, vendorCur')
<1>1. ASSUME NEW v \in Vendor, NEW d \in Display \cup {None}, NEW c \in Handle, VendorMakesCurrent(t, v, d, c)
      PROVE  /\ vendorCur' \in [Thread \X Vendor -> Handle \cup {None}]
             /\ \A u \in Thread, w \in Vendor :
                  vendorCur'[<<u, w>>] = IF u = t /\ w = v THEN c ELSE vendorCur[<<u, w>>]
             /\ vendorCtx' = Surviving(vendorCtx, vendorCur')
  BY <1>1 DEF VendorMakesCurrent, VendorSet, TypeOK
<1>2. ASSUME NEW vs \in SUBSET Vendor, VendorLosesCurrent(t, vs)
      PROVE  /\ vendorCur' \in [Thread \X Vendor -> Handle \cup {None}]
             /\ \A u \in Thread, w \in Vendor :
                  vendorCur'[<<u, w>>] = IF u = t /\ w \in vs THEN None ELSE vendorCur[<<u, w>>]
             /\ vendorCtx' = Surviving(vendorCtx, vendorCur')
  BY <1>2 DEF VendorLosesCurrent, TypeOK
<1> QED
  BY <1>1, <1>2

-----------------------------------------------------------------------------
(* The steps of glXMakeCurrent.                                            *)

\* What each of these steps has to show.
Done(t) == PlainStep(t) /\ TypeOK' /\ CallOK(t)' /\ StateOK(t)' /\ CurrentOK(t)'

\* Facts about a thread that every step needs.
LEMMA ThreadFacts ==
  ASSUME ContextInv, NEW t \in Thread
  PROVE  /\ TypeOK /\ LockInv /\ CallOK(t) /\ StateOK(t) /\ CurrentOK(t)
         /\ pc[t] \in {"idle", "switch", "release", "dispatch", "vendor", "add", "destroy",
                       "close", "exiting", "callback", "exited"}
         /\ call[t] \in Request /\ glx[t] \in ThreadState \cup {None}
         /\ glx[t] # None => glx[t] \in ThreadState /\ InUse(t) \in Handle /\ InUse(t) # None
         /\ glx[t] = None => InUse(t) = None
         /\ pc[t] \in Locked <=> lock = t
<1>1. TypeOK /\ LockInv /\ CallOK(t) /\ StateOK(t) /\ CurrentOK(t)
  BY DEF ContextInv
<1>2. InUse(t) \in Handle \cup {None}
  BY <1>1 DEF TypeOK, InUse, ThreadState, Request
<1> QED
  BY <1>1, <1>2 DEF TypeOK, StateOK, LockInv, InUse, Locked

LEMMA MakeNoneCurrentStep ==
  ASSUME ContextInv, NEW t \in Thread, MakeNoneCurrent(t)
  PROVE  Done(t)
<1>1. /\ TypeOK /\ CallOK(t) /\ StateOK(t) /\ CurrentOK(t) /\ pc[t] = "idle" /\ ~forkPending
      /\ lock = None /\ glx[t] # None /\ lock' = t /\ pc' = [pc EXCEPT ![t] = "release"]
      /\ UNCHANGED <<hash, glx, call, current, owner, vendorCtx, vendorCur, forkPending, forks, leaked, reused>>
  BY ThreadFacts DEF MakeNoneCurrent, CanCall, dispatchVars, vendorVars, historyVars
<1>2. TypeOK'
  BY <1>1 DEF TypeOK
<1>3. OthersSame(t)
  BY <1>1 DEF OthersSame, TypeOK
<1>4. pc'[t] = "release"
  BY <1>1 DEF TypeOK
<1>5. InUse(t)' = InUse(t)
  BY <1>1, <1>4 DEF InUse
<1>6. HashStep(hash, hash', Use', ~forkPending)
  BY <1>1, <1>3, <1>5, UseAfter, CountHeld, NoMove
<1>7. PlainStep(t)
  BY <1>1, <1>3, <1>4, <1>6 DEF PlainStep, HashGuarded, ContextsStay, Locked
<1>8. CallOK(t)'
  BY <1>1, <1>4 DEF CallOK, NoCall
<1>9. StateOK(t)'
  BY <1>1, <1>4, <1>5 DEF StateOK
<1>10. CurrentOK(t)'
  BY <1>1, <1>4 DEF CurrentOK, Closing
<1> QED
  BY <1>2, <1>7, <1>8, <1>9, <1>10 DEF Done

LEMMA CommonMakeCurrentStep ==
  ASSUME ContextInv, NEW t \in Thread, NEW d \in Display, NEW c \in Handle, MakeCurrent(t, d, c)
  PROVE  Done(t)
<1>1. /\ TypeOK /\ CallOK(t) /\ StateOK(t) /\ CurrentOK(t) /\ pc[t] = "idle" /\ ~forkPending
      /\ lock = None /\ hash[c] # None /\ lock' = t
      /\ UNCHANGED <<current, owner, vendorCtx, vendorCur, forkPending, forks, leaked, reused>>
  BY ThreadFacts DEF MakeCurrent, CanCall, dispatchVars, vendorVars, historyVars
<1>2. hash[c] \in Info /\ hash[c].vendor \in Vendor /\ c # None
  BY <1>1, ConstantsAssumption DEF TypeOK, Info
<1>3. CASE glx[t] = None
  <2> DEFINE request == [new |-> c, dpy |-> d, restore |-> None]
  <2>1. StartAcquire(t, hash, request)
    BY <1>1, <1>3 DEF MakeCurrent
  <2>2. request \in Request
    BY DEF Request
  <2>3. /\ hash' = AddUse(hash, c)
        /\ glx' = [glx EXCEPT ![t] = [context |-> None, vendor |-> hash[c].vendor, dpy |-> None]]
        /\ pc' = [pc EXCEPT ![t] = "dispatch"]
        /\ call' = [call EXCEPT ![t] = request]
    BY <2>1 DEF StartAcquire
  <2>4. OthersSame(t)
    BY <1>1, <2>3 DEF OthersSame, TypeOK
  <2>5. /\ pc'[t] = "dispatch" /\ call'[t] = request /\ InUse(t) = None
        /\ glx'[t] = [context |-> None, vendor |-> hash[c].vendor, dpy |-> None]
    BY <1>1, <1>3, <2>3 DEF TypeOK, InUse
  <2>6. glx'[t] \in ThreadState /\ glx'[t] # None
    BY <1>2, <2>5, ConstantsAssumption DEF ThreadState
  <2>7. InUse(t)' = c
    BY <2>5, <2>6 DEF InUse
  <2>8. HashStep(hash, hash', Use', ~forkPending)
    <3>1. Use' = [Use EXCEPT ![t] = c] /\ Use[t] = None
      BY <1>1, <2>4, <2>5, <2>7, UseAfter DEF Use
    <3> QED
      BY <1>1, <2>3, <3>1, AddMove, CountHeld
  <2>9. TypeOK'
    BY <1>1, <2>2, <2>3, <2>5, <2>6, <2>8 DEF TypeOK, HashStep, Hash
  <2>10. PlainStep(t)
    BY <1>1, <2>4, <2>5, <2>8 DEF PlainStep, HashGuarded, ContextsStay, Locked
  <2>11. CallOK(t)'
    BY <1>2, <2>5 DEF CallOK
  <2>12. StateOK(t)'
    <3>1. hash'[c] # None /\ Same(hash'[c], hash[c])
      BY <1>1, <2>3, AddUseInfo DEF TypeOK, Hash
    <3> QED
      BY <1>2, <2>5, <2>6, <2>7, <3>1 DEF StateOK, Same
  <2>13. CurrentOK(t)'
    BY <1>1, <1>3, <2>5 DEF CurrentOK, Closing
  <2> QED
    BY <2>9, <2>10, <2>11, <2>12, <2>13 DEF Done
<1>4. CASE glx[t] # None
  <2>0. PICK old : old = glx[t]
    OBVIOUS
  <2>1. PICK canRestore \in BOOLEAN :
          /\ canRestore => old.vendor # hash[c].vendor /\ CanRestoreOldContext(old.context)
          /\ pc' = [pc EXCEPT ![t] = IF old.vendor = hash[c].vendor THEN "switch" ELSE "release"]
          /\ call' = [call EXCEPT ![t] = [new |-> c, dpy |-> d,
                                          restore |-> IF canRestore THEN old ELSE None]]
          /\ UNCHANGED <<hash, glx>>
    BY <1>1, <1>4, <2>0 DEF MakeCurrent
  <2>2. /\ old \in ThreadState /\ InUse(t) = old.context /\ old # None
        /\ old.context \in Handle /\ old.context # None
        /\ hash[old.context] # None /\ hash[old.context].vendor = old.vendor
    BY <1>1, <1>4, <2>0, ThreadFacts DEF InUse, StateOK
  <2>3. OthersSame(t)
    BY <1>1, <2>1 DEF OthersSame, TypeOK
  <2>4. /\ pc'[t] = IF old.vendor = hash[c].vendor THEN "switch" ELSE "release"
        /\ call'[t] = [new |-> c, dpy |-> d, restore |-> IF canRestore THEN old ELSE None]
        /\ glx'[t] = old /\ hash' = hash
    BY <1>1, <2>0, <2>1 DEF TypeOK
  <2>5. InUse(t)' = InUse(t)
    BY <1>1, <2>0, <2>4 DEF InUse
  <2>6. HashStep(hash, hash', Use', ~forkPending)
    BY <1>1, <2>3, <2>4, <2>5, UseAfter, CountHeld, NoMove
  <2>7. TypeOK'
    <3>1. [new |-> c, dpy |-> d, restore |-> IF canRestore THEN old ELSE None] \in Request
      BY <2>2 DEF Request
    <3> QED
      BY <1>1, <2>1, <3>1 DEF TypeOK
  <2>8. PlainStep(t)
    BY <1>1, <2>3, <2>4, <2>6 DEF PlainStep, HashGuarded, ContextsStay, Locked
  <2>9. CallOK(t)'
    BY <1>1, <1>2, <2>0, <2>1, <2>2, <2>4 DEF CallOK, CanRestoreOldContext
  <2>10. StateOK(t)'
    BY <1>1, <2>0, <2>2, <2>4, <2>5 DEF StateOK
  <2>11. CurrentOK(t)'
    BY <1>1, <2>0, <2>2, <2>4 DEF CurrentOK, Closing
  <2> QED
    BY <2>7, <2>8, <2>9, <2>10, <2>11 DEF Done
<1> QED
  BY <1>3, <1>4

LEMMA SwitchContextStep ==
  ASSUME ContextInv, NEW t \in Thread, SwitchContext(t)
  PROVE  Done(t)
<1>0. PICK old, request : old = glx[t] /\ request = call[t]
  OBVIOUS
<1>1. /\ TypeOK /\ CallOK(t) /\ StateOK(t) /\ CurrentOK(t) /\ pc[t] = "switch" /\ lock = t
      /\ ~forkPending /\ lock' = None /\ pc' = [pc EXCEPT ![t] = "idle"]
      /\ call' = [call EXCEPT ![t] = NoCall]
      /\ UNCHANGED <<current, owner, forkPending, forks, leaked, reused>>
  BY ThreadFacts, ConstantsAssumption
     DEF SwitchContext, EndCall, dispatchVars, historyVars, LockInv
<1>2. /\ old \in ThreadState /\ old # None /\ InUse(t) = old.context
      /\ old.context \in Handle /\ old.context # None
      /\ request \in Request /\ request.new \in Handle /\ request.new # None
      /\ hash[request.new] # None /\ hash[request.new].vendor = old.vendor
  BY <1>0, <1>1, ThreadFacts DEF InUse, StateOK, CallOK, Request
<1>3. NoCall \in Request
  BY DEF Request, NoCall
<1>4. pc'[t] = "idle" /\ call'[t] = NoCall /\ CallOK(t)'
  BY <1>1 DEF TypeOK, CallOK, NoCall
<1>5. CASE UNCHANGED <<hash, glx, vendorCtx, vendorCur>>
  <2>1. OthersSame(t)
    BY <1>1, <1>5 DEF OthersSame, TypeOK
  <2>2. InUse(t)' = InUse(t)
    BY <1>1, <1>4, <1>5 DEF InUse
  <2>3. HashStep(hash, hash', Use', ~forkPending)
    BY <1>1, <1>5, <2>1, <2>2, UseAfter, CountHeld, NoMove
  <2>4. TypeOK'
    BY <1>1, <1>3, <1>5 DEF TypeOK
  <2>5. PlainStep(t)
    BY <1>1, <1>4, <1>5, <2>1, <2>3 DEF PlainStep, HashGuarded, ContextsStay, Locked
  <2>6. StateOK(t)'
    BY <1>1, <1>4, <1>5, <2>2 DEF StateOK
  <2>7. CurrentOK(t)'
    BY <1>1, <1>4, <1>5 DEF CurrentOK, Closing
  <2> QED
    BY <1>4, <2>4, <2>5, <2>6, <2>7 DEF Done
<1>6. CASE /\ VendorMakesCurrent(t, old.vendor, request.dpy, request.new)
           /\ glx' = [glx EXCEPT ![t].context = request.new, ![t].dpy = request.dpy]
           /\ hash' = UpdateCurrentContext(hash, request.new, old.context)
  <2>1. /\ vendorCur' \in [Thread \X Vendor -> Handle \cup {None}]
        /\ \A u \in Thread, w \in Vendor :
             vendorCur'[<<u, w>>] = IF u = t /\ w = old.vendor THEN request.new
                                    ELSE vendorCur[<<u, w>>]
        /\ vendorCtx' = Surviving(vendorCtx, vendorCur')
    BY <1>1, <1>2, <1>6, VendorCurAfter DEF ThreadState, Request
  <2>2. /\ glx'[t] \in ThreadState /\ glx'[t] # None /\ glx'[t].context = request.new
        /\ glx'[t].vendor = old.vendor
        /\ \A u \in Thread \ {t} : glx'[u] = glx[u]
        /\ glx' \in [Thread -> ThreadState \cup {None}]
    <3>1. glx' = [glx EXCEPT ![t] = [old EXCEPT !.context = request.new, !.dpy = request.dpy]]
      BY <1>0, <1>1, <1>2, <1>6 DEF TypeOK, ThreadState
    <3> DEFINE now == [old EXCEPT !.context = request.new, !.dpy = request.dpy]
    <3>2. now \in ThreadState /\ now.context = request.new /\ now.vendor = old.vendor
      BY <1>2 DEF ThreadState, Request
    <3> HIDE DEF now
    <3>3. now # None
      BY <3>2, ConstantsAssumption
    <3> QED
      BY <1>1, <3>1, <3>2, <3>3 DEF now, TypeOK
  <2>3. OthersSame(t)
    BY <1>1, <2>1, <2>2 DEF OthersSame, TypeOK
  <2>4. InUse(t)' = request.new
    BY <1>4, <2>2 DEF InUse
  <2>5. HashStep(hash, hash', Use', ~forkPending)
    <3>1. Use' = [Use EXCEPT ![t] = request.new] /\ Use[t] = old.context
      BY <1>1, <1>2, <2>3, <2>4, UseAfter DEF Use
    <3> QED
      BY <1>1, <1>2, <1>6, <3>1, SwitchMove, CountHeld
  <2>6. vendorCtx' \in [Handle -> VendorContext \cup {None}] /\ ContextsStay
    BY <1>1, <2>1, SurvivingStay
  <2>7. TypeOK'
    BY <1>1, <1>3, <2>1, <2>2, <2>5, <2>6 DEF TypeOK, HashStep, Hash
  <2>8. PlainStep(t)
    BY <1>1, <1>4, <2>3, <2>5, <2>6 DEF PlainStep, HashGuarded, Locked
  <2>9. StateOK(t)'
    <3>1. hash'[request.new] # None
      BY <1>2, <2>4, <2>5 DEF HashStep, Held, Use
    <3>2. hash'[request.new].vendor = old.vendor
      BY <1>2, <2>5, <3>1 DEF HashStep, Kept, Same
    <3> QED
      BY <1>2, <1>4, <2>2, <2>4, <3>1, <3>2 DEF StateOK
  <2>10. CurrentOK(t)'
    BY <1>0, <1>1, <1>2, <1>4, <2>1, <2>2 DEF CurrentOK, Closing
  <2> QED
    BY <1>4, <2>7, <2>8, <2>9, <2>10 DEF Done
<1> QED
  BY <1>0, <1>5, <1>6 DEF SwitchContext, vendorVars

\* A thread that holds the lock goes from the context it counts for to another one: the
\* start of InternalMakeCurrentDispatch after the old context was released.
LEMMA StartAcquireStep ==
  ASSUME ContextInv, NEW t \in Thread, NEW old \in Handle, InUse(t) = old,
         NEW request \in Request, request.new \in Handle, request.new # None,
         request.new # old, hash[request.new] # None, ~forkPending,
         StartAcquire(t, DropUse(hash, old), request), OthersSame(t),
         pc[t] \in Locked, UNCHANGED <<lock, forkPending, forks, leaked, reused>>,
         ContextsStay, vendorCtx' \in [Handle -> VendorContext \cup {None}],
         current' \in [Thread -> Vendor \cup {None}], owner' \in Vendor \cup {None},
         vendorCur' \in [Thread \X Vendor -> Handle \cup {None}],
         current'[t] = None, \A v \in Vendor : vendorCur'[<<t, v>>] = None,
         request.restore # None =>
           /\ request.restore.context \notin {None, request.new}
           /\ request.restore.context \in Handle
           /\ hash[request.restore.context] # None
           /\ request.restore.context = old => CanRestoreOldContext(old)
  PROVE  Done(t)
<1>1. TypeOK /\ LockInv /\ lock = t
  BY ThreadFacts
<1>2. PICK new : new = request.new
  OBVIOUS
<1>3. /\ hash[old] # None
      /\ HashStep(hash, AddUse(DropUse(hash, old), new), [Use EXCEPT ![t] = new], ~forkPending)
      /\ ~(hash[old].deleted /\ hash[old].currentCount = 1) =>
           AddUse(DropUse(hash, old), new)[old] # None
      /\ DropUse(hash, old)[new] = hash[new]
      /\ \A d \in Handle : hash[d] # None /\ d # old => AddUse(DropUse(hash, old), new)[d] # None
  <2>1. Use[t] = old
    BY DEF Use
  <2>2. /\ Use \in UseType /\ hash \in Hash /\ (~forkPending) \in BOOLEAN
        /\ Counted(hash, Use, ~forkPending) /\ Held(hash, Use)
    BY CountHeld
  <2>3. new \in Handle /\ new # old /\ hash[new] # None
    BY <1>2
  <2>4. PICK h \in Hash, use \in UseType, exact \in BOOLEAN :
          h = hash /\ use = Use /\ exact = ~forkPending
    BY <2>2
  <2>5. Counted(h, use, exact) /\ Held(h, use) /\ use[t] = old /\ h[new] # None
    BY <2>1, <2>2, <2>3, <2>4
  <2>6. /\ h[old] # None
        /\ HashStep(h, AddUse(DropUse(h, old), new), [use EXCEPT ![t] = new], exact)
        /\ ~(h[old].deleted /\ h[old].currentCount = 1) => AddUse(DropUse(h, old), new)[old] # None
        /\ DropUse(h, old)[new] = h[new]
        /\ \A d \in Handle : h[d] # None /\ d # old => AddUse(DropUse(h, old), new)[d] # None
    BY <2>3, <2>5, DropAddMove
  <2> QED
    BY <2>4, <2>6
<1>4. /\ hash' = AddUse(DropUse(hash, old), new)
      /\ glx' = [glx EXCEPT ![t] = [context |-> None, vendor |-> hash[new].vendor, dpy |-> None]]
      /\ pc' = [pc EXCEPT ![t] = "dispatch"]
      /\ call' = [call EXCEPT ![t] = request]
  BY <1>2, <1>3 DEF StartAcquire
<1>5. /\ pc'[t] = "dispatch" /\ call'[t] = request
      /\ glx'[t] = [context |-> None, vendor |-> hash[new].vendor, dpy |-> None]
  BY <1>1, <1>4 DEF TypeOK
<1>6. glx'[t] \in ThreadState /\ glx'[t] # None /\ glx'[t].vendor = hash[new].vendor
  <2>1. hash[new] \in Info
    BY <1>1, <1>2 DEF TypeOK
  <2> QED
    BY <1>5, <2>1, ConstantsAssumption DEF ThreadState, Info
<1>7. InUse(t)' = new
  BY <1>2, <1>5, <1>6 DEF InUse
<1>8. HashStep(hash, hash', Use', ~forkPending)
  BY <1>1, <1>3, <1>4, <1>7, UseAfter
<1>9. TypeOK'
  BY <1>1, <1>4, <1>5, <1>6, <1>8 DEF TypeOK, HashStep, Hash
<1>11. PlainStep(t)
  BY <1>1, <1>5, <1>8 DEF PlainStep, HashGuarded, Locked
<1>12. CallOK(t)'
  <2>1. request.restore # None => hash'[request.restore.context] # None
    BY <1>3, <1>4 DEF CanRestoreOldContext
  <2> QED
    BY <1>5, <2>1 DEF CallOK
<1>13. StateOK(t)'
  <2>1. hash'[new] # None
    BY <1>2, <1>7, <1>8 DEF HashStep, Held, Use
  <2>2. hash'[new].vendor = hash[new].vendor
    BY <1>2, <1>8, <2>1 DEF HashStep, Kept, Same
  <2> QED
    BY <1>2, <1>5, <1>6, <1>7, <2>1, <2>2 DEF StateOK
<1>14. CurrentOK(t)'
  BY <1>5, <1>6 DEF CurrentOK, Closing
<1> QED
  BY <1>9, <1>11, <1>12, <1>13, <1>14 DEF Done

\* A thread stops to count for a context and has none.
LEMMA DropStep ==
  ASSUME ContextInv, NEW t \in Thread, NEW old \in Handle, InUse(t) = old,
         hash' = DropUse(hash, old), glx' = [glx EXCEPT ![t] = None],
         pc'[t] \in {"idle", "exited"}, TypeOK',
         call'[t] = NoCall, OthersSame(t), ContextsStay,
         UNCHANGED <<forkPending, forks, leaked, reused>>,
         \/ pc[t] \in Locked /\ lock' = None
         \/ pc[t] = "callback" /\ lock = None /\ lock' = None,
         current'[t] = None,
         pc'[t] = "idle" => \A v \in Vendor : vendorCur'[<<t, v>>] = None
  PROVE  Done(t)
<1>1. TypeOK /\ LockInv /\ (pc[t] \in Locked <=> lock = t) /\ glx'[t] = None
  BY ThreadFacts DEF TypeOK
<1>2. InUse(t)' = None
  BY <1>1 DEF InUse
<1>3. HashStep(hash, hash', Use', ~forkPending)
  <2>1. Use' = [Use EXCEPT ![t] = None] /\ Use[t] = old
    BY <1>1, <1>2, UseAfter DEF Use
  <2> QED
    BY <2>1, CountHeld, DropMove
<1>4. pc'[t] \in {"idle", "exited"}
  OBVIOUS
<1>5. PlainStep(t)
  BY <1>1, <1>3, <1>4, ConstantsAssumption DEF PlainStep, HashGuarded, Locked, LockInv
<1>6. CallOK(t)'
  BY <1>4 DEF CallOK, NoCall
<1>7. StateOK(t)'
  BY <1>1, <1>4 DEF StateOK
<1>8. CurrentOK(t)'
  BY <1>1, <1>4 DEF CurrentOK, Closing
<1> QED
  BY <1>5, <1>6, <1>7, <1>8 DEF Done

\* A failed InternalMakeCurrentDispatch, with or without an old context to go back to.
LEMMA AcquireFailedStep ==
  ASSUME ContextInv, NEW t \in Thread, pc[t] \in {"dispatch", "vendor"}, AcquireFailed(t),
         UNCHANGED <<vendorCtx, vendorCur, forkPending, forks, leaked, reused>>,
         current' \in [Thread -> Vendor \cup {None}], owner' \in Vendor \cup {None},
         \A u \in Thread \ {t} : current'[u] = current[u], current'[t] = None
  PROVE  Done(t)
<1>1. PICK request, old : request = call[t] /\ old = request.restore
  OBVIOUS
<1>2. /\ TypeOK /\ CallOK(t) /\ StateOK(t) /\ CurrentOK(t) /\ LockInv /\ lock = t /\ ~forkPending
  BY ThreadFacts, ConstantsAssumption DEF LockInv
<1>3. /\ request \in Request /\ InUse(t) = request.new /\ request.new \in Handle
      /\ request.new # None
  BY <1>1, <1>2, ThreadFacts DEF InUse, StateOK, Request
<1>4. \A v \in Vendor : vendorCur[<<t, v>>] = None
  BY <1>2 DEF CurrentOK, Closing
<1>5. ContextsStay
  BY DEF ContextsStay
<1>6. NoCall \in Request
  BY DEF Request, NoCall
<1>7. CASE old = None
  <2>1. /\ hash' = DropUse(hash, request.new) /\ glx' = [glx EXCEPT ![t] = None]
        /\ lock' = None /\ pc' = [pc EXCEPT ![t] = "idle"] /\ call' = [call EXCEPT ![t] = NoCall]
    BY <1>1, <1>7 DEF AcquireFailed, EndCall
  <2>2. pc'[t] = "idle" /\ call'[t] = NoCall /\ OthersSame(t)
    BY <1>2, <2>1 DEF TypeOK, OthersSame
  <2>3. TypeOK'
    <3>1. hash' \in Hash
      BY <1>3, <2>1, DropTyped
    <3> QED
      BY <1>2, <1>6, <2>1, <3>1 DEF TypeOK, Hash
  <2> QED
    BY <1>2, <1>3, <1>4, <1>5, <2>1, <2>2, <2>3, DropStep DEF Locked
<1>8. CASE old # None
  <2> DEFINE again == [new |-> old.context, dpy |-> old.dpy, restore |-> None]
  <2>1. StartAcquire(t, DropUse(hash, request.new), again) /\ lock' = lock
    BY <1>1, <1>8 DEF AcquireFailed
  <2>2. old \in ThreadState
    BY <1>1, <1>3, <1>8 DEF Request
  <2>3. /\ old.context # None /\ old.context # request.new /\ hash[old.context] # None
    BY <1>1, <1>2, <1>8 DEF CallOK
  <2>4. again \in Request /\ again.new = old.context /\ again.restore = None
    BY <2>2 DEF ThreadState, Request
  <2>5. old.context \in Handle
    BY <2>2, <2>3 DEF ThreadState
  <2>6. OthersSame(t)
    BY <1>2, <2>1 DEF StartAcquire, OthersSame, TypeOK
  <2>7. /\ vendorCur' \in [Thread \X Vendor -> Handle \cup {None}]
        /\ vendorCtx' \in [Handle -> VendorContext \cup {None}]
    BY <1>2 DEF TypeOK
  <2> HIDE DEF again
  <2> QED
    BY <1>2, <1>3, <1>4, <1>5, <2>1, <2>3, <2>4, <2>5, <2>6, <2>7, StartAcquireStep DEF Locked
<1> QED
  BY <1>7, <1>8

LEMMA LoseCurrentStep ==
  ASSUME ContextInv, NEW t \in Thread, LoseCurrent(t)
  PROVE  Done(t)
<1>1. PICK request, old : request = call[t] /\ old = glx[t]
  OBVIOUS
<1>2. /\ TypeOK /\ CallOK(t) /\ StateOK(t) /\ CurrentOK(t) /\ LockInv /\ lock = t /\ ~forkPending
      /\ pc[t] = "release" /\ UNCHANGED <<forkPending, forks, leaked, reused>>
  BY ThreadFacts, ConstantsAssumption DEF LockInv, LoseCurrent, historyVars
<1>3. /\ request \in Request /\ InUse(t) = old.context /\ old.context \in Handle
      /\ old.context # None /\ old # None /\ old \in ThreadState
      /\ hash[old.context].vendor = old.vendor
  BY <1>1, <1>2, ThreadFacts DEF InUse, StateOK
<1>4. NoCall \in Request
  BY DEF Request, NoCall
<1>5. CASE EndCall(t) /\ UNCHANGED <<hash, glx, dispatchVars, vendorVars>>
  <2>1. /\ lock' = None /\ pc' = [pc EXCEPT ![t] = "idle"] /\ call' = [call EXCEPT ![t] = NoCall]
        /\ UNCHANGED <<hash, glx, current, owner, vendorCtx, vendorCur>>
    BY <1>5 DEF EndCall, dispatchVars, vendorVars
  <2>2. pc'[t] = "idle" /\ call'[t] = NoCall /\ OthersSame(t)
    BY <1>2, <2>1 DEF TypeOK, OthersSame
  <2>3. InUse(t)' = InUse(t)
    BY <1>2, <2>1, <2>2 DEF InUse
  <2>4. HashStep(hash, hash', Use', ~forkPending)
    BY <1>2, <2>1, <2>2, <2>3, UseAfter, CountHeld, NoMove
  <2>5. TypeOK'
    BY <1>2, <1>4, <2>1 DEF TypeOK
  <2>6. PlainStep(t)
    BY <1>2, <2>1, <2>2, <2>4 DEF PlainStep, HashGuarded, ContextsStay, Locked
  <2>7. CallOK(t)' /\ StateOK(t)'
    BY <1>2, <2>1, <2>2, <2>3 DEF CallOK, StateOK, NoCall
  <2>8. CurrentOK(t)'
    BY <1>2, <2>1, <2>2 DEF CurrentOK, Closing
  <2> QED
    BY <2>5, <2>6, <2>7, <2>8 DEF Done
<1>6. CASE /\ VendorLosesCurrent(t, {old.vendor})
           /\ Dispatch!Release({t})
           /\ IF request.new = None
              THEN /\ hash' = DropUse(hash, old.context)
                   /\ glx' = [glx EXCEPT ![t] = None]
                   /\ EndCall(t)
              ELSE StartAcquire(t, DropUse(hash, old.context), request) /\ UNCHANGED lock
  <2>1. /\ vendorCur' \in [Thread \X Vendor -> Handle \cup {None}]
        /\ \A u \in Thread, w \in Vendor :
             vendorCur'[<<u, w>>] = IF u = t /\ w \in {old.vendor} THEN None
                                    ELSE vendorCur[<<u, w>>]
        /\ vendorCtx' = Surviving(vendorCtx, vendorCur')
    BY <1>2, <1>3, <1>6, VendorCurAfter DEF ThreadState
  <2>2. \A v \in Vendor : vendorCur'[<<t, v>>] = None
    BY <1>1, <1>2, <1>3, <2>1 DEF CurrentOK, Closing
  <2>3. vendorCtx' \in [Handle -> VendorContext \cup {None}] /\ ContextsStay
    BY <1>2, <2>1, SurvivingStay
  <2>4. /\ current' \in [Thread -> Vendor \cup {None}] /\ owner' \in Vendor \cup {None}
        /\ current'[t] = None /\ \A u \in Thread \ {t} : current'[u] = current[u]
    BY <1>2, <1>6 DEF Dispatch!Release, TypeOK
  <2>5. CASE request.new = None
    <3>1. /\ hash' = DropUse(hash, old.context) /\ glx' = [glx EXCEPT ![t] = None]
          /\ lock' = None /\ pc' = [pc EXCEPT ![t] = "idle"]
          /\ call' = [call EXCEPT ![t] = NoCall]
      BY <1>6, <2>5 DEF EndCall
    <3>2. pc'[t] = "idle" /\ call'[t] = NoCall /\ OthersSame(t)
      BY <1>2, <2>1, <2>4, <3>1 DEF TypeOK, OthersSame
    <3>3. TypeOK'
      <4>1. hash' \in Hash
        BY <1>3, <3>1, DropTyped
      <4> QED
        BY <1>2, <1>4, <2>1, <2>3, <2>4, <3>1, <4>1 DEF TypeOK, Hash
    <3> QED
      BY <1>2, <1>3, <2>2, <2>3, <2>4, <3>1, <3>2, <3>3, DropStep DEF Locked
  <2>6. CASE request.new # None
    <3>1. StartAcquire(t, DropUse(hash, old.context), request) /\ lock' = lock
      BY <1>6, <2>6
    <3>2. /\ request.new \in Handle /\ hash[request.new] # None
          /\ hash[request.new].vendor # old.vendor
      BY <1>1, <1>2, <1>3, <2>6 DEF CallOK, Request
    <3>3. request.new # old.context
      BY <1>3, <3>2
    <3>4. request.restore # None => /\ request.restore.context = old.context
                                    /\ request.restore.context \notin {None, request.new}
                                    /\ hash[request.restore.context] # None
                                    /\ CanRestoreOldContext(old.context)
      BY <1>1, <1>2 DEF CallOK
    <3>5. OthersSame(t)
      BY <1>2, <2>1, <2>4, <3>1 DEF StartAcquire, OthersSame, TypeOK
    <3> QED
      BY <1>2, <1>3, <2>1, <2>2, <2>3, <2>4, <2>6, <3>1, <3>2, <3>3, <3>4, <3>5, StartAcquireStep
         DEF Locked
  <2> QED
    BY <2>5, <2>6
<1> QED
  BY <1>1, <1>5, <1>6 DEF LoseCurrent

LEMMA DispatchMakeCurrentStep ==
  ASSUME ContextInv, NEW t \in Thread, DispatchMakeCurrent(t)
  PROVE  Done(t)
<1>1. /\ TypeOK /\ CallOK(t) /\ StateOK(t) /\ CurrentOK(t) /\ LockInv /\ lock = t
      /\ ~forkPending /\ pc[t] = "dispatch" /\ current[t] = None
      /\ UNCHANGED <<vendorCtx, vendorCur, forkPending, forks, leaked, reused>>
  BY ThreadFacts, ConstantsAssumption
     DEF LockInv, DispatchMakeCurrent, vendorVars, historyVars, CurrentOK, Closing
<1>2. CASE /\ Dispatch!Acquire(t, glx[t].vendor)
           /\ pc' = [pc EXCEPT ![t] = "vendor"]
           /\ UNCHANGED <<hashVars, glx, call>>
  <2>1. glx[t] # None /\ glx[t].vendor \in Vendor
    BY <1>1, ThreadFacts DEF ThreadState, StateOK
  <2>2. /\ current' = [current EXCEPT ![t] = glx[t].vendor]
        /\ owner' \in Vendor \cup {None}
        /\ UNCHANGED <<hash, lock, glx, call>>
    BY <1>2, <2>1 DEF Dispatch!Acquire, hashVars
  <2>3. TypeOK'
    BY <1>1, <1>2, <2>1, <2>2 DEF TypeOK
  <2>4. pc'[t] = "vendor" /\ OthersSame(t) /\ current'[t] = glx[t].vendor
    BY <1>1, <1>2, <2>2 DEF OthersSame, TypeOK
  <2>5. InUse(t)' = InUse(t)
    BY <1>1, <2>2, <2>4 DEF InUse
  <2>6. HashStep(hash, hash', Use', ~forkPending)
    BY <1>1, <2>2, <2>4, <2>5, UseAfter, CountHeld, NoMove
  <2>7. PlainStep(t)
    BY <1>1, <2>2, <2>4, <2>6 DEF PlainStep, HashGuarded, ContextsStay, Locked
  <2>8. CallOK(t)'
    BY <1>1, <2>2, <2>4 DEF CallOK
  <2>9. StateOK(t)'
    BY <1>1, <2>2, <2>4, <2>5 DEF StateOK
  <2>10. CurrentOK(t)'
    BY <1>1, <2>1, <2>2, <2>4 DEF CurrentOK, Closing
  <2> QED
    BY <2>3, <2>7, <2>8, <2>9, <2>10 DEF Done
<1>3. CASE (Dispatch!ChangeOwner \/ UNCHANGED dispatchVars) /\ AcquireFailed(t)
  <2>1. current' = current /\ owner' \in Vendor \cup {None}
    BY <1>1, <1>3 DEF Dispatch!ChangeOwner, dispatchVars, TypeOK
  <2>2. current' \in [Thread -> Vendor \cup {None}]
    BY <1>1, <2>1 DEF TypeOK
  <2> QED
    BY <1>1, <1>3, <2>1, <2>2, AcquireFailedStep
<1> QED
  BY <1>2, <1>3 DEF DispatchMakeCurrent

LEMMA VendorMakeCurrentStep ==
  ASSUME ContextInv, NEW t \in Thread, VendorMakeCurrent(t)
  PROVE  Done(t)
<1>0. PICK old, request : old = glx[t] /\ request = call[t]
  OBVIOUS
<1>1. /\ TypeOK /\ CallOK(t) /\ StateOK(t) /\ CurrentOK(t) /\ LockInv /\ lock = t
      /\ ~forkPending /\ pc[t] = "vendor"
      /\ UNCHANGED <<forkPending, forks, leaked, reused>>
  BY ThreadFacts, ConstantsAssumption DEF LockInv, VendorMakeCurrent, historyVars
<1>2. /\ old \in ThreadState /\ old # None /\ InUse(t) = request.new
      /\ request \in Request /\ request.new \in Handle /\ request.new # None
      /\ hash[request.new] # None /\ hash[request.new].vendor = old.vendor
  BY <1>0, <1>1, ThreadFacts DEF InUse, StateOK
<1>3. NoCall \in Request
  BY DEF Request, NoCall
<1>4. CASE /\ VendorMakesCurrent(t, old.vendor, request.dpy, request.new)
           /\ glx' = [glx EXCEPT ![t].context = request.new, ![t].dpy = request.dpy]
           /\ EndCall(t)
           /\ UNCHANGED <<hash, dispatchVars>>
  <2>1. /\ vendorCur' \in [Thread \X Vendor -> Handle \cup {None}]
        /\ \A u \in Thread, w \in Vendor :
             vendorCur'[<<u, w>>] = IF u = t /\ w = old.vendor THEN request.new
                                    ELSE vendorCur[<<u, w>>]
        /\ vendorCtx' = Surviving(vendorCtx, vendorCur')
    BY <1>1, <1>2, <1>4, VendorCurAfter DEF ThreadState, Request
  <2>2. /\ lock' = None /\ pc' = [pc EXCEPT ![t] = "idle"] /\ call' = [call EXCEPT ![t] = NoCall]
        /\ UNCHANGED <<hash, current, owner>>
    BY <1>4 DEF EndCall, dispatchVars
  <2>3. /\ glx'[t] \in ThreadState /\ glx'[t] # None /\ glx'[t].context = request.new
        /\ glx'[t].vendor = old.vendor
        /\ \A u \in Thread \ {t} : glx'[u] = glx[u]
        /\ glx' \in [Thread -> ThreadState \cup {None}]
    <3>1. glx' = [glx EXCEPT ![t] = [old EXCEPT !.context = request.new, !.dpy = request.dpy]]
      BY <1>0, <1>1, <1>2, <1>4 DEF TypeOK, ThreadState
    <3> DEFINE now == [old EXCEPT !.context = request.new, !.dpy = request.dpy]
    <3>2. now \in ThreadState /\ now.context = request.new /\ now.vendor = old.vendor
      BY <1>2 DEF ThreadState, Request
    <3> HIDE DEF now
    <3>3. now # None
      BY <3>2, ConstantsAssumption
    <3> QED
      BY <1>1, <3>1, <3>2, <3>3 DEF now, TypeOK
  <2>4. pc'[t] = "idle" /\ call'[t] = NoCall
    BY <1>1, <2>2 DEF TypeOK
  <2>5. OthersSame(t)
    BY <1>1, <2>1, <2>2, <2>3 DEF OthersSame, TypeOK
  <2>6. InUse(t)' = InUse(t)
    BY <1>2, <2>3, <2>4 DEF InUse
  <2>7. HashStep(hash, hash', Use', ~forkPending)
    BY <1>1, <2>2, <2>5, <2>6, UseAfter, CountHeld, NoMove
  <2>8. vendorCtx' \in [Handle -> VendorContext \cup {None}] /\ ContextsStay
    BY <1>1, <2>1, SurvivingStay
  <2>9. TypeOK'
    BY <1>1, <1>3, <2>1, <2>2, <2>3, <2>8 DEF TypeOK
  <2>10. PlainStep(t)
    BY <1>1, <2>2, <2>4, <2>5, <2>7, <2>8 DEF PlainStep, HashGuarded, Locked
  <2>11. CallOK(t)'
    BY <2>4 DEF CallOK, NoCall
  <2>12. StateOK(t)'
    BY <1>2, <2>2, <2>3, <2>4, <2>6 DEF StateOK
  <2>13. CurrentOK(t)'
    BY <1>0, <1>1, <1>2, <2>1, <2>2, <2>3, <2>4 DEF CurrentOK, Closing
  <2> QED
    BY <2>9, <2>10, <2>11, <2>12, <2>13 DEF Done
<1>5. CASE Dispatch!Release({t}) /\ AcquireFailed(t) /\ UNCHANGED vendorVars
  <2>1. /\ current' \in [Thread -> Vendor \cup {None}] /\ owner' \in Vendor \cup {None}
        /\ current'[t] = None /\ \A u \in Thread \ {t} : current'[u] = current[u]
    BY <1>1, <1>5 DEF Dispatch!Release, TypeOK
  <2>2. UNCHANGED <<vendorCtx, vendorCur>>
    BY <1>5 DEF vendorVars
  <2> QED
    BY <1>1, <1>5, <2>1, <2>2, AcquireFailedStep
<1> QED
  BY <1>0, <1>4, <1>5 DEF VendorMakeCurrent

-----------------------------------------------------------------------------
(* A thread that exits.                                                    *)

LEMMA ExitDispatchStep ==
  ASSUME ContextInv, NEW t \in Thread, ExitDispatch(t)
  PROVE  Done(t)
<1>1. /\ TypeOK /\ CallOK(t) /\ StateOK(t) /\ CurrentOK(t)
      /\ pc[t] \in {"idle", "exiting"} /\ glx[t] # None
      /\ pc' = [pc EXCEPT ![t] = "callback"]
      /\ UNCHANGED <<hash, lock, glx, call, vendorCtx, vendorCur, forkPending, forks, leaked, reused>>
  BY ThreadFacts DEF ExitDispatch, hashVars, vendorVars, historyVars
<1>2. /\ current' \in [Thread -> Vendor \cup {None}] /\ owner' = owner
      /\ current'[t] = None /\ \A u \in Thread \ {t} : current'[u] = current[u]
  BY <1>1 DEF ExitDispatch, Dispatch!Release, TypeOK
<1>3. TypeOK'
  BY <1>1, <1>2 DEF TypeOK
<1>4. pc'[t] = "callback" /\ OthersSame(t)
  BY <1>1, <1>2 DEF OthersSame, TypeOK
<1>5. InUse(t)' = InUse(t)
  BY <1>1, <1>4 DEF InUse
<1>6. HashStep(hash, hash', Use', ~forkPending)
  BY <1>1, <1>4, <1>5, UseAfter, CountHeld, NoMove
<1>7. PlainStep(t)
  BY <1>1, <1>4, <1>6 DEF PlainStep, HashGuarded, ContextsStay, Locked
<1>8. CallOK(t)' /\ StateOK(t)'
  BY <1>1, <1>4, <1>5 DEF CallOK, StateOK, NoCall
<1>9. CurrentOK(t)'
  BY <1>1, <1>2, <1>4 DEF CurrentOK, Closing
<1> QED
  BY <1>3, <1>7, <1>8, <1>9 DEF Done

LEMMA ExitCallbackStep ==
  ASSUME ContextInv, NEW t \in Thread, ExitCallback(t)
  PROVE  Done(t)
<1>1. /\ TypeOK /\ CallOK(t) /\ StateOK(t) /\ CurrentOK(t)
      /\ pc[t] = "callback" /\ glx[t] # None /\ lock = None
      /\ hash' = DropUse(hash, glx[t].context) /\ glx' = [glx EXCEPT ![t] = None]
      /\ pc' = [pc EXCEPT ![t] = "exited"]
      /\ UNCHANGED <<lock, call, current, owner, vendorCtx, vendorCur, forkPending, forks, leaked, reused>>
  BY ThreadFacts DEF ExitCallback, dispatchVars, vendorVars, historyVars, StateOK
<1>2. InUse(t) = glx[t].context /\ glx[t].context \in Handle
  BY <1>1, ThreadFacts DEF InUse
<1>3. TypeOK'
  <2>1. hash' \in Hash
    BY <1>1, <1>2, DropTyped
  <2> QED
    BY <1>1, <2>1 DEF TypeOK, Hash
<1>4. pc'[t] = "exited" /\ OthersSame(t) /\ call'[t] = NoCall /\ current'[t] = None
  BY <1>1 DEF OthersSame, TypeOK, CallOK, CurrentOK
<1>5. ContextsStay
  BY <1>1 DEF ContextsStay
<1> QED
  BY <1>1, <1>2, <1>3, <1>4, <1>5, DropStep

LEMMA VendorThreadExitStep ==
  ASSUME ContextInv, NEW t \in Thread, VendorThreadExit(t)
  PROVE  Done(t)
<1>1. /\ TypeOK /\ CallOK(t) /\ StateOK(t) /\ CurrentOK(t)
      /\ \/ pc[t] = "exited" /\ pc' = [pc EXCEPT ![t] = "idle"]
         \/ pc[t] = "idle" /\ glx[t] # None /\ pc' = [pc EXCEPT ![t] = "exiting"]
      /\ VendorLosesCurrent(t, Vendor)
      /\ UNCHANGED <<hash, lock, glx, call, current, owner, forkPending, forks, leaked, reused>>
  BY ThreadFacts DEF VendorThreadExit, hashVars, dispatchVars, historyVars
<1>2. /\ vendorCur' \in [Thread \X Vendor -> Handle \cup {None}]
      /\ \A u \in Thread, w \in Vendor :
           vendorCur'[<<u, w>>] = IF u = t /\ w \in Vendor THEN None ELSE vendorCur[<<u, w>>]
      /\ vendorCtx' = Surviving(vendorCtx, vendorCur')
  BY <1>1, VendorCurAfter
<1>3. vendorCtx' \in [Handle -> VendorContext \cup {None}] /\ ContextsStay
  BY <1>1, <1>2, SurvivingStay
<1>4. TypeOK'
  BY <1>1, <1>2, <1>3 DEF TypeOK
<1>5. /\ \/ pc[t] = "exited" /\ pc'[t] = "idle"
         \/ pc[t] = "idle" /\ pc'[t] = "exiting" /\ glx[t] # None
      /\ OthersSame(t)
  BY <1>1, <1>2 DEF OthersSame, TypeOK
<1>6. InUse(t)' = InUse(t)
  BY <1>1, <1>5 DEF InUse
<1>7. HashStep(hash, hash', Use', ~forkPending)
  BY <1>1, <1>5, <1>6, UseAfter, CountHeld, NoMove
<1>8. PlainStep(t)
  BY <1>1, <1>3, <1>5, <1>7 DEF PlainStep, HashGuarded, Locked
<1>9. CallOK(t)' /\ StateOK(t)'
  BY <1>1, <1>5, <1>6 DEF CallOK, StateOK, NoCall
<1>10. CurrentOK(t)'
  BY <1>1, <1>2, <1>5 DEF CurrentOK, Closing, StateOK
<1> QED
  BY <1>4, <1>8, <1>9, <1>10 DEF Done

-----------------------------------------------------------------------------
(* Creating and destroying contexts.                                       *)

\* A thread that is creating or destroying a context goes on undisturbed.
LEMMA VendorContextKeep ==
  ASSUME ContextInv, NEW t \in Thread, NEW u \in Thread \ {t},
         \A w \in Thread \ {t} : pc'[w] = pc[w] /\ call'[w] = call[w],
         pc[u] \in {"add", "destroy"} =>
           /\ vendorCtx'[call[u].new] = vendorCtx[call[u].new]
           /\ pc'[t] \in {"add", "destroy"} => call'[t].new # call[u].new
           /\ pc'[t] = "close" => call'[t].dpy # call[u].dpy
  PROVE  VendorContextOK(u)'
<1> SUFFICES ASSUME pc'[u] \in {"add", "destroy"}
             PROVE  VendorContextOK(u)'
  BY DEF VendorContextOK
<1>1. pc'[u] = pc[u] /\ call'[u] = call[u]
  OBVIOUS
<1>2. PICK c : c = call[u].new
  OBVIOUS
<1>3. /\ vendorCtx[c] # None /\ ~vendorCtx[c].doomed /\ vendorCtx[c].dpy = call[u].dpy
      /\ \A w \in Thread \ {u} : /\ pc[w] \in {"add", "destroy"} => call[w].new # c
                                 /\ pc[w] = "close" => call[w].dpy # call[u].dpy
  BY <1>1, <1>2 DEF ContextInv, VendorContextOK
<1>4. vendorCtx'[c] = vendorCtx[c]
  BY <1>1, <1>2
<1>5. \A w \in Thread \ {u} : /\ pc'[w] \in {"add", "destroy"} => call'[w].new # c
                              /\ pc'[w] = "close" => call'[w].dpy # call[u].dpy
  BY <1>1, <1>2, <1>3
<1>6. /\ vendorCtx'[call'[u].new] # None /\ ~vendorCtx'[call'[u].new].doomed
      /\ vendorCtx'[call'[u].new].dpy = call'[u].dpy
  BY <1>1, <1>2, <1>3, <1>4
<1>7. \A w \in Thread \ {u} :
        /\ pc'[w] \in {"add", "destroy"} => call'[w].new # call'[u].new
        /\ pc'[w] = "close" => call'[w].dpy # call'[u].dpy
  BY <1>1, <1>2, <1>5
<1> QED
  BY <1>6, <1>7 DEF VendorContextOK

\* The context of a thread that is creating or destroying one.
LEMMA VendorContextFacts ==
  ASSUME ContextInv, NEW t \in Thread, pc[t] \in {"add", "destroy"}
  PROVE  /\ call[t].new \in Handle /\ call[t].new # None
         /\ vendorCtx[call[t].new] \in VendorContext /\ ~vendorCtx[call[t].new].doomed
         /\ vendorCtx[call[t].new] # None
         /\ vendorCtx[call[t].new].dpy = call[t].dpy
         /\ \A u \in Thread \ {t} : /\ pc[u] \in {"add", "destroy"} => call[u].new # call[t].new
                                    /\ pc[u] = "close" => call[u].dpy # call[t].dpy
         /\ ~forkPending
<1>1. TypeOK /\ CallOK(t) /\ VendorContextOK(t) /\ LockInv
  BY DEF ContextInv
<1>2. call[t].new \in Handle /\ call[t].new # None
  BY <1>1 DEF TypeOK, CallOK, Request
<1> QED
  BY <1>1, <1>2 DEF VendorContextOK, TypeOK, LockInv

LEMMA CreateContextStep ==
  ASSUME ContextInv, NEW t \in Thread, NEW v \in Vendor, NEW d \in Display,
         NEW c \in Handle, CreateContext(t, v, d, c)
  PROVE  ContextInv'
<1>1. /\ TypeOK /\ CallOK(t) /\ StateOK(t) /\ CurrentOK(t) /\ LockInv /\ ContextKnown /\ CloseOK
      /\ pc[t] = "idle" /\ ~forkPending /\ Open(d) /\ vendorCtx[c] = None
      /\ vendorCtx' = [vendorCtx EXCEPT ![c] = [vendor |-> v, dpy |-> d, doomed |-> FALSE]]
      /\ pc' = [pc EXCEPT ![t] = "add"]
      /\ call' = [call EXCEPT ![t].new = c, ![t].dpy = d]
      /\ leaked' = leaked \ {c}
      /\ UNCHANGED <<hash, lock, glx, current, owner, vendorCur, forkPending, forks, reused>>
  BY ThreadFacts DEF CreateContext, CanCall, hashVars, dispatchVars, historyVars, ContextInv
<1>2. c # None /\ d # None
  BY ConstantsAssumption
<1>3. [vendor |-> v, dpy |-> d, doomed |-> FALSE] \in VendorContext
  BY DEF VendorContext
<1>4. [vendor |-> v, dpy |-> d, doomed |-> FALSE] # None
  BY <1>3, ConstantsAssumption
<1>5. /\ call' = [call EXCEPT ![t] = [new |-> c, dpy |-> d, restore |-> None]]
      /\ [new |-> c, dpy |-> d, restore |-> None] \in Request
  <2>1. PICK request \in Request : request = call[t] /\ request.restore = None
    BY <1>1 DEF TypeOK, CallOK, NoCall
  <2>2. call' = [call EXCEPT ![t] = [request EXCEPT !.new = c, !.dpy = d]]
    BY <1>1, <2>1 DEF TypeOK, Request
  <2>3. PICK now : now = [request EXCEPT !.new = c, !.dpy = d]
    OBVIOUS
  <2>4. now \in Request /\ now.new = c /\ now.dpy = d /\ now.restore = None
    BY <2>1, <2>3 DEF Request
  <2>5. now = [new |-> c, dpy |-> d, restore |-> None]
    BY <2>4 DEF Request
  <2> QED
    BY <2>2, <2>3, <2>4, <2>5
<1>6. /\ pc'[t] = "add" /\ call'[t] = [new |-> c, dpy |-> d, restore |-> None]
      /\ OthersSame(t) /\ HashGuarded(t)
  BY <1>1, <1>5 DEF TypeOK, OthersSame, HashGuarded
<1>7. TypeOK'
  BY <1>1, <1>3, <1>5 DEF TypeOK
<1>8. InUse(t)' = InUse(t) /\ Use' = Use
  <2>1. InUse(t)' = InUse(t)
    BY <1>1, <1>6 DEF InUse
  <2> QED
    BY <1>1, <1>6, <2>1, UseAfter
<1>9. HashStep(hash, hash', Use', ~forkPending)
  BY <1>1, <1>8, CountHeld, NoMove
<1>10. CountIsUse'
  BY <1>1, <1>9, CountAfter DEF HashStep
<1>11. LockInv'
  BY <1>1, <1>6 DEF LockInv, OthersSame
<1>12. ContextKnown'
  <2> SUFFICES ASSUME NEW x \in Handle \ reused', Created(x)'
               PROVE  /\ hash'[x] # None /\ hash'[x].vendor = vendorCtx'[x].vendor
                      /\ ~hash'[x].deleted
    BY DEF ContextKnown
  <2>1. x # c
    BY <1>6 DEF Created
  <2>2. vendorCtx'[x] = vendorCtx[x]
    BY <1>1, <2>1 DEF TypeOK
  <2>3. Created(x)
    BY <1>1, <1>6, <2>2 DEF Created, OthersSame
  <2> QED
    BY <1>1, <2>2, <2>3 DEF ContextKnown
<1>13. CloseOK'
  BY <1>1, <1>6 DEF CloseOK, OthersSame
<1>14. CallOK(t)' /\ StateOK(t)' /\ CurrentOK(t)'
  <2>1. CallOK(t)'
    BY <1>2, <1>6 DEF CallOK
  <2>2. StateOK(t)'
    BY <1>1, <1>6, <1>8 DEF StateOK
  <2>3. CurrentOK(t)'
    BY <1>1, <1>6 DEF CurrentOK, Closing
  <2> QED
    BY <2>1, <2>2, <2>3
<1>15. VendorContextOK(t)'
  <2>1. vendorCtx'[c] = [vendor |-> v, dpy |-> d, doomed |-> FALSE]
    BY <1>1 DEF TypeOK
  <2>2. \A u \in Thread \ {t} : /\ pc[u] \in {"add", "destroy"} => call[u].new # c
                                /\ pc[u] = "close" => call[u].dpy # d
    BY <1>1, VendorContextFacts DEF Open
  <2>3. \A u \in Thread \ {t} : /\ pc'[u] \in {"add", "destroy"} => call'[u].new # c
                                /\ pc'[u] = "close" => call'[u].dpy # d
    BY <1>6, <2>2 DEF OthersSame
  <2>4. /\ vendorCtx'[call'[t].new] # None /\ ~vendorCtx'[call'[t].new].doomed
        /\ vendorCtx'[call'[t].new].dpy = call'[t].dpy
    BY <1>4, <1>6, <2>1
  <2>5. \A u \in Thread \ {t} : /\ pc'[u] \in {"add", "destroy"} => call'[u].new # call'[t].new
                                /\ pc'[u] = "close" => call'[u].dpy # call'[t].dpy
    BY <1>6, <2>3
  <2> QED
    BY <2>4, <2>5 DEF VendorContextOK
<1>16. ASSUME NEW u \in Thread \ {t}
       PROVE  CallOK(u)' /\ StateOK(u)' /\ CurrentOK(u)' /\ VendorContextOK(u)'
  <2>1. CallOK(u)' /\ StateOK(u)' /\ CurrentOK(u)'
    BY <1>1, <1>6, <1>9, OthersKeep DEF HashStep, KeptVendor
  <2>2. pc[u] \in {"add", "destroy"} =>
          /\ vendorCtx'[call[u].new] = vendorCtx[call[u].new]
          /\ call'[t].new # call[u].new
    <3> SUFFICES ASSUME pc[u] \in {"add", "destroy"}
                 PROVE  /\ vendorCtx'[call[u].new] = vendorCtx[call[u].new]
                        /\ call'[t].new # call[u].new
      OBVIOUS
    <3>1. call[u].new \in Handle /\ call[u].new # c
      BY <1>1, VendorContextFacts
    <3> QED
      BY <1>1, <1>6, <3>1 DEF TypeOK
  <2>3. VendorContextOK(u)'
    BY <1>1, <1>6, <2>2, VendorContextKeep DEF OthersSame
  <2> QED
    BY <2>1, <2>3
<1> QED
  BY <1>7, <1>10, <1>11, <1>12, <1>13, <1>14, <1>15, <1>16 DEF ContextInv

LEMMA AddVendorContextMappingStep ==
  ASSUME ContextInv, NEW t \in Thread, AddVendorContextMapping(t)
  PROVE  ContextInv'
<1>0. PICK c : c = call[t].new
  OBVIOUS
<1>1. /\ TypeOK /\ CallOK(t) /\ StateOK(t) /\ CurrentOK(t) /\ LockInv /\ ContextKnown /\ CloseOK
      /\ pc[t] = "add" /\ lock = None
      /\ lock' = None /\ pc' = [pc EXCEPT ![t] = "idle"] /\ call' = [call EXCEPT ![t] = NoCall]
      /\ UNCHANGED <<glx, current, owner, vendorCur, forkPending, forks, leaked>>
      /\ \/ /\ hash[c] = None
            /\ hash' = [hash EXCEPT ![c] = [vendor |-> vendorCtx[c].vendor,
                                            currentCount |-> 0, deleted |-> FALSE]]
            /\ vendorCtx' = vendorCtx
         \/ /\ hash[c] # None /\ hash[c].vendor = vendorCtx[c].vendor
            /\ UNCHANGED <<hash, vendorCtx>>
         \/ /\ vendorCtx' = [vendorCtx EXCEPT ![c] = None]
            /\ hash' = hash
      /\ reused' = IF hash[c] # None /\ hash[c].deleted THEN reused \cup {c} ELSE reused \ {c}
  BY <1>0, ThreadFacts DEF AddVendorContextMapping, EndCall, dispatchVars, historyVars, ContextInv
<1>2. /\ c \in Handle /\ c # None /\ vendorCtx[c] \in VendorContext /\ vendorCtx[c] # None
      /\ \A u \in Thread \ {t} : pc[u] \in {"add", "destroy"} => call[u].new # c
      /\ ~forkPending
  BY <1>0, <1>1, VendorContextFacts
<1> DEFINE info == [vendor |-> vendorCtx[c].vendor, currentCount |-> 0, deleted |-> FALSE]
<1>3. info \in Info /\ info # None
  <2>1. info \in Info
    BY <1>2 DEF VendorContext, Info
  <2> QED
    BY <2>1, ConstantsAssumption
<1>4. /\ \A x \in Handle \ {c} : hash'[x] = hash[x] /\ vendorCtx'[x] = vendorCtx[x]
      /\ hash[c] = None => hash'[c] \in {info, None}
      /\ hash[c] # None => hash'[c] = hash[c]
      /\ vendorCtx'[c] # None =>
           /\ vendorCtx'[c] = vendorCtx[c]
           /\ hash'[c] # None /\ hash'[c].vendor = vendorCtx[c].vendor
      /\ hash' \in Hash /\ vendorCtx' \in [Handle -> VendorContext \cup {None}]
  <2>1. CASE hash[c] = None /\ hash' = [hash EXCEPT ![c] = info] /\ vendorCtx' = vendorCtx
    <3>1. hash' = [hash EXCEPT ![c] = info] /\ vendorCtx' = vendorCtx
      BY <2>1
    <3>2. info.vendor = vendorCtx[c].vendor
      OBVIOUS
    <3> HIDE DEF info
    <3> QED
      BY <1>1, <1>2, <1>3, <2>1, <3>1, <3>2 DEF TypeOK, Hash
  <2>2. CASE hash[c] # None /\ hash[c].vendor = vendorCtx[c].vendor /\ UNCHANGED <<hash, vendorCtx>>
    BY <1>1, <2>2 DEF TypeOK, Hash
  <2>3. CASE vendorCtx' = [vendorCtx EXCEPT ![c] = None] /\ hash' = hash
    BY <1>1, <1>2, <2>3 DEF TypeOK, Hash
  <2> QED
    BY <1>1, <2>1, <2>2, <2>3
<1>5. /\ hash[c] # None => hash'[c] # None
      /\ hash'[c] # None /\ c \notin reused' => ~hash'[c].deleted
  BY <1>1, <1>2, <1>3, <1>4
<1> HIDE DEF info
<1>6. NoCall \in Request
  BY DEF Request, NoCall
<1>7. TypeOK'
  BY <1>1, <1>2, <1>4, <1>6 DEF TypeOK, Hash
<1>8. pc'[t] = "idle" /\ call'[t] = NoCall /\ OthersSame(t) /\ HashGuarded(t)
  BY <1>1 DEF TypeOK, OthersSame, HashGuarded
<1>9. InUse(t)' = InUse(t) /\ Use' = Use
  <2>1. InUse(t)' = InUse(t)
    BY <1>1, <1>8 DEF InUse
  <2> QED
    BY <1>1, <1>8, <2>1, UseAfter
<1>10. Use \in UseType /\ Counted(hash, Use, ~forkPending) /\ Held(hash, Use)
  BY CountHeld
<1>11. Held(hash', Use')
  <2> SUFFICES ASSUME NEW u \in Thread, Use[u] # None
               PROVE  hash'[Use[u]] # None
    BY <1>9 DEF Held
  <2>1. Use[u] \in Handle /\ hash[Use[u]] # None
    BY <1>10 DEF Held, UseType
  <2> QED
    BY <1>4, <1>5, <2>1
<1>12. CountIsUse'
  <2> SUFFICES ASSUME NEW x \in Handle, hash'[x] # None
               PROVE  /\ hash'[x].currentCount >= Cardinality(Users(Use, x))
                      /\ hash'[x].currentCount = Cardinality(Users(Use, x))
    <3>1. Counted(hash', Use', ~forkPending')
      BY <1>9 DEF Counted
    <3> QED
      BY <3>1, CountAfter
  <2>1. CASE x = c /\ hash[c] = None
    <3>1. Users(Use, x) = {}
      BY <1>2, <1>10, <2>1 DEF Users, Held
    <3>2. Cardinality(Users(Use, x)) = 0
      BY <3>1, FS_EmptySet
    <3> QED
      BY <1>4, <2>1, <3>2 DEF info
  <2>2. CASE ~(x = c /\ hash[c] = None)
    <3>1. hash'[x] = hash[x]
      BY <1>4, <2>2
    <3> QED
      BY <1>2, <1>10, <3>1 DEF Counted
  <2> QED
    BY <2>1, <2>2
<1>13. LockInv'
  BY <1>1, <1>2, <1>8, ConstantsAssumption DEF LockInv, OthersSame
<1>14. ContextKnown'
  <2> SUFFICES ASSUME NEW x \in Handle \ reused', Created(x)'
               PROVE  /\ hash'[x] # None /\ hash'[x].vendor = vendorCtx'[x].vendor
                      /\ ~hash'[x].deleted
    BY DEF ContextKnown
  <2>1. CASE x = c
    BY <1>4, <1>5, <2>1 DEF Created
  <2>2. CASE x # c
    <3>1. vendorCtx'[x] = vendorCtx[x] /\ hash'[x] = hash[x]
      BY <1>4, <2>2
    <3>2. Created(x)
      BY <1>0, <1>1, <1>8, <2>2, <3>1 DEF Created, OthersSame
    <3> QED
      BY <1>1, <2>2, <3>1, <3>2 DEF ContextKnown
  <2> QED
    BY <2>1, <2>2
<1>15. CloseOK'
  BY <1>1, <1>8 DEF CloseOK, OthersSame
<1>16. KeptVendor(hash, hash')
  BY <1>4 DEF KeptVendor
<1>17. CallOK(t)' /\ StateOK(t)' /\ CurrentOK(t)' /\ VendorContextOK(t)'
  <2>1. CallOK(t)'
    BY <1>8 DEF CallOK, NoCall
  <2>2. StateOK(t)'
    <3>1. glx[t] # None => /\ InUse(t) # None /\ hash[InUse(t)] # None /\ InUse(t) \in Handle
                           /\ hash[InUse(t)].vendor = glx[t].vendor
      BY <1>1, ThreadFacts DEF StateOK
    <3>2. glx[t] # None => hash'[InUse(t)] # None
      BY <1>9, <1>11, <3>1 DEF Held, Use
    <3> QED
      BY <1>1, <1>8, <1>9, <1>16, <3>1, <3>2 DEF StateOK, KeptVendor
  <2>3. CurrentOK(t)'
    BY <1>1, <1>8 DEF CurrentOK, Closing
  <2>4. VendorContextOK(t)'
    BY <1>8 DEF VendorContextOK
  <2> QED
    BY <2>1, <2>2, <2>3, <2>4
<1>18. ASSUME NEW u \in Thread \ {t}
       PROVE  CallOK(u)' /\ StateOK(u)' /\ CurrentOK(u)' /\ VendorContextOK(u)'
  <2>1. CallOK(u)' /\ StateOK(u)' /\ CurrentOK(u)'
    BY <1>8, <1>11, <1>16, OthersKeep
  <2>2. pc[u] \in {"add", "destroy"} =>
          /\ vendorCtx'[call[u].new] = vendorCtx[call[u].new]
          /\ hash'[call[u].new] = hash[call[u].new]
    BY <1>2, <1>4, VendorContextFacts
  <2>3. VendorContextOK(u)'
    BY <1>8, <2>2, VendorContextKeep DEF OthersSame
  <2> QED
    BY <2>1, <2>3
<1> QED
  BY <1>7, <1>12, <1>13, <1>14, <1>15, <1>17, <1>18 DEF ContextInv

LEMMA DestroyContextStep ==
  ASSUME ContextInv, NEW t \in Thread, NEW c \in Handle, DestroyContext(t, c)
  PROVE  ContextInv'
<1> DEFINE marked == [hash[c] EXCEPT !.deleted = TRUE]
<1>0. PICK d : d = vendorCtx[c].dpy
  OBVIOUS
<1>1. /\ TypeOK /\ CallOK(t) /\ StateOK(t) /\ CurrentOK(t) /\ LockInv /\ ContextKnown /\ CloseOK
      /\ pc[t] = "idle" /\ ~forkPending /\ Open(d) /\ lock = None
      /\ Created(c) /\ hash[c] # None
      /\ hash' = [hash EXCEPT ![c] = FreeIfUnused(marked)]
      /\ pc' = [pc EXCEPT ![t] = "destroy"]
      /\ call' = [call EXCEPT ![t].new = c, ![t].dpy = d]
      /\ UNCHANGED <<lock, glx, current, owner, vendorCtx, vendorCur, forkPending, forks, leaked, reused>>
  BY <1>0, ThreadFacts
     DEF DestroyContext, CanCall, dispatchVars, vendorVars, historyVars, ContextInv
<1>2. /\ c # None /\ vendorCtx[c] # None /\ vendorCtx[c] \in VendorContext /\ d \in Display
      /\ ~vendorCtx[c].doomed
      /\ \A u \in Thread : pc[u] \in {"add", "destroy"} => call[u].new # c
  BY <1>0, <1>1, ConstantsAssumption DEF Created, TypeOK, VendorContext
<1>3. /\ marked \in Info /\ marked # None /\ marked.vendor = hash[c].vendor
      /\ marked.currentCount = hash[c].currentCount /\ marked.deleted
  <2>1. hash[c] \in Info
    BY <1>1 DEF TypeOK
  <2>2. /\ marked \in Info /\ marked.vendor = hash[c].vendor
        /\ marked.currentCount = hash[c].currentCount /\ marked.deleted
    BY <2>1 DEF Info
  <2> HIDE DEF marked
  <2> QED
    BY <2>2, ConstantsAssumption
<1> HIDE DEF marked
<1>4. /\ hash'[c] = None => hash[c].currentCount = 0
      /\ hash'[c] # None => hash'[c] = marked
      /\ \A x \in Handle \ {c} : hash'[x] = hash[x]
      /\ hash' \in Hash
  BY <1>1, <1>3 DEF TypeOK, Hash, FreeIfUnused
<1>5. /\ call' = [call EXCEPT ![t] = [new |-> c, dpy |-> d, restore |-> None]]
      /\ [new |-> c, dpy |-> d, restore |-> None] \in Request
  <2>1. PICK request \in Request : request = call[t] /\ request.restore = None
    BY <1>1 DEF TypeOK, CallOK, NoCall
  <2>2. call' = [call EXCEPT ![t] = [request EXCEPT !.new = c, !.dpy = d]]
    BY <1>1, <2>1 DEF TypeOK, Request
  <2>3. PICK now : now = [request EXCEPT !.new = c, !.dpy = d]
    OBVIOUS
  <2>4. now \in Request /\ now.new = c /\ now.dpy = d /\ now.restore = None
    BY <1>2, <2>1, <2>3 DEF Request
  <2>5. now = [new |-> c, dpy |-> d, restore |-> None]
    BY <2>4 DEF Request
  <2> QED
    BY <2>2, <2>3, <2>4, <2>5
<1>6. /\ pc'[t] = "destroy" /\ call'[t] = [new |-> c, dpy |-> d, restore |-> None]
      /\ OthersSame(t) /\ HashGuarded(t)
  BY <1>1, <1>5 DEF TypeOK, OthersSame, HashGuarded
<1>7. TypeOK'
  <2>1. hash' \in Hash
    BY <1>4
  <2>2. /\ pc' \in [Thread -> {"idle", "switch", "release", "dispatch", "vendor", "add",
                               "destroy", "close", "exiting", "callback", "exited"}]
        /\ call' \in [Thread -> Request]
    BY <1>1, <1>5 DEF TypeOK
  <2> QED
    BY <1>1, <2>1, <2>2 DEF TypeOK, Hash
<1>8. InUse(t)' = InUse(t) /\ Use' = Use
  <2>1. InUse(t)' = InUse(t)
    BY <1>1, <1>6 DEF InUse
  <2> QED
    BY <1>1, <1>6, <2>1, UseAfter
<1>9. Use \in UseType /\ Counted(hash, Use, ~forkPending) /\ Held(hash, Use)
  BY CountHeld
<1>10. Held(hash', Use')
  <2> SUFFICES ASSUME NEW u \in Thread, Use[u] # None, hash'[Use[u]] = None
               PROVE  FALSE
    BY <1>8 DEF Held
  <2>1. Use[u] \in Handle /\ hash[Use[u]] # None
    BY <1>9 DEF Held, UseType
  <2>2. Use[u] = c /\ hash[c].currentCount = 0
    BY <1>4, <2>1
  <2>3. Cardinality(Users(Use, c)) = 0
    BY <1>1, <1>9, <2>2 DEF Counted
  <2>4. Users(Use, c) = {}
    BY <2>3, UsersFinite, FS_EmptySet
  <2> QED
    BY <2>2, <2>4 DEF Users
<1>11. CountIsUse'
  <2>1. Counted(hash', Use', ~forkPending')
    <3> SUFFICES ASSUME NEW x \in Handle, hash'[x] # None
                 PROVE  /\ hash'[x].currentCount >= Cardinality(Users(Use, x))
                        /\ hash'[x].currentCount = Cardinality(Users(Use, x))
      BY <1>8 DEF Counted
    <3>1. hash[x] # None /\ hash'[x].currentCount = hash[x].currentCount
      BY <1>1, <1>3, <1>4
    <3> QED
      BY <1>1, <1>9, <3>1 DEF Counted
  <2> QED
    BY <2>1, CountAfter
<1>12. LockInv'
  BY <1>1, <1>6 DEF LockInv, OthersSame
<1>13. ContextKnown'
  <2> SUFFICES ASSUME NEW x \in Handle \ reused', Created(x)'
               PROVE  /\ hash'[x] # None /\ hash'[x].vendor = vendorCtx'[x].vendor
                      /\ ~hash'[x].deleted
    BY DEF ContextKnown
  <2>1. x # c
    BY <1>6 DEF Created
  <2>2. Created(x)
    BY <1>1, <1>6 DEF Created, OthersSame
  <2> QED
    BY <1>1, <1>4, <2>1, <2>2 DEF ContextKnown
<1>14. CloseOK'
  BY <1>1, <1>6 DEF CloseOK, OthersSame
<1>15. KeptVendor(hash, hash')
  BY <1>3, <1>4 DEF KeptVendor
<1>16. CallOK(t)' /\ StateOK(t)' /\ CurrentOK(t)'
  <2>1. CallOK(t)'
    BY <1>2, <1>6 DEF CallOK
  <2>2. StateOK(t)'
    <3>1. glx[t] # None => /\ InUse(t) # None /\ hash[InUse(t)] # None /\ InUse(t) \in Handle
                           /\ hash[InUse(t)].vendor = glx[t].vendor
      BY <1>1, ThreadFacts DEF StateOK
    <3>2. glx[t] # None => hash'[InUse(t)] # None
      BY <1>8, <1>10, <3>1 DEF Held, Use
    <3> QED
      BY <1>1, <1>6, <1>8, <1>15, <3>1, <3>2 DEF StateOK, KeptVendor
  <2>3. CurrentOK(t)'
    BY <1>1, <1>6 DEF CurrentOK, Closing
  <2> QED
    BY <2>1, <2>2, <2>3
<1>17. VendorContextOK(t)'
  <2>1. /\ vendorCtx'[call'[t].new] # None /\ ~vendorCtx'[call'[t].new].doomed
        /\ vendorCtx'[call'[t].new].dpy = call'[t].dpy
    BY <1>0, <1>1, <1>2, <1>6
  <2>2. \A u \in Thread \ {t} : /\ pc'[u] \in {"add", "destroy"} => call'[u].new # call'[t].new
                                /\ pc'[u] = "close" => call'[u].dpy # call'[t].dpy
    <3>1. \A u \in Thread \ {t} : /\ pc[u] \in {"add", "destroy"} => call[u].new # c
                                  /\ pc[u] = "close" => call[u].dpy # d
      BY <1>1, <1>2 DEF Open
    <3>2. \A u \in Thread \ {t} : pc'[u] = pc[u] /\ call'[u] = call[u]
      BY <1>6 DEF OthersSame
    <3>3. call'[t].new = c /\ call'[t].dpy = d
      BY <1>6
    <3> QED
      BY <3>1, <3>2, <3>3
  <2> QED
    BY <1>6, <2>1, <2>2 DEF VendorContextOK
<1>18. ASSUME NEW u \in Thread \ {t}
       PROVE  CallOK(u)' /\ StateOK(u)' /\ CurrentOK(u)' /\ VendorContextOK(u)'
  <2>1. CallOK(u)' /\ StateOK(u)' /\ CurrentOK(u)'
    BY <1>6, <1>10, <1>15, OthersKeep
  <2>2. pc[u] \in {"add", "destroy"} => call[u].new \in Handle /\ call[u].new # c
    BY <1>2, VendorContextFacts
  <2>3. pc[u] \in {"add", "destroy"} =>
          /\ vendorCtx'[call[u].new] = vendorCtx[call[u].new]
          /\ hash'[call[u].new] = hash[call[u].new]
          /\ call'[t].new # call[u].new
    BY <1>1, <1>4, <1>6, <2>2
  <2>4. VendorContextOK(u)'
    BY <1>6, <2>3, VendorContextKeep DEF OthersSame
  <2> QED
    BY <2>1, <2>4
<1> QED
  BY <1>7, <1>11, <1>12, <1>13, <1>14, <1>16, <1>17, <1>18 DEF ContextInv

LEMMA VendorDestroyContextStep ==
  ASSUME ContextInv, NEW t \in Thread, VendorDestroyContext(t)
  PROVE  ContextInv'
<1>0. PICK c : c = call[t].new
  OBVIOUS
<1>1. /\ TypeOK /\ CallOK(t) /\ StateOK(t) /\ CurrentOK(t) /\ LockInv /\ ContextKnown /\ CloseOK
      /\ pc[t] = "destroy"
      /\ vendorCtx' = Surviving([vendorCtx EXCEPT ![c].doomed = TRUE], vendorCur)
      /\ pc' = [pc EXCEPT ![t] = "idle"] /\ call' = [call EXCEPT ![t] = NoCall]
      /\ UNCHANGED <<hash, lock, glx, current, owner, vendorCur, forkPending, forks, leaked, reused>>
  BY <1>0, ThreadFacts DEF VendorDestroyContext, hashVars, dispatchVars, historyVars, ContextInv
<1>2. /\ c \in Handle /\ c # None /\ vendorCtx[c] \in VendorContext /\ vendorCtx[c] # None
      /\ \A u \in Thread \ {t} : pc[u] \in {"add", "destroy"} => call[u].new # c
  BY <1>0, <1>1, VendorContextFacts
<1> DEFINE marked == [vendorCtx EXCEPT ![c].doomed = TRUE]
<1>3. /\ marked \in [Handle -> VendorContext \cup {None}]
      /\ \A x \in Handle \ {c} : marked[x] = vendorCtx[x]
      /\ marked[c].doomed /\ marked[c] # None
  <2>1. marked = [vendorCtx EXCEPT ![c] = [vendorCtx[c] EXCEPT !.doomed = TRUE]]
    BY <1>1, <1>2 DEF TypeOK, VendorContext
  <2> DEFINE gone == [vendorCtx[c] EXCEPT !.doomed = TRUE]
  <2>2. gone \in VendorContext /\ gone.doomed
    BY <1>2 DEF VendorContext
  <2> HIDE DEF gone
  <2>3. gone # None
    BY <2>2, ConstantsAssumption
  <2> QED
    BY <1>1, <1>2, <2>1, <2>2, <2>3 DEF gone, TypeOK
<1> HIDE DEF marked
<1>4. vendorCtx' = Surviving(marked, vendorCur)
  BY <1>1 DEF marked
<1>5. /\ vendorCtx' \in [Handle -> VendorContext \cup {None}]
      /\ \A x \in Handle \ {c} :
           /\ vendorCtx[x] # None /\ ~vendorCtx[x].doomed => vendorCtx'[x] = vendorCtx[x]
           /\ vendorCtx'[x] # None => vendorCtx'[x] = vendorCtx[x]
      /\ vendorCtx'[c] # None => vendorCtx'[c].doomed
  <2>1. \A x \in Handle :
          vendorCtx'[x] = IF /\ marked[x] # None /\ marked[x].doomed
                             /\ \A tv \in Thread \X Vendor : vendorCur[tv] # x
                          THEN None ELSE marked[x]
    BY <1>4 DEF Surviving
  <2>2. vendorCtx' = [x \in Handle |-> vendorCtx'[x]]
    BY <1>4 DEF Surviving
  <2>3. vendorCtx' \in [Handle -> VendorContext \cup {None}]
    BY <1>3, <2>1, <2>2
  <2> QED
    BY <1>2, <1>3, <2>1, <2>3
<1>6. NoCall \in Request
  BY DEF Request, NoCall
<1>7. TypeOK'
  BY <1>1, <1>5, <1>6 DEF TypeOK
<1>8. pc'[t] = "idle" /\ call'[t] = NoCall /\ OthersSame(t) /\ HashGuarded(t)
  BY <1>1 DEF TypeOK, OthersSame, HashGuarded
<1>9. InUse(t)' = InUse(t) /\ Use' = Use
  <2>1. InUse(t)' = InUse(t)
    BY <1>1, <1>8 DEF InUse
  <2> QED
    BY <1>1, <1>8, <2>1, UseAfter
<1>10. HashStep(hash, hash', Use', ~forkPending)
  BY <1>1, <1>9, CountHeld, NoMove
<1>11. CountIsUse'
  BY <1>1, <1>10, CountAfter DEF HashStep
<1>12. LockInv'
  BY <1>1, <1>8, ConstantsAssumption DEF LockInv, OthersSame
<1>13. ContextKnown'
  <2> SUFFICES ASSUME NEW x \in Handle \ reused', Created(x)'
               PROVE  /\ hash'[x] # None /\ hash'[x].vendor = vendorCtx'[x].vendor
                      /\ ~hash'[x].deleted
    BY DEF ContextKnown
  <2>1. x # c
    BY <1>5 DEF Created
  <2>2. vendorCtx'[x] = vendorCtx[x]
    BY <1>5, <2>1 DEF Created
  <2>3. Created(x)
    BY <1>0, <1>1, <1>8, <2>1, <2>2 DEF Created, OthersSame
  <2> QED
    BY <1>1, <2>2, <2>3 DEF ContextKnown
<1>14. CloseOK'
  BY <1>1, <1>8 DEF CloseOK, OthersSame
<1>15. CallOK(t)' /\ StateOK(t)' /\ CurrentOK(t)' /\ VendorContextOK(t)'
  <2>1. CallOK(t)'
    BY <1>8 DEF CallOK, NoCall
  <2>2. StateOK(t)'
    BY <1>1, <1>8, <1>9 DEF StateOK
  <2>3. CurrentOK(t)'
    BY <1>1, <1>8 DEF CurrentOK, Closing
  <2>4. VendorContextOK(t)'
    BY <1>8 DEF VendorContextOK
  <2> QED
    BY <2>1, <2>2, <2>3, <2>4
<1>16. ASSUME NEW u \in Thread \ {t}
       PROVE  CallOK(u)' /\ StateOK(u)' /\ CurrentOK(u)' /\ VendorContextOK(u)'
  <2>1. CallOK(u)' /\ StateOK(u)' /\ CurrentOK(u)'
    BY <1>1, <1>8, <1>10, OthersKeep DEF HashStep, KeptVendor
  <2>2. pc[u] \in {"add", "destroy"} => vendorCtx'[call[u].new] = vendorCtx[call[u].new]
    BY <1>2, <1>5, VendorContextFacts
  <2>3. VendorContextOK(u)'
    BY <1>1, <1>8, <2>2, VendorContextKeep DEF OthersSame
  <2> QED
    BY <2>1, <2>3
<1> QED
  BY <1>7, <1>11, <1>12, <1>13, <1>14, <1>15, <1>16 DEF ContextInv

-----------------------------------------------------------------------------
(* Displays that are closed.                                               *)

\* The vendor's cleanup for a display touches the calling thread, and the contexts on
\* that display.
LEMMA ClosesAfter ==
  ASSUME TypeOK, NEW t \in Thread, NEW d, VendorClosesDisplay(t, d)
  PROVE  /\ vendorCur' \in [Thread \X Vendor -> Handle \cup {None}]
         /\ \A u \in Thread, w \in Vendor :
              u # t \/ ~(glx[t] # None /\ glx[t].dpy = d) =>
                vendorCur'[<<u, w>>] = vendorCur[<<u, w>>]
         /\ glx[t] # None /\ glx[t].dpy = d => \A w \in Vendor : vendorCur'[<<t, w>>] = None
         /\ vendorCtx' \in [Handle -> VendorContext \cup {None}]
         /\ \A x \in Handle :
              /\ vendorCtx[x] # None /\ ~vendorCtx[x].doomed /\ vendorCtx[x].dpy # d =>
                   vendorCtx'[x] = vendorCtx[x]
              /\ vendorCtx'[x] # None /\ ~vendorCtx'[x].doomed => vendorCtx'[x] = vendorCtx[x]
<1> DEFINE closed == [c \in Handle |->
                        IF vendorCtx[c] # None /\ vendorCtx[c].dpy = d
                        THEN [vendorCtx[c] EXCEPT !.doomed = TRUE] ELSE vendorCtx[c]]
<1>1. /\ vendorCur' \in [Thread \X Vendor -> Handle \cup {None}]
      /\ \A u \in Thread, w \in Vendor :
           u # t \/ ~(glx[t] # None /\ glx[t].dpy = d) =>
             vendorCur'[<<u, w>>] = vendorCur[<<u, w>>]
      /\ glx[t] # None /\ glx[t].dpy = d => \A w \in Vendor : vendorCur'[<<t, w>>] = None
  BY DEF VendorClosesDisplay, TypeOK
<1>2. vendorCtx' = Surviving(closed, vendorCur')
  BY DEF VendorClosesDisplay
<1>3. \A x \in Handle :
        /\ closed[x] \in VendorContext \cup {None}
        /\ vendorCtx[x] # None /\ vendorCtx[x].dpy # d => closed[x] = vendorCtx[x]
        /\ closed[x] # None /\ ~closed[x].doomed => closed[x] = vendorCtx[x]
  <2> SUFFICES ASSUME NEW x \in Handle
               PROVE  /\ closed[x] \in VendorContext \cup {None}
                      /\ vendorCtx[x] # None /\ vendorCtx[x].dpy # d => closed[x] = vendorCtx[x]
                      /\ closed[x] # None /\ ~closed[x].doomed => closed[x] = vendorCtx[x]
    OBVIOUS
  <2>1. CASE vendorCtx[x] # None /\ vendorCtx[x].dpy = d
    <3>1. vendorCtx[x] \in VendorContext
      BY <2>1 DEF TypeOK
    <3>2. closed[x] = [vendorCtx[x] EXCEPT !.doomed = TRUE]
      BY <2>1
    <3> HIDE DEF closed
    <3>3. closed[x] \in VendorContext /\ closed[x].doomed
      BY <3>1, <3>2 DEF VendorContext
    <3> QED
      BY <2>1, <3>3
  <2>2. CASE ~(vendorCtx[x] # None /\ vendorCtx[x].dpy = d)
    BY <2>2 DEF TypeOK
  <2> QED
    BY <2>1, <2>2
<1> HIDE DEF closed
<1>4. \A x \in Handle :
        vendorCtx'[x] = IF /\ closed[x] # None /\ closed[x].doomed
                           /\ \A tv \in Thread \X Vendor : vendorCur'[tv] # x
                        THEN None ELSE closed[x]
  BY <1>2 DEF Surviving
<1>5. vendorCtx' = [x \in Handle |-> vendorCtx'[x]]
  BY <1>2 DEF Surviving
<1>6. vendorCtx' \in [Handle -> VendorContext \cup {None}]
  BY <1>3, <1>4, <1>5
<1> QED
  BY <1>1, <1>3, <1>4, <1>6

LEMMA DisplayClosedStep ==
  ASSUME ContextInv, NEW t \in Thread, NEW d \in Display, DisplayClosed(t, d)
  PROVE  ContextInv'
<1>1. /\ TypeOK /\ CallOK(t) /\ StateOK(t) /\ CurrentOK(t) /\ LockInv /\ ContextKnown /\ CloseOK
      /\ pc[t] = "idle" /\ \A u \in Thread \ {t} : call[u].dpy # d
      /\ Dispatch!Release(IF glx[t] # None /\ glx[t].dpy = d THEN {t} ELSE {})
      /\ VendorClosesDisplay(t, d) \/ UNCHANGED <<vendorCtx, vendorCur>>
      /\ pc' = [pc EXCEPT ![t] = "close"]
      /\ call' = [call EXCEPT ![t].dpy = d]
      /\ UNCHANGED <<hash, lock, glx, forkPending, forks, leaked, reused>>
  BY ThreadFacts DEF DisplayClosed, hashVars, vendorVars, historyVars, ContextInv
<1>2. d # None
  BY ConstantsAssumption
<1>3. /\ current' \in [Thread -> Vendor \cup {None}] /\ owner' = owner
      /\ \A u \in Thread : current'[u] = IF u = t /\ glx[t] # None /\ glx[t].dpy = d
                                         THEN None ELSE current[u]
  BY <1>1 DEF Dispatch!Release, TypeOK
<1>4. /\ vendorCur' \in [Thread \X Vendor -> Handle \cup {None}]
      /\ \A u \in Thread \ {t}, w \in Vendor : vendorCur'[<<u, w>>] = vendorCur[<<u, w>>]
      /\ ~(glx[t] # None /\ glx[t].dpy = d) =>
           \A w \in Vendor : vendorCur'[<<t, w>>] = vendorCur[<<t, w>>]
      /\ vendorCtx' \in [Handle -> VendorContext \cup {None}]
      /\ \A x \in Handle :
           /\ vendorCtx[x] # None /\ ~vendorCtx[x].doomed /\ vendorCtx[x].dpy # d =>
                vendorCtx'[x] = vendorCtx[x]
           /\ vendorCtx'[x] # None /\ ~vendorCtx'[x].doomed => vendorCtx'[x] = vendorCtx[x]
  <2>1. CASE VendorClosesDisplay(t, d)
    <3>1. \A u \in Thread, w \in Vendor :
            u # t \/ ~(glx[t] # None /\ glx[t].dpy = d) =>
              vendorCur'[<<u, w>>] = vendorCur[<<u, w>>]
      BY <1>1, <2>1, ClosesAfter
    <3>2. /\ vendorCur' \in [Thread \X Vendor -> Handle \cup {None}]
          /\ vendorCtx' \in [Handle -> VendorContext \cup {None}]
      BY <1>1, <2>1, ClosesAfter
    <3>3. \A x \in Handle :
            /\ vendorCtx[x] # None /\ ~vendorCtx[x].doomed /\ vendorCtx[x].dpy # d =>
                 vendorCtx'[x] = vendorCtx[x]
            /\ vendorCtx'[x] # None /\ ~vendorCtx'[x].doomed => vendorCtx'[x] = vendorCtx[x]
      BY <1>1, <2>1, ClosesAfter
    <3> QED
      BY <3>1, <3>2, <3>3
  <2>2. CASE UNCHANGED <<vendorCtx, vendorCur>>
    BY <1>1, <2>2 DEF TypeOK
  <2> QED
    BY <1>1, <2>1, <2>2
<1>5. /\ call' = [call EXCEPT ![t] = [new |-> None, dpy |-> d, restore |-> None]]
      /\ [new |-> None, dpy |-> d, restore |-> None] \in Request
  <2>1. PICK request \in Request :
          request = call[t] /\ request.restore = None /\ request.new = None
    BY <1>1 DEF TypeOK, CallOK, NoCall
  <2>2. call' = [call EXCEPT ![t] = [request EXCEPT !.dpy = d]]
    BY <1>1, <2>1 DEF TypeOK, Request
  <2>3. PICK now : now = [request EXCEPT !.dpy = d]
    OBVIOUS
  <2>4. now \in Request /\ now.new = None /\ now.dpy = d /\ now.restore = None
    BY <1>2, <2>1, <2>3 DEF Request
  <2>5. now = [new |-> None, dpy |-> d, restore |-> None]
    BY <2>4 DEF Request
  <2> QED
    BY <2>2, <2>3, <2>4, <2>5
<1>6. pc'[t] = "close" /\ call'[t] = [new |-> None, dpy |-> d, restore |-> None]
  BY <1>1, <1>5 DEF TypeOK
<1>7. OthersSame(t) /\ HashGuarded(t)
  BY <1>1, <1>3, <1>4, <1>5 DEF TypeOK, OthersSame, HashGuarded
<1>8. TypeOK'
  <2>1. /\ pc' \in [Thread -> {"idle", "switch", "release", "dispatch", "vendor", "add",
                               "destroy", "close", "exiting", "callback", "exited"}]
        /\ call' \in [Thread -> Request]
    BY <1>1, <1>5 DEF TypeOK
  <2> QED
    BY <1>1, <1>3, <1>4, <2>1 DEF TypeOK
<1>9. InUse(t)' = InUse(t) /\ Use' = Use
  <2>1. InUse(t)' = InUse(t)
    BY <1>1, <1>6 DEF InUse
  <2> QED
    BY <1>1, <1>7, <2>1, UseAfter
<1>10. HashStep(hash, hash', Use', ~forkPending)
  BY <1>1, <1>9, CountHeld, NoMove
<1>11. CountIsUse'
  BY <1>1, <1>10, CountAfter DEF HashStep
<1>12. LockInv'
  BY <1>1, <1>6, <1>7, ConstantsAssumption DEF LockInv, OthersSame
<1>13. ContextKnown'
  <2> SUFFICES ASSUME NEW x \in Handle \ reused', Created(x)'
               PROVE  /\ hash'[x] # None /\ hash'[x].vendor = vendorCtx'[x].vendor
                      /\ ~hash'[x].deleted
    BY DEF ContextKnown
  <2>1. vendorCtx'[x] = vendorCtx[x]
    BY <1>4 DEF Created
  <2>2. Created(x)
    BY <1>1, <1>7, <2>1 DEF Created, OthersSame
  <2> QED
    BY <1>1, <2>1, <2>2 DEF ContextKnown
<1>14. CloseOK'
  <2>1. \A u \in Thread \ {t} : pc'[u] = pc[u] /\ call'[u] = call[u] /\ call[u].dpy # d
    BY <1>1, <1>7 DEF OthersSame
  <2>2. call'[t].dpy = d
    BY <1>6
  <2> QED
    BY <1>1, <2>1, <2>2 DEF CloseOK
<1>15. CallOK(t)' /\ StateOK(t)' /\ CurrentOK(t)' /\ VendorContextOK(t)'
  <2>1. CallOK(t)'
    BY <1>2, <1>6 DEF CallOK
  <2>2. StateOK(t)'
    BY <1>1, <1>6, <1>9 DEF StateOK
  <2>3. CurrentOK(t)'
    <3>1. call'[t].dpy = d /\ glx' = glx
      BY <1>1, <1>6
    <3>2. Closing(t)' <=> glx[t] # None /\ glx[t].dpy = d
      BY <1>6, <3>1 DEF Closing
    <3>3. ~Closing(t)
      BY <1>1 DEF Closing
    <3>4. CASE glx[t] # None /\ glx[t].dpy = d
      BY <1>3, <1>6, <3>2, <3>4 DEF CurrentOK
    <3>5. CASE ~(glx[t] # None /\ glx[t].dpy = d)
      BY <1>1, <1>3, <1>4, <1>6, <3>1, <3>2, <3>3, <3>5 DEF CurrentOK
    <3> QED
      BY <3>4, <3>5
  <2>4. VendorContextOK(t)'
    BY <1>6 DEF VendorContextOK
  <2> QED
    BY <2>1, <2>2, <2>3, <2>4
<1>16. ASSUME NEW u \in Thread \ {t}
       PROVE  CallOK(u)' /\ StateOK(u)' /\ CurrentOK(u)' /\ VendorContextOK(u)'
  <2>1. CallOK(u)' /\ StateOK(u)' /\ CurrentOK(u)'
    BY <1>1, <1>7, <1>10, OthersKeep DEF HashStep, KeptVendor
  <2>2. pc[u] \in {"add", "destroy"} =>
          /\ vendorCtx'[call[u].new] = vendorCtx[call[u].new]
          /\ call'[t].dpy # call[u].dpy
    BY <1>1, <1>4, <1>6, VendorContextFacts
  <2>3. VendorContextOK(u)'
    BY <1>1, <1>6, <1>7, <2>2, VendorContextKeep DEF OthersSame
  <2> QED
    BY <2>1, <2>3
<1> QED
  BY <1>8, <1>11, <1>12, <1>13, <1>14, <1>15, <1>16 DEF ContextInv

LEMMA ForgetDisplayStep ==
  ASSUME ContextInv, NEW t \in Thread, ForgetDisplay(t)
  PROVE  ContextInv'
<1>0. PICK d : d = call[t].dpy
  OBVIOUS
<1> DEFINE mine == glx[t] # None /\ glx[t].dpy = d
<1>1. /\ TypeOK /\ CallOK(t) /\ StateOK(t) /\ CurrentOK(t) /\ LockInv /\ ContextKnown /\ CloseOK
      /\ pc[t] = "close" /\ mine => lock = None
      /\ hash' = IF mine THEN DropUse(hash, glx[t].context) ELSE hash
      /\ glx' = [u \in Thread |->
                   IF glx[u] = None \/ glx[u].dpy # d THEN glx[u]
                   ELSE IF u = t THEN None ELSE [glx[u] EXCEPT !.dpy = None]]
      /\ pc' = [pc EXCEPT ![t] = "idle"] /\ call' = [call EXCEPT ![t] = NoCall]
      /\ VendorClosesDisplay(t, d)
      /\ UNCHANGED <<lock, current, owner, forkPending, forks, leaked, reused>>
  BY <1>0, ThreadFacts DEF ForgetDisplay, dispatchVars, historyVars, ContextInv
<1>2. d # None /\ pc[t] = "close"
  BY <1>0, <1>1 DEF CallOK, ForgetDisplay
<1>3. /\ glx'[t] = IF mine THEN None ELSE glx[t]
      /\ \A u \in Thread \ {t} :
           /\ glx'[u] \in ThreadState \cup {None}
           /\ glx'[u] = None <=> glx[u] = None
           /\ glx[u] # None => /\ glx'[u].context = glx[u].context
                               /\ glx'[u].vendor = glx[u].vendor
                               /\ glx'[u].dpy = IF glx[u].dpy = d THEN None ELSE glx[u].dpy
  <2>1. glx'[t] = IF mine THEN None ELSE glx[t]
    BY <1>1
  <2>2. ASSUME NEW u \in Thread \ {t}
        PROVE  /\ glx'[u] \in ThreadState \cup {None}
               /\ glx'[u] = None <=> glx[u] = None
               /\ glx[u] # None => /\ glx'[u].context = glx[u].context
                                   /\ glx'[u].vendor = glx[u].vendor
                                   /\ glx'[u].dpy = IF glx[u].dpy = d THEN None ELSE glx[u].dpy
    <3>1. CASE glx[u] = None \/ glx[u].dpy # d
      BY <1>1, <3>1 DEF TypeOK
    <3>2. CASE glx[u] # None /\ glx[u].dpy = d
      <4>1. glx[u] \in ThreadState
        BY <1>1, <3>2 DEF TypeOK
      <4>2. PICK now : now = [glx[u] EXCEPT !.dpy = None]
        OBVIOUS
      <4>3. /\ now \in ThreadState /\ now.context = glx[u].context /\ now.vendor = glx[u].vendor
            /\ now.dpy = None
        BY <4>1, <4>2 DEF ThreadState
      <4>4. now # None
        BY <4>3, ConstantsAssumption
      <4>5. glx'[u] = now
        BY <1>1, <3>2, <4>2
      <4> QED
        BY <3>2, <4>3, <4>4, <4>5
    <3> QED
      BY <3>1, <3>2
  <2> QED
    BY <2>1, <2>2
<1>4. glx' \in [Thread -> ThreadState \cup {None}]
  <2>1. glx' = [u \in Thread |-> glx'[u]]
    BY <1>1
  <2>2. \A u \in Thread : glx'[u] \in ThreadState \cup {None}
    BY <1>1, <1>3 DEF TypeOK
  <2> QED
    BY <2>1, <2>2
<1>5. /\ vendorCur' \in [Thread \X Vendor -> Handle \cup {None}]
      /\ vendorCtx' \in [Handle -> VendorContext \cup {None}]
  BY <1>1, ClosesAfter
<1>6. /\ \A u \in Thread, w \in Vendor :
           u # t \/ ~mine => vendorCur'[<<u, w>>] = vendorCur[<<u, w>>]
      /\ mine => \A w \in Vendor : vendorCur'[<<t, w>>] = None
  BY <1>1, ClosesAfter
<1>7. \A x \in Handle :
        /\ vendorCtx[x] # None /\ ~vendorCtx[x].doomed /\ vendorCtx[x].dpy # d =>
             vendorCtx'[x] = vendorCtx[x]
        /\ vendorCtx'[x] # None /\ ~vendorCtx'[x].doomed => vendorCtx'[x] = vendorCtx[x]
  BY <1>1, ClosesAfter
<1>8. /\ pc'[t] = "idle" /\ call'[t] = NoCall
      /\ \A u \in Thread \ {t} : pc'[u] = pc[u] /\ call'[u] = call[u]
  BY <1>1 DEF TypeOK
<1>9. InUse(t) = (IF glx[t] = None THEN None ELSE glx[t].context)
  BY <1>2 DEF InUse
<1>10. InUse(t)' = (IF mine THEN None ELSE InUse(t))
  BY <1>2, <1>3, <1>8, <1>9 DEF InUse
<1>11. \A u \in Thread \ {t} : InUse(u)' = InUse(u)
  BY <1>3, <1>8 DEF InUse
<1> HIDE DEF mine
<1>12. Use' = IF mine THEN [Use EXCEPT ![t] = None] ELSE Use
  <2>1. Use = [u \in Thread |-> InUse(u)] /\ Use' = [u \in Thread |-> InUse(u)']
    BY DEF Use
  <2> QED
    BY <1>10, <1>11, <2>1
<1>13. HashStep(hash, hash', Use', ~forkPending)
  <2>1. CASE mine
    <3>1. InUse(t) = glx[t].context /\ glx[t].context \in Handle /\ Use[t] = InUse(t)
      BY <1>9, <2>1, ThreadFacts DEF mine, Use
    <3> QED
      BY <1>1, <1>12, <2>1, <3>1, CountHeld, DropMove
  <2>2. CASE ~mine
    BY <1>1, <1>12, <2>2, CountHeld, NoMove
  <2> QED
    BY <2>1, <2>2
<1>14. NoCall \in Request
  BY DEF Request, NoCall
<1>15. TypeOK'
  BY <1>1, <1>4, <1>5, <1>13, <1>14 DEF TypeOK, HashStep, Hash
<1>16. CountIsUse'
  BY <1>1, <1>13, CountAfter DEF HashStep
<1>17. LockInv'
  BY <1>1, <1>2, <1>8, ConstantsAssumption DEF LockInv
<1>18. ContextKnown'
  <2> SUFFICES ASSUME NEW x \in Handle \ reused', Created(x)'
               PROVE  /\ hash'[x] # None /\ hash'[x].vendor = vendorCtx'[x].vendor
                      /\ ~hash'[x].deleted
    BY DEF ContextKnown
  <2>1. vendorCtx'[x] = vendorCtx[x]
    BY <1>7 DEF Created
  <2>2. Created(x)
    BY <1>1, <1>2, <1>8, <2>1 DEF Created
  <2>3. hash[x] # None /\ hash[x].vendor = vendorCtx[x].vendor /\ ~hash[x].deleted
    BY <1>1, <2>2 DEF ContextKnown
  <2> QED
    BY <1>13, <2>1, <2>3 DEF HashStep, Kept, Same
<1>19. CloseOK'
  BY <1>1, <1>8 DEF CloseOK
<1>20. CallOK(t)' /\ StateOK(t)' /\ CurrentOK(t)' /\ VendorContextOK(t)'
  <2>1. CallOK(t)'
    BY <1>8 DEF CallOK, NoCall
  <2>2. StateOK(t)'
    <3>1. CASE mine
      BY <1>3, <1>8, <3>1 DEF StateOK
    <3>2. CASE ~mine
      BY <1>1, <1>3, <1>8, <1>10, <3>2 DEF StateOK
    <3> QED
      BY <3>1, <3>2
  <2>3. CurrentOK(t)'
    <3>0. Closing(t) <=> mine
      BY <1>0, <1>2 DEF Closing, mine
    <3>1. CASE mine
      BY <1>1, <1>3, <1>6, <1>8, <3>0, <3>1 DEF CurrentOK
    <3>2. CASE ~mine
      <4>1. ~Closing(t)'
        BY <1>8 DEF Closing
      <4> QED
        BY <1>1, <1>2, <1>3, <1>6, <1>8, <3>0, <3>2, <4>1 DEF CurrentOK
    <3> QED
      BY <3>1, <3>2
  <2>4. VendorContextOK(t)'
    BY <1>8 DEF VendorContextOK
  <2> QED
    BY <2>1, <2>2, <2>3, <2>4
<1>21. ASSUME NEW u \in Thread \ {t}
       PROVE  CallOK(u)' /\ StateOK(u)' /\ CurrentOK(u)' /\ VendorContextOK(u)'
  <2>0. CallOK(u) /\ StateOK(u) /\ CurrentOK(u) /\ VendorContextOK(u)
    BY DEF ContextInv
  <2>1. hash' = hash \/ pc[u] \notin Locked
    <3>1. CASE mine
      BY <1>1, <1>2, <3>1, ConstantsAssumption DEF LockInv, Locked, ForgetDisplay
    <3>2. CASE ~mine
      BY <1>1, <3>2
    <3> QED
      BY <3>1, <3>2
  <2>2. CallOK(u)'
    <3>1. CASE hash' = hash
      <4>1. pc[u] \in Locked => glx[u] # None
        BY <2>0 DEF StateOK, Locked
      <4>2. /\ pc[u] \in Locked => /\ glx'[u].vendor = glx[u].vendor
                                   /\ glx'[u].context = glx[u].context
        BY <1>3, <4>1
      <4> QED
        BY <1>8, <2>0, <3>1, <4>2 DEF CallOK, CanRestoreOldContext, Locked
    <3>2. CASE pc[u] \notin Locked
      BY <1>8, <2>0, <3>2 DEF CallOK, Locked
    <3> QED
      BY <2>1, <3>1, <3>2
  <2>3. StateOK(u)'
    <3>1. glx[u] # None => /\ InUse(u) # None /\ InUse(u) \in Handle /\ hash[InUse(u)] # None
                           /\ hash[InUse(u)].vendor = glx[u].vendor
      BY <2>0, ThreadFacts DEF StateOK
    <3>2. glx[u] # None => hash'[InUse(u)] # None
      BY <1>11, <1>13, <3>1 DEF HashStep, Held, Use
    <3>3. glx[u] # None => hash'[InUse(u)].vendor = hash[InUse(u)].vendor
      BY <1>13, <3>1, <3>2 DEF HashStep, Kept, Same
    <3> QED
      BY <1>3, <1>8, <1>11, <2>0, <3>1, <3>2, <3>3 DEF StateOK
  <2>4. CurrentOK(u)'
    <3>1. pc[u] = "close" => call[u].dpy # None /\ call[u].dpy # d
      BY <1>0, <1>1, <1>2, <2>0 DEF CallOK, CloseOK
    <3>2. Closing(u)' <=> Closing(u)
      BY <1>3, <1>8, <3>1 DEF Closing
    <3>3. current'[u] = current[u] /\ \A w \in Vendor : vendorCur'[<<u, w>>] = vendorCur[<<u, w>>]
      BY <1>1, <1>6
    <3> QED
      BY <1>3, <1>8, <2>0, <3>2, <3>3 DEF CurrentOK
  <2>5. VendorContextOK(u)'
    <3> SUFFICES ASSUME pc[u] \in {"add", "destroy"}
                 PROVE  VendorContextOK(u)'
      BY <1>8 DEF VendorContextOK
    <3>1. PICK c : c = call[u].new
      OBVIOUS
    <3>2. /\ c \in Handle /\ vendorCtx[c] # None /\ ~vendorCtx[c].doomed
          /\ vendorCtx[c].dpy = call[u].dpy
          /\ call[u].dpy # d
          /\ \A w \in Thread \ {u} : /\ pc[w] \in {"add", "destroy"} => call[w].new # c
                                     /\ pc[w] = "close" => call[w].dpy # call[u].dpy
      BY <1>0, <1>2, <3>1, VendorContextFacts
    <3>3. vendorCtx'[c] = vendorCtx[c]
      BY <1>7, <3>2
    <3>4. \A w \in Thread \ {u} : /\ pc'[w] \in {"add", "destroy"} => call'[w].new # c
                                  /\ pc'[w] = "close" => call'[w].dpy # call[u].dpy
      BY <1>8, <3>2
    <3>5. call'[u].new = c /\ call'[u].dpy = call[u].dpy /\ pc'[u] = pc[u]
      BY <1>8, <3>1
    <3>6. /\ vendorCtx'[call'[u].new] # None /\ ~vendorCtx'[call'[u].new].doomed
          /\ vendorCtx'[call'[u].new].dpy = call'[u].dpy
      BY <3>2, <3>3, <3>5
    <3>7. \A w \in Thread \ {u} :
            /\ pc'[w] \in {"add", "destroy"} => call'[w].new # call'[u].new
            /\ pc'[w] = "close" => call'[w].dpy # call'[u].dpy
      BY <3>4, <3>5
    <3> QED
      BY <3>6, <3>7 DEF VendorContextOK
  <2> QED
    BY <2>2, <2>3, <2>4, <2>5
<1> QED
  BY <1>15, <1>16, <1>17, <1>18, <1>19, <1>20, <1>21 DEF ContextInv

-----------------------------------------------------------------------------
(* Forks.                                                                  *)

\* Wherever the other threads are, a fork leaves the counts too high for them, the lock
\* that one of them may hold locked, and nothing else that is wrong.
LEMMA ForkStep ==
  ASSUME ContextInv, NEW t \in Thread, Fork(t)
  PROVE  ContextInv'
<1>1. /\ TypeOK /\ CountIsUse /\ LockInv /\ ContextKnown
      /\ pc[t] = "idle" /\ lock' = (IF lock = None THEN None ELSE Gone)
      /\ leaked' = leaked \cup {call[u].new : u \in {w \in Thread : pc[w] \in {"add", "destroy"}}}
      /\ forks < MaxForks /\ forks' = forks + 1 /\ forkPending' = TRUE
      /\ glx' = [u \in Thread |-> IF u = t THEN glx[u] ELSE None]
      /\ pc' = [u \in Thread |-> "idle"] /\ call' = [u \in Thread |-> NoCall]
      /\ Dispatch!Release(Thread \ {t})
      /\ vendorCur' = [tv \in Thread \X Vendor |-> IF tv[1] = t THEN vendorCur[tv] ELSE None]
      /\ UNCHANGED <<hash, vendorCtx, reused>>
  BY DEF Fork, ContextInv
<1>2. CallOK(t) /\ StateOK(t) /\ CurrentOK(t) /\ call[t] = NoCall
  BY <1>1, ThreadFacts DEF CallOK
<1>3. /\ current' \in [Thread -> Vendor \cup {None}] /\ owner' = owner
      /\ current'[t] = current[t] /\ \A u \in Thread \ {t} : current'[u] = None
  BY <1>1 DEF Dispatch!Release, TypeOK
<1>4. /\ \A w \in Vendor : vendorCur'[<<t, w>>] = vendorCur[<<t, w>>]
      /\ \A u \in Thread \ {t}, w \in Vendor : vendorCur'[<<u, w>>] = None
      /\ vendorCur' \in [Thread \X Vendor -> Handle \cup {None}]
  BY <1>1 DEF TypeOK
<1>5. /\ \A u \in Thread : pc'[u] = "idle" /\ call'[u] = NoCall
      /\ glx'[t] = glx[t] /\ \A u \in Thread \ {t} : glx'[u] = None
  BY <1>1
<1>6. TypeOK'
  <2>1. forks' \in 0..MaxForks
    BY <1>1, ConstantsAssumption DEF TypeOK
  <2>2. NoCall \in Request
    BY DEF Request, NoCall
  <2>3. glx' \in [Thread -> ThreadState \cup {None}]
    BY <1>1 DEF TypeOK
  <2>4. leaked' \subseteq Handle
    <3> SUFFICES ASSUME NEW u \in Thread, pc[u] \in {"add", "destroy"}
                 PROVE  call[u].new \in Handle
      BY <1>1 DEF TypeOK
    <3> QED
      BY VendorContextFacts
  <2> QED
    BY <1>1, <1>3, <1>4, <2>1, <2>2, <2>3, <2>4 DEF TypeOK
<1>7. InUse(t)' = InUse(t) /\ \A u \in Thread \ {t} : InUse(u)' = None
  BY <1>1, <1>5 DEF InUse
<1>8. CountIsUse'
  <2> SUFFICES ASSUME NEW c \in Handle, hash[c] # None
               PROVE  hash[c].currentCount >= Cardinality(Uses(c)')
    BY <1>1 DEF CountIsUse
  <2>1. Uses(c)' \subseteq Uses(c)
    BY <1>7, ConstantsAssumption DEF Uses
  <2>2. IsFiniteSet(Uses(c)) /\ Cardinality(Uses(c)) \in Nat
    BY ConstantsAssumption, FS_Subset, FS_CardinalityType DEF Uses
  <2>3. Cardinality(Uses(c)') <= Cardinality(Uses(c)) /\ Cardinality(Uses(c)') \in Nat
    BY <2>1, <2>2, FS_Subset, FS_CardinalityType
  <2>4. hash[c].currentCount \in Nat /\ hash[c].currentCount >= Cardinality(Uses(c))
    BY <1>1 DEF TypeOK, Info, CountIsUse
  <2> QED
    BY <2>2, <2>3, <2>4
<1>9. LockInv'
  BY <1>1, <1>5, ConstantsAssumption DEF LockInv, TypeOK
<1>10. ContextKnown'
  <2>1. \A c \in Handle : Created(c)' => Created(c)
    BY <1>1 DEF Created
  <2> QED
    BY <1>1, <2>1 DEF ContextKnown
<1>11. CloseOK'
  BY <1>5 DEF CloseOK
<1>12. ASSUME NEW u \in Thread
       PROVE  CallOK(u)' /\ StateOK(u)' /\ CurrentOK(u)' /\ VendorContextOK(u)'
  <2>1. CallOK(u)' /\ VendorContextOK(u)'
    BY <1>5 DEF CallOK, VendorContextOK, NoCall
  <2>2. StateOK(u)'
    BY <1>1, <1>2, <1>5, <1>7 DEF StateOK
  <2>3. CurrentOK(u)'
    <3>1. CASE u = t
      BY <1>1, <1>2, <1>3, <1>4, <1>5, <3>1 DEF CurrentOK, Closing
    <3>2. CASE u # t
      BY <1>3, <1>4, <1>5, <3>2 DEF CurrentOK, Closing
    <3> QED
      BY <3>1, <3>2
  <2> QED
    BY <2>1, <2>2, <2>3
<1> QED
  BY <1>6, <1>8, <1>9, <1>10, <1>11, <1>12 DEF ContextInv

\* The child starts over: no context is current, and the counts say so.
LEMMA ResetOnForkStep ==
  ASSUME ContextInv, NEW t \in Thread, ResetOnFork(t)
  PROVE  ContextInv'
<1>1. /\ TypeOK /\ CallOK(t) /\ LockInv /\ ContextKnown /\ CloseOK
      /\ pc[t] = "idle" /\ forkPending /\ \A u \in Thread \ {t} : glx[u] = None
      /\ forkPending' = FALSE
      /\ hash' = [c \in Handle |-> ResetCounts(hash[c])]
      /\ glx' = [glx EXCEPT ![t] = None]
      /\ Dispatch!Release({t})
      /\ VendorLosesCurrent(t, Vendor)
      /\ UNCHANGED <<lock, pc, call, forks, leaked, reused>>
  BY ThreadFacts DEF ResetOnFork, ContextInv
<1>2. /\ lock \in {None, Gone} /\ \A u \in Thread : pc[u] \notin Locked \cup {"add", "destroy"}
  BY <1>1, ConstantsAssumption DEF LockInv, Locked
<1>3. /\ current' \in [Thread -> Vendor \cup {None}] /\ owner' = owner
      /\ current'[t] = None /\ \A u \in Thread \ {t} : current'[u] = current[u]
  BY <1>1 DEF Dispatch!Release, TypeOK
<1>4. /\ vendorCur' \in [Thread \X Vendor -> Handle \cup {None}]
      /\ \A u \in Thread, w \in Vendor :
           vendorCur'[<<u, w>>] = IF u = t /\ w \in Vendor THEN None ELSE vendorCur[<<u, w>>]
      /\ vendorCtx' = Surviving(vendorCtx, vendorCur')
  BY <1>1, VendorCurAfter
<1>5. vendorCtx' \in [Handle -> VendorContext \cup {None}] /\ ContextsStay
  BY <1>1, <1>4, SurvivingStay
<1>6. ASSUME NEW c \in Handle
      PROVE  /\ hash'[c] \in Info \cup {None}
             /\ hash[c] = None => hash'[c] = None
             /\ hash'[c] # None => Same(hash'[c], hash[c]) /\ hash'[c].currentCount = 0
             /\ hash[c] # None /\ ~hash[c].deleted => hash'[c] # None
  <2>1. hash'[c] = ResetCounts(hash[c])
    BY <1>1
  <2>2. CASE hash[c] = None
    BY <2>1, <2>2 DEF ResetCounts
  <2>3. CASE hash[c] # None
    <3>1. hash[c] \in Info
      BY <1>1, <2>3 DEF TypeOK
    <3>2. PICK info : info = [hash[c] EXCEPT !.currentCount = 0]
      OBVIOUS
    <3>3. info \in Info /\ info.currentCount = 0 /\ Same(info, hash[c])
      BY <3>1, <3>2 DEF Info, Same
    <3>4. info # None
      BY <3>3, ConstantsAssumption
    <3>5. hash'[c] = IF hash[c].deleted THEN None ELSE info
      BY <2>1, <2>3, <3>2, <3>3 DEF ResetCounts, FreeIfUnused, Same
    <3> QED
      BY <2>3, <3>3, <3>4, <3>5
  <2> QED
    BY <2>2, <2>3
<1>7. hash' \in Hash
  BY <1>1, <1>6 DEF Hash
<1>8. Kept(hash, hash')
  BY <1>6 DEF Kept
<1>9. \A u \in Thread : glx'[u] = None /\ InUse(u)' = None
  <2>1. \A u \in Thread : glx'[u] = None
    BY <1>1 DEF TypeOK
  <2> QED
    BY <2>1 DEF InUse
<1>10. TypeOK'
  BY <1>1, <1>3, <1>4, <1>5, <1>7 DEF TypeOK, Hash
<1>11. OthersSame(t) /\ HashGuarded(t)
  BY <1>1, <1>2, <1>3, <1>4 DEF OthersSame, HashGuarded, TypeOK
<1>12. Held(hash', Use')
  BY <1>9 DEF Held, Use
<1>13. CountIsUse'
  <2> SUFFICES ASSUME NEW c \in Handle, hash'[c] # None
               PROVE  hash'[c].currentCount = 0 /\ Cardinality(Uses(c)') = 0
    BY DEF CountIsUse
  <2>1. Uses(c)' = {}
    BY <1>9, ConstantsAssumption DEF Uses
  <2> QED
    BY <1>6, <2>1, FS_EmptySet
<1>14. LockInv'
  BY <1>1 DEF LockInv
<1>15. ContextKnown'
  <2> SUFFICES ASSUME NEW x \in Handle \ reused', Created(x)'
               PROVE  /\ hash'[x] # None /\ hash'[x].vendor = vendorCtx'[x].vendor
                      /\ ~hash'[x].deleted
    BY DEF ContextKnown
  <2>1. vendorCtx'[x] = vendorCtx[x]
    BY <1>5 DEF ContextsStay, Created
  <2>2. Created(x)
    BY <1>1, <2>1 DEF Created
  <2>3. hash[x] # None /\ hash[x].vendor = vendorCtx[x].vendor /\ ~hash[x].deleted
    BY <1>1, <2>2 DEF ContextKnown
  <2> QED
    BY <1>8, <2>1, <2>3 DEF Kept, Same
<1>16. CloseOK'
  BY <1>1 DEF CloseOK
<1>17. CallOK(t)' /\ StateOK(t)' /\ CurrentOK(t)'
  <2>1. CallOK(t)'
    BY <1>1 DEF CallOK, NoCall
  <2>2. StateOK(t)'
    BY <1>1, <1>9 DEF StateOK
  <2>3. CurrentOK(t)'
    BY <1>1, <1>3, <1>4, <1>9 DEF CurrentOK, Closing
  <2> QED
    BY <2>1, <2>2, <2>3
<1>18. \A u \in Thread \ {t} : CallOK(u)' /\ StateOK(u)' /\ CurrentOK(u)'
  <2>1. KeptVendor(hash, hash')
    BY <1>8 DEF Kept, KeptVendor, Same
  <2> QED
    BY <1>11, <1>12, <2>1, OthersKeep
<1>19. \A u \in Thread : VendorContextOK(u)'
  BY <1>1, <1>2 DEF VendorContextOK
<1> QED
  BY <1>10, <1>13, <1>14, <1>15, <1>16, <1>17, <1>18, <1>19 DEF ContextInv

-----------------------------------------------------------------------------
(* The invariant, and what follows from it.                                *)

LEMMA InitInv ==
  ASSUME Init
  PROVE  ContextInv
<1>1. \A t \in Thread : glx[t] = None /\ pc[t] = "idle" /\ call[t] = NoCall /\ InUse(t) = None
  BY DEF Init, InUse
<1>2. TypeOK
  <2>1. NoCall \in Request
    BY DEF Request, NoCall
  <2> QED
    <3>1. /\ hash \in [Handle -> Info \cup {None}] /\ lock \in Thread \cup {None, Gone}
          /\ glx \in [Thread -> ThreadState \cup {None}]
          /\ call \in [Thread -> Request]
          /\ pc \in [Thread -> {"idle", "switch", "release", "dispatch", "vendor", "add",
                                "destroy", "close", "exiting", "callback", "exited"}]
      BY <2>1 DEF Init
    <3>2. current \in [Thread -> Vendor \cup {None}] /\ owner \in Vendor \cup {None}
      BY DEF Init, Dispatch!Init
    <3>3. /\ vendorCtx \in [Handle -> VendorContext \cup {None}]
          /\ vendorCur \in [Thread \X Vendor -> Handle \cup {None}]
      BY DEF Init
    <3>4. forkPending \in BOOLEAN
      BY DEF Init
    <3>5. forks = 0 /\ MaxForks \in Nat
      BY ConstantsAssumption DEF Init
    <3>6. forks \in 0..MaxForks
      BY <3>5
    <3>7. leaked \subseteq Handle /\ reused \subseteq Handle
      BY DEF Init
    <3> QED
      BY <3>1, <3>2, <3>3, <3>4, <3>6, <3>7 DEF TypeOK
<1>3. CountIsUse /\ ContextKnown
  BY DEF Init, CountIsUse, ContextKnown, Created
<1>4. LockInv /\ CloseOK
  BY <1>1, ConstantsAssumption DEF Init, LockInv, CloseOK
<1>5. \A t \in Thread : CallOK(t) /\ StateOK(t) /\ VendorContextOK(t)
  BY <1>1 DEF CallOK, StateOK, VendorContextOK, NoCall
<1>6. \A t \in Thread : CurrentOK(t)
  BY <1>1 DEF Init, CurrentOK, Closing, Dispatch!Init
<1> QED
  BY <1>2, <1>3, <1>4, <1>5, <1>6 DEF ContextInv

LEMMA NextInv ==
  ASSUME ContextInv, Next
  PROVE  ContextInv'
<1>1. PICK t \in Thread : MakeCurrentStep(t) \/ ContextStep(t) \/ LifeStep(t)
  BY DEF Next
<1>2. ASSUME Done(t)
      PROVE  ContextInv'
  BY <1>2, PlainStepInv DEF Done
<1>3. CASE MakeCurrentStep(t)
  <2>1. Done(t)
    BY <1>3, CommonMakeCurrentStep, MakeNoneCurrentStep, SwitchContextStep, LoseCurrentStep,
       DispatchMakeCurrentStep, VendorMakeCurrentStep DEF MakeCurrentStep
  <2> QED
    BY <1>2, <2>1
<1>4. CASE ContextStep(t)
  BY <1>4, CreateContextStep, AddVendorContextMappingStep, DestroyContextStep,
     VendorDestroyContextStep DEF ContextStep
<1>5. CASE LifeStep(t)
  <2>1. CASE ExitDispatch(t) \/ ExitCallback(t) \/ VendorThreadExit(t)
    BY <1>2, <2>1, ExitDispatchStep, ExitCallbackStep, VendorThreadExitStep
  <2>2. CASE \E d \in Display : DisplayClosed(t, d)
    BY <2>2, DisplayClosedStep
  <2>3. CASE ForgetDisplay(t)
    BY <2>3, ForgetDisplayStep
  <2>4. CASE Fork(t) \/ ResetOnFork(t)
    BY <2>4, ForkStep, ResetOnForkStep
  <2> QED
    BY <1>5, <2>1, <2>2, <2>3, <2>4 DEF LifeStep
<1> QED
  BY <1>1, <1>3, <1>4, <1>5

LEMMA StutterInv ==
  ASSUME ContextInv, UNCHANGED vars
  PROVE  ContextInv'
<1>1. UNCHANGED <<hash, lock, glx, pc, call, current, owner, vendorCtx, vendorCur, forkPending,
                  forks, leaked, reused>>
  BY DEF vars, hashVars, threadVars, dispatchVars, vendorVars, historyVars
<1>2. \A t \in Thread : InUse(t)' = InUse(t)
  BY <1>1 DEF InUse
<1>3. TypeOK' /\ CountIsUse' /\ LockInv' /\ ContextKnown' /\ CloseOK'
  <2>1. CountIsUse'
    <3>1. \A c : Uses(c)' = Uses(c)
      BY <1>2 DEF Uses
    <3> QED
      BY <1>1, <3>1 DEF ContextInv, CountIsUse
  <2> QED
    BY <1>1, <2>1 DEF ContextInv, TypeOK, LockInv, ContextKnown, Created, CloseOK
<1>4. \A t \in Thread : CallOK(t)' /\ StateOK(t)' /\ CurrentOK(t)' /\ VendorContextOK(t)'
  <2>1. \A t \in Thread : CallOK(t)'
    BY <1>1 DEF ContextInv, CallOK, CanRestoreOldContext
  <2>2. \A t \in Thread : StateOK(t)'
    BY <1>1, <1>2 DEF ContextInv, StateOK
  <2>3. \A t \in Thread : CurrentOK(t)'
    BY <1>1 DEF ContextInv, CurrentOK, Closing
  <2>4. \A t \in Thread : VendorContextOK(t)'
    BY <1>1 DEF ContextInv, VendorContextOK
  <2> QED
    BY <2>1, <2>2, <2>3, <2>4
<1> QED
  BY <1>3, <1>4 DEF ContextInv

\* Counts and the lock belong to the threads that there are, whatever failed, exited, was
\* destroyed, closed or reused in between; a fork, wherever the other threads are, leaves
\* at most counts that are too high until the reset, and glxContextHashLock locked for
\* ever if another thread was holding it (libglx.c:1093, 1984).
THEOREM ContextInvariant == Spec => []ContextInv
<1>1. Init => ContextInv
  BY InitInv
<1>2. ContextInv /\ [Next]_vars => ContextInv'
  BY NextInv, StutterInv
<1> QED
  BY <1>1, <1>2, PTL DEF Spec

\* No thread is left with a pointer to a freed context info, in its thread state or as
\* the old context that a failed switch of vendors goes back to (libglx.c:1085).
THEOREM NoFreed == Spec => []NoFreedInfo
<1>1. ASSUME ContextInv
      PROVE  NoFreedInfo
  <2> SUFFICES ASSUME NEW t \in Thread
               PROVE  /\ InUse(t) # None => hash[InUse(t)] # None
                      /\ call[t].restore # None => hash[call[t].restore.context] # None
    BY DEF NoFreedInfo
  <2>1. CallOK(t) /\ StateOK(t)
    BY <1>1 DEF ContextInv
  <2>2. InUse(t) # None => glx[t] # None
    BY DEF InUse
  <2> QED
    BY <2>1, <2>2 DEF CallOK, StateOK
<1>2. ContextInv => NoFreedInfo
  BY <1>1
<1> QED
  BY <1>2, ContextInvariant, PTL

\* libGLX, libGLdispatch and the vendor libraries agree on what is current in a thread that
\* is in no GLX function, whatever failed in the last one (libglx.c:1078).
THEOREM Agree == Spec => []Agreement
<1>1. ContextInv => Agreement
  <2> SUFFICES ASSUME ContextInv, NEW t \in Thread, pc[t] = "idle"
               PROVE  /\ current[t] = IF glx[t] = None THEN None ELSE glx[t].vendor
                      /\ \A v \in Vendor :
                           vendorCur[<<t, v>>] = IF glx[t] # None /\ glx[t].vendor = v
                                                 THEN glx[t].context ELSE None
    BY DEF Agreement
  <2>1. CurrentOK(t)
    BY DEF ContextInv
  <2> QED
    BY <2>1 DEF CurrentOK, Closing
<1> QED
  BY <1>1, ContextInvariant, PTL

\* libGLX knows every context that the application has, as not deleted and by its vendor,
\* but for one whose handle the vendor took from a destroyed context that was still in
\* use; libGLX keeps the deleted info of that (libglx.c:85, 721).
THEOREM Known == Spec => []ContextKnown
<1>1. ContextInv => ContextKnown
  BY DEF ContextInv
<1> QED
  BY <1>1, ContextInvariant, PTL

===============================================================================
