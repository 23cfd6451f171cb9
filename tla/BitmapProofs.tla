---------------------------- MODULE BitmapProofs ----------------------------
(***************************************************************************)
(* Theorems about the bitmap mechanism (module Bitmap), as one of the      *)
(* methods a program can be linked with, for every number of threads and   *)
(* regions and every width of the epoch.                                   *)
(***************************************************************************)
EXTENDS MCMechanisms, TLAPS

(* What is assumed of the constants of this mechanism. *)
LEMMA BitmapConstants ==
  /\ NumRegions \in Nat \ {0} /\ Zero \in Val
  /\ EPOCH_MOD \in Nat /\ EPOCH_MOD > 1
  /\ \A b \in Builds : /\ b \in [sync : BOOLEAN, threads : SUBSET Thread]
                       /\ b.sync \/ \A s, t \in b.threads : s = t
  BY MechanismAssumption

(* The types of the mechanism, in terms of the regions of module Mechanism. *)
LEMMA BitmapTypes ==
  /\ Bitmap!Region = Region
  /\ Bitmap!HookState =
       [pc : {"run", "set_bit", "test", "copy", "load", "cas", "put", "mark"},
        lo : Region, hi : Region, reg : 0 .. NumRegions,
        old : 0 .. EPOCH_MOD - 1, saved : Val, ep : 0 .. EPOCH_MOD - 1]
  /\ Region = 0 .. NumRegions - 1
  BY DEF Region, Bitmap!Region, Bitmap!HookState

(* A thread outside any hook is in a proper state. *)
LEMMA IdleType == Bitmap!Idle \in Bitmap!HookState
  BY BitmapConstants DEF Bitmap!Idle, Bitmap!HookState, Bitmap!Region

\* Thread t goes from one place of its hook to another; nobody else moves.
Moves(t, f) ==
  /\ f \in [Thread -> Bitmap!HookState]
  /\ \A s \in Thread \ {t} : f[s] = th[s]

(* A hook begins. *)
LEMMA BeginMoves ==
  ASSUME th \in [Thread -> Bitmap!HookState], NEW t \in Thread,
         NEW lo \in Region, NEW hi \in Region, Bitmap!Begin(t, lo, hi)
  PROVE  /\ Moves(t, th')
         /\ th'[t].pc = "set_bit" /\ th'[t].lo = lo /\ th'[t].hi = hi /\ th'[t].reg = lo
<1> DEFINE h == [Bitmap!Idle EXCEPT !.pc = "set_bit", !.lo = lo, !.hi = hi, !.reg = lo]
<1>1. lo \in 0 .. NumRegions
  BY BitmapConstants DEF Region
<1>2. h \in Bitmap!HookState /\ h.pc = "set_bit" /\ h.lo = lo /\ h.hi = hi /\ h.reg = lo
  BY <1>1, IdleType, BitmapTypes
<1>3. th' = [th EXCEPT ![t] = h]
  BY DEF Bitmap!Begin
<1> HIDE DEF h
<1> QED BY <1>2, <1>3 DEF Moves

(* A hook moves on within a region. *)
LEMMA PcMoves ==
  ASSUME th \in [Thread -> Bitmap!HookState], NEW t \in Thread,
         NEW p \in {"copy", "put", "mark"},
         th' = [th EXCEPT ![t].pc = p]
  PROVE  /\ Moves(t, th')
         /\ th'[t].pc = p /\ th'[t].lo = th[t].lo /\ th'[t].hi = th[t].hi
         /\ th'[t].reg = th[t].reg /\ th'[t].saved = th[t].saved /\ th'[t].old = th[t].old
<1> DEFINE h == [th[t] EXCEPT !.pc = p]
<1>1. h \in Bitmap!HookState
  BY BitmapTypes
<1>2. /\ h.pc = p /\ h.lo = th[t].lo /\ h.hi = th[t].hi
      /\ h.reg = th[t].reg /\ h.saved = th[t].saved /\ h.old = th[t].old
  BY BitmapTypes
<1>3. th' = [th EXCEPT ![t] = h]
  OBVIOUS
<1> HIDE DEF h
<1> QED BY <1>1, <1>2, <1>3 DEF Moves

(* It remembers the byte it has read. *)
LEMMA OldMoves ==
  ASSUME th \in [Thread -> Bitmap!HookState], NEW t \in Thread,
         NEW o \in 0 .. EPOCH_MOD - 1,
         th' = [th EXCEPT ![t].pc = "test", ![t].old = o]
  PROVE  /\ Moves(t, th')
         /\ th'[t].pc = "test" /\ th'[t].lo = th[t].lo /\ th'[t].hi = th[t].hi
         /\ th'[t].reg = th[t].reg /\ th'[t].old = o
<1> DEFINE h == [th[t] EXCEPT !.pc = "test", !.old = o]
<1>1. h \in Bitmap!HookState
  BY BitmapTypes
<1>2. /\ h.pc = "test" /\ h.lo = th[t].lo /\ h.hi = th[t].hi
      /\ h.reg = th[t].reg /\ h.old = o
  BY BitmapTypes
<1>3. th' = [th EXCEPT ![t] = h]
  OBVIOUS
<1> HIDE DEF h
<1> QED BY <1>1, <1>2, <1>3 DEF Moves

(* It remembers the contents it has copied. *)
LEMMA SavedMoves ==
  ASSUME th \in [Thread -> Bitmap!HookState], NEW t \in Thread,
         NEW v \in Val,
         th' = [th EXCEPT ![t].pc = "load", ![t].saved = v]
  PROVE  /\ Moves(t, th')
         /\ th'[t].pc = "load" /\ th'[t].lo = th[t].lo /\ th'[t].hi = th[t].hi
         /\ th'[t].reg = th[t].reg /\ th'[t].old = th[t].old /\ th'[t].saved = v
<1> DEFINE h == [th[t] EXCEPT !.pc = "load", !.saved = v]
<1>1. h \in Bitmap!HookState
  BY BitmapTypes
<1>2. /\ h.pc = "load" /\ h.lo = th[t].lo /\ h.hi = th[t].hi
      /\ h.reg = th[t].reg /\ h.old = th[t].old /\ h.saved = v
  BY BitmapTypes
<1>3. th' = [th EXCEPT ![t] = h]
  OBVIOUS
<1> HIDE DEF h
<1> QED BY <1>1, <1>2, <1>3 DEF Moves

(* It loads the epoch it will swap in. *)
LEMMA EpMoves ==
  ASSUME th \in [Thread -> Bitmap!HookState], NEW t \in Thread,
         NEW e \in 0 .. EPOCH_MOD - 1,
         th' = [th EXCEPT ![t].pc = "cas", ![t].ep = e]
  PROVE  /\ Moves(t, th')
         /\ th'[t].pc = "cas" /\ th'[t].lo = th[t].lo /\ th'[t].hi = th[t].hi
         /\ th'[t].reg = th[t].reg /\ th'[t].old = th[t].old /\ th'[t].saved = th[t].saved /\ th'[t].ep = e
<1> DEFINE h == [th[t] EXCEPT !.pc = "cas", !.ep = e]
<1>1. h \in Bitmap!HookState
  BY BitmapTypes
<1>2. /\ h.pc = "cas" /\ h.lo = th[t].lo /\ h.hi = th[t].hi
      /\ h.reg = th[t].reg /\ h.old = th[t].old /\ h.saved = th[t].saved /\ h.ep = e
  BY BitmapTypes
<1>3. th' = [th EXCEPT ![t] = h]
  OBVIOUS
<1> HIDE DEF h
<1> QED BY <1>1, <1>2, <1>3 DEF Moves

(* It goes on to the next region. *)
LEMMA NextRegionMoves ==
  ASSUME th \in [Thread -> Bitmap!HookState], NEW t \in Thread, th[t].reg <= th[t].hi,
         th' = Bitmap!NextRegion(t)
  PROVE  /\ Moves(t, th')
         /\ th'[t].pc = "set_bit" /\ th'[t].lo = th[t].lo /\ th'[t].hi = th[t].hi
         /\ th'[t].reg = th[t].reg + 1
<1> DEFINE h == [Bitmap!Idle EXCEPT !.pc = "set_bit", !.lo = th[t].lo, !.hi = th[t].hi,
                                    !.reg = th[t].reg + 1]
<1>1. th[t].lo \in Region /\ th[t].hi \in Region /\ th[t].reg \in 0 .. NumRegions
  BY BitmapTypes
<1>2. th[t].reg + 1 \in 0 .. NumRegions
  BY <1>1, BitmapConstants DEF Region
<1>3. /\ h \in Bitmap!HookState /\ h.pc = "set_bit" /\ h.lo = th[t].lo /\ h.hi = th[t].hi
      /\ h.reg = th[t].reg + 1
  BY <1>1, <1>2, IdleType, BitmapTypes
<1>4. th' = [th EXCEPT ![t] = h]
  BY DEF Bitmap!NextRegion
<1> HIDE DEF h
<1> QED BY <1>3, <1>4 DEF Moves

USE DEF Region, Bitmap!Region

-----------------------------------------------------------------------------
(* Type correctness, and where a hook may be. *)

\* A byte of the bitmap is never ahead of the epoch, so a new epoch is new to
\* every region, unless a thread marked it with an epoch that had passed.
MarksOld == \A r \in Region \ stale : bitmap[r] <= epoch

\* The hook of thread t works its way from lo to hi; only the synchronized build
\* competes for a region.
HookShape(t) ==
  /\ th[t].pc # "run" => /\ t \in build.threads
                         /\ th[t].lo <= th[t].hi
                         /\ th[t].lo <= th[t].reg
                         /\ th[t].reg <= th[t].hi + 1
  /\ th[t].pc \in {"test", "copy", "load", "cas", "put", "mark"} => th[t].reg <= th[t].hi
  /\ th[t].pc \in {"load", "cas", "put"} => build.sync
  /\ th[t].pc = "mark" => ~build.sync

BitmapShape ==
  /\ Bitmap!BitmapTypeOK
  /\ MarksOld
  /\ \A t \in Thread : HookShape(t)

(* Main is entered with a fresh bitmap. *)
LEMMA BitmapInitShape == Bitmap!Init => BitmapShape
<1> SUFFICES ASSUME Bitmap!Init PROVE BitmapShape
  OBVIOUS
<1>2. Bitmap!BitmapTypeOK
  <2>1. th \in [Thread -> Bitmap!HookState]
    BY IdleType DEF Bitmap!Init
  <2>2. mem \in [Region -> Val] /\ ckpt \in [Region -> Val]
    BY DEF Bitmap!Init
  <2>3. build \in Builds /\ first_time \in BOOLEAN /\ racy \in BOOLEAN /\ stale \subseteq Region
    BY DEF Bitmap!Init
  <2>4. bitmap \in [Region -> 0 .. EPOCH_MOD - 1] /\ shadow \in [Region -> Val]
    BY BitmapConstants DEF Bitmap!Init, Bitmap!NewBitmap, Bitmap!NewShadow
  <2>5. epoch \in 1 .. EPOCH_MOD - 1
    BY BitmapConstants DEF Bitmap!Init
  <2> QED BY <2>1, <2>2, <2>3, <2>4, <2>5 DEF Bitmap!BitmapTypeOK
<1>3. MarksOld /\ \A t \in Thread : HookShape(t)
  BY BitmapConstants
     DEF Bitmap!Init, MarksOld, HookShape, Bitmap!NewBitmap, Bitmap!Idle
<1> QED BY <1>2, <1>3 DEF BitmapShape

(* The new epoch is one the 8-bit counter holds, and no region is marked with it. *)
LEMMA NewEpoch ==
  ASSUME BitmapShape, NEW t \in Thread, Bitmap!top_of_the_loop(t)
  PROVE  /\ epoch' \in 1 .. EPOCH_MOD - 1
         /\ bitmap' \in [Region -> 0 .. EPOCH_MOD - 1]
         /\ stale' \subseteq Region /\ \A r \in Region \ stale' : bitmap'[r] < epoch'
<1> USE BitmapConstants
<1>1. epoch \in 1 .. EPOCH_MOD - 1 /\ bitmap \in [Region -> 0 .. EPOCH_MOD - 1] /\ MarksOld
      /\ stale \subseteq Region
  BY DEF BitmapShape, Bitmap!BitmapTypeOK
<1>2. epoch + 1 = EPOCH_MOD => (epoch + 1) % EPOCH_MOD = 0
  BY <1>1
<1>3. epoch' \in 1 .. EPOCH_MOD - 1
  <2>1. epoch' = 1 \/ (epoch' = epoch + 1 /\ (epoch + 1) % EPOCH_MOD # 0)
    BY DEF Bitmap!top_of_the_loop
  <2>2. epoch' = 1 \/ (epoch' = epoch + 1 /\ epoch + 1 # EPOCH_MOD)
    BY <1>2, <2>1
  <2> HIDE <1>2
  <2> QED BY <1>1, <2>2
<1>4. CASE bitmap' = Bitmap!NewBitmap /\ stale' = {}
  BY <1>3, <1>4 DEF Bitmap!NewBitmap
<1>5. CASE bitmap' = bitmap /\ stale' = stale /\ epoch' = epoch + 1
  BY <1>1, <1>3, <1>5 DEF MarksOld
<1> QED BY <1>3, <1>4, <1>5 DEF Bitmap!top_of_the_loop

-----------------------------------------------------------------------------
(* What the hooks save. *)

\* Unless a checkpoint was taken in the middle of it: the hook of thread t has
\* saved the regions behind it, and competes for the next one with the
\* checkpoint's contents or with a byte that has changed since; the epoch it has
\* loaded is the current one.
HookSaves(t) ==
  /\ th[t].pc # "run" => \A r \in Region : th[t].lo <= r /\ r < th[t].reg => bitmap[r] = epoch
  /\ th[t].pc \in {"test", "copy", "load", "cas"} =>
       th[t].old # epoch /\ bitmap[th[t].reg] \in {th[t].old, epoch}
  /\ th[t].pc \in {"test", "copy"} /\ ~build.sync => bitmap[th[t].reg] # epoch
  /\ th[t].pc \in {"load", "cas"} /\ bitmap[th[t].reg] # epoch => th[t].saved = ckpt[th[t].reg]
  /\ th[t].pc = "cas" => th[t].ep = epoch
  /\ th[t].pc = "put" => bitmap[th[t].reg] = epoch /\ th[t].saved = ckpt[th[t].reg]
  /\ th[t].pc = "mark" => bitmap[th[t].reg] # epoch /\ shadow[th[t].reg] = ckpt[th[t].reg]

(* A hook that goes on to the next region stays within its range. *)
LEMMA NextRegionShape ==
  ASSUME NEW t \in Thread, HookShape(t), th[t].pc # "run", build' = build,
         th[t].lo \in Int, th[t].hi \in Int, th[t].reg \in Int, th[t].reg <= th[t].hi,
         th'[t].pc = "set_bit", th'[t].lo = th[t].lo, th'[t].hi = th[t].hi,
         th'[t].reg = th[t].reg + 1
  PROVE  HookShape(t)'
<1>1. t \in build.threads /\ th[t].lo <= th[t].hi /\ th[t].lo <= th[t].reg
  BY DEF HookShape
<1>2. th[t].lo <= th[t].reg + 1 /\ th[t].reg + 1 <= th[t].hi + 1
  BY <1>1
<1> QED BY <1>1, <1>2 DEF HookShape

(* It may go on once the region is marked with the epoch. *)
LEMMA NextRegionSaves ==
  ASSUME NEW t \in Thread, HookSaves(t), th[t].pc # "run", epoch' = epoch,
         th[t].reg \in Int, bitmap'[th[t].reg] = epoch,
         \A r \in Region : r # th[t].reg => bitmap'[r] = bitmap[r],
         th'[t].pc = "set_bit", th'[t].lo = th[t].lo, th'[t].reg = th[t].reg + 1
  PROVE  HookSaves(t)'
<1>1. ASSUME NEW r \in Region, th[t].lo <= r, r < th[t].reg + 1
      PROVE  bitmap'[r] = epoch
  <2>1. r < th[t].reg \/ r = th[t].reg
    BY <1>1
  <2>2. CASE r < th[t].reg
    <3>1. bitmap[r] = epoch
      BY <1>1, <2>2 DEF HookSaves
    <3> QED BY <2>2, <3>1
  <2> QED BY <2>1, <2>2
<1> QED BY <1>1 DEF HookSaves

\* Thread t has won region r and not yet written the shadow.
Winner(t, r) == th[t].pc = "put" /\ th[t].reg = r

RegionKept(r) ==
  /\ bitmap[r] # epoch => mem[r] = ckpt[r]
  /\ bitmap[r] = epoch /\ r \notin stale => shadow[r] = ckpt[r] \/ \E t \in Thread : Winner(t, r)

BitmapSaves ==
  ~racy => /\ \A t \in Thread : HookSaves(t)
           /\ \A r \in Region : RegionKept(r)

BitmapInv == BitmapShape /\ BitmapSaves

(* The invariant implies the property: if there is a winner, its buffer holds the
   checkpoint's contents. *)
LEMMA BitmapInvKeeps == BitmapInv => Bitmap!BitmapRecoverable
<1> SUFFICES ASSUME BitmapInv, ~racy, NEW r \in Region \ stale PROVE Bitmap!Kept(r) = ckpt[r]
  BY DEF Bitmap!BitmapRecoverable
<1>1. RegionKept(r) /\ \A t \in Thread : HookSaves(t) /\ HookShape(t)
  BY DEF BitmapInv, BitmapSaves, BitmapShape
<1>2. \A t \in Thread : Bitmap!At(t, "put") /\ th[t].reg = r <=> Winner(t, r)
  BY <1>1 DEF Bitmap!At, Winner, HookShape
<1>3. CASE \E t \in Thread : Bitmap!At(t, "put") /\ th[t].reg = r
  <2> DEFINE w == CHOOSE t \in Thread : Bitmap!At(t, "put") /\ th[t].reg = r
  <2>1. w \in Thread /\ Bitmap!At(w, "put") /\ th[w].reg = r
    BY <1>3
  <2>2. th[w].saved = ckpt[r]
    BY <1>1, <2>1 DEF HookSaves, Bitmap!At
  <2> QED BY <1>1, <1>3, <2>2 DEF Bitmap!Kept, RegionKept
<1>4. CASE ~ \E t \in Thread : Bitmap!At(t, "put") /\ th[t].reg = r
  BY <1>1, <1>2, <1>4 DEF Bitmap!Kept, RegionKept
<1> QED BY <1>3, <1>4

(* At the start nothing is saved and nothing has changed. *)
LEMMA BitmapInitInv == Bitmap!Init => BitmapInv
  BY BitmapInitShape, BitmapConstants
     DEF Bitmap!Init, BitmapInv, BitmapSaves, HookSaves, RegionKept, Bitmap!NewBitmap,
         Bitmap!Idle

(* In a build without compare-and-swap only one thread is ever in a hook. *)
LEMMA AloneUnsynchronized ==
  ASSUME BitmapShape, ~build.sync, NEW t \in build.threads, NEW s \in Thread \ {t}
  PROVE  th[s].pc = "run"
  BY BitmapConstants DEF BitmapShape, HookShape, Bitmap!BitmapTypeOK

(* Every step keeps the invariant; one case per action. *)
LEMMA BitmapNextInv == BitmapInv /\ Bitmap!Next => BitmapInv'
<1> SUFFICES ASSUME BitmapInv, Bitmap!Next PROVE BitmapInv'
  OBVIOUS
<1> USE BitmapConstants
<1>0. PICK t \in build.threads :
        \/ \E lo, hi \in Region : Bitmap!Begin(t, lo, hi)
        \/ Bitmap!set_bit(t) \/ Bitmap!TestOld(t) \/ Bitmap!CopyRegion(t)
        \/ Bitmap!LoadEpoch(t) \/ Bitmap!CompareAndSwap(t)
        \/ Bitmap!PutShadow(t) \/ Bitmap!MarkSaved(t)
        \/ \E v \in Val : Bitmap!Access(t, v)
        \/ Bitmap!top_of_the_loop(t)
        \/ Bitmap!fork_prepare(t)
  BY DEF Bitmap!Next
<1>1. /\ t \in Thread /\ build.sync \in BOOLEAN
      /\ th \in [Thread -> Bitmap!HookState]
      /\ th[t].reg \in 0 .. NumRegions /\ th[t].lo \in Region /\ th[t].hi \in Region
      /\ th[t].reg \in Int /\ th[t].lo \in Int /\ th[t].hi \in Int
      /\ th[t].ep \in 0 .. EPOCH_MOD - 1 /\ stale \subseteq Region
      /\ bitmap \in [Region -> 0 .. EPOCH_MOD - 1] /\ epoch \in 1 .. EPOCH_MOD - 1
  <2>1. /\ th \in [Thread -> Bitmap!HookState] /\ stale \subseteq Region
        /\ bitmap \in [Region -> 0 .. EPOCH_MOD - 1] /\ epoch \in 1 .. EPOCH_MOD - 1
    BY DEF BitmapInv, BitmapShape, Bitmap!BitmapTypeOK
  <2>2. build \in Builds
    BY DEF BitmapInv, BitmapShape, Bitmap!BitmapTypeOK
  <2>3. t \in Thread /\ build.sync \in BOOLEAN
    BY <2>2
  <2>4. th[t] \in Bitmap!HookState
    BY <2>1, <2>3
  <2>5. /\ th[t].reg \in 0 .. NumRegions /\ th[t].lo \in Region /\ th[t].hi \in Region
        /\ th[t].ep \in 0 .. EPOCH_MOD - 1
    BY <2>4 DEF Bitmap!HookState
  <2> QED BY <2>1, <2>3, <2>5
<1>2. Bitmap!BitmapTypeOK /\ MarksOld /\ \A s \in Thread : HookShape(s)
  BY DEF BitmapInv, BitmapShape
<1>3. ASSUME ~racy PROVE \A s \in Thread : HookSaves(s)
  BY <1>3 DEF BitmapInv, BitmapSaves
<1>4. ASSUME ~racy PROVE \A r \in Region : RegionKept(r)
  BY <1>4 DEF BitmapInv, BitmapSaves
<1>5. ASSUME NEW lo \in Region, NEW hi \in Region, Bitmap!Begin(t, lo, hi)
      PROVE  BitmapInv'
  <2>0. /\ th[t].pc = "run" /\ lo <= hi
        /\ UNCHANGED <<mem, ckpt, build, bitmap, shadow, epoch, first_time, racy, stale>>
    BY <1>5 DEF Bitmap!Begin
  <2>1. /\ Moves(t, th')
        /\ th'[t].pc = "set_bit" /\ th'[t].lo = lo /\ th'[t].hi = hi /\ th'[t].reg = lo
    BY <1>1, <1>5, BeginMoves
  <2>2. Bitmap!BitmapTypeOK'
    BY <1>1, <1>2, <2>0, <2>1 DEF Bitmap!BitmapTypeOK, Moves
  <2>3. MarksOld'
    BY <1>1, <1>2, <2>0 DEF MarksOld
  <2>4. ASSUME NEW s \in Thread PROVE HookShape(s)'
    <3>0. HookShape(t)
      BY <1>1, <1>2
    <3>1. HookShape(t)'
      BY <1>1, <2>0, <2>1, <3>0 DEF HookShape
    <3>2. CASE s # t
      <4>1. th'[s] = th[s] /\ build' = build
        BY <2>0, <2>1, <3>2 DEF Moves
      <4> QED BY <1>2, <4>1 DEF HookShape
    <3> QED BY <3>1, <3>2
  <2>5. ASSUME ~racy, NEW s \in Thread PROVE HookSaves(s)'
    <3>1. HookSaves(t) /\ HookSaves(s) /\ HookShape(t) /\ HookShape(s)
      BY <1>1, <1>2, <1>3, <2>5
    <3>2. HookSaves(t)'
      BY <1>1, <2>0, <2>1, <3>1 DEF HookSaves, HookShape
    <3>3. CASE s # t
      <4>1. th'[s] = th[s]
        BY <2>1, <3>3 DEF Moves
      <4> QED BY <1>1, <2>0, <3>1, <3>3, <4>1 DEF HookSaves, HookShape
    <3> QED BY <3>2, <3>3
  <2>6. ASSUME ~racy, NEW r \in Region PROVE RegionKept(r)'
    <3>1. RegionKept(r)
      BY <1>4, <2>6
    <3> QED BY <1>1, <2>0, <2>1, <3>1 DEF RegionKept, Winner, Moves
  <2> QED BY <2>0, <2>2, <2>3, <2>4, <2>5, <2>6 DEF BitmapInv, BitmapShape, BitmapSaves
<1>6. CASE Bitmap!set_bit(t) /\ bitmap[th[t].reg] = epoch
  <2>0. /\ th[t].pc = "set_bit" /\ th[t].reg \in Region /\ th[t].reg <= th[t].hi
        /\ th' = Bitmap!NextRegion(t)
        /\ UNCHANGED <<mem, ckpt, build, bitmap, shadow, epoch, first_time, racy, stale>>
    BY <1>1, <1>6 DEF Bitmap!set_bit, Bitmap!At
  <2>1. /\ Moves(t, th')
        /\ th'[t].pc = "set_bit" /\ th'[t].lo = th[t].lo /\ th'[t].hi = th[t].hi
        /\ th'[t].reg = th[t].reg + 1
    BY <1>1, <2>0, NextRegionMoves
  <2>2. Bitmap!BitmapTypeOK'
    BY <1>1, <1>2, <2>0, <2>1 DEF Bitmap!BitmapTypeOK, Moves
  <2>3. MarksOld'
    BY <1>1, <1>2, <2>0 DEF MarksOld
  <2>4. ASSUME NEW s \in Thread PROVE HookShape(s)'
    <3>0. HookShape(t)
      BY <1>1, <1>2
    <3>1. HookShape(t)'
      BY <1>1, <2>0, <2>1, <3>0, NextRegionShape
    <3>2. CASE s # t
      <4>1. th'[s] = th[s] /\ build' = build
        BY <2>0, <2>1, <3>2 DEF Moves
      <4> QED BY <1>2, <4>1 DEF HookShape
    <3> QED BY <3>1, <3>2
  <2>5. ASSUME ~racy, NEW s \in Thread PROVE HookSaves(s)'
    <3>1. HookSaves(t) /\ HookSaves(s) /\ HookShape(t) /\ HookShape(s)
      BY <1>1, <1>2, <1>3, <2>5
    <3>2. HookSaves(t)'
      <4>1. bitmap[th[t].reg] = epoch
        BY <1>6
      <4> QED BY <1>1, <2>0, <2>1, <3>1, <4>1, NextRegionSaves
    <3>3. CASE s # t
      <4>1. th'[s] = th[s]
        BY <2>1, <3>3 DEF Moves
      <4> QED BY <1>1, <2>0, <3>1, <3>3, <4>1 DEF HookSaves, HookShape
    <3> QED BY <3>2, <3>3
  <2>6. ASSUME ~racy, NEW r \in Region PROVE RegionKept(r)'
    <3>1. RegionKept(r)
      BY <1>4, <2>6
    <3> QED BY <1>1, <2>0, <2>1, <3>1 DEF RegionKept, Winner, Moves
  <2> QED BY <2>0, <2>2, <2>3, <2>4, <2>5, <2>6 DEF BitmapInv, BitmapShape, BitmapSaves
<1>7. CASE Bitmap!set_bit(t) /\ bitmap[th[t].reg] # epoch
  <2>0. /\ th[t].pc = "set_bit" /\ th[t].reg \in Region /\ th[t].reg <= th[t].hi
        /\ th' = [th EXCEPT ![t].pc = "test", ![t].old = bitmap[th[t].reg]]
        /\ UNCHANGED <<mem, ckpt, build, bitmap, shadow, epoch, first_time, racy, stale>>
    BY <1>1, <1>7 DEF Bitmap!set_bit, Bitmap!At
  <2>1. /\ Moves(t, th')
        /\ th'[t].pc = "test" /\ th'[t].lo = th[t].lo /\ th'[t].hi = th[t].hi
        /\ th'[t].reg = th[t].reg /\ th'[t].old = bitmap[th[t].reg]
    <3>1. bitmap[th[t].reg] \in 0 .. EPOCH_MOD - 1
      BY <1>1, <2>0
    <3> QED BY <1>1, <2>0, <3>1, OldMoves
  <2>2. Bitmap!BitmapTypeOK'
    BY <1>1, <1>2, <2>0, <2>1 DEF Bitmap!BitmapTypeOK, Moves
  <2>3. MarksOld'
    BY <1>1, <1>2, <2>0 DEF MarksOld
  <2>4. ASSUME NEW s \in Thread PROVE HookShape(s)'
    <3>0. HookShape(t)
      BY <1>1, <1>2
    <3>1. HookShape(t)'
      BY <1>1, <2>0, <2>1, <3>0 DEF HookShape
    <3>2. CASE s # t
      <4>1. th'[s] = th[s] /\ build' = build
        BY <2>0, <2>1, <3>2 DEF Moves
      <4> QED BY <1>2, <4>1 DEF HookShape
    <3> QED BY <3>1, <3>2
  <2>5. ASSUME ~racy, NEW s \in Thread PROVE HookSaves(s)'
    <3>1. HookSaves(t) /\ HookSaves(s) /\ HookShape(t) /\ HookShape(s)
      BY <1>1, <1>2, <1>3, <2>5
    <3>2. HookSaves(t)'
      BY <1>1, <2>0, <2>1, <3>1, <1>7 DEF HookSaves, HookShape
    <3>3. CASE s # t
      <4>1. th'[s] = th[s]
        BY <2>1, <3>3 DEF Moves
      <4> QED BY <1>1, <2>0, <3>1, <3>3, <4>1 DEF HookSaves, HookShape
    <3> QED BY <3>2, <3>3
  <2>6. ASSUME ~racy, NEW r \in Region PROVE RegionKept(r)'
    <3>1. RegionKept(r)
      BY <1>4, <2>6
    <3> QED BY <1>1, <2>0, <2>1, <3>1 DEF RegionKept, Winner, Moves
  <2> QED BY <2>0, <2>2, <2>3, <2>4, <2>5, <2>6 DEF BitmapInv, BitmapShape, BitmapSaves
<1>8. CASE Bitmap!TestOld(t) /\ th[t].old = epoch
  <2>0. /\ th[t].pc = "test" /\ th[t].reg \in Region /\ th[t].reg <= th[t].hi
        /\ th' = Bitmap!NextRegion(t)
        /\ UNCHANGED <<mem, ckpt, build, bitmap, shadow, epoch, first_time, racy, stale>>
    BY <1>1, <1>8 DEF Bitmap!TestOld, Bitmap!At
  <2>1. /\ Moves(t, th')
        /\ th'[t].pc = "set_bit" /\ th'[t].lo = th[t].lo /\ th'[t].hi = th[t].hi
        /\ th'[t].reg = th[t].reg + 1
    BY <1>1, <2>0, NextRegionMoves
  <2>2. Bitmap!BitmapTypeOK'
    BY <1>1, <1>2, <2>0, <2>1 DEF Bitmap!BitmapTypeOK, Moves
  <2>3. MarksOld'
    BY <1>1, <1>2, <2>0 DEF MarksOld
  <2>4. ASSUME NEW s \in Thread PROVE HookShape(s)'
    <3>0. HookShape(t)
      BY <1>1, <1>2
    <3>1. HookShape(t)'
      BY <1>1, <2>0, <2>1, <3>0, NextRegionShape
    <3>2. CASE s # t
      <4>1. th'[s] = th[s] /\ build' = build
        BY <2>0, <2>1, <3>2 DEF Moves
      <4> QED BY <1>2, <4>1 DEF HookShape
    <3> QED BY <3>1, <3>2
  <2>5. ASSUME ~racy, NEW s \in Thread PROVE HookSaves(s)'
    <3>1. HookSaves(t) /\ HookSaves(s) /\ HookShape(t) /\ HookShape(s)
      BY <1>1, <1>2, <1>3, <2>5
    <3>2. HookSaves(t)'
      <4>1. bitmap[th[t].reg] = epoch
        BY <2>0, <3>1, <1>8 DEF HookSaves
      <4> QED BY <1>1, <2>0, <2>1, <3>1, <4>1, NextRegionSaves
    <3>3. CASE s # t
      <4>1. th'[s] = th[s]
        BY <2>1, <3>3 DEF Moves
      <4> QED BY <1>1, <2>0, <3>1, <3>3, <4>1 DEF HookSaves, HookShape
    <3> QED BY <3>2, <3>3
  <2>6. ASSUME ~racy, NEW r \in Region PROVE RegionKept(r)'
    <3>1. RegionKept(r)
      BY <1>4, <2>6
    <3> QED BY <1>1, <2>0, <2>1, <3>1 DEF RegionKept, Winner, Moves
  <2> QED BY <2>0, <2>2, <2>3, <2>4, <2>5, <2>6 DEF BitmapInv, BitmapShape, BitmapSaves
<1>9. CASE Bitmap!TestOld(t) /\ th[t].old # epoch
  <2>0. /\ th[t].pc = "test" /\ th[t].reg \in Region /\ th[t].reg <= th[t].hi
        /\ th' = [th EXCEPT ![t].pc = "copy"]
        /\ UNCHANGED <<mem, ckpt, build, bitmap, shadow, epoch, first_time, racy, stale>>
    BY <1>1, <1>9 DEF Bitmap!TestOld, Bitmap!At
  <2>1. /\ Moves(t, th')
        /\ th'[t].pc = "copy" /\ th'[t].lo = th[t].lo /\ th'[t].hi = th[t].hi
        /\ th'[t].reg = th[t].reg /\ th'[t].old = th[t].old
    BY <1>1, <2>0, PcMoves
  <2>2. Bitmap!BitmapTypeOK'
    BY <1>1, <1>2, <2>0, <2>1 DEF Bitmap!BitmapTypeOK, Moves
  <2>3. MarksOld'
    BY <1>1, <1>2, <2>0 DEF MarksOld
  <2>4. ASSUME NEW s \in Thread PROVE HookShape(s)'
    <3>0. HookShape(t)
      BY <1>1, <1>2
    <3>1. HookShape(t)'
      BY <1>1, <2>0, <2>1, <3>0 DEF HookShape
    <3>2. CASE s # t
      <4>1. th'[s] = th[s] /\ build' = build
        BY <2>0, <2>1, <3>2 DEF Moves
      <4> QED BY <1>2, <4>1 DEF HookShape
    <3> QED BY <3>1, <3>2
  <2>5. ASSUME ~racy, NEW s \in Thread PROVE HookSaves(s)'
    <3>1. HookSaves(t) /\ HookSaves(s) /\ HookShape(t) /\ HookShape(s)
      BY <1>1, <1>2, <1>3, <2>5
    <3>2. HookSaves(t)'
      BY <1>1, <2>0, <2>1, <3>1, <1>9 DEF HookSaves, HookShape
    <3>3. CASE s # t
      <4>1. th'[s] = th[s]
        BY <2>1, <3>3 DEF Moves
      <4> QED BY <1>1, <2>0, <3>1, <3>3, <4>1 DEF HookSaves, HookShape
    <3> QED BY <3>2, <3>3
  <2>6. ASSUME ~racy, NEW r \in Region PROVE RegionKept(r)'
    <3>1. RegionKept(r)
      BY <1>4, <2>6
    <3> QED BY <1>1, <2>0, <2>1, <3>1 DEF RegionKept, Winner, Moves
  <2> QED BY <2>0, <2>2, <2>3, <2>4, <2>5, <2>6 DEF BitmapInv, BitmapShape, BitmapSaves
<1>10. CASE Bitmap!CopyRegion(t) /\ build.sync
  <2>0. /\ th[t].pc = "copy" /\ th[t].reg \in Region /\ th[t].reg <= th[t].hi
        /\ UNCHANGED <<mem, ckpt, build, bitmap, shadow, epoch, first_time, racy, stale>>
    BY <1>1, <1>10 DEF Bitmap!CopyRegion, Bitmap!At
  <2>1. /\ Moves(t, th')
        /\ th'[t].pc = "load" /\ th'[t].lo = th[t].lo /\ th'[t].hi = th[t].hi
        /\ th'[t].reg = th[t].reg /\ th'[t].old = th[t].old
        /\ th'[t].saved = mem[th[t].reg]
    <3>1. mem[th[t].reg] \in Val
      BY <1>2, <2>0 DEF Bitmap!BitmapTypeOK
    <3>2. th' = [th EXCEPT ![t].pc = "load", ![t].saved = mem[th[t].reg]]
      BY <1>10 DEF Bitmap!CopyRegion
    <3> QED BY <1>1, <3>1, <3>2, SavedMoves
  <2>7. ASSUME ~racy PROVE bitmap[th[t].reg] # epoch => mem[th[t].reg] = ckpt[th[t].reg]
    BY <1>4, <2>0, <2>7 DEF RegionKept
  <2>2. Bitmap!BitmapTypeOK'
    BY <1>1, <1>2, <2>0, <2>1 DEF Bitmap!BitmapTypeOK, Moves
  <2>3. MarksOld'
    BY <1>1, <1>2, <2>0 DEF MarksOld
  <2>4. ASSUME NEW s \in Thread PROVE HookShape(s)'
    <3>0. HookShape(t)
      BY <1>1, <1>2
    <3>1. HookShape(t)'
      BY <1>1, <2>0, <2>1, <3>0, <1>10 DEF HookShape
    <3>2. CASE s # t
      <4>1. th'[s] = th[s] /\ build' = build
        BY <2>0, <2>1, <3>2 DEF Moves
      <4> QED BY <1>2, <4>1 DEF HookShape
    <3> QED BY <3>1, <3>2
  <2>5. ASSUME ~racy, NEW s \in Thread PROVE HookSaves(s)'
    <3>1. HookSaves(t) /\ HookSaves(s) /\ HookShape(t) /\ HookShape(s)
      BY <1>1, <1>2, <1>3, <2>5
    <3>2. HookSaves(t)'
      BY <1>1, <2>0, <2>1, <3>1, <2>5, <2>7 DEF HookSaves, HookShape
    <3>3. CASE s # t
      <4>1. th'[s] = th[s]
        BY <2>1, <3>3 DEF Moves
      <4> QED BY <1>1, <2>0, <3>1, <3>3, <4>1 DEF HookSaves, HookShape
    <3> QED BY <3>2, <3>3
  <2>6. ASSUME ~racy, NEW r \in Region PROVE RegionKept(r)'
    <3>1. RegionKept(r)
      BY <1>4, <2>6
    <3> QED BY <1>1, <2>0, <2>1, <3>1 DEF RegionKept, Winner, Moves
  <2> QED BY <2>0, <2>2, <2>3, <2>4, <2>5, <2>6 DEF BitmapInv, BitmapShape, BitmapSaves
<1>11. CASE Bitmap!LoadEpoch(t)
  <2>0. /\ th[t].pc = "load" /\ th[t].reg \in Region /\ th[t].reg <= th[t].hi
        /\ th' = [th EXCEPT ![t].pc = "cas", ![t].ep = epoch]
        /\ UNCHANGED <<mem, ckpt, build, bitmap, shadow, epoch, first_time, racy, stale>>
    BY <1>1, <1>11 DEF Bitmap!LoadEpoch, Bitmap!At
  <2>1. /\ Moves(t, th')
        /\ th'[t].pc = "cas" /\ th'[t].lo = th[t].lo /\ th'[t].hi = th[t].hi
        /\ th'[t].reg = th[t].reg /\ th'[t].old = th[t].old
        /\ th'[t].saved = th[t].saved /\ th'[t].ep = epoch
    <3>1. epoch \in 0 .. EPOCH_MOD - 1
      BY <1>1
    <3> QED BY <1>1, <2>0, <3>1, EpMoves
  <2>2. Bitmap!BitmapTypeOK'
    BY <1>1, <1>2, <2>0, <2>1 DEF Bitmap!BitmapTypeOK, Moves
  <2>3. MarksOld'
    BY <1>1, <1>2, <2>0 DEF MarksOld
  <2>4. ASSUME NEW s \in Thread PROVE HookShape(s)'
    <3>0. HookShape(t)
      BY <1>1, <1>2
    <3>1. HookShape(t)'
      BY <1>1, <2>0, <2>1, <3>0 DEF HookShape
    <3>2. CASE s # t
      <4>1. th'[s] = th[s] /\ build' = build
        BY <2>0, <2>1, <3>2 DEF Moves
      <4> QED BY <1>2, <4>1 DEF HookShape
    <3> QED BY <3>1, <3>2
  <2>5. ASSUME ~racy, NEW s \in Thread PROVE HookSaves(s)'
    <3>1. HookSaves(t) /\ HookSaves(s) /\ HookShape(t) /\ HookShape(s)
      BY <1>1, <1>2, <1>3, <2>5
    <3>2. HookSaves(t)'
      BY <1>1, <2>0, <2>1, <3>1, <1>11 DEF HookSaves, HookShape
    <3>3. CASE s # t
      <4>1. th'[s] = th[s]
        BY <2>1, <3>3 DEF Moves
      <4> QED BY <1>1, <2>0, <3>1, <3>3, <4>1 DEF HookSaves, HookShape
    <3> QED BY <3>2, <3>3
  <2>6. ASSUME ~racy, NEW r \in Region PROVE RegionKept(r)'
    <3>1. RegionKept(r)
      BY <1>4, <2>6
    <3> QED BY <1>1, <2>0, <2>1, <3>1 DEF RegionKept, Winner, Moves
  <2> QED BY <2>0, <2>2, <2>3, <2>4, <2>5, <2>6 DEF BitmapInv, BitmapShape, BitmapSaves
<1>12. CASE Bitmap!CopyRegion(t) /\ ~build.sync
  <2>0. /\ th[t].pc = "copy" /\ th[t].reg \in Region /\ th[t].reg <= th[t].hi
        /\ shadow' = [shadow EXCEPT ![th[t].reg] = mem[th[t].reg]]
        /\ th' = [th EXCEPT ![t].pc = "mark"]
        /\ UNCHANGED <<mem, ckpt, build, bitmap, epoch, first_time, racy, stale>>
    BY <1>1, <1>12 DEF Bitmap!CopyRegion, Bitmap!At
  <2>1. /\ Moves(t, th')
        /\ th'[t].pc = "mark" /\ th'[t].lo = th[t].lo /\ th'[t].hi = th[t].hi
        /\ th'[t].reg = th[t].reg
    BY <1>1, <2>0, PcMoves
  <2>7. ASSUME ~racy PROVE bitmap[th[t].reg] # epoch /\ mem[th[t].reg] = ckpt[th[t].reg]
    BY <1>1, <1>3, <1>4, <1>12, <2>0, <2>7 DEF RegionKept, HookSaves
  <2>8. shadow \in [Region -> Val]
    BY <1>2 DEF Bitmap!BitmapTypeOK
  <2>2. Bitmap!BitmapTypeOK'
    BY <1>1, <1>2, <2>0, <2>1 DEF Bitmap!BitmapTypeOK, Moves
  <2>3. MarksOld'
    BY <1>1, <1>2, <2>0 DEF MarksOld
  <2>4. ASSUME NEW s \in Thread PROVE HookShape(s)'
    <3>0. HookShape(t)
      BY <1>1, <1>2
    <3>1. HookShape(t)'
      BY <1>1, <2>0, <2>1, <3>0, <1>12 DEF HookShape
    <3>2. CASE s # t
      <4>1. th'[s] = th[s] /\ build' = build
        BY <2>0, <2>1, <3>2 DEF Moves
      <4> QED BY <1>2, <4>1 DEF HookShape
    <3> QED BY <3>1, <3>2
  <2>5. ASSUME ~racy, NEW s \in Thread PROVE HookSaves(s)'
    <3>1. HookSaves(t) /\ HookSaves(s) /\ HookShape(t) /\ HookShape(s)
      BY <1>1, <1>2, <1>3, <2>5
    <3>2. HookSaves(t)'
      BY <1>1, <2>0, <2>1, <3>1, <1>12, <2>5, <2>7, <2>8 DEF HookSaves, HookShape
    <3>3. CASE s # t
      <4>1. th'[s] = th[s] /\ th[s].pc = "run"
        BY <1>2, <1>12, <2>1, <3>3, AloneUnsynchronized DEF Moves, BitmapShape
      <4> QED BY <4>1 DEF HookSaves
    <3> QED BY <3>2, <3>3
  <2>6. ASSUME ~racy, NEW r \in Region PROVE RegionKept(r)'
    <3>1. RegionKept(r)
      BY <1>4, <2>6
    <3> QED BY <1>1, <2>0, <2>1, <3>1, <2>6, <2>7, <2>8 DEF RegionKept, Winner, Moves
  <2> QED BY <2>0, <2>2, <2>3, <2>4, <2>5, <2>6 DEF BitmapInv, BitmapShape, BitmapSaves
<1>13. CASE Bitmap!CompareAndSwap(t) /\ bitmap[th[t].reg] = th[t].old
  <2>0. /\ th[t].pc = "cas" /\ th[t].reg \in Region /\ th[t].reg <= th[t].hi
        /\ bitmap' = [bitmap EXCEPT ![th[t].reg] = th[t].ep]
        /\ stale' = IF th[t].ep = epoch THEN stale \ {th[t].reg} ELSE stale \cup {th[t].reg}
        /\ th' = [th EXCEPT ![t].pc = "put"]
        /\ UNCHANGED <<mem, ckpt, build, shadow, epoch, first_time, racy>>
    BY <1>1, <1>13 DEF Bitmap!CompareAndSwap, Bitmap!At
  <2>1. /\ Moves(t, th')
        /\ th'[t].pc = "put" /\ th'[t].lo = th[t].lo /\ th'[t].hi = th[t].hi
        /\ th'[t].reg = th[t].reg /\ th'[t].saved = th[t].saved
    BY <1>1, <2>0, PcMoves
  <2>7. build.sync /\ epoch \in 1 .. EPOCH_MOD - 1
    BY <1>1, <1>2, <2>0 DEF HookShape, Bitmap!BitmapTypeOK
  <2>8. ASSUME ~racy PROVE th[t].ep = epoch
    BY <1>1, <1>3, <2>0, <2>8 DEF HookSaves
  <2>2. Bitmap!BitmapTypeOK'
    BY <1>1, <1>2, <2>0, <2>1 DEF Bitmap!BitmapTypeOK, Moves
  <2>3. MarksOld'
    BY <1>1, <1>2, <2>0 DEF MarksOld
  <2>4. ASSUME NEW s \in Thread PROVE HookShape(s)'
    <3>0. HookShape(t)
      BY <1>1, <1>2
    <3>1. HookShape(t)'
      BY <1>1, <2>0, <2>1, <3>0 DEF HookShape
    <3>2. CASE s # t
      <4>1. th'[s] = th[s] /\ build' = build
        BY <2>0, <2>1, <3>2 DEF Moves
      <4> QED BY <1>2, <4>1 DEF HookShape
    <3> QED BY <3>1, <3>2
  <2>5. ASSUME ~racy, NEW s \in Thread PROVE HookSaves(s)'
    <3>1. HookSaves(t) /\ HookSaves(s) /\ HookShape(t) /\ HookShape(s)
      BY <1>1, <1>2, <1>3, <2>5
    <3>2. HookSaves(t)'
      BY <1>1, <2>0, <2>1, <3>1, <1>13, <2>8, <2>5 DEF HookSaves, HookShape
    <3>3. CASE s # t
      <4>1. th'[s] = th[s]
        BY <2>1, <3>3 DEF Moves
      <4> QED BY <1>1, <2>0, <3>1, <3>3, <4>1, <2>5, <2>7, <2>8 DEF HookSaves, HookShape
    <3> QED BY <3>2, <3>3
  <2>6. ASSUME ~racy, NEW r \in Region PROVE RegionKept(r)'
    <3>1. RegionKept(r)
      BY <1>4, <2>6
    <3> QED BY <1>1, <2>0, <2>1, <2>6, <2>8, <3>1 DEF RegionKept, Winner, Moves
  <2> QED BY <2>0, <2>2, <2>3, <2>4, <2>5, <2>6 DEF BitmapInv, BitmapShape, BitmapSaves
<1>14. CASE Bitmap!CompareAndSwap(t) /\ bitmap[th[t].reg] # th[t].old
  <2>0. /\ th[t].pc = "cas" /\ th[t].reg \in Region /\ th[t].reg <= th[t].hi
        /\ th' = Bitmap!NextRegion(t)
        /\ UNCHANGED <<mem, ckpt, build, bitmap, shadow, epoch, first_time, racy, stale>>
    BY <1>1, <1>14 DEF Bitmap!CompareAndSwap, Bitmap!At
  <2>1. /\ Moves(t, th')
        /\ th'[t].pc = "set_bit" /\ th'[t].lo = th[t].lo /\ th'[t].hi = th[t].hi
        /\ th'[t].reg = th[t].reg + 1
    BY <1>1, <2>0, NextRegionMoves
  <2>2. Bitmap!BitmapTypeOK'
    BY <1>1, <1>2, <2>0, <2>1 DEF Bitmap!BitmapTypeOK, Moves
  <2>3. MarksOld'
    BY <1>1, <1>2, <2>0 DEF MarksOld
  <2>4. ASSUME NEW s \in Thread PROVE HookShape(s)'
    <3>0. HookShape(t)
      BY <1>1, <1>2
    <3>1. HookShape(t)'
      BY <1>1, <2>0, <2>1, <3>0, NextRegionShape
    <3>2. CASE s # t
      <4>1. th'[s] = th[s] /\ build' = build
        BY <2>0, <2>1, <3>2 DEF Moves
      <4> QED BY <1>2, <4>1 DEF HookShape
    <3> QED BY <3>1, <3>2
  <2>5. ASSUME ~racy, NEW s \in Thread PROVE HookSaves(s)'
    <3>1. HookSaves(t) /\ HookSaves(s) /\ HookShape(t) /\ HookShape(s)
      BY <1>1, <1>2, <1>3, <2>5
    <3>2. HookSaves(t)'
      <4>1. bitmap[th[t].reg] = epoch
        BY <2>0, <3>1, <1>14 DEF HookSaves
      <4> QED BY <1>1, <2>0, <2>1, <3>1, <4>1, NextRegionSaves
    <3>3. CASE s # t
      <4>1. th'[s] = th[s]
        BY <2>1, <3>3 DEF Moves
      <4> QED BY <1>1, <2>0, <3>1, <3>3, <4>1 DEF HookSaves, HookShape
    <3> QED BY <3>2, <3>3
  <2>6. ASSUME ~racy, NEW r \in Region PROVE RegionKept(r)'
    <3>1. RegionKept(r)
      BY <1>4, <2>6
    <3> QED BY <1>1, <2>0, <2>1, <3>1 DEF RegionKept, Winner, Moves
  <2> QED BY <2>0, <2>2, <2>3, <2>4, <2>5, <2>6 DEF BitmapInv, BitmapShape, BitmapSaves
<1>15. CASE Bitmap!PutShadow(t)
  <2>0. /\ th[t].pc = "put" /\ th[t].reg \in Region /\ th[t].reg <= th[t].hi
        /\ shadow' = [shadow EXCEPT ![th[t].reg] = th[t].saved]
        /\ th' = Bitmap!NextRegion(t)
        /\ UNCHANGED <<mem, ckpt, build, bitmap, epoch, first_time, racy, stale>>
    BY <1>1, <1>15 DEF Bitmap!PutShadow, Bitmap!At
  <2>1. /\ Moves(t, th')
        /\ th'[t].pc = "set_bit" /\ th'[t].lo = th[t].lo /\ th'[t].hi = th[t].hi
        /\ th'[t].reg = th[t].reg + 1
    BY <1>1, <2>0, NextRegionMoves
  <2>7. build.sync /\ shadow \in [Region -> Val] /\ th[t].saved \in Val
    BY <1>1, <1>2, <2>0 DEF HookShape, Bitmap!BitmapTypeOK, Bitmap!HookState
  <2>8. ASSUME ~racy PROVE bitmap[th[t].reg] = epoch /\ th[t].saved = ckpt[th[t].reg]
    BY <1>1, <1>3, <2>0, <2>8 DEF HookSaves
  <2>2. Bitmap!BitmapTypeOK'
    BY <1>1, <1>2, <2>0, <2>1, <2>7 DEF Bitmap!BitmapTypeOK, Moves
  <2>3. MarksOld'
    BY <1>1, <1>2, <2>0 DEF MarksOld
  <2>4. ASSUME NEW s \in Thread PROVE HookShape(s)'
    <3>0. HookShape(t)
      BY <1>1, <1>2
    <3>1. HookShape(t)'
      BY <1>1, <2>0, <2>1, <3>0, NextRegionShape
    <3>2. CASE s # t
      <4>1. th'[s] = th[s] /\ build' = build
        BY <2>0, <2>1, <3>2 DEF Moves
      <4> QED BY <1>2, <4>1 DEF HookShape
    <3> QED BY <3>1, <3>2
  <2>5. ASSUME ~racy, NEW s \in Thread PROVE HookSaves(s)'
    <3>1. HookSaves(t) /\ HookSaves(s) /\ HookShape(t) /\ HookShape(s)
      BY <1>1, <1>2, <1>3, <2>5
    <3>2. HookSaves(t)'
      BY <1>1, <2>0, <2>1, <3>1, <2>5, <2>8, NextRegionSaves
    <3>3. CASE s # t
      <4>1. th'[s] = th[s]
        BY <2>1, <3>3 DEF Moves
      <4> QED BY <1>1, <2>0, <3>1, <3>3, <4>1, <2>7 DEF HookSaves, HookShape
    <3> QED BY <3>2, <3>3
  <2>6. ASSUME ~racy, NEW r \in Region PROVE RegionKept(r)'
    <3>1. RegionKept(r)
      BY <1>4, <2>6
    <3>2. CASE r = th[t].reg
      <4>1. shadow'[r] = ckpt[r] /\ bitmap[r] = epoch
        BY <2>0, <2>6, <2>7, <2>8, <3>2
      <4> QED BY <2>0, <4>1 DEF RegionKept
    <3>3. CASE r # th[t].reg
      <4>1. shadow'[r] = shadow[r]
        BY <2>0, <2>7, <3>3
      <4>2. \A s \in Thread : Winner(s, r) => Winner(s, r)'
        BY <2>1, <3>3 DEF Winner, Moves
      <4> QED BY <2>0, <3>1, <4>1, <4>2 DEF RegionKept
    <3> QED BY <3>2, <3>3
  <2> QED BY <2>0, <2>2, <2>3, <2>4, <2>5, <2>6 DEF BitmapInv, BitmapShape, BitmapSaves
<1>16. CASE Bitmap!MarkSaved(t)
  <2>0. /\ th[t].pc = "mark" /\ th[t].reg \in Region /\ th[t].reg <= th[t].hi
        /\ bitmap' = [bitmap EXCEPT ![th[t].reg] = epoch]
        /\ th' = Bitmap!NextRegion(t)
        /\ UNCHANGED <<mem, ckpt, build, shadow, epoch, first_time, racy, stale>>
    BY <1>1, <1>16 DEF Bitmap!MarkSaved, Bitmap!At
  <2>1. /\ Moves(t, th')
        /\ th'[t].pc = "set_bit" /\ th'[t].lo = th[t].lo /\ th'[t].hi = th[t].hi
        /\ th'[t].reg = th[t].reg + 1
    BY <1>1, <2>0, NextRegionMoves
  <2>7. ~build.sync /\ epoch \in 1 .. EPOCH_MOD - 1
    BY <1>1, <1>2, <2>0 DEF HookShape, Bitmap!BitmapTypeOK
  <2>8. ASSUME ~racy PROVE shadow[th[t].reg] = ckpt[th[t].reg]
    <3>1. HookSaves(t)
      BY <1>1, <1>3, <2>8
    <3> QED BY <2>0, <3>1 DEF HookSaves
  <2>2. Bitmap!BitmapTypeOK'
    <3>1. epoch \in 0 .. EPOCH_MOD - 1 /\ bitmap \in [Region -> 0 .. EPOCH_MOD - 1]
      BY <1>2, <2>7 DEF Bitmap!BitmapTypeOK
    <3>2. bitmap' \in [Region -> 0 .. EPOCH_MOD - 1]
      BY <2>0, <3>1
    <3> QED BY <1>2, <2>0, <2>1, <3>2 DEF Bitmap!BitmapTypeOK, Moves
  <2>3. MarksOld'
    BY <1>1, <1>2, <2>0 DEF MarksOld
  <2>4. ASSUME NEW s \in Thread PROVE HookShape(s)'
    <3>0. HookShape(t)
      BY <1>1, <1>2
    <3>1. HookShape(t)'
      BY <1>1, <2>0, <2>1, <3>0, NextRegionShape
    <3>2. CASE s # t
      <4>1. th'[s] = th[s] /\ build' = build
        BY <2>0, <2>1, <3>2 DEF Moves
      <4> QED BY <1>2, <4>1 DEF HookShape
    <3> QED BY <3>1, <3>2
  <2>5. ASSUME ~racy, NEW s \in Thread PROVE HookSaves(s)'
    <3>1. HookSaves(t) /\ HookSaves(s) /\ HookShape(t) /\ HookShape(s)
      BY <1>1, <1>2, <1>3, <2>5
    <3>2. HookSaves(t)'
      <4>1. /\ bitmap'[th[t].reg] = epoch
            /\ \A q \in Region : q # th[t].reg => bitmap'[q] = bitmap[q]
        BY <1>1, <2>0
      <4> QED BY <1>1, <2>0, <2>1, <3>1, <4>1, NextRegionSaves
    <3>3. CASE s # t
      <4>1. th'[s] = th[s] /\ th[s].pc = "run"
        BY <1>2, <2>7, <2>1, <3>3, AloneUnsynchronized DEF Moves, BitmapShape
      <4> QED BY <4>1 DEF HookSaves
    <3> QED BY <3>2, <3>3
  <2>6. ASSUME ~racy, NEW r \in Region PROVE RegionKept(r)'
    <3>1. RegionKept(r)
      BY <1>4, <2>6
    <3> QED BY <1>1, <2>0, <2>1, <3>1, <2>6, <2>8 DEF RegionKept, Winner, Moves
  <2> QED BY <2>0, <2>2, <2>3, <2>4, <2>5, <2>6 DEF BitmapInv, BitmapShape, BitmapSaves
<1>17. ASSUME NEW v \in Val, Bitmap!Access(t, v) PROVE BitmapInv'
  <2>0. /\ th[t].pc = "set_bit" /\ th[t].reg > th[t].hi
        /\ mem' = [r \in Region |-> IF r \in th[t].lo .. th[t].hi THEN v ELSE mem[r]]
        /\ UNCHANGED <<ckpt, build, bitmap, shadow, epoch, first_time, racy, stale>>
    BY <1>17 DEF Bitmap!Access
  <2>1. Moves(t, th') /\ th'[t].pc = "run"
    <3>1. th' = [th EXCEPT ![t] = Bitmap!Idle] /\ Bitmap!Idle.pc = "run"
      BY <1>17 DEF Bitmap!Access, Bitmap!Idle
    <3> QED BY <1>1, <3>1, IdleType DEF Moves
  <2>7. ASSUME ~racy, NEW r \in th[t].lo .. th[t].hi PROVE r \in Region /\ bitmap[r] = epoch
    <3>1. HookSaves(t)
      BY <1>1, <1>3, <2>7
    <3>2. r \in Region /\ th[t].lo <= r /\ r < th[t].reg
      BY <1>1, <2>0
    <3> QED BY <2>0, <3>1, <3>2 DEF HookSaves
  <2>2. Bitmap!BitmapTypeOK'
    BY <1>1, <1>2, <2>0, <2>1 DEF Bitmap!BitmapTypeOK, Moves
  <2>3. MarksOld'
    BY <1>1, <1>2, <2>0 DEF MarksOld
  <2>4. ASSUME NEW s \in Thread PROVE HookShape(s)'
    <3>0. HookShape(t)
      BY <1>1, <1>2
    <3>1. HookShape(t)'
      BY <1>1, <2>0, <2>1, <3>0 DEF HookShape
    <3>2. CASE s # t
      <4>1. th'[s] = th[s] /\ build' = build
        BY <2>0, <2>1, <3>2 DEF Moves
      <4> QED BY <1>2, <4>1 DEF HookShape
    <3> QED BY <3>1, <3>2
  <2>5. ASSUME ~racy, NEW s \in Thread PROVE HookSaves(s)'
    <3>1. HookSaves(t) /\ HookSaves(s) /\ HookShape(t) /\ HookShape(s)
      BY <1>1, <1>2, <1>3, <2>5
    <3>2. HookSaves(t)'
      BY <1>1, <2>0, <2>1, <3>1 DEF HookSaves, HookShape
    <3>3. CASE s # t
      <4>1. th'[s] = th[s]
        BY <2>1, <3>3 DEF Moves
      <4> QED BY <1>1, <2>0, <3>1, <3>3, <4>1 DEF HookSaves, HookShape
    <3> QED BY <3>2, <3>3
  <2>6. ASSUME ~racy, NEW r \in Region PROVE RegionKept(r)'
    <3>1. RegionKept(r)
      BY <1>4, <2>6
    <3> QED BY <1>1, <2>0, <2>1, <3>1, <2>6, <2>7 DEF RegionKept, Winner, Moves
  <2> QED BY <2>0, <2>2, <2>3, <2>4, <2>5, <2>6 DEF BitmapInv, BitmapShape, BitmapSaves
<1>18. ASSUME th[t].pc = "run", racy' = Bitmap!SomeoneInHook(t), UNCHANGED <<mem, build, th>>,
             ckpt' = mem, Bitmap!BitmapTypeOK',
             \A r \in Region \ stale' : bitmap'[r] < epoch'
      PROVE  BitmapInv'
  <2>1. MarksOld'
    BY <1>18 DEF MarksOld, Bitmap!BitmapTypeOK
  <2>2. ASSUME NEW s \in Thread PROVE HookShape(s)'
    BY <1>2, <1>18 DEF HookShape
  <2>3. ASSUME ~racy', NEW s \in Thread PROVE HookSaves(s)'
    <3>1. th'[s].pc = "run"
      BY <1>18, <2>3 DEF Bitmap!SomeoneInHook
    <3> QED BY <3>1 DEF HookSaves
  <2>4. ASSUME NEW r \in Region PROVE RegionKept(r)'
    <3>1. /\ mem'[r] = ckpt'[r]
          /\ r \notin stale' => bitmap'[r] # epoch'
      BY <1>18 DEF Bitmap!BitmapTypeOK
    <3> QED BY <3>1 DEF RegionKept
  <2> QED BY <1>18, <2>1, <2>2, <2>3, <2>4 DEF BitmapInv, BitmapShape, BitmapSaves
<1>19. CASE Bitmap!top_of_the_loop(t)
  <2>1. /\ epoch' \in 1 .. EPOCH_MOD - 1 /\ bitmap' \in [Region -> 0 .. EPOCH_MOD - 1]
        /\ stale' \subseteq Region /\ \A r \in Region \ stale' : bitmap'[r] < epoch'
    BY <1>1, <1>19, NewEpoch DEF BitmapInv
  <2>2. Bitmap!SomeoneInHook(t) \in BOOLEAN
    BY DEF Bitmap!SomeoneInHook
  <2>3. Bitmap!BitmapTypeOK'
    BY <1>2, <1>19, <2>1, <2>2
       DEF Bitmap!BitmapTypeOK, Bitmap!top_of_the_loop, Bitmap!NewShadow
  <2> QED BY <1>18, <1>19, <2>1, <2>3 DEF Bitmap!top_of_the_loop
<1>20. CASE Bitmap!fork_prepare(t)
  <2>1. \A r \in Region \ stale' : bitmap'[r] < epoch'
    BY <1>1, <1>20 DEF Bitmap!fork_prepare, Bitmap!NewBitmap
  <2>2. Bitmap!SomeoneInHook(t) \in BOOLEAN
    BY DEF Bitmap!SomeoneInHook
  <2>3. Bitmap!BitmapTypeOK'
    BY <1>2, <1>20, <2>2
       DEF Bitmap!BitmapTypeOK, Bitmap!fork_prepare, Bitmap!NewBitmap, Bitmap!NewShadow
  <2> QED BY <1>18, <1>20, <2>1, <2>3 DEF Bitmap!fork_prepare
<1> QED
  BY <1>0, <1>1, <1>5, <1>6, <1>7, <1>8, <1>9, <1>10, <1>11, <1>12, <1>13, <1>14, <1>15,
     <1>16, <1>17, <1>19, <1>20

-----------------------------------------------------------------------------
(* The program that is linked with the bitmap. *)

LinkedBitmapInv == method = "bitmap" => BitmapInv

(* The steps of the other methods are not steps of a program with the bitmap. *)
LEMMA LinkedBitmap ==
  /\ Init => LinkedBitmapInv
  /\ LinkedBitmapInv /\ [Next]_vars => LinkedBitmapInv'
<1>1. Init => LinkedBitmapInv
  BY BitmapInitInv DEF Init, LinkedBitmapInv
<1>2. ASSUME LinkedBitmapInv, Next PROVE LinkedBitmapInv'
  <2>1. CASE method = "bitmap" /\ Bitmap!Next /\ UNCHANGED method
    BY <1>2, <2>1, BitmapNextInv DEF LinkedBitmapInv
  <2>2. CASE method # "bitmap" /\ UNCHANGED method
    BY <2>2 DEF LinkedBitmapInv
  <2> QED BY <1>2, <2>1, <2>2 DEF Next
<1>3. ASSUME LinkedBitmapInv, UNCHANGED vars PROVE LinkedBitmapInv'
  BY <1>3
     DEF vars, bitmapVars, LinkedBitmapInv, BitmapInv, BitmapShape, Bitmap!BitmapTypeOK,
         MarksOld, HookShape, BitmapSaves, HookSaves, RegionKept, Winner
<1> QED BY <1>1, <1>2, <1>3

(* However the hooks of any number of threads interleave, in either build, and
   however often the epoch wraps: of every region the contents at the last checkpoint
   are in memory, in the buffer of the thread that won the region, or in the shadow,
   unless that checkpoint was taken while another thread was in its hook, or such a
   thread marked the region with an epoch it had loaded before
   (_ltckpt_save_sized_region, the top-of-the-loop hook, ltckpt_bitmap_fork_prepare). *)
THEOREM BitmapKeepsCheckpoint == Spec => []BitmapRecoverable
<1>1. LinkedBitmapInv => BitmapRecoverable
  BY BitmapInvKeeps DEF LinkedBitmapInv, BitmapRecoverable
<1> QED BY <1>1, LinkedBitmap, PTL DEF Spec

=============================================================================
