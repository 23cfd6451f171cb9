-------------------------------- MODULE Bitmap --------------------------------
(***************************************************************************)
(* The bitmap mechanism, mechanisms/bitmap/ltckpt_bitmap.c, in its default *)
(* build on Linux: BITMAP_PLAIN_EPOCH and the sync scheme.                 *)
(*                                                                         *)
(* The bitmap has a byte for each region: the epoch in which the region    *)
(* was last saved.  A store or memcpy hook saves a region to the shadow    *)
(* space when its byte is not the current epoch; the top-of-the-loop hook  *)
(* starts a new epoch, so that no region counts as saved.  With            *)
(* LTCKPT_BITMAP_SYNCHRONIZE the threads compete for a region with         *)
(* compare-and-swap, and the winner writes the shadow after it; without,   *)
(* the program must have one thread.  The epoch a thread swaps in is       *)
(* loaded before the atomic operation: it may be an old one by then.       *)
(*                                                                         *)
(* No restart hook exists for Linux: the property is that the checkpoint   *)
(* could be put together from what the mechanism keeps.                    *)
(***************************************************************************)
EXTENDS Mechanism

VARIABLES
  mem,      \* application memory
  ckpt,     \* history: memory at the last checkpoint (or fork)
  build,    \* LTCKPT_BITMAP_SYNCHRONIZE, and the program's threads
  bitmap,   \* the byte of each region
  shadow,   \* the shadow space
  epoch,    \* ltckpt_epoch
  first_time,
  th,       \* where each thread is in a hook
  racy,     \* history: some thread was in a hook, or between hook and store,
            \* when the last checkpoint was taken
  stale     \* history: regions last marked with an epoch that had passed

vars == <<mem, ckpt, build, bitmap, shadow, epoch, first_time, th, racy, stale>>

\* reg runs over the regions lo .. hi of the access under way; old and
\* saved are the local variables of _ltckpt_save_sized_region, ep the operand
\* of its compare-and-swap.
HookState == [pc : {"run", "set_bit", "test", "copy", "load", "cas", "put", "mark"},
              lo : Region, hi : Region, reg : 0 .. NumRegions,
              old : 0 .. EPOCH_MOD - 1, saved : Val, ep : 0 .. EPOCH_MOD - 1]

Idle == [pc |-> "run", lo |-> 0, hi |-> 0, reg |-> 0, old |-> 0, saved |-> Zero, ep |-> 0]

NewBitmap == [r \in Region |-> 0]
NewShadow == [r \in Region |-> Zero]

BitmapTypeOK ==
  /\ mem \in [Region -> Val] /\ ckpt \in [Region -> Val]
  /\ build \in Builds
  /\ bitmap \in [Region -> 0 .. EPOCH_MOD - 1]
  /\ shadow \in [Region -> Val]
  /\ epoch \in 1 .. EPOCH_MOD - 1
  /\ first_time \in BOOLEAN /\ racy \in BOOLEAN
  /\ th \in [Thread -> HookState]
  /\ stale \subseteq Region

\* ltckpt_bitmap_late_init_hook has mapped bitmap and shadow space.
Init ==
  /\ mem \in [Region -> Val] /\ ckpt = mem
  /\ build \in Builds
  /\ bitmap = NewBitmap /\ shadow = NewShadow
  /\ epoch = 1
  /\ first_time = TRUE
  /\ th = [t \in Thread |-> Idle]
  /\ racy = FALSE /\ stale = {}

\* A store within a region, or a memory intrinsic over lo .. hi.
Begin(t, lo, hi) ==
  /\ th[t].pc = "run"
  /\ lo <= hi
  /\ th' = [th EXCEPT ![t] = [Idle EXCEPT !.pc = "set_bit", !.lo = lo, !.hi = hi, !.reg = lo]]
  /\ UNCHANGED <<mem, ckpt, build, bitmap, shadow, epoch, first_time, racy, stale>>

\* The next region, and the local variables of the save function are gone.
NextRegion(t) ==
  [th EXCEPT ![t] = [Idle EXCEPT !.pc = "set_bit", !.lo = th[t].lo, !.hi = th[t].hi,
                                 !.reg = th[t].reg + 1]]

At(t, pc) == th[t].pc = pc /\ th[t].reg <= th[t].hi

\* The test of ltckpt_set_bit; the save function then reads the byte for itself.
set_bit(t) ==
  /\ At(t, "set_bit")
  /\ th' = IF bitmap[th[t].reg] = epoch THEN NextRegion(t)
           ELSE [th EXCEPT ![t].pc = "test", ![t].old = bitmap[th[t].reg]]
  /\ UNCHANGED <<mem, ckpt, build, bitmap, shadow, epoch, first_time, racy, stale>>

\* if (old != ltckpt_epoch), at the head of the save function.
TestOld(t) ==
  /\ At(t, "test")
  /\ th' = IF th[t].old = epoch THEN NextRegion(t) ELSE [th EXCEPT ![t].pc = "copy"]
  /\ UNCHANGED <<mem, ckpt, build, bitmap, shadow, epoch, first_time, racy, stale>>

\* The first memcpy: to saved_bytes in the synchronized build, straight to the
\* shadow in the other.
CopyRegion(t) ==
  /\ At(t, "copy")
  /\ IF build.sync
       THEN /\ th' = [th EXCEPT ![t].pc = "load", ![t].saved = mem[th[t].reg]]
            /\ UNCHANGED shadow
       ELSE /\ shadow' = [shadow EXCEPT ![th[t].reg] = mem[th[t].reg]]
            /\ th' = [th EXCEPT ![t].pc = "mark"]
  /\ UNCHANGED <<mem, ckpt, build, bitmap, epoch, first_time, racy, stale>>

\* The load of ltckpt_epoch for the compare-and-swap.
LoadEpoch(t) ==
  /\ At(t, "load")
  /\ th' = [th EXCEPT ![t].pc = "cas", ![t].ep = epoch]
  /\ UNCHANGED <<mem, ckpt, build, bitmap, shadow, epoch, first_time, racy, stale>>

\* Mutated CompareAndSwap: a plain store of the epoch.
AlwaysSwap(t) ==
  /\ At(t, "cas")
  /\ bitmap' = [bitmap EXCEPT ![th[t].reg] = th[t].ep]
  /\ th' = [th EXCEPT ![t].pc = "put"]
  /\ stale' = IF th[t].ep = epoch THEN stale \ {th[t].reg} ELSE stale \cup {th[t].reg}
  /\ UNCHANGED <<mem, ckpt, build, shadow, epoch, first_time, racy>>

\* __sync_bool_compare_and_swap(p, old, ltckpt_epoch): whoever loses leaves the
\* region to the winner and goes on.
CompareAndSwap(t) ==
  /\ At(t, "cas")
  /\ LET r == th[t].reg IN
       IF bitmap[r] = th[t].old
         THEN /\ bitmap' = [bitmap EXCEPT ![r] = th[t].ep]
              /\ stale' = IF th[t].ep = epoch THEN stale \ {r} ELSE stale \cup {r}
              /\ th' = [th EXCEPT ![t].pc = "put"]
         ELSE /\ th' = NextRegion(t)
              /\ UNCHANGED <<bitmap, stale>>
  /\ UNCHANGED <<mem, ckpt, build, shadow, epoch, first_time, racy>>

\* memcpy(dst, saved_bytes), by the winner.
PutShadow(t) ==
  /\ At(t, "put")
  /\ shadow' = [shadow EXCEPT ![th[t].reg] = th[t].saved]
  /\ th' = NextRegion(t)
  /\ UNCHANGED <<mem, ckpt, build, bitmap, epoch, first_time, racy, stale>>

\* *p = ltckpt_epoch, in the unsynchronized build: with one thread, no epoch
\* passes between the load and the store.
MarkSaved(t) ==
  /\ At(t, "mark")
  /\ bitmap' = [bitmap EXCEPT ![th[t].reg] = epoch]
  /\ th' = NextRegion(t)
  /\ UNCHANGED <<mem, ckpt, build, shadow, epoch, first_time, racy, stale>>

\* The hook has returned: the access itself.
Access(t, v) ==
  /\ th[t].pc = "set_bit"
  /\ th[t].reg > th[t].hi
  /\ mem' = [r \in Region |-> IF r \in th[t].lo .. th[t].hi THEN v ELSE mem[r]]
  /\ th' = [th EXCEPT ![t] = Idle]
  /\ UNCHANGED <<ckpt, build, bitmap, shadow, epoch, first_time, racy, stale>>

SomeoneInHook(t) == \E s \in Thread \ {t} : th[s].pc # "run"

\* Mutated top_of_the_loop: the epoch wraps to 0.
top_of_the_loopToZero(t) ==
  /\ th[t].pc = "run"
  /\ epoch' = (epoch + 1) % EPOCH_MOD
  /\ bitmap' = IF epoch' = 0 \/ first_time THEN NewBitmap ELSE bitmap
  /\ shadow' = IF first_time THEN NewShadow ELSE shadow
  /\ first_time' = FALSE
  /\ ckpt' = mem
  /\ racy' = SomeoneInHook(t)
  /\ stale' = IF epoch' = 0 \/ first_time THEN {} ELSE stale
  /\ UNCHANGED <<mem, build, th>>

\* The top-of-the-loop hook, when a checkpoint is due: fresh memory the first
\* time, a new epoch, and a fresh bitmap when the 8-bit epoch wraps.
top_of_the_loop(t) ==
  /\ th[t].pc = "run"
  /\ LET wraps == (epoch + 1) % EPOCH_MOD = 0 IN
       /\ epoch' = IF wraps THEN 1 ELSE epoch + 1
       /\ bitmap' = IF wraps \/ first_time THEN NewBitmap ELSE bitmap
       /\ stale' = IF wraps \/ first_time THEN {} ELSE stale
  /\ shadow' = IF first_time THEN NewShadow ELSE shadow
  /\ first_time' = FALSE
  /\ ckpt' = mem
  /\ racy' = SomeoneInHook(t)
  /\ UNCHANGED <<mem, build, th>>

\* The application forks: ltckpt_bitmap_fork_prepare drops bitmap and shadow,
\* so that from here on the regions are saved as they are now.
fork_prepare(t) ==
  /\ th[t].pc = "run"
  /\ bitmap' = NewBitmap /\ shadow' = NewShadow
  /\ stale' = {}
  /\ ckpt' = mem
  /\ racy' = SomeoneInHook(t)
  /\ UNCHANGED <<mem, build, epoch, first_time, th>>

Next ==
  \E t \in build.threads :
    \/ \E lo, hi \in Region : Begin(t, lo, hi)
    \/ set_bit(t) \/ TestOld(t) \/ CopyRegion(t)
    \/ LoadEpoch(t) \/ CompareAndSwap(t) \/ PutShadow(t)
    \/ MarkSaved(t)
    \/ \E v \in Val : Access(t, v)
    \/ top_of_the_loop(t)
    \/ fork_prepare(t)

Spec == Init /\ [][Next]_vars

-----------------------------------------------------------------------------
\* Where the checkpoint's contents of region r are kept: still in memory, in
\* the buffer of the thread that won the region, or in the shadow space.
Kept(r) ==
  IF bitmap[r] # epoch THEN mem[r]
  ELSE IF \E t \in Thread : At(t, "put") /\ th[t].reg = r
         THEN th[CHOOSE t \in Thread : At(t, "put") /\ th[t].reg = r].saved
         ELSE shadow[r]

(* Of every region the contents at the checkpoint are kept somewhere, whichever
   thread saved it, in whichever epoch it was last saved, however the threads'
   hooks interleave and however often the 8-bit epoch wraps (_ltckpt_save_sized_region,
   the top-of-the-loop hook).  Not so when a checkpoint is taken while another
   thread has passed its hook and not yet stored: nothing makes it wait.  Nor, at
   later checkpoints, for a region such a thread has marked with the epoch it had
   loaded before: when the counter comes to that value, the region counts as saved. *)
BitmapRecoverable == ~racy => \A r \in Region \ stale : Kept(r) = ckpt[r]

=============================================================================
