----------------------------- MODULE MCMechanisms -----------------------------
(* A program built with any one of the checkpointing mechanisms; its hooks are
   the ones of the method chosen when it was linked (LTCKPT_CHECKPOINT_METHOD). *)
EXTENDS Mechanism

VARIABLES
  method,
  mem, ckpt, initialized,
  build, bitmap, shadow, epoch, first_time, th, racy, stale,
  writable, pages, call, todo, mpc, efault,
  dirty, num_mem_pages, marks, pos, limit, spc, image, gap,
  state, data, taken, pid, clones, parent, heirs

bitmapVars    == <<build, bitmap, shadow, epoch, first_time, th, racy, stale>>
mprotectVars  == <<writable, pages, call, todo, mpc, efault>>
softdirtyVars == <<dirty, num_mem_pages, marks, pos, limit, spc, gap>>
forkVars      == <<state, data, taken, pid, clones, parent, heirs>>
vars == <<method, mem, ckpt, initialized, image, bitmapVars, mprotectVars, softdirtyVars, forkVars>>

Bitmap    == INSTANCE Bitmap
Mprotect  == INSTANCE Mprotect
SoftDirty == INSTANCE SoftDirty
Fork      == INSTANCE ForkCheckpoint

\* The variables of the methods that are not linked.
NoMemory    == mem = "unused" /\ ckpt = "unused"
NoBitmap    == /\ build = "unused" /\ bitmap = "unused" /\ shadow = "unused" /\ epoch = "unused"
               /\ first_time = "unused" /\ th = "unused" /\ racy = "unused" /\ stale = "unused"
NoMprotect  == /\ writable = "unused" /\ pages = "unused" /\ call = "unused"
               /\ todo = "unused" /\ mpc = "unused" /\ efault = "unused"
NoSoftDirty == /\ dirty = "unused" /\ num_mem_pages = "unused" /\ marks = "unused"
               /\ pos = "unused" /\ limit = "unused" /\ spc = "unused" /\ gap = "unused"
NoFork      == /\ state = "unused" /\ data = "unused" /\ taken = "unused" /\ pid = "unused"
               /\ clones = "unused" /\ parent = "unused" /\ heirs = "unused"

Init ==
  \/ /\ method = "bitmap" /\ Bitmap!Init
     /\ initialized = "unused" /\ image = "unused" /\ NoMprotect /\ NoSoftDirty /\ NoFork
  \/ /\ method = "mprotect" /\ Mprotect!Init
     /\ image = "unused" /\ NoBitmap /\ NoSoftDirty /\ NoFork
  \/ /\ method = "softdirty" /\ SoftDirty!Init
     /\ ckpt = "unused" /\ NoBitmap /\ NoMprotect /\ NoFork
  \/ /\ method = "fork" /\ Fork!Init
     /\ initialized = "unused" /\ NoMemory /\ NoBitmap /\ NoMprotect /\ NoSoftDirty

Next ==
  \/ /\ method = "bitmap" /\ Bitmap!Next
     /\ UNCHANGED <<method, initialized, image, mprotectVars, softdirtyVars, forkVars>>
  \/ /\ method = "mprotect" /\ Mprotect!Next
     /\ UNCHANGED <<method, image, bitmapVars, softdirtyVars, forkVars>>
  \/ /\ method = "softdirty" /\ SoftDirty!Next
     /\ UNCHANGED <<method, ckpt, bitmapVars, mprotectVars, forkVars>>
  \/ /\ method = "fork" /\ Fork!Next
     /\ UNCHANGED <<method, mem, ckpt, initialized, bitmapVars, mprotectVars, softdirtyVars>>

Spec == Init /\ [][Next]_vars

\* Two threads compete for regions in the synchronized build.
MCBuilds == {[sync |-> TRUE, threads |-> Thread], [sync |-> FALSE, threads |-> {1}]}

\* Buffers the kernel fills and the wrapper checks in full.
CallOf(checks) ==
  [checks |-> checks, fills |-> {[addr |-> k.addr, size |-> k.size] : k \in checks}]

\* read into a buffer that starts in the middle of a page and ends in the next, and
\* over whole pages; stat into a structure within a page; epoll_wait or poll with
\* an array over two pages; recvmsg, whose wrapper checks the data and the
\* header (page 1) but not msg_name (page 2).
MCCalls ==
  {CallOf({[wrapper |-> "buff", addr |-> 1, size |-> 2]}),
   CallOf({[wrapper |-> "buff", addr |-> 0, size |-> 6]}),
   CallOf({[wrapper |-> "write", addr |-> 2, size |-> 2]}),
   CallOf({[wrapper |-> "write", addr |-> 3, size |-> 2]}),
   [checks |-> {[wrapper |-> "buff", addr |-> 0, size |-> 2], [wrapper |-> "write", addr |-> 2, size |-> 1]},
    fills |-> {[addr |-> 0, size |-> 2], [addr |-> 2, size |-> 1], [addr |-> 4, size |-> 1]}]}

-----------------------------------------------------------------------------
(* The state of the linked mechanism has its type; in particular the epoch is never 0,
   the mark of a region that was not saved yet, and no table exceeds its size. *)
MechanismTypeOK ==
  /\ method = "bitmap"    => Bitmap!BitmapTypeOK
  /\ method = "mprotect"  => Mprotect!MprotectTypeOK
  /\ method = "softdirty" => SoftDirty!SoftDirtyTypeOK
  /\ method = "fork"      => Fork!ForkTypeOK

(* The bitmap keeps each region's contents at the checkpoint, however the hooks of several
   threads (_ltckpt_save_sized_region) interleave and the top-of-the-loop hook's epoch
   wraps; but for a checkpoint taken while another thread is past its hook, and for regions
   marked with an epoch that was loaded before such a checkpoint. *)
BitmapRecoverable == method = "bitmap" => Bitmap!BitmapRecoverable

(* The first copy of a page that ltckpt_page_list_add made since the checkpoint is the
   checkpoint's, although printing protects pages of the list a second time. *)
MprotectRecoverable == method = "mprotect" => Mprotect!MprotectRecoverable

(* LTCKPT_CHECK_WRITE and LTCKPT_CHECK_BUFF keep the kernel from returning EFAULT for
   every buffer that the wrapper checks over its whole length. *)
EfaultOnlyUnchecked == method = "mprotect" => Mprotect!EfaultOnlyUnchecked

(* The saved increments lose only what another thread stores to a page between the
   read of its mark (util_pagemap_get) and util_pagemap_clear_refs. *)
SoftDirtyComplete == method = "softdirty" => SoftDirty!SoftDirtyComplete

(* A clone whose id no forked process inherited is alive, a child of its process, and
   holds the memory of that process's last top-of-the-loop hook (ltckpt_fork.c). *)
ForkRecoverable == method = "fork" => Fork!ForkRecoverable

(* The hook before exit and the one at the top of the loop leave no clone behind in
   pause(); only a crash does. *)
ForkNoOrphans == method = "fork" => Fork!ForkNoOrphans

=============================================================================
