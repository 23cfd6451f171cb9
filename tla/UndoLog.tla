------------------------------- MODULE UndoLog -------------------------------
(***************************************************************************)
(* The undo log ("writelog") checkpointing mechanism:                      *)
(* llvm/static/ltckpt/mechanisms/ltckpt_writelog.c, on Linux.              *)
(*                                                                         *)
(* A hook inserted before each store or memcpy copies the 8-byte regions   *)
(* that are about to change to the end of a log; the top-of-the-loop hook  *)
(* empties the log, which makes the current memory the checkpoint; the     *)
(* restart hook walks the log backwards and copies the regions back.       *)
(* A hook and the access it precedes are separate steps, and so is each    *)
(* iteration of the memcpy hook and of the restart loop: a SIGSEGV may     *)
(* arrive between any two of the former (the access itself, or the hook's  *)
(* read of the region, can be what faults, the access also half way).      *)
(***************************************************************************)
EXTENDS Integers, Sequences

CONSTANTS
  NumBytes,            \* bytes of application memory, addresses 0..NumBytes-1
  Val,                 \* values of a byte
  Images,              \* memory images the program starts from and copies from
  GRANULARITY,         \* WRITELOG_GRANULARITY, 8
  MEMCPY_ALIGN,        \* the memcpy hook aligns with ~0x3, so 4
  MAXLEN,              \* entries the log holds before the first page that faults
  Accesses,            \* what the program writes: [hook, addr, size]
  LogRegions,          \* regions of the log itself, [wl_data, wl_data + WRITELOG_BYTES)
  ControlRegions,      \* regions where application data lies beside wl_data or wl_position
  StackRegions,        \* regions above datamax
  LIBCALL_INTERVALS,   \* built with LTCKPT_LIBCALL_INTERVALS
  checkpoint_interval  \* CP_INTERVAL, 1 by default, 0 disables checkpoints

Addr == 0 .. NumBytes - 1

\* ltckpt_write_wl: LTCKPT_PTR_TO_VA(addr) & ~(WRITELOG_GRANULARITY-1)
RegionOf(a) == a \div GRANULARITY

Region == {RegionOf(a) : a \in Addr}

Cells(r) == {a \in Addr : RegionOf(a) = r}

Bytes(acc) == acc.addr .. (acc.addr + acc.size - 1)

AccessType == [hook : {"store", "memcpy"}, addr : Addr, size : Nat \ {0}]

ASSUME ConstantsAssumption ==
  /\ NumBytes \in Nat \ {0}
  /\ GRANULARITY \in Nat \ {0}
  /\ MEMCPY_ALIGN \in Nat \ {0}
  /\ MAXLEN \in Nat
  /\ checkpoint_interval \in Nat
  /\ LIBCALL_INTERVALS \in BOOLEAN
  /\ Images \subseteq [Addr -> Val]
  /\ Accesses \subseteq AccessType
  /\ \A acc \in Accesses : Bytes(acc) \subseteq Addr

\* Mutated HookRegions: the memcpy hook's loop stops one region early.
HookRegionsShort(acc) ==
  IF acc.hook = "store"
    THEN <<RegionOf(acc.addr)>>
    ELSE [k \in 1 .. acc.size \div GRANULARITY |-> RegionOf(acc.addr + GRANULARITY * (k - 1))]

\* The regions a hook logs, in order.  The store hook gets only the address,
\* so it logs one region.  The memcpy hook starts from the address rounded
\* down to MEMCPY_ALIGN and advances by one region while below addr + size.
HookRegions(acc) ==
  IF acc.hook = "store"
    THEN <<RegionOf(acc.addr)>>
    ELSE LET reg == acc.addr - (acc.addr % MEMCPY_ALIGN)
             n   == (acc.addr + acc.size - reg + GRANULARITY - 1) \div GRANULARITY
         IN  [k \in 1 .. n |-> RegionOf(reg + GRANULARITY * (k - 1))]

\* What the hooks need for the log to be complete: every byte an access
\* changes lies in a region its hook logs.
Covered(acc) ==
  \A a \in Bytes(acc) :
     \E i \in DOMAIN HookRegions(acc) : HookRegions(acc)[i] = RegionOf(a)

\* Entries the restart hook copies back: ltckpt_can_restore, and the stack
\* entries only when built with LTCKPT_LIBCALL_INTERVALS.  can_restore spares
\* more than ltckpt_write_wl refuses to log: the restart loop must not write
\* over the two variables it walks the log with, which share a region with
\* application data where a word is shorter than a region.
can_restore(r) == r \notin LogRegions \cup ControlRegions

Restored(r) == can_restore(r) /\ (LIBCALL_INTERVALS \/ r \notin StackRegions)

-----------------------------------------------------------------------------
VARIABLES
  mem,          \* application memory
  wl,           \* the log, wl_data[0 .. wl_position), a sequence of entries
  num_tols,     \* top-of-the-loop calls, modulo checkpoint_interval
  pc,           \* "run", "hook", "restart", "panic"
  acc,          \* the access under way
  idx,          \* next region its hook logs
  ckpt          \* history: memory when the log was last emptied

vars == <<mem, wl, num_tols, pc, acc, idx, ckpt>>

\* An entry: a region and a copy of its bytes.
EntryOf(r, m) == [addr |-> r, data |-> [a \in Cells(r) |-> m[a]]]

Entry == UNION {[addr : {r}, data : [Cells(r) -> Val]] : r \in Region}

TypeOK ==
  /\ mem \in [Addr -> Val]
  /\ wl \in Seq(Entry)
  /\ Len(wl) <= MAXLEN
  /\ num_tols \in Nat
  /\ pc \in {"run", "hook", "restart", "panic"}
  /\ acc \in Accesses
  /\ idx \in Nat \ {0}
  /\ ckpt \in [Addr -> Val]

Init ==
  /\ mem \in Images
  /\ wl = <<>>
  /\ num_tols = 0
  /\ pc = "run"
  /\ acc \in Accesses
  /\ idx = 1
  /\ ckpt = mem

\* The instrumented program reaches a store or a memory intrinsic.
Begin(a) ==
  /\ pc = "run"
  /\ acc' = a
  /\ idx' = 1
  /\ pc' = "hook"
  /\ UNCHANGED <<mem, wl, num_tols, ckpt>>

\* Mutated write_wl: a log one entry longer than its memory; no panic on
\* addresses of the log.
write_wlOverrun ==
  /\ pc = "hook"
  /\ idx <= Len(HookRegions(acc))
  /\ Len(wl) <= MAXLEN
  /\ wl' = Append(wl, EntryOf(HookRegions(acc)[idx], mem))
  /\ idx' = idx + 1
  /\ UNCHANGED <<mem, num_tols, pc, acc, ckpt>>

write_wlNoPanic ==
  /\ pc = "hook"
  /\ idx <= Len(HookRegions(acc))
  /\ Len(wl) < MAXLEN
  /\ wl' = Append(wl, EntryOf(HookRegions(acc)[idx], mem))
  /\ idx' = idx + 1
  /\ UNCHANGED <<mem, num_tols, pc, acc, ckpt>>

\* ltckpt_write_wl on the next region of the hook: it panics on the log's own
\* memory, and its write into the guard page faults once the log is full.
write_wl ==
  /\ pc = "hook"
  /\ idx <= Len(HookRegions(acc))
  /\ LET r == HookRegions(acc)[idx] IN
       \/ /\ r \in LogRegions
          /\ pc' = "panic"
          /\ UNCHANGED <<wl, idx>>
       \/ /\ r \notin LogRegions
          /\ Len(wl) = MAXLEN
          /\ pc' = "restart"
          /\ UNCHANGED <<wl, idx>>
       \/ /\ r \notin LogRegions
          /\ Len(wl) < MAXLEN
          /\ wl' = Append(wl, EntryOf(r, mem))
          /\ idx' = idx + 1
          /\ UNCHANGED pc
  /\ UNCHANGED <<mem, num_tols, acc, ckpt>>

\* The hook has returned: the store or memcpy itself.
Access(new) ==
  /\ pc = "hook"
  /\ idx > Len(HookRegions(acc))
  /\ mem' = [a \in Addr |-> IF a \in Bytes(acc) THEN new[a] ELSE mem[a]]
  /\ pc' = "run"
  /\ UNCHANGED <<wl, num_tols, acc, idx, ckpt>>

\* A memory intrinsic that faults half way, at a page and so at a region
\* boundary: what lies below it has been written.
AccessFaults(new, r) ==
  /\ pc = "hook"
  /\ idx > Len(HookRegions(acc))
  /\ mem' = [a \in Addr |-> IF a \in Bytes(acc) /\ RegionOf(a) < r THEN new[a] ELSE mem[a]]
  /\ pc' = "restart"
  /\ UNCHANGED <<wl, num_tols, acc, idx, ckpt>>

\* The top-of-the-loop hook.  CTX_NEW_TOL_OR_RETURN counts the call and
\* returns unless a checkpoint is due.
CheckpointDue == checkpoint_interval # 0 /\ num_tols % checkpoint_interval = 0

\* Mutated top_of_the_loop: wl_position is not reset.
top_of_the_loopKeepsLog ==
  /\ pc = "run"
  /\ num_tols' = IF checkpoint_interval = 0 THEN num_tols
                 ELSE (num_tols + 1) % checkpoint_interval
  /\ ckpt' = IF CheckpointDue THEN mem ELSE ckpt
  /\ UNCHANGED <<mem, wl, pc, acc, idx>>

top_of_the_loop ==
  /\ pc = "run"
  /\ num_tols' = IF checkpoint_interval = 0 THEN num_tols
                 ELSE (num_tols + 1) % checkpoint_interval
  /\ IF CheckpointDue THEN wl' = <<>> /\ ckpt' = mem
                      ELSE UNCHANGED <<wl, ckpt>>
  /\ UNCHANGED <<mem, pc, acc, idx>>

\* SIGSEGV in the program, in a hook, or at the access: the handler of rcvry
\* calls ltckpt_restart.
Crash ==
  /\ pc \in {"run", "hook"}
  /\ pc' = "restart"
  /\ UNCHANGED <<mem, wl, num_tols, acc, idx, ckpt>>

\* The application's memory with one log entry copied back.
CopyBack(e) == [a \in Addr |-> IF RegionOf(a) = e.addr THEN e.data[a] ELSE mem[a]]

\* Mutated RestartStep: the log is walked forwards.
RestartForward ==
  /\ pc = "restart"
  /\ Len(wl) > 0
  /\ wl' = Tail(wl)
  /\ mem' = CopyBack(wl[1])
  /\ UNCHANGED <<num_tols, pc, acc, idx, ckpt>>

\* One iteration of the restart hook's loop: step down, then copy the region
\* back unless the entry is one to skip.
RestartStep ==
  /\ pc = "restart"
  /\ Len(wl) > 0
  /\ wl' = SubSeq(wl, 1, Len(wl) - 1)
  /\ LET e == wl[Len(wl)] IN
       IF Restored(e.addr) THEN mem' = CopyBack(e) ELSE UNCHANGED mem
  /\ UNCHANGED <<num_tols, pc, acc, idx, ckpt>>

\* The loop ends with an empty log and the registers are restored.
RestartDone ==
  /\ pc = "restart"
  /\ wl = <<>>
  /\ pc' = "run"
  /\ UNCHANGED <<mem, wl, num_tols, acc, idx, ckpt>>

Next == \/ \E a \in Accesses : Begin(a)
        \/ write_wl
        \/ \E new \in Images : Access(new)
        \/ \E new \in Images, r \in Region : AccessFaults(new, r)
        \/ top_of_the_loop
        \/ Crash
        \/ RestartStep
        \/ RestartDone

Spec == Init /\ [][Next]_vars

-----------------------------------------------------------------------------
\* The addresses a restart promises to put back.
RestoredAddr == {a \in Addr : Restored(RegionOf(a))}

Logged(r) == \E i \in 1 .. Len(wl) : wl[i].addr = r

(* Nothing changed since the checkpoint without first being logged
   (LTCKPT_DECLARE_STORE_HOOK, LTCKPT_DECLARE_MEMCPY_HOOK run before the access). *)
UnloggedUnchanged ==
  \A a \in RestoredAddr : ~Logged(RegionOf(a)) => mem[a] = ckpt[a]

(* A region may be logged many times in one window, with later copies holding
   later contents; the copy the backward walk applies last, its first one, holds
   the contents at the checkpoint.  With UnloggedUnchanged this is why walking
   the log in reverse is right, and it holds in the middle of the walk too. *)
FirstCopyIsCheckpoint ==
  \A i \in 1 .. Len(wl) :
    (/\ Restored(wl[i].addr)
     /\ \A j \in 1 .. i - 1 : wl[j].addr # wl[i].addr)
       => \A a \in Cells(wl[i].addr) : wl[i].data[a] = ckpt[a]

(* When the restart hook's loop has emptied the log, every byte is back to what
   it was at the checkpoint (README.md: "we roll back the application state"). *)
RollbackExact ==
  (pc = "restart" /\ wl = <<>>) => \A a \in RestoredAddr : mem[a] = ckpt[a]

(* No step of the program or of the restart changes the log's own memory: an
   access that runs into it, if only with its last region, has panicked in its
   hook before the first of its bytes is written (ltckpt_write_wl), and the
   restart has no entry that would copy over the log it is reading. *)
LogProtected ==
  [][\A a \in Addr : RegionOf(a) \in LogRegions => mem'[a] = mem[a]]_vars

(* The undo log implements the checkpoint: from the moment of the crash the
   application's memory counts as the checkpoint's, and when the restart hook
   is done it really is. *)
Ckpt == INSTANCE Checkpoint WITH
          Addr <- RestoredAddr,
          mem  <- [a \in RestoredAddr |-> IF pc = "restart" THEN ckpt[a] ELSE mem[a]],
          ckpt <- [a \in RestoredAddr |-> ckpt[a]],
          mode <- IF pc = "restart" THEN "atckpt" ELSE "run"

ImplementsCheckpoint == Ckpt!Spec

=============================================================================
