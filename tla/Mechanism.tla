------------------------------ MODULE Mechanism ------------------------------
(***************************************************************************)
(* What the checkpointing mechanisms other than the undo log and TSX have  *)
(* in common: the memory they save, in regions of 128 bytes (the bitmap)   *)
(* or in pages, and the sizes of their tables.                             *)
(***************************************************************************)
EXTENDS Integers, FiniteSets

CONSTANTS
  NumRegions,  \* application memory in regions, for the bitmap
  NumPages,    \* application memory in pages, for the others
  Val,         \* contents of a region or page
  Zero,        \* the contents of fresh anonymous memory
  Thread,      \* threads of the application
  Builds,      \* builds and programs: [sync : BOOLEAN, threads : SUBSET Thread]
  EPOCH_MOD,   \* ltckpt_epoch is a uint8_t: 256
  MPROTECT_MAX_PAGES, SOFTDIRTY_MAX_PAGES,   \* 1000
  PAGEMAP_BATCH, \* UTIL_PAGEMMAP_DEFAULT_BUFF_SIZE, in pages: 10
  AreaEnds,    \* the page after each memory area of the process
  PAGE_SIZE,   \* bytes of a page
  Calls,       \* system calls: the buffers their wrapper touches and how (checks),
               \* and the buffers the kernel fills (fills)
  StdioPages,  \* pages that printing the statistics writes to
  Proc, Clone  \* processes of the application; checkpoint processes

Region == 0 .. NumRegions - 1
Page   == 0 .. NumPages - 1

ASSUME MechanismAssumption ==
  /\ NumRegions \in Nat \ {0} /\ NumPages \in Nat \ {0}
  /\ Zero \in Val
  /\ Builds \subseteq [sync : BOOLEAN, threads : SUBSET Thread]
  /\ \A b \in Builds : b.sync \/ \A s, t \in b.threads : s = t
  /\ EPOCH_MOD \in Nat /\ EPOCH_MOD > 1
  /\ MPROTECT_MAX_PAGES \in Nat \ {0} /\ SOFTDIRTY_MAX_PAGES \in Nat \ {0}
  /\ PAGEMAP_BATCH \in Nat \ {0}
  /\ AreaEnds \subseteq 1 .. NumPages /\ NumPages \in AreaEnds
  /\ PAGE_SIZE \in Nat \ {0}
  /\ Calls \subseteq
       [checks : SUBSET [wrapper : {"write", "buff"}, addr : Nat, size : Nat \ {0}],
        fills : SUBSET [addr : Nat, size : Nat \ {0}]]
  /\ \A c \in Calls : \A k \in c.checks : k.addr + k.size <= NumPages * PAGE_SIZE
  /\ StdioPages \subseteq Page
  /\ 0 \notin Clone

=============================================================================
