------------------------------ MODULE SoftDirty ------------------------------
(***************************************************************************)
(* The soft-dirty mechanism, mechanisms/ltckpt_softdirty.c.  The kernel    *)
(* marks every page that is stored to; the top-of-the-loop hook saves the  *)
(* marked pages, one after the other, and then clears all marks.  It reads *)
(* the marks of up to ten pages at once (util/pagemap.h) and visits the    *)
(* pages afterwards.  Each checkpoint is an increment: added up from the   *)
(* first, the increments should give the memory at the last checkpoint.    *)
(* The other threads of the program run on while the hook walks the pages. *)
(***************************************************************************)
EXTENDS Mechanism

VARIABLES
  mem,
  initialized,
  dirty,       \* pages the kernel has marked
  num_mem_pages,
  marks,       \* marks in pm->map, as they were when the batch was read
  pos,         \* next page of util_pagemap_walk
  limit,       \* the page after the batch
  spc,         \* "run", "walk", "clear", "abort"
  image,       \* history: memory at initialization, with all increments applied
  gap          \* history: pages stored to after their mark was read and before
               \* the marks were cleared, and not saved since

vars == <<mem, initialized, dirty, num_mem_pages, marks, pos, limit, spc, image, gap>>

SoftDirtyTypeOK ==
  /\ mem \in [Page -> Val] /\ image \in [Page -> Val]
  /\ initialized \in BOOLEAN
  /\ dirty \subseteq Page /\ marks \subseteq Page /\ gap \subseteq Page
  /\ num_mem_pages \in 0 .. SOFTDIRTY_MAX_PAGES
  /\ pos \in 0 .. NumPages /\ limit \in 0 .. NumPages
  /\ spc \in {"run", "walk", "clear", "abort"}

Init ==
  /\ mem \in [Page -> Val] /\ image = mem
  /\ initialized = FALSE
  /\ dirty \in SUBSET Page
  /\ num_mem_pages = 0 /\ marks = {} /\ pos = 0 /\ limit = 0
  /\ spc = "run"
  /\ gap = {}

\* The mark of page b has been read; what is stored now is not seen any more.
MarkRead(b) == spc = "clear" \/ (spc = "walk" /\ b < limit)

\* Any thread stores, also while the hook is walking.
Store(b, v) ==
  /\ spc # "abort"
  /\ mem' = [mem EXCEPT ![b] = v]
  /\ dirty' = dirty \cup {b}
  /\ gap' = IF MarkRead(b) THEN gap \cup {b} ELSE gap
  /\ UNCHANGED <<initialized, num_mem_pages, marks, pos, limit, spc, image>>

\* Mutated top_of_the_loop: the marks are cleared before the walk.
top_of_the_loopClearsFirst ==
  /\ spc = "run"
  /\ initialized' = TRUE
  /\ dirty' = {}
  /\ IF initialized THEN UNCHANGED <<image, gap>> ELSE image' = mem /\ gap' = {}
  /\ num_mem_pages' = 0 /\ marks' = {} /\ pos' = 0 /\ limit' = 0
  /\ spc' = "walk"
  /\ UNCHANGED mem

\* The top-of-the-loop hook, when a checkpoint is due, up to the walk; the
\* first time ltckpt_init_softdirty clears the marks.
top_of_the_loop ==
  /\ spc = "run"
  /\ initialized' = TRUE
  /\ IF initialized THEN UNCHANGED <<dirty, image, gap>>
                    ELSE dirty' = {} /\ image' = mem /\ gap' = {}
  /\ num_mem_pages' = 0 /\ marks' = {} /\ pos' = 0 /\ limit' = 0
  /\ spc' = "walk"
  /\ UNCHANGED mem

\* A batch ends after PAGEMAP_BATCH pages, or with its area.
BatchEnd(e) ==
  /\ e <= pos + PAGEMAP_BATCH
  /\ e = pos + PAGEMAP_BATCH \/ e \in AreaEnds
  /\ \A a \in AreaEnds : pos < a => e <= a

\* util_pagemap_get: one pread for the marks of the whole batch.
ReadMarks ==
  /\ spc = "walk"
  /\ pos = limit
  /\ \E e \in pos + 1 .. NumPages : BatchEnd(e) /\ limit' = e
  /\ marks' = dirty \cap (pos .. limit' - 1)
  /\ UNCHANGED <<mem, initialized, dirty, num_mem_pages, pos, spc, image, gap>>

\* The next page of the batch; ltckpt_top_of_the_loop_cb saves it if it was
\* marked, and asserts that there is room.
Visit ==
  /\ spc = "walk"
  /\ pos < limit
  /\ IF pos \notin marks
       THEN UNCHANGED <<num_mem_pages, image, gap, spc>> /\ pos' = pos + 1
       ELSE IF num_mem_pages = SOFTDIRTY_MAX_PAGES
         THEN spc' = "abort" /\ UNCHANGED <<num_mem_pages, image, gap, pos>>
         ELSE /\ image' = [image EXCEPT ![pos] = mem[pos]]
              /\ num_mem_pages' = num_mem_pages + 1
              /\ gap' = gap \ {pos}
              /\ pos' = pos + 1
              /\ UNCHANGED spc
  /\ UNCHANGED <<mem, initialized, dirty, marks, limit>>

WalkDone ==
  /\ spc = "walk"
  /\ pos = limit /\ limit = NumPages
  /\ spc' = "clear"
  /\ UNCHANGED <<mem, initialized, dirty, num_mem_pages, marks, pos, limit, image, gap>>

\* util_pagemap_clear_refs.
clear_refs ==
  /\ spc = "clear"
  /\ dirty' = {}
  /\ spc' = "run"
  /\ UNCHANGED <<mem, initialized, num_mem_pages, marks, pos, limit, image, gap>>

Next ==
  \/ \E b \in Page, v \in Val : Store(b, v)
  \/ top_of_the_loop \/ ReadMarks \/ Visit \/ WalkDone \/ clear_refs

Spec == Init /\ [][Next]_vars

-----------------------------------------------------------------------------
(* The increments miss nothing but the stores another thread makes to a page between
   the read of its mark, with those of the batch (util_pagemap_get), or its copy, if
   it was marked, and util_pagemap_clear_refs: every other page that is not marked has
   in the increments the contents it has now. *)
SoftDirtyComplete ==
  initialized => \A b \in Page \ (dirty \cup gap) : image[b] = mem[b]

=============================================================================
