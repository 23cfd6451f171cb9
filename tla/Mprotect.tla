------------------------------- MODULE Mprotect -------------------------------
(***************************************************************************)
(* The mprotect mechanism, mechanisms/mprotect/: all checkpointed pages    *)
(* are made read-only; the SIGSEGV handler saves the page and makes it     *)
(* writable again; the top-of-the-loop hook write-protects the saved pages *)
(* once more.  The wrappers of mprotect_overrides.c touch the buffers of   *)
(* system calls first, because the kernel does not fault on a read-only    *)
(* page but returns EFAULT.                                                *)
(*                                                                         *)
(* The page list has no lock: the program has one thread.  The pages are   *)
(* those of the areas found when the mechanism was initialized.            *)
(***************************************************************************)
EXTENDS Mechanism, Sequences, FiniteSetsExt

VARIABLES
  mem, ckpt,
  initialized,
  writable,   \* pages that are not write-protected
  pages,      \* mpr->pages with their copies: <<[addr, mem]>>
  call,       \* the wrapped system call under way, or the last one
  todo,       \* pages its wrapper has still to touch
  mpc,        \* "run", "touch", "kernel", "abort"
  efault      \* history: it returned EFAULT

vars == <<mem, ckpt, initialized, writable, pages, call, todo, mpc, efault>>

MprotectTypeOK ==
  /\ mem \in [Page -> Val] /\ ckpt \in [Page -> Val]
  /\ initialized \in BOOLEAN /\ efault \in BOOLEAN
  /\ writable \subseteq Page
  /\ pages \in Seq([addr : Page, mem : Val]) /\ Len(pages) <= MPROTECT_MAX_PAGES
  /\ call \in Calls
  /\ todo \subseteq Page
  /\ mpc \in {"run", "touch", "kernel", "abort"}

Init ==
  /\ mem \in [Page -> Val] /\ ckpt = mem
  /\ initialized = FALSE
  /\ writable = Page
  /\ pages = <<>>
  /\ call \in Calls
  /\ todo = {}
  /\ mpc = "run"
  /\ efault = FALSE

PageOf(a) == a \div PAGE_SIZE

\* The pages of a buffer.
PagesOf(b) == {PageOf(a) : a \in b.addr .. b.addr + b.size - 1}

\* Mutated CheckedPages: without the last byte.
CheckedPagesNoLast(k) ==
  IF k.wrapper = "write" THEN {PageOf(k.addr)}
  ELSE {PageOf(k.addr + i * PAGE_SIZE) : i \in {j \in 0 .. k.size : j * PAGE_SIZE < k.size}}

\* LTCKPT_CHECK_WRITE touches the first byte, LTCKPT_CHECK_BUFF one byte in
\* every PAGE_SIZE and the last.
CheckedPages(k) ==
  IF k.wrapper = "write" THEN {PageOf(k.addr)}
  ELSE {PageOf(k.addr + i * PAGE_SIZE) : i \in {j \in 0 .. k.size : j * PAGE_SIZE < k.size}}
       \cup {PageOf(k.addr + k.size - 1)}

Touched(c) == UNION {CheckedPages(k) : k \in c.checks}
Filled(c)  == UNION {PagesOf(b) : b \in c.fills}

\* ltckpt_sighandler: ltckpt_page_list_add, whose assertion fails when the list
\* is full, then the page is made writable.
SaveAndUnprotect(p) ==
  IF Len(pages) < MPROTECT_MAX_PAGES
    THEN /\ pages' = Append(pages, [addr |-> p, mem |-> mem[p]])
         /\ writable' = writable \cup {p}
         /\ UNCHANGED mpc
    ELSE /\ mpc' = "abort"
         /\ UNCHANGED <<pages, writable>>

\* A store to a read-only page; it is executed again when the handler returns.
PageFault(p) ==
  /\ mpc = "run"
  /\ p \notin writable
  /\ SaveAndUnprotect(p)
  /\ UNCHANGED <<mem, ckpt, initialized, call, todo, efault>>

Store(p, v) ==
  /\ mpc = "run"
  /\ p \in writable
  /\ mem' = [mem EXCEPT ![p] = v]
  /\ UNCHANGED <<ckpt, initialized, writable, pages, call, todo, mpc, efault>>

\* Mutated top_of_the_loop: the list is emptied, the pages stay writable.
top_of_the_loopKeepsWritable ==
  /\ mpc = "run"
  /\ initialized' = TRUE
  /\ writable' = IF initialized THEN writable ELSE {}
  /\ pages' = <<>>
  /\ ckpt' = mem
  /\ UNCHANGED <<mem, call, todo, mpc, efault>>

\* The top-of-the-loop hook, when a checkpoint is due: ltckpt_init_mpr protects
\* everything, ltckpt_checkpoint the pages in the list, which it empties.
top_of_the_loop ==
  /\ mpc = "run"
  /\ initialized' = TRUE
  /\ writable' = IF initialized THEN writable \ {pages[i].addr : i \in DOMAIN pages} ELSE {}
  /\ pages' = <<>>
  /\ ckpt' = mem
  /\ UNCHANGED <<mem, call, todo, mpc, efault>>

\* LTCKPT_MPROTECT_SAFE(ltckpt_ctx_print_default()): everything is made writable
\* for the printing, then everything is protected, pages already in the list too.
ctx_print(v) ==
  /\ mpc = "run"
  /\ mem' = [p \in Page |-> IF p \in StdioPages THEN v ELSE mem[p]]
  /\ writable' = IF initialized THEN {} ELSE writable
  /\ UNCHANGED <<ckpt, initialized, pages, call, todo, mpc, efault>>

\* A wrapped system call: touch the pages, then enter the kernel.
Wrapper(c) ==
  /\ mpc = "run"
  /\ call' = c
  /\ todo' = Touched(c)
  /\ mpc' = "touch"
  /\ efault' = FALSE
  /\ UNCHANGED <<mem, ckpt, initialized, writable, pages>>

\* The order of the pages is left open.
Touch(p) ==
  /\ mpc = "touch"
  /\ p \in todo
  /\ IF p \in writable
       THEN /\ todo' = todo \ {p}
            /\ UNCHANGED <<pages, writable, mpc>>
       ELSE SaveAndUnprotect(p) /\ UNCHANGED todo
  /\ UNCHANGED <<mem, ckpt, initialized, call, efault>>

EnterKernel ==
  /\ mpc = "touch"
  /\ todo = {}
  /\ mpc' = "kernel"
  /\ UNCHANGED <<mem, ckpt, initialized, writable, pages, call, todo, efault>>

\* The kernel fills the buffers, or returns EFAULT, and may have filled some of
\* them by then.
Kernel(v, w) ==
  /\ mpc = "kernel"
  /\ efault' = ~(Filled(call) \subseteq writable)
  /\ w \subseteq Filled(call) \cap writable
  /\ ~efault' => w = Filled(call)
  /\ mem' = [p \in Page |-> IF p \in w THEN v ELSE mem[p]]
  /\ mpc' = "run"
  /\ UNCHANGED <<ckpt, initialized, writable, pages, call, todo>>

Next ==
  \/ \E p \in Page : PageFault(p)
  \/ \E p \in Page, v \in Val : Store(p, v)
  \/ top_of_the_loop
  \/ \E v \in Val : ctx_print(v)
  \/ \E c \in Calls : Wrapper(c)
  \/ \E p \in Page : Touch(p)
  \/ EnterKernel
  \/ \E v \in Val, w \in SUBSET Page : Kernel(v, w)

Spec == Init /\ [][Next]_vars

-----------------------------------------------------------------------------
Listed(p) == {i \in DOMAIN pages : pages[i].addr = p}

\* What a page held at the checkpoint, as far as the mechanism can tell: its
\* first copy in the list, which may hold several, or the page itself.
Kept(p) == IF Listed(p) = {} THEN mem[p] ELSE pages[Min(Listed(p))].mem

(* Every page has been saved before it changed, and the first of its copies is the
   checkpoint's, although printing the statistics (ltckpt_mprotect_vmas) protects
   pages that are in the list, so that they are saved again as they are then.  The
   pages of the output buffer itself are written unprotected. *)
MprotectRecoverable ==
  initialized => \A p \in Page \ StdioPages : Kept(p) = ckpt[p]

\* The wrapper checks the whole of buffer b: with LTCKPT_CHECK_BUFF, or with one
\* byte if b lies within a page.
Checked(b, c) ==
  \E k \in c.checks :
    /\ k.addr = b.addr /\ k.size = b.size
    /\ k.wrapper = "buff" \/ PageOf(b.addr) = PageOf(b.addr + b.size - 1)

(* A system call fails with EFAULT only for a buffer its wrapper does not check, or
   checks with LTCKPT_CHECK_WRITE alone although it lies in two pages; a buffer of any
   length and alignment under LTCKPT_CHECK_BUFF is safe. *)
EfaultOnlyUnchecked == efault => \E b \in call.fills : ~Checked(b, call)

=============================================================================
