----------------------------- MODULE PageProofs -----------------------------
(***************************************************************************)
(* Theorems about the two mechanisms that save whole pages, write          *)
(* protection (module Mprotect) and soft-dirty bits (module SoftDirty), as *)
(* methods a program can be linked with, for every number of pages and     *)
(* every size of a page and of the page lists.                             *)
(***************************************************************************)
EXTENDS MCMechanisms, Sequences, WellFoundedInduction, TLAPS

(* What is assumed of the constants of these mechanisms. *)
LEMMA PageConstants ==
  /\ NumPages \in Nat \ {0}
  /\ MPROTECT_MAX_PAGES \in Nat \ {0} /\ SOFTDIRTY_MAX_PAGES \in Nat \ {0}
  /\ StdioPages \subseteq Page
  BY MechanismAssumption

(* What is assumed of the system calls: the buffers the wrappers check are in memory. *)
LEMMA CallConstants ==
  /\ NumPages \in Nat \ {0} /\ PAGE_SIZE \in Nat \ {0}
  /\ \A c \in Calls :
       /\ \A k \in c.checks : /\ k.addr \in Nat /\ k.size \in Nat \ {0}
                             /\ k.wrapper \in {"write", "buff"}
                             /\ k.addr + k.size <= NumPages * PAGE_SIZE
       /\ \A b \in c.fills : b.addr \in Nat /\ b.size \in Nat \ {0}
  BY MechanismAssumption

-----------------------------------------------------------------------------
(* Soft-dirty pages. *)

\* Page b needs no copy any more in this walk: the walk has passed it, or it was
\* not marked when the marks of the batch were read.
Settled(b) ==
  \/ spc = "clear"
  \/ spc = "walk" /\ (b < pos \/ (b < limit /\ b \notin marks))

\* Nothing is lost but in the gap: a page that is not marked, or that is settled, is
\* in the increments as it is now.
SoftDirtyInv ==
  /\ SoftDirty!SoftDirtyTypeOK
  /\ spc # "run" => initialized
  /\ spc = "walk" => pos <= limit /\ \A b \in Page : pos <= b /\ b \in marks => b \in dirty
  /\ initialized =>
       \A b \in Page \ gap : b \notin dirty \/ Settled(b) => image[b] = mem[b]

(* Before the first checkpoint there is nothing to lose. *)
LEMMA SoftDirtyInitInv == SoftDirty!Init => SoftDirtyInv
<1> SUFFICES ASSUME SoftDirty!Init PROVE SoftDirtyInv
  OBVIOUS
<1> USE DEF SoftDirty!Init, SoftDirty!Page, Page
<1>1. mem \in [Page -> Val] /\ image \in [Page -> Val] /\ initialized \in BOOLEAN
  OBVIOUS
<1>2. dirty \subseteq Page /\ marks \subseteq Page /\ gap \subseteq Page /\ spc \in {"run", "walk", "clear", "abort"}
  OBVIOUS
<1>3. num_mem_pages \in 0 .. SOFTDIRTY_MAX_PAGES /\ pos \in 0 .. NumPages /\ limit \in 0 .. NumPages
  BY PageConstants
<1>4. ~initialized /\ spc = "run"
  OBVIOUS
<1> QED BY <1>1, <1>2, <1>3, <1>4 DEF SoftDirtyInv, SoftDirty!SoftDirtyTypeOK

(* Every step keeps it, a store of another thread in the middle of the walk too. *)
LEMMA SoftDirtyNextInv == SoftDirtyInv /\ SoftDirty!Next => SoftDirtyInv'
<1> SUFFICES ASSUME SoftDirtyInv, SoftDirty!Next PROVE SoftDirtyInv'
  OBVIOUS
<1> USE PageConstants DEF SoftDirty!SoftDirtyTypeOK, Settled, SoftDirty!Page, Page
<1>1. ASSUME NEW b \in Page, NEW v \in Val, SoftDirty!Store(b, v) PROVE SoftDirtyInv'
  <2>1. /\ mem' = [mem EXCEPT ![b] = v] /\ dirty' = dirty \cup {b}
        /\ gap' = IF SoftDirty!MarkRead(b) THEN gap \cup {b} ELSE gap
        /\ UNCHANGED <<initialized, num_mem_pages, marks, pos, limit, spc, image>>
    BY <1>1 DEF SoftDirty!Store
  <2>2. SoftDirty!SoftDirtyTypeOK'
    BY <2>1 DEF SoftDirtyInv
  <2>3. ASSUME initialized, NEW c \in Page \ gap', c \notin dirty' \/ Settled(c)'
        PROVE  image'[c] = mem'[c]
    <3>1. CASE c = b
      BY <2>1, <2>3, <3>1 DEF SoftDirtyInv, SoftDirty!MarkRead
    <3>2. CASE c # b
      BY <2>1, <2>3, <3>2 DEF SoftDirtyInv
    <3> QED BY <3>1, <3>2
  <2> QED BY <2>1, <2>2, <2>3 DEF SoftDirtyInv
<1>2. CASE SoftDirty!top_of_the_loop
  <2>0. mem' \in [Page -> Val] /\ image' \in [Page -> Val] /\ initialized' \in BOOLEAN
    BY <1>2 DEF SoftDirtyInv, SoftDirty!top_of_the_loop
  <2>1. dirty' \subseteq Page /\ gap' \subseteq Page /\ spc' = "walk" /\ initialized'
    BY <1>2 DEF SoftDirtyInv, SoftDirty!top_of_the_loop
  <2>3. num_mem_pages' = 0 /\ pos' = 0 /\ limit' = 0 /\ marks' = {}
    BY <1>2 DEF SoftDirty!top_of_the_loop
  <2>4. SoftDirty!SoftDirtyTypeOK'
    BY <2>0, <2>1, <2>3
  <2>2. ASSUME NEW b \in Page \ gap', b \notin dirty' \/ Settled(b)'
        PROVE  image'[b] = mem'[b]
    <3>1. b \notin dirty' /\ mem' = mem
      BY <1>2, <2>1, <2>2, <2>3 DEF SoftDirty!top_of_the_loop
    <3> QED BY <1>2, <2>2, <3>1 DEF SoftDirtyInv, SoftDirty!top_of_the_loop
  <2> QED BY <2>1, <2>2, <2>3, <2>4 DEF SoftDirtyInv
<1>3. CASE SoftDirty!ReadMarks
  <2>1. PICK e \in pos + 1 .. NumPages : limit' = e
    BY <1>3 DEF SoftDirty!ReadMarks
  <2>2. /\ spc = "walk" /\ pos = limit /\ marks' = dirty \cap (pos .. e - 1)
        /\ UNCHANGED <<mem, initialized, dirty, num_mem_pages, pos, spc, image, gap>>
    BY <1>3, <2>1 DEF SoftDirty!ReadMarks
  <2>3. pos \in 0 .. NumPages /\ dirty \subseteq Page
    BY DEF SoftDirtyInv
  <2>4. e \in 0 .. NumPages /\ pos <= e
    BY <2>1, <2>3
  <2>5. marks' \subseteq dirty /\ marks' \subseteq Page
    BY <2>2, <2>3
  <2>6. SoftDirty!SoftDirtyTypeOK'
    BY <2>1, <2>2, <2>4, <2>5 DEF SoftDirtyInv
  <2>7. ASSUME NEW b \in Page, b < e, b \notin marks' PROVE b \notin dirty \/ b < pos
    <3>1. b < pos \/ b \in pos .. e - 1
      BY <2>3, <2>4, <2>7
    <3> QED BY <2>2, <2>7, <3>1
  <2>8. ASSUME NEW b \in Page \ gap', b \notin dirty' \/ Settled(b)'
        PROVE  image'[b] = mem'[b]
    <3>1. b \notin dirty \/ b < pos
      BY <2>1, <2>2, <2>7, <2>8
    <3> QED BY <2>2, <2>8, <3>1 DEF SoftDirtyInv
  <2> QED BY <2>1, <2>2, <2>4, <2>5, <2>6, <2>8 DEF SoftDirtyInv
<1>4. CASE SoftDirty!Visit
  <2>0. image' \in [Page -> Val] /\ gap' \subseteq Page
    BY <1>4 DEF SoftDirtyInv, SoftDirty!Visit
  <2>1. initialized /\ spc = "walk" /\ pos < limit /\ UNCHANGED <<initialized, mem, dirty, marks, limit>>
    BY <1>4 DEF SoftDirtyInv, SoftDirty!Visit
  <2>3. /\ num_mem_pages' \in 0 .. SOFTDIRTY_MAX_PAGES /\ pos' \in 0 .. NumPages
        /\ spc' \in {"walk", "abort"} /\ pos' \in {pos, pos + 1}
    BY <1>4 DEF SoftDirtyInv, SoftDirty!Visit
  <2>4. SoftDirty!SoftDirtyTypeOK'
    BY <2>0, <2>1, <2>3 DEF SoftDirtyInv
  <2>2. ASSUME NEW b \in Page \ gap', b \notin dirty' \/ Settled(b)'
        PROVE  image'[b] = mem'[b]
    <3>1. CASE b = pos
      <4>1. CASE pos \notin marks
        BY <1>4, <2>1, <2>2, <3>1, <4>1 DEF SoftDirtyInv, SoftDirty!Visit
      <4>2. CASE pos \in marks
        BY <1>4, <2>1, <2>2, <3>1, <4>2 DEF SoftDirtyInv, SoftDirty!Visit
      <4> QED BY <4>1, <4>2
    <3>2. CASE b # pos
      <4>1. image'[b] = image[b] /\ b \notin gap /\ (Settled(b)' => Settled(b))
        BY <1>4, <2>1, <2>2, <3>2 DEF SoftDirtyInv, SoftDirty!Visit
      <4> QED BY <2>1, <2>2, <4>1 DEF SoftDirtyInv
    <3> QED BY <3>1, <3>2
  <2>5. pos' <= limit' /\ \A b \in Page : pos' <= b /\ b \in marks' => b \in dirty'
    BY <2>1, <2>3 DEF SoftDirtyInv
  <2> QED BY <2>1, <2>2, <2>4, <2>5 DEF SoftDirtyInv
<1>5. CASE SoftDirty!WalkDone
  BY <1>5 DEF SoftDirtyInv, SoftDirty!WalkDone
<1>6. CASE SoftDirty!clear_refs
  BY <1>6 DEF SoftDirtyInv, SoftDirty!clear_refs
<1> QED BY <1>1, <1>2, <1>3, <1>4, <1>5, <1>6 DEF SoftDirty!Next

LinkedSoftDirtyInv == method = "softdirty" => SoftDirtyInv

(* The steps of the other methods are not steps of a program with soft-dirty bits. *)
LEMMA LinkedSoftDirty ==
  /\ Init => LinkedSoftDirtyInv
  /\ LinkedSoftDirtyInv /\ [Next]_vars => LinkedSoftDirtyInv'
<1>1. Init => LinkedSoftDirtyInv
  BY SoftDirtyInitInv DEF Init, LinkedSoftDirtyInv
<1>2. ASSUME LinkedSoftDirtyInv, Next PROVE LinkedSoftDirtyInv'
  <2>1. CASE method = "softdirty" /\ SoftDirty!Next /\ UNCHANGED method
    BY <1>2, <2>1, SoftDirtyNextInv DEF LinkedSoftDirtyInv
  <2>2. CASE method # "softdirty" /\ UNCHANGED method
    BY <2>2 DEF LinkedSoftDirtyInv
  <2> QED BY <1>2, <2>1, <2>2 DEF Next
<1>3. ASSUME LinkedSoftDirtyInv, UNCHANGED vars PROVE LinkedSoftDirtyInv'
  BY <1>3
     DEF vars, softdirtyVars, LinkedSoftDirtyInv, SoftDirtyInv, SoftDirty!SoftDirtyTypeOK,
         Settled
<1> QED BY <1>1, <1>2, <1>3

(* Of all the stores the other threads make while the hook walks the pages, the saved
   increments lose only those to a page between the read of its mark, with those of
   its batch, or its copy, and util_pagemap_clear_refs. *)
THEOREM SoftDirtyLosesOnlyTheGap == Spec => []SoftDirtyComplete
<1>1. LinkedSoftDirtyInv => SoftDirtyComplete
  BY DEF LinkedSoftDirtyInv, SoftDirtyInv, SoftDirtyComplete, SoftDirty!SoftDirtyComplete,
         Page, SoftDirty!Page
<1> QED BY <1>1, LinkedSoftDirty, PTL DEF Spec

-----------------------------------------------------------------------------
(* Pages and system call buffers. *)

(* The page of an address, and what lies one page further on. *)
LEMMA PageArithmetic ==
  ASSUME NEW a \in Nat, NEW b \in Nat, NEW m \in Nat \ {0}
  PROVE  /\ a \div m \in Nat
         /\ m * (a \div m) <= a /\ a < m * (a \div m) + m
         /\ a <= b => a \div m <= b \div m
         /\ (a + m) \div m = a \div m + 1
<1>1. m \in Int /\ m > 0
  OBVIOUS
<1>2. a \div m \in Nat /\ m * (a \div m) <= a /\ a < m * (a \div m) + m
  BY <1>1, SMT
<1>3. a <= b => a \div m <= b \div m
  OBVIOUS
<1>4. (a + m) \div m = a \div m + 1
  OBVIOUS
<1> QED BY <1>2, <1>3, <1>4

(* The pages of addresses. *)
LEMMA PageOfFacts ==
  /\ \A a \in Nat : /\ Mprotect!PageOf(a) \in Nat
                    /\ Mprotect!PageOf(a + PAGE_SIZE) = Mprotect!PageOf(a) + 1
  /\ \A a, b \in Nat : a <= b => Mprotect!PageOf(a) <= Mprotect!PageOf(b)
  BY CallConstants, PageArithmetic DEF Mprotect!PageOf

(* An address in memory is in a page. *)
LEMMA PageOfType ==
  ASSUME NEW a \in Nat, a < NumPages * PAGE_SIZE
  PROVE  Mprotect!PageOf(a) \in Page
<1> USE CallConstants DEF Page
<1> DEFINE q == a \div PAGE_SIZE
<1>1. q \in Nat /\ PAGE_SIZE * q <= a
  BY PageArithmetic
<1> HIDE DEF q
<1>2. CASE q >= NumPages
  <2>1. PAGE_SIZE * q >= PAGE_SIZE * NumPages
    BY <1>1, <1>2
  <2> QED BY <1>1, <2>1
<1> QED BY <1>1, <1>2 DEF q, Mprotect!PageOf

(* The checks touch pages of memory only. *)
LEMMA CheckedType ==
  ASSUME NEW c \in Calls, NEW k \in c.checks
  PROVE  Mprotect!CheckedPages(k) \subseteq Page
<1> USE CallConstants
<1>1. /\ k.addr \in Nat /\ k.size \in Nat \ {0}
      /\ k.addr + k.size <= NumPages * PAGE_SIZE
  OBVIOUS
<1>2. ASSUME NEW a \in Nat, a < k.addr + k.size PROVE Mprotect!PageOf(a) \in Page
  <2>1. a < NumPages * PAGE_SIZE
    BY <1>1, <1>2
  <2> QED BY <2>1, PageOfType
<1>3. Mprotect!PageOf(k.addr) \in Page /\ Mprotect!PageOf(k.addr + k.size - 1) \in Page
  BY <1>1, <1>2
<1>4. ASSUME NEW i \in 0 .. k.size, i * PAGE_SIZE < k.size
      PROVE  Mprotect!PageOf(k.addr + i * PAGE_SIZE) \in Page
  <2>1. k.addr + i * PAGE_SIZE \in Nat /\ k.addr + i * PAGE_SIZE < k.addr + k.size
    BY <1>1, <1>4
  <2> QED BY <1>2, <2>1
<1> QED BY <1>3, <1>4 DEF Mprotect!CheckedPages

(* So do the wrappers. *)
LEMMA TouchedType ==
  ASSUME NEW c \in Calls
  PROVE  Mprotect!Touched(c) \subseteq Page
  BY CheckedType DEF Mprotect!Touched

(* A check touches every page of its buffer, if the buffer is under LTCKPT_CHECK_BUFF or
   lies within a page: one byte in every PAGE_SIZE misses at most the page of the last
   byte. *)
LEMMA CheckCovers ==
  ASSUME NEW c \in Calls, NEW k \in c.checks,
         k.wrapper = "buff" \/ Mprotect!PageOf(k.addr) = Mprotect!PageOf(k.addr + k.size - 1)
  PROVE  Mprotect!PagesOf(k) \subseteq Mprotect!CheckedPages(k)
<1>0. /\ k.addr \in Nat /\ k.size \in Nat \ {0} /\ PAGE_SIZE \in Nat \ {0}
      /\ k.wrapper \in {"write", "buff"}
  BY CallConstants
<1> SUFFICES ASSUME NEW a \in k.addr .. k.addr + k.size - 1
             PROVE  Mprotect!PageOf(a) \in Mprotect!CheckedPages(k)
  BY DEF Mprotect!PagesOf
<1>1. a \in Nat
  BY <1>0
<1>2. CASE k.wrapper = "write"
  <2>1. /\ Mprotect!PageOf(k.addr) <= Mprotect!PageOf(a)
        /\ Mprotect!PageOf(a) <= Mprotect!PageOf(k.addr + k.size - 1)
        /\ Mprotect!PageOf(a) \in Nat /\ Mprotect!PageOf(k.addr) \in Nat
    BY <1>0, <1>1, PageOfFacts
  <2>2. Mprotect!PageOf(a) = Mprotect!PageOf(k.addr)
    BY <1>2, <2>1
  <2> QED BY <1>2, <2>2 DEF Mprotect!CheckedPages
<1>3. CASE k.wrapper = "buff"
  <2> DEFINE i == (a - k.addr) \div PAGE_SIZE
             b == k.addr + i * PAGE_SIZE
             last == k.addr + k.size - 1
  <2>1. i \in Nat /\ PAGE_SIZE * i <= a - k.addr /\ a - k.addr < PAGE_SIZE * i + PAGE_SIZE
    <3>1. a - k.addr \in Nat
      BY <1>0
    <3> QED BY <1>0, <3>1, PageArithmetic
  <2> HIDE DEF i
  <2>2. b \in Nat /\ b <= a /\ a < b + PAGE_SIZE /\ last \in Nat /\ a <= last
    BY <1>0, <1>1, <2>1
  <2>3. \A j \in Nat : j * PAGE_SIZE < k.size =>
          Mprotect!PageOf(k.addr + j * PAGE_SIZE) \in Mprotect!CheckedPages(k)
    <3>1. ASSUME NEW j \in Nat, j * PAGE_SIZE < k.size PROVE j \in 0 .. k.size
      <4>1. j <= j * PAGE_SIZE
        BY <1>0
      <4> QED BY <1>0, <3>1, <4>1
    <3> QED BY <1>3, <3>1 DEF Mprotect!CheckedPages
  <2>4. Mprotect!PageOf(b) \in Mprotect!CheckedPages(k)
    <3>1. i * PAGE_SIZE < k.size
      BY <1>0, <2>1
    <3> QED BY <2>1, <2>3, <3>1
  <2>5. Mprotect!PageOf(last) \in Mprotect!CheckedPages(k)
    BY <1>3 DEF Mprotect!CheckedPages
  <2>6. /\ Mprotect!PageOf(b) <= Mprotect!PageOf(a)
        /\ Mprotect!PageOf(a) <= Mprotect!PageOf(b) + 1
        /\ Mprotect!PageOf(b + PAGE_SIZE) = Mprotect!PageOf(b) + 1
        /\ Mprotect!PageOf(a) <= Mprotect!PageOf(last)
        /\ last < b + PAGE_SIZE => Mprotect!PageOf(last) <= Mprotect!PageOf(b) + 1
        /\ Mprotect!PageOf(a) \in Nat /\ Mprotect!PageOf(b) \in Nat
        /\ Mprotect!PageOf(last) \in Nat
    <3>1. b + PAGE_SIZE \in Nat
      BY <1>0, <2>2
    <3>2. a <= b + PAGE_SIZE /\ (last < b + PAGE_SIZE => last <= b + PAGE_SIZE)
      BY <1>0, <1>1, <2>2
    <3> HIDE DEF b, last
    <3> QED BY <1>0, <1>1, <2>2, <3>1, <3>2, PageOfFacts
  <2>7. CASE (i + 1) * PAGE_SIZE < k.size
    <3>1. Mprotect!PageOf(k.addr + (i + 1) * PAGE_SIZE) \in Mprotect!CheckedPages(k)
      <4>1. i + 1 \in Nat
        BY <2>1
      <4> QED BY <2>3, <2>7, <4>1
    <3>2. k.addr + (i + 1) * PAGE_SIZE = b + PAGE_SIZE
      BY <1>0, <2>1
    <3> HIDE DEF b, last
    <3>3. Mprotect!PageOf(a) = Mprotect!PageOf(b) \/ Mprotect!PageOf(a) = Mprotect!PageOf(b) + 1
      BY <2>6
    <3> QED BY <2>4, <2>6, <3>1, <3>2, <3>3
  <2>8. CASE ~((i + 1) * PAGE_SIZE < k.size)
    <3>1. last < b + PAGE_SIZE
      BY <1>0, <2>1, <2>8
    <3> HIDE DEF b, last
    <3>2. \/ Mprotect!PageOf(a) = Mprotect!PageOf(b)
          \/ Mprotect!PageOf(a) = Mprotect!PageOf(last)
      BY <2>6, <3>1
    <3> QED BY <2>4, <2>5, <3>2
  <2> QED BY <2>7, <2>8
<1> QED BY <1>0, <1>2, <1>3

(* Buffers that are all checked are touched over their whole length. *)
LEMMA TouchedCovers ==
  ASSUME NEW c \in Calls, \A b \in c.fills : Mprotect!Checked(b, c)
  PROVE  Mprotect!Filled(c) \subseteq Mprotect!Touched(c)
<1> SUFFICES ASSUME NEW b \in c.fills
             PROVE  Mprotect!PagesOf(b) \subseteq Mprotect!Touched(c)
  BY DEF Mprotect!Filled
<1>1. PICK k \in c.checks :
        /\ k.addr = b.addr /\ k.size = b.size
        /\ \/ k.wrapper = "buff"
           \/ Mprotect!PageOf(b.addr) = Mprotect!PageOf(b.addr + b.size - 1)
  BY DEF Mprotect!Checked
<1>2. Mprotect!PagesOf(b) = Mprotect!PagesOf(k)
  BY <1>1 DEF Mprotect!PagesOf
<1>3. Mprotect!PagesOf(k) \subseteq Mprotect!CheckedPages(k)
  BY <1>1, CheckCovers
<1> QED BY <1>2, <1>3 DEF Mprotect!Touched

-----------------------------------------------------------------------------
(* Write-protected pages. *)

(* A set of natural numbers that is not empty has a least element. *)
LEMMA MinNat ==
  ASSUME NEW S, S \subseteq Nat, S # {}
  PROVE  Mprotect!Min(S) \in S /\ \A y \in S : Mprotect!Min(S) <= y
<1> DEFINE R == OpToRel(<, Nat)
<1>1. IsWellFoundedOn(R, Nat)
  BY NatLessThanWellFounded
<1>2. \A x, y \in Nat : y < x => <<y, x>> \in R
  BY DEF OpToRel
<1> HIDE DEF R
<1>3. PICK x \in S : \A y \in S : ~ (<<y, x>> \in R)
  BY <1>1, WFMin
<1>4. \A y \in S : ~ (y < x)
  BY <1>2, <1>3, Zenon
<1>5. \A y \in S : x <= y
  <2> HIDE <1>1
  <2> QED BY <1>3, <1>4
<1> QED BY <1>3, <1>5, Zenon DEF Mprotect!Min

\* Entry i of the list is the first of page p, and as it was at the checkpoint.
FirstCopy(i, p) ==
  /\ pages[i].addr = p
  /\ pages[i].mem = ckpt[p]
  /\ \A j \in 1 .. Len(pages) : pages[j].addr = p => i <= j

\* Page p has not changed since the checkpoint, or was saved before it did.
PageKept(p) ==
  \/ mem[p] = ckpt[p] /\ \A i \in 1 .. Len(pages) : pages[i].addr # p
  \/ \E i \in 1 .. Len(pages) : FirstCopy(i, p)

\* A page can be written only while it is in the list.
WritableListed ==
  \A p \in writable : \E i \in 1 .. Len(pages) : pages[i].addr = p

MprotectInv ==
  /\ Mprotect!MprotectTypeOK
  /\ initialized => WritableListed /\ \A p \in Page \ StdioPages : PageKept(p)

\* The wrapper has made the pages it has touched writable, and nothing protects
\* them again before the kernel runs.
TouchInv ==
  /\ mpc = "touch" => Mprotect!Touched(call) \ todo \subseteq writable
  /\ mpc = "kernel" => Mprotect!Touched(call) \subseteq writable
  /\ efault => \E b \in call.fills : ~Mprotect!Checked(b, call)

(* The invariant implies the property. *)
LEMMA MprotectInvKeeps == MprotectInv => Mprotect!MprotectRecoverable
<1> SUFFICES ASSUME MprotectInv, initialized, NEW p \in Page \ StdioPages
             PROVE  Mprotect!Kept(p) = ckpt[p]
  BY DEF Mprotect!MprotectRecoverable, Page, Mprotect!Page
<1>0. PageKept(p) /\ pages \in Seq([addr : Page, mem : Val])
  BY DEF MprotectInv, Mprotect!MprotectTypeOK, Page, Mprotect!Page
<1>1. Mprotect!Listed(p) = {i \in 1 .. Len(pages) : pages[i].addr = p}
  BY <1>0 DEF Mprotect!Listed
<1>2. CASE Mprotect!Listed(p) = {}
  BY <1>0, <1>1, <1>2 DEF PageKept, FirstCopy, Mprotect!Kept
<1>3. CASE Mprotect!Listed(p) # {}
  <2> DEFINE m == Mprotect!Min(Mprotect!Listed(p))
  <2>1. PICK i \in 1 .. Len(pages) : FirstCopy(i, p)
    BY <1>0, <1>1, <1>3 DEF PageKept
  <2>2. m \in Mprotect!Listed(p) /\ \A y \in Mprotect!Listed(p) : m <= y
    <3>1. Mprotect!Listed(p) \subseteq Nat
      BY <1>0, <1>1
    <3> QED BY <1>3, <3>1, MinNat
  <2> HIDE DEF m
  <2>3. m = i
    BY <1>0, <1>1, <2>1, <2>2 DEF FirstCopy
  <2>4. Mprotect!Kept(p) = pages[m].mem
    BY <1>3 DEF Mprotect!Kept, m
  <2> QED BY <2>1, <2>3, <2>4 DEF FirstCopy
<1> QED BY <1>2, <1>3

(* Before the first checkpoint no page is protected and no call is under way. *)
LEMMA MprotectInitInv == Mprotect!Init => MprotectInv /\ TouchInv
<1> SUFFICES ASSUME Mprotect!Init PROVE MprotectInv /\ TouchInv
  OBVIOUS
<1> USE DEF Mprotect!Init, Mprotect!Page, Page
<1>1. mem \in [Page -> Val] /\ ckpt \in [Page -> Val] /\ initialized \in BOOLEAN /\ efault \in BOOLEAN
  OBVIOUS
<1>2. writable \subseteq Page /\ call \in Calls /\ todo \subseteq Page /\ mpc = "run"
  OBVIOUS
<1>3. pages \in Seq([addr : Page, mem : Val]) /\ Len(pages) <= MPROTECT_MAX_PAGES
  BY PageConstants
<1>4. ~initialized /\ ~efault
  OBVIOUS
<1> QED BY <1>1, <1>2, <1>3, <1>4 DEF MprotectInv, TouchInv, Mprotect!MprotectTypeOK

(* The handler saves a page that is about to change for the first time, or again. *)
LEMMA SaveKeeps ==
  ASSUME MprotectInv, NEW p \in Page, Mprotect!SaveAndUnprotect(p),
         UNCHANGED <<mem, ckpt, initialized>>
  PROVE  /\ pages' \in Seq([addr : Page, mem : Val]) /\ Len(pages') <= MPROTECT_MAX_PAGES
         /\ writable \subseteq writable' /\ writable' \subseteq Page
         /\ mpc' \in {mpc, "abort"}
         /\ initialized => WritableListed' /\ \A q \in Page \ StdioPages : PageKept(q)'
<1>0. /\ pages \in Seq([addr : Page, mem : Val]) /\ Len(pages) <= MPROTECT_MAX_PAGES
      /\ writable \subseteq Page /\ mem \in [Page -> Val]
  BY DEF MprotectInv, Mprotect!MprotectTypeOK, Page, Mprotect!Page
<1>1. CASE UNCHANGED <<pages, writable>> /\ mpc' = "abort"
  BY <1>0, <1>1 DEF MprotectInv, WritableListed, PageKept, FirstCopy
<1>2. CASE /\ Len(pages) < MPROTECT_MAX_PAGES
           /\ pages' = Append(pages, [addr |-> p, mem |-> mem[p]])
           /\ writable' = writable \cup {p}
           /\ mpc' = mpc
  <2>1. /\ Len(pages') = Len(pages) + 1 /\ Len(pages) \in Nat
        /\ \A i \in 1 .. Len(pages) : pages'[i] = pages[i]
        /\ pages'[Len(pages) + 1].addr = p /\ pages'[Len(pages) + 1].mem = mem[p]
    BY <1>0, <1>2
  <2>2. pages' \in Seq([addr : Page, mem : Val]) /\ Len(pages') <= MPROTECT_MAX_PAGES
    BY <1>0, <1>2, <2>1, PageConstants
  <2>3. ASSUME initialized PROVE WritableListed'
    <3>1. ASSUME NEW q \in writable' PROVE \E i \in 1 .. Len(pages') : pages'[i].addr = q
      <4>1. CASE q = p
        BY <2>1, <4>1
      <4>2. CASE q \in writable
        BY <2>1, <2>3, <4>2 DEF MprotectInv, WritableListed
      <4> QED BY <1>2, <3>1, <4>1, <4>2
    <3> QED BY <3>1 DEF WritableListed
  <2>4. ASSUME initialized, NEW q \in Page \ StdioPages PROVE PageKept(q)'
    <3>0. PageKept(q)
      BY <2>4 DEF MprotectInv
    <3>1. CASE q # p \/ \E i \in 1 .. Len(pages) : FirstCopy(i, q)
      BY <2>1, <3>0, <3>1 DEF PageKept, FirstCopy
    <3>2. CASE q = p /\ mem[p] = ckpt[p] /\ \A i \in 1 .. Len(pages) : pages[i].addr # p
      <4>1. PICK n \in Nat : n = Len(pages) + 1
        BY <2>1
      <4>2. FirstCopy(n, q)'
        BY <2>1, <3>2, <4>1 DEF FirstCopy
      <4> QED BY <2>1, <4>1, <4>2 DEF PageKept
    <3> QED BY <3>0, <3>1, <3>2 DEF PageKept
  <2> QED BY <1>0, <1>2, <2>2, <2>3, <2>4
<1> QED BY <1>1, <1>2 DEF Mprotect!SaveAndUnprotect

(* Every step keeps the list complete; one case per action. *)
LEMMA MprotectNextInv == MprotectInv /\ Mprotect!Next => MprotectInv'
<1> SUFFICES ASSUME MprotectInv, Mprotect!Next PROVE MprotectInv'
  OBVIOUS
<1>0. /\ mem \in [Page -> Val] /\ ckpt \in [Page -> Val]
      /\ initialized \in BOOLEAN /\ efault \in BOOLEAN
      /\ writable \subseteq Page
      /\ pages \in Seq([addr : Page, mem : Val]) /\ Len(pages) <= MPROTECT_MAX_PAGES
      /\ call \in Calls /\ todo \subseteq Page
      /\ mpc \in {"run", "touch", "kernel", "abort"}
  BY DEF MprotectInv, Mprotect!MprotectTypeOK, Page, Mprotect!Page
<1>1. ASSUME initialized
      PROVE  WritableListed /\ \A p \in Page \ StdioPages : PageKept(p)
  BY <1>1 DEF MprotectInv
<1>2. ASSUME /\ mem' \in [Page -> Val] /\ ckpt' \in [Page -> Val]
             /\ initialized' \in BOOLEAN /\ efault' \in BOOLEAN
             /\ writable' \subseteq Page
             /\ pages' \in Seq([addr : Page, mem : Val]) /\ Len(pages') <= MPROTECT_MAX_PAGES
             /\ call' \in Calls /\ todo' \subseteq Page
             /\ mpc' \in {"run", "touch", "kernel", "abort"}
      PROVE  Mprotect!MprotectTypeOK'
  BY <1>2 DEF Mprotect!MprotectTypeOK, Page, Mprotect!Page
<1>3. ASSUME UNCHANGED <<ckpt, initialized, pages, writable>>,
             \A q \in Page \ StdioPages : initialized => q \in writable \/ mem'[q] = mem[q]
      PROVE  initialized' => WritableListed' /\ \A q \in Page \ StdioPages : PageKept(q)'
  <2>1. WritableListed => WritableListed'
    BY <1>3 DEF WritableListed
  <2>2. ASSUME initialized, NEW q \in Page \ StdioPages PROVE PageKept(q)'
    <3>1. PageKept(q) /\ (q \in writable => \E i \in 1 .. Len(pages) : pages[i].addr = q)
      BY <1>1, <2>2 DEF WritableListed
    <3> QED BY <1>3, <2>2, <3>1 DEF PageKept, FirstCopy
  <2> QED BY <1>1, <1>3, <2>1, <2>2
<1>4. ASSUME NEW p \in Page, Mprotect!PageFault(p) PROVE MprotectInv'
  <2>1. UNCHANGED <<mem, ckpt, initialized, call, todo, efault>>
    BY <1>4 DEF Mprotect!PageFault
  <2>2. Mprotect!SaveAndUnprotect(p)
    BY <1>4 DEF Mprotect!PageFault
  <2> QED BY <1>0, <1>2, <2>1, <2>2, SaveKeeps DEF MprotectInv
<1>5. ASSUME NEW p \in Page, NEW v \in Val, Mprotect!Store(p, v) PROVE MprotectInv'
  <2>1. UNCHANGED <<ckpt, initialized, writable, pages, call, todo, mpc, efault>>
    BY <1>5 DEF Mprotect!Store
  <2>2. mem' \in [Page -> Val] /\ \A q \in Page : q \in writable \/ mem'[q] = mem[q]
    BY <1>0, <1>5 DEF Mprotect!Store
  <2> QED BY <1>0, <1>2, <1>3, <2>1, <2>2 DEF MprotectInv
<1>6. CASE Mprotect!top_of_the_loop
  <2>1. initialized' = TRUE /\ ckpt' = mem /\ pages' = <<>> /\ UNCHANGED <<mem, call, todo, mpc, efault>>
    BY <1>6 DEF Mprotect!top_of_the_loop
  <2>2. writable' = {}
    <3>1. CASE initialized
      <4>1. writable \subseteq {pages[i].addr : i \in DOMAIN pages}
        BY <1>0, <1>1, <3>1 DEF WritableListed
      <4> QED BY <1>6, <3>1, <4>1 DEF Mprotect!top_of_the_loop
    <3>2. CASE ~initialized
      BY <1>6, <3>2 DEF Mprotect!top_of_the_loop
    <3> QED BY <3>1, <3>2
  <2>3. pages' \in Seq([addr : Page, mem : Val]) /\ Len(pages') = 0
    BY <2>1
  <2>4. WritableListed' /\ \A q \in Page : PageKept(q)'
    BY <1>0, <2>1, <2>2, <2>3 DEF WritableListed, PageKept
  <2>5. Mprotect!MprotectTypeOK'
    BY <1>0, <1>2, <2>1, <2>2, <2>3, PageConstants
  <2> QED BY <2>4, <2>5 DEF MprotectInv
<1>7. ASSUME NEW v \in Val, Mprotect!ctx_print(v) PROVE MprotectInv'
  <2>1. UNCHANGED <<ckpt, initialized, pages, call, todo, mpc, efault>> /\ writable' \subseteq writable
    BY <1>7 DEF Mprotect!ctx_print
  <2>2. mem' \in [Page -> Val] /\ \A q \in Page \ StdioPages : mem'[q] = mem[q]
    BY <1>0, <1>7 DEF Mprotect!ctx_print, Page, Mprotect!Page
  <2>3. ASSUME initialized
        PROVE  WritableListed' /\ \A q \in Page \ StdioPages : PageKept(q)'
    BY <1>1, <2>1, <2>2, <2>3 DEF WritableListed, PageKept, FirstCopy
  <2>4. Mprotect!MprotectTypeOK'
    BY <1>0, <1>2, <2>1, <2>2
  <2> QED BY <2>1, <2>3, <2>4 DEF MprotectInv
<1>8. ASSUME NEW c \in Calls, Mprotect!Wrapper(c) PROVE MprotectInv'
  <2>1. /\ UNCHANGED <<mem, ckpt, initialized, writable, pages>> /\ efault' = FALSE
        /\ call' = c /\ todo' = Mprotect!Touched(c) /\ mpc' = "touch"
    BY <1>8 DEF Mprotect!Wrapper
  <2>2. todo' \subseteq Page
    BY <2>1, TouchedType
  <2> QED BY <1>0, <1>2, <1>3, <2>1, <2>2 DEF MprotectInv
<1>9. ASSUME NEW p \in Page, Mprotect!Touch(p) PROVE MprotectInv'
  <2>1. UNCHANGED <<mem, ckpt, initialized, call, efault>>
    BY <1>9 DEF Mprotect!Touch
  <2>2. CASE todo' = todo \ {p} /\ UNCHANGED <<pages, writable, mpc>>
    <3>1. todo' \subseteq Page
      BY <1>0, <2>2
    <3> QED BY <1>0, <1>2, <1>3, <2>1, <2>2, <3>1 DEF MprotectInv
  <2>3. CASE Mprotect!SaveAndUnprotect(p) /\ UNCHANGED todo
    BY <1>0, <1>2, <2>1, <2>3, SaveKeeps DEF MprotectInv
  <2> QED BY <1>9, <2>2, <2>3 DEF Mprotect!Touch
<1>10. CASE Mprotect!EnterKernel
  BY <1>0, <1>2, <1>3, <1>10 DEF Mprotect!EnterKernel, MprotectInv
<1>11. ASSUME NEW v \in Val, NEW w \in SUBSET Page, Mprotect!Kernel(v, w) PROVE MprotectInv'
  <2>1. UNCHANGED <<ckpt, initialized, writable, pages, call, todo>> /\ mpc' = "run"
    BY <1>11 DEF Mprotect!Kernel
  <2>2. /\ efault' \in BOOLEAN /\ mem' \in [Page -> Val]
        /\ \A q \in Page : q \in writable \/ mem'[q] = mem[q]
    BY <1>0, <1>11 DEF Mprotect!Kernel, Page, Mprotect!Page
  <2> QED BY <1>0, <1>2, <1>3, <2>1, <2>2 DEF MprotectInv
<1>12. Mprotect!Page = Page
  BY DEF Page, Mprotect!Page
<1> QED
  BY <1>4, <1>5, <1>6, <1>7, <1>8, <1>9, <1>10, <1>11, <1>12 DEF Mprotect!Next

(* Every step keeps the pages the wrapper has touched writable until the kernel has
   written to them. *)
LEMMA TouchNextInv ==
  ASSUME MprotectInv, TouchInv, Mprotect!Next
  PROVE  TouchInv'
<1>0. ASSUME UNCHANGED call
      PROVE  /\ Mprotect!Touched(call)' = Mprotect!Touched(call)
             /\ (\E b \in call.fills : ~Mprotect!Checked(b, call))' <=>
                  \E b \in call.fills : ~Mprotect!Checked(b, call)
  BY <1>0 DEF Mprotect!Touched, Mprotect!CheckedPages, Mprotect!PageOf, Mprotect!Checked
<1>1. CASE \/ \E p \in Mprotect!Page : Mprotect!PageFault(p)
           \/ \E p \in Mprotect!Page, v \in Val : Mprotect!Store(p, v)
           \/ Mprotect!top_of_the_loop
           \/ \E v \in Val : Mprotect!ctx_print(v)
  <2>1. mpc' \in {"run", "abort"} /\ UNCHANGED <<call, efault>>
    BY <1>1 DEF Mprotect!PageFault, Mprotect!SaveAndUnprotect, Mprotect!Store,
                Mprotect!top_of_the_loop, Mprotect!ctx_print
  <2> QED BY <1>0, <2>1 DEF TouchInv
<1>2. ASSUME NEW c \in Calls, Mprotect!Wrapper(c) PROVE TouchInv'
  <2>1. mpc' = "touch" /\ ~efault'
    BY <1>2 DEF Mprotect!Wrapper
  <2>2. Mprotect!Touched(call)' = todo'
    BY <1>2 DEF Mprotect!Wrapper, Mprotect!Touched, Mprotect!CheckedPages, Mprotect!PageOf
  <2> QED BY <2>1, <2>2 DEF TouchInv
<1>3. ASSUME NEW p \in Page, Mprotect!Touch(p) PROVE TouchInv'
  <2>1. /\ mpc = "touch" /\ UNCHANGED <<call, efault>>
        /\ mpc' \in {"touch", "abort"} /\ writable \subseteq writable'
        /\ \/ UNCHANGED todo
           \/ todo' = todo \ {p} /\ p \in writable'
    BY <1>3 DEF Mprotect!Touch, Mprotect!SaveAndUnprotect
  <2> QED BY <1>0, <2>1 DEF TouchInv
<1>4. CASE Mprotect!EnterKernel
  <2>1. /\ mpc = "touch" /\ mpc' = "kernel" /\ todo = {}
        /\ UNCHANGED <<call, writable, efault>>
    BY <1>4 DEF Mprotect!EnterKernel
  <2> QED BY <1>0, <2>1 DEF TouchInv
<1>5. ASSUME NEW v \in Val, NEW w \in SUBSET Mprotect!Page, Mprotect!Kernel(v, w)
      PROVE  TouchInv'
  <2>1. /\ mpc = "kernel" /\ mpc' = "run" /\ UNCHANGED call
        /\ efault' = ~(Mprotect!Filled(call) \subseteq writable)
    BY <1>5 DEF Mprotect!Kernel
  <2>2. call \in Calls /\ Mprotect!Touched(call) \subseteq writable
    BY <2>1 DEF TouchInv, MprotectInv, Mprotect!MprotectTypeOK
  <2>3. efault' => \E b \in call.fills : ~Mprotect!Checked(b, call)
    BY <2>1, <2>2, TouchedCovers
  <2> QED BY <1>0, <2>1, <2>3 DEF TouchInv
<1>6. Mprotect!Page = Page
  BY DEF Page, Mprotect!Page
<1> QED BY <1>1, <1>2, <1>3, <1>4, <1>5, <1>6 DEF Mprotect!Next

LinkedMprotectInv == method = "mprotect" => MprotectInv
LinkedTouchInv    == method = "mprotect" => MprotectInv /\ TouchInv

(* The steps of the other methods are not steps of a program with write protection. *)
LEMMA LinkedMprotect ==
  /\ Init => LinkedMprotectInv
  /\ LinkedMprotectInv /\ [Next]_vars => LinkedMprotectInv'
<1>1. Init => LinkedMprotectInv
  BY MprotectInitInv DEF Init, LinkedMprotectInv
<1>2. ASSUME LinkedMprotectInv, Next PROVE LinkedMprotectInv'
  <2>1. CASE method = "mprotect" /\ Mprotect!Next /\ UNCHANGED method
    BY <1>2, <2>1, MprotectNextInv DEF LinkedMprotectInv
  <2>2. CASE method # "mprotect" /\ UNCHANGED method
    BY <2>2 DEF LinkedMprotectInv
  <2> QED BY <1>2, <2>1, <2>2 DEF Next
<1>3. ASSUME LinkedMprotectInv, UNCHANGED vars PROVE LinkedMprotectInv'
  BY <1>3
     DEF vars, mprotectVars, LinkedMprotectInv, MprotectInv, Mprotect!MprotectTypeOK,
         WritableListed, PageKept, FirstCopy
<1> QED BY <1>1, <1>2, <1>3

(* The same with the pages that have been touched. *)
LEMMA LinkedTouch ==
  /\ Init => LinkedTouchInv
  /\ LinkedTouchInv /\ [Next]_vars => LinkedTouchInv'
<1>1. Init => LinkedTouchInv
  BY MprotectInitInv DEF Init, LinkedTouchInv
<1>2. ASSUME LinkedTouchInv, Next PROVE LinkedTouchInv'
  <2>1. CASE method = "mprotect" /\ Mprotect!Next /\ UNCHANGED method
    BY <1>2, <2>1, MprotectNextInv, TouchNextInv DEF LinkedTouchInv
  <2>2. CASE method # "mprotect" /\ UNCHANGED method
    BY <2>2 DEF LinkedTouchInv
  <2> QED BY <1>2, <2>1, <2>2 DEF Next
<1>3. ASSUME LinkedTouchInv, UNCHANGED vars PROVE LinkedTouchInv'
  <2>1. TouchInv => TouchInv'
    BY <1>3 DEF vars, mprotectVars, TouchInv, Mprotect!Touched, Mprotect!CheckedPages,
                Mprotect!PageOf, Mprotect!Checked
  <2>2. LinkedMprotectInv'
    BY <1>3, LinkedMprotect DEF LinkedTouchInv, LinkedMprotectInv
  <2>3. method' = method
    BY <1>3 DEF vars
  <2> QED BY <1>3, <2>1, <2>2, <2>3 DEF LinkedTouchInv, LinkedMprotectInv
<1> QED BY <1>1, <1>2, <1>3

(* Each page, but for those printing writes to, is as at the checkpoint or has its
   contents at the checkpoint first in the list, although printing the statistics
   protects pages a second time (ltckpt_page_list_add, ltckpt_mprotect_vmas). *)
THEOREM MprotectKeepsCheckpoint == Spec => []MprotectRecoverable
<1>1. LinkedMprotectInv => MprotectRecoverable
  BY MprotectInvKeeps DEF LinkedMprotectInv, MprotectRecoverable
<1> QED BY <1>1, LinkedMprotect, PTL DEF Spec

(* Whatever the wrapped system calls, their buffers and the state of the pages: the
   kernel returns EFAULT only for a buffer that the wrapper does not check over its
   whole length.  One byte in every PAGE_SIZE and the last do for a buffer of any size
   and alignment, one byte for a structure within a page (LTCKPT_CHECK_BUFF,
   LTCKPT_CHECK_WRITE). *)
THEOREM MprotectAvoidsEfault == Spec => []EfaultOnlyUnchecked
<1>1. LinkedTouchInv => EfaultOnlyUnchecked
  BY DEF LinkedTouchInv, TouchInv, EfaultOnlyUnchecked, Mprotect!EfaultOnlyUnchecked
<1> QED BY <1>1, LinkedTouch, PTL DEF Spec

=============================================================================
