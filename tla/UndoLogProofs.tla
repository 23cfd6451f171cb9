---------------------------- MODULE UndoLogProofs ----------------------------
(***************************************************************************)
(* The undo log rolls back exactly, for every memory size, region size,    *)
(* log length and checkpoint interval, provided each hook logs every       *)
(* region its access touches (CoveredAccesses).  The inductive invariant   *)
(* is LogInv: what is not in the log is unchanged, what is in it is there  *)
(* first with its value at the checkpoint, and the regions already passed  *)
(* by the hook under way are in it.                                        *)
(***************************************************************************)
EXTENDS UndoLog, TLAPS

CoveredAccesses == \A a \in Accesses : Covered(a)

\* The regions a hook has passed are in the log.
HookProgress ==
  pc = "hook" => \A i \in DOMAIN HookRegions(acc) :
                    i < idx => Logged(HookRegions(acc)[i])

\* No entry is for the log's own memory: ltckpt_write_wl panics first.
NoneOfTheLog == \A i \in 1 .. Len(wl) : wl[i].addr \notin LogRegions

LogInv == /\ UnloggedUnchanged
          /\ FirstCopyIsCheckpoint
          /\ HookProgress
          /\ NoneOfTheLog

-----------------------------------------------------------------------------
\* What ltckpt_write_wl appends is an entry: a region and a copy of its bytes.
LEMMA EntryType ==
  ASSUME NEW r \in Region, NEW m \in [Addr -> Val]
  PROVE  /\ EntryOf(r, m) \in Entry
         /\ EntryOf(r, m).addr = r
         /\ \A a \in Cells(r) : EntryOf(r, m).data[a] = m[a]
<1>1. [a \in Cells(r) |-> m[a]] \in [Cells(r) -> Val]
  BY DEF Cells
<1> QED
  BY <1>1 DEF EntryOf, Entry

\* An entry names a region and holds one value for each of its bytes.
LEMMA EntryFields ==
  ASSUME NEW e \in Entry
  PROVE  e.addr \in Region /\ e.data \in [Cells(e.addr) -> Val]
BY DEF Entry

\* The log after wl_position is decremented has the length asked for.
LEMMA PrefixLen ==
  ASSUME NEW S, NEW s \in Seq(S), NEW m \in Nat, m <= Len(s)
  PROVE  Len(SubSeq(s, 1, m)) = m
OBVIOUS

\* What the memcpy hook's loop passes: every multiple of the region size from
\* its start, as long as it lies below the end of the copy.
LEMMA LoopBound ==
  ASSUME NEW x \in Nat, NEW g \in Nat \ {0}, NEW k \in 1 .. ((x + g - 1) \div g)
  PROVE  g * (k - 1) < x
<1>1. PICK q \in Int : q = (x + g - 1) \div g
  OBVIOUS
<1>2. g * q <= x + g - 1
  BY <1>1
<1>3. k \in Int /\ k <= q
  BY <1>1
<1>4. g * k <= g * q
  BY <1>3
<1>5. g * (k - 1) = g * k - g
  BY <1>3
<1> QED
  BY <1>2, <1>3, <1>4, <1>5

\* A hook logs only regions of the application's memory.
LEMMA HookRegionsType ==
  ASSUME NEW a \in Accesses
  PROVE  HookRegions(a) \in Seq(Region)
<1> USE ConstantsAssumption
<1>1. a \in AccessType /\ Bytes(a) \subseteq Addr
  OBVIOUS
<1>2. CASE a.hook = "store"
  <2>1. a.addr \in Addr
    BY <1>1 DEF AccessType
  <2>2. RegionOf(a.addr) \in Region
    BY <2>1 DEF Region
  <2> QED
    BY <1>2, <2>2 DEF HookRegions
<1>3. CASE a.hook # "store"
  <2> DEFINE reg == a.addr - (a.addr % MEMCPY_ALIGN)
             x == a.addr + a.size - reg
             n == (x + GRANULARITY - 1) \div GRANULARITY
  <2>1. a.addr \in Nat /\ a.size \in Nat \ {0}
    BY <1>1 DEF AccessType, Addr
  <2>2. (a.addr % MEMCPY_ALIGN) \in Nat /\ (a.addr % MEMCPY_ALIGN) <= a.addr
    BY <2>1
  <2>3. reg \in Nat /\ reg <= a.addr /\ x \in Nat
    BY <2>1, <2>2
  <2>4. a.addr + a.size - 1 \in Addr
    BY <1>1, <2>1 DEF Bytes
  <2>5. n \in Nat
    BY <2>3
  <2>6. ASSUME NEW k \in 1 .. n PROVE RegionOf(reg + GRANULARITY * (k - 1)) \in Region
    <3>1. GRANULARITY * (k - 1) < x
      BY <2>3, <2>6, LoopBound
    <3>2. GRANULARITY * (k - 1) \in Nat
      BY <2>5, <2>6
    <3>3. PICK y \in Nat : y = GRANULARITY * (k - 1) /\ y < x
      BY <3>1, <3>2
    <3>4. reg + y < a.addr + a.size
      BY <2>1, <2>3, <3>3
    <3>5. reg + y \in Addr
      <4> HIDE DEF reg, x, n
      <4> QED BY <2>1, <2>3, <2>4, <3>3, <3>4 DEF Addr
    <3> QED
      BY <3>3, <3>5 DEF Region
  <2>7. HookRegions(a) = [k \in 1 .. n |-> RegionOf(reg + GRANULARITY * (k - 1))]
    BY <1>3 DEF HookRegions
  <2> HIDE DEF reg, x, n
  <2> QED
    BY <2>5, <2>6, <2>7
<1> QED
  BY <1>2, <1>3

-----------------------------------------------------------------------------
\* Type correctness of the undo log: the log never outgrows its buffer, and
\* every entry is a region with a copy of exactly its bytes.
THEOREM TypeCorrect == Spec => []TypeOK
<1> USE ConstantsAssumption
<1>1. Init => TypeOK
  BY DEF Init, TypeOK
<1>2. TypeOK /\ [Next]_vars => TypeOK'
  <2> SUFFICES ASSUME TypeOK, [Next]_vars PROVE TypeOK'
    OBVIOUS
  <2> USE DEF TypeOK
  <2>1. CASE \E a \in Accesses : Begin(a)
    BY <2>1 DEF Begin
  <2>2. CASE write_wl
    <3> DEFINE r == HookRegions(acc)[idx]
    <3>1. HookRegions(acc) \in Seq(Region) /\ idx \in 1 .. Len(HookRegions(acc))
      BY <2>2, HookRegionsType DEF write_wl
    <3>2. CASE wl' = wl
      BY <2>2, <3>2 DEF write_wl
    <3>3. CASE wl' = Append(wl, EntryOf(r, mem)) /\ Len(wl) < MAXLEN
      <4>1. r \in Region
        BY <3>1
      <4>2. EntryOf(r, mem) \in Entry
        BY <4>1, EntryType
      <4> QED
        BY <2>2, <3>3, <4>2 DEF write_wl
    <3> QED
      BY <2>2, <3>2, <3>3 DEF write_wl
  <2>3. CASE \E new \in Images : Access(new)
    BY <2>3 DEF Access
  <2>9. CASE \E new \in Images, r \in Region : AccessFaults(new, r)
    BY <2>9 DEF AccessFaults
  <2>4. CASE top_of_the_loop
    <3>1. num_tols' \in Nat
      BY <2>4 DEF top_of_the_loop
    <3>2. wl' \in Seq(Entry) /\ Len(wl') <= MAXLEN /\ ckpt' \in [Addr -> Val]
      <4>1. CASE CheckpointDue
        BY <2>4, <4>1 DEF top_of_the_loop
      <4>2. CASE ~CheckpointDue
        BY <2>4, <4>2 DEF top_of_the_loop
      <4> QED BY <4>1, <4>2
    <3> QED
      BY <2>4, <3>1, <3>2 DEF top_of_the_loop
  <2>5. CASE Crash
    BY <2>5 DEF Crash
  <2>6. CASE RestartStep
    <3> DEFINE e == wl[Len(wl)]
    <3>1. Len(wl) \in 1 .. Len(wl) /\ e \in Entry
      BY <2>6 DEF RestartStep
    <3>2. CopyBack(e) \in [Addr -> Val]
      <4>1. e.data \in [Cells(e.addr) -> Val]
        BY <3>1, EntryFields
      <4> QED
        BY <4>1 DEF CopyBack, Cells
    <3>3. SubSeq(wl, 1, Len(wl) - 1) \in Seq(Entry) /\ Len(SubSeq(wl, 1, Len(wl) - 1)) <= MAXLEN
      BY <3>1
    <3> QED
      BY <2>6, <3>2, <3>3 DEF RestartStep
  <2>7. CASE RestartDone
    BY <2>7 DEF RestartDone
  <2>8. CASE UNCHANGED vars
    BY <2>8 DEF vars
  <2> QED
    BY <2>1, <2>2, <2>3, <2>4, <2>5, <2>6, <2>7, <2>8, <2>9 DEF Next
<1> QED
  BY <1>1, <1>2, PTL DEF Spec

-----------------------------------------------------------------------------
\* LogInv is a function of the log, memory, checkpoint and hook progress: a
\* step that changes neither and starts no hook keeps it.
LEMMA LogInvFrame ==
  ASSUME LogInv, UNCHANGED <<mem, wl, ckpt>>,
         pc' = "hook" => (pc = "hook" /\ UNCHANGED <<acc, idx>>)
  PROVE  LogInv'
BY DEF LogInv, UnloggedUnchanged, FirstCopyIsCheckpoint, HookProgress,
       NoneOfTheLog, Logged

\* Logging one more region: the new entry matters only when it is the first for
\* its region, and then it copies memory the window has not changed yet.
LEMMA LogInvAppend ==
  ASSUME TypeOK, TypeOK', LogInv,
         NEW r \in Region, r \notin LogRegions,
         wl' = Append(wl, EntryOf(r, mem)),
         UNCHANGED <<mem, ckpt, acc, pc>>, idx' = idx + 1,
         idx \in DOMAIN HookRegions(acc), HookRegions(acc)[idx] = r
  PROVE  LogInv'
<1> DEFINE n == Len(wl)
<1>1. n \in Nat /\ Len(wl') = n + 1 /\ wl'[n + 1] = EntryOf(r, mem)
  BY EntryType DEF TypeOK
<1>2. \A i \in 1 .. n : wl'[i] = wl[i]
  BY EntryType DEF TypeOK
<1>3. wl'[n + 1].addr = r /\ \A a \in Cells(r) : wl'[n + 1].data[a] = mem[a]
  BY <1>1, EntryType DEF TypeOK
<1> HIDE DEF n
<1>4. \A q : Logged(q) => Logged(q)'
  <2> SUFFICES ASSUME NEW q, Logged(q) PROVE Logged(q)'
    OBVIOUS
  <2>1. PICK i \in 1 .. n : wl[i].addr = q
    BY DEF Logged, n
  <2> QED
    BY <1>1, <1>2, <2>1 DEF Logged
<1>5. Logged(r)'
  BY <1>1, <1>3 DEF Logged
<1>6. UnloggedUnchanged'
  BY <1>4 DEF LogInv, UnloggedUnchanged, RestoredAddr
<1>7. FirstCopyIsCheckpoint'
  <2> SUFFICES ASSUME NEW i \in 1 .. n + 1, Restored(wl'[i].addr),
                      \A j \in 1 .. i - 1 : wl'[j].addr # wl'[i].addr,
                      NEW a \in Cells(wl'[i].addr)
               PROVE  wl'[i].data[a] = ckpt[a]
    BY <1>1 DEF FirstCopyIsCheckpoint
  <2>1. CASE i \in 1 .. n
    <3>1. \A j \in 1 .. i - 1 : wl[j].addr # wl[i].addr
      BY <1>1, <1>2, <2>1
    <3> QED
      BY <1>2, <2>1, <3>1 DEF LogInv, FirstCopyIsCheckpoint, n
  <2>2. CASE i = n + 1
    <3>1. ~Logged(r)
      BY <1>1, <1>2, <1>3, <2>2 DEF Logged, n
    <3>2. a \in RestoredAddr /\ RegionOf(a) = r
      BY <1>3, <2>2 DEF Cells, RestoredAddr
    <3> QED
      BY <1>3, <2>2, <3>1, <3>2 DEF LogInv, UnloggedUnchanged
  <2> QED
    BY <1>1, <2>1, <2>2
<1>8. HookProgress'
  <2> SUFFICES ASSUME pc = "hook", NEW i \in DOMAIN HookRegions(acc), i < idx + 1
               PROVE  Logged(HookRegions(acc)[i])'
    BY DEF HookProgress
  <2>1. HookRegions(acc) \in Seq(Region)
    BY HookRegionsType DEF TypeOK
  <2>2. i \in Nat /\ idx \in Nat
    BY <2>1 DEF TypeOK
  <2>3. CASE i < idx
    BY <1>4, <2>3 DEF LogInv, HookProgress
  <2>4. CASE i = idx
    BY <1>5, <2>4
  <2> QED
    BY <2>2, <2>3, <2>4
<1>9. NoneOfTheLog'
  <2> SUFFICES ASSUME NEW i \in 1 .. n + 1 PROVE wl'[i].addr \notin LogRegions
    BY <1>1 DEF NoneOfTheLog
  <2> QED
    BY <1>1, <1>2, <1>3 DEF LogInv, NoneOfTheLog, n
<1> QED
  BY <1>6, <1>7, <1>8, <1>9 DEF LogInv

\* Undoing the last entry: either an earlier copy of the same region is left, or
\* this one was the first and memory now holds the checkpoint's contents.
LEMMA LogInvRestart ==
  ASSUME TypeOK, LogInv, RestartStep
  PROVE  LogInv'
<1> DEFINE n == Len(wl)
           e == wl[n]
<1>1. n \in Nat \ {0} /\ Len(wl') = n - 1 /\ e \in Entry
  <2>1. wl \in Seq(Entry) /\ n \in Nat /\ n > 0 /\ wl' = SubSeq(wl, 1, n - 1)
    BY DEF TypeOK, RestartStep
  <2> HIDE DEF n
  <2>2. Len(SubSeq(wl, 1, n - 1)) = n - 1
    <3>1. n - 1 \in Nat /\ n - 1 <= Len(wl)
      BY <2>1 DEF n
    <3> QED
      BY <2>1, <3>1, PrefixLen
  <2>3. wl[n] \in Entry
    BY <2>1 DEF n
  <2> QED
    BY <2>1, <2>2, <2>3
<1>2. \A i \in 1 .. n - 1 : wl'[i] = wl[i]
  BY <1>1 DEF TypeOK, RestartStep
<1> HIDE DEF n
<1>3. pc = "restart" /\ UNCHANGED <<pc, ckpt, acc, idx>>
  BY DEF RestartStep
<1>4. FirstCopyIsCheckpoint'
  <2> SUFFICES ASSUME NEW i \in 1 .. n - 1, Restored(wl'[i].addr),
                      \A j \in 1 .. i - 1 : wl'[j].addr # wl'[i].addr,
                      NEW a \in Cells(wl'[i].addr)
               PROVE  wl'[i].data[a] = ckpt[a]
    BY <1>1, <1>3 DEF FirstCopyIsCheckpoint
  <2>1. i \in 1 .. n /\ wl'[i] = wl[i]
    BY <1>1, <1>2
  <2>2. \A j \in 1 .. i - 1 : wl[j].addr # wl[i].addr
    BY <1>1, <1>2, <2>1
  <2> QED
    BY <2>1, <2>2 DEF LogInv, FirstCopyIsCheckpoint, n
<1>5. NoneOfTheLog'
  <2>1. \A i \in 1 .. n - 1 : wl[i].addr \notin LogRegions
    BY <1>1 DEF LogInv, NoneOfTheLog, n
  <2> QED
    BY <1>1, <1>2, <2>1 DEF NoneOfTheLog
<1>6. UnloggedUnchanged'
  <2> SUFFICES ASSUME NEW a \in RestoredAddr, ~Logged(RegionOf(a))'
               PROVE  mem'[a] = ckpt[a]
    BY <1>3 DEF UnloggedUnchanged, RestoredAddr
  <2>1. \A j \in 1 .. n - 1 : wl[j].addr # RegionOf(a)
    BY <1>1, <1>2 DEF Logged
  <2>2. a \in Addr /\ Restored(RegionOf(a))
    BY DEF RestoredAddr
  <2>3. CASE e.addr = RegionOf(a)
    <3>1. a \in Cells(e.addr)
      BY <2>2, <2>3 DEF Cells
    <3>2. e.data[a] = ckpt[a]
      BY <1>1, <2>1, <2>2, <2>3, <3>1 DEF LogInv, FirstCopyIsCheckpoint, n
    <3>3. mem' = CopyBack(e)
      BY <2>2, <2>3 DEF RestartStep, n
    <3> QED
      BY <2>2, <2>3, <3>2, <3>3 DEF CopyBack
  <2>4. CASE e.addr # RegionOf(a)
    <3>1. ~Logged(RegionOf(a))
      BY <1>1, <2>1, <2>4 DEF Logged, n
    <3>2. mem'[a] = mem[a]
      BY <2>2, <2>4 DEF RestartStep, CopyBack, n
    <3> QED
      BY <3>1, <3>2 DEF LogInv, UnloggedUnchanged
  <2> QED
    BY <2>3, <2>4
<1>7. HookProgress'
  BY <1>3 DEF HookProgress
<1> QED
  BY <1>4, <1>5, <1>6, <1>7 DEF LogInv

\* When its hook has returned, every byte an access writes is in a logged region.
LEMMA AccessIsLogged ==
  ASSUME CoveredAccesses, TypeOK, LogInv, pc = "hook", idx > Len(HookRegions(acc)),
         NEW a \in Bytes(acc)
  PROVE  Logged(RegionOf(a))
<1>1. PICK i \in DOMAIN HookRegions(acc) : HookRegions(acc)[i] = RegionOf(a)
  BY DEF CoveredAccesses, Covered, TypeOK
<1>2. HookRegions(acc) \in Seq(Region)
  BY HookRegionsType DEF TypeOK
<1>3. i < idx
  BY <1>1, <1>2 DEF TypeOK
<1> QED
  BY <1>1, <1>3 DEF LogInv, HookProgress

\* A write of some of the bytes of an access whose hook has returned keeps
\* LogInv: what it changes is logged.
LEMMA LogInvAccess ==
  ASSUME CoveredAccesses, TypeOK, LogInv, pc = "hook", idx > Len(HookRegions(acc)),
         UNCHANGED <<wl, ckpt>>, pc' # "hook",
         \A a \in Addr : a \notin Bytes(acc) => mem'[a] = mem[a]
  PROVE  LogInv'
<1>1. UnloggedUnchanged'
  <2> SUFFICES ASSUME NEW a \in RestoredAddr, ~Logged(RegionOf(a))
               PROVE  mem'[a] = ckpt[a]
    BY DEF UnloggedUnchanged, Logged
  <2>1. a \notin Bytes(acc)
    BY AccessIsLogged
  <2>2. mem'[a] = mem[a]
    BY <2>1 DEF RestoredAddr
  <2> QED
    BY <2>2 DEF LogInv, UnloggedUnchanged
<1> QED
  BY <1>1 DEF LogInv, FirstCopyIsCheckpoint, HookProgress, NoneOfTheLog

\* LogInv is preserved by every step of the undo log whose hooks cover their
\* accesses.
LEMMA LogInvStep ==
  ASSUME CoveredAccesses, TypeOK, TypeOK', LogInv, [Next]_vars
  PROVE  LogInv'
<1>1. CASE \E a \in Accesses : Begin(a)
  <2>1. PICK a \in Accesses : Begin(a)
    BY <1>1
  <2>2. HookRegions(acc') \in Seq(Region)
    BY <2>1, HookRegionsType DEF Begin
  <2>3. HookProgress'
    BY <2>1, <2>2 DEF HookProgress, Begin
  <2> QED
    BY <2>1, <2>3 DEF Begin, LogInv, UnloggedUnchanged, FirstCopyIsCheckpoint,
                      NoneOfTheLog, Logged
<1>2. CASE write_wl
  <2> DEFINE r == HookRegions(acc)[idx]
  <2>1. HookRegions(acc) \in Seq(Region) /\ idx \in DOMAIN HookRegions(acc)
    BY <1>2, HookRegionsType DEF write_wl, TypeOK
  <2>2. CASE wl' = wl
    BY <1>2, <2>1, <2>2, LogInvFrame DEF write_wl, TypeOK
  <2>3. CASE wl' # wl
    <3>1. /\ r \notin LogRegions
          /\ wl' = Append(wl, EntryOf(r, mem))
          /\ idx' = idx + 1
          /\ UNCHANGED <<mem, ckpt, acc, pc>>
      BY <1>2, <2>3 DEF write_wl
    <3>2. r \in Region
      BY <2>1
    <3> QED
      BY <2>1, <3>1, <3>2, LogInvAppend
  <2> QED
    BY <2>2, <2>3
<1>3. CASE \E new \in Images : Access(new)
  <2>1. PICK new \in Images : Access(new)
    BY <1>3
  <2> QED
    BY <2>1, LogInvAccess DEF Access
<1>9. CASE \E new \in Images, r \in Region : AccessFaults(new, r)
  <2>1. PICK new \in Images, r \in Region : AccessFaults(new, r)
    BY <1>9
  <2> QED
    BY <2>1, LogInvAccess DEF AccessFaults
<1>4. CASE top_of_the_loop
  <2>1. CASE CheckpointDue
    <3>1. wl' = <<>> /\ ckpt' = mem /\ mem' = mem /\ pc' = "run"
      BY <1>4, <2>1 DEF top_of_the_loop
    <3> QED
      BY <3>1 DEF LogInv, UnloggedUnchanged, FirstCopyIsCheckpoint, HookProgress,
                  NoneOfTheLog, RestoredAddr
  <2>2. CASE ~CheckpointDue
    BY <1>4, <2>2, LogInvFrame DEF top_of_the_loop
  <2> QED
    BY <2>1, <2>2
<1>5. CASE Crash
  BY <1>5, LogInvFrame DEF Crash
<1>6. CASE RestartStep
  BY <1>6, LogInvRestart
<1>7. CASE RestartDone
  BY <1>7, LogInvFrame DEF RestartDone
<1>8. CASE UNCHANGED vars
  BY <1>8, LogInvFrame DEF vars
<1> QED
  BY <1>1, <1>2, <1>3, <1>4, <1>5, <1>6, <1>7, <1>8, <1>9 DEF Next

\* The invariants of the undo log, and the property they are for: a restart
\* puts back every byte, whatever the window logged, in whatever order, and
\* wherever the crash hit (ltckpt_writelog.c, the restart hook).
THEOREM LogInvariance ==
  ASSUME CoveredAccesses
  PROVE  Spec => [](TypeOK /\ LogInv)
<1>1. Init => LogInv
  BY DEF Init, LogInv, UnloggedUnchanged, FirstCopyIsCheckpoint, HookProgress,
         NoneOfTheLog, RestoredAddr
<1>2. TypeOK /\ TypeOK' /\ LogInv /\ [Next]_vars => LogInv'
  BY LogInvStep
<1> QED
  BY <1>1, <1>2, TypeCorrect, PTL DEF Spec

\* With an empty log nothing is logged, so nothing differs from the checkpoint.
LEMMA EmptyLogExact ==
  ASSUME LogInv, wl = <<>>
  PROVE  \A a \in RestoredAddr : mem[a] = ckpt[a]
BY DEF LogInv, UnloggedUnchanged, Logged

\* When the restart loop has emptied the log, memory is the checkpoint.
THEOREM RollbackIsExact ==
  ASSUME CoveredAccesses
  PROVE  Spec => []RollbackExact
<1>1. LogInv => RollbackExact
  BY EmptyLogExact DEF RollbackExact
<1> QED
  BY <1>1, LogInvariance, PTL

\* The hooks miss nothing: memory that has no entry in the log is as it was at
\* the checkpoint.
THEOREM UnloggedIsUnchanged ==
  ASSUME CoveredAccesses
  PROVE  Spec => []UnloggedUnchanged
<1>1. LogInv => UnloggedUnchanged
  BY DEF LogInv
<1> QED
  BY <1>1, LogInvariance, PTL

\* The oldest entry of a region holds its contents at the checkpoint, however
\* often the region is logged after it.
THEOREM OldestEntryIsCheckpoint ==
  ASSUME CoveredAccesses
  PROVE  Spec => []FirstCopyIsCheckpoint
<1>1. LogInv => FirstCopyIsCheckpoint
  BY DEF LogInv
<1> QED
  BY <1>1, LogInvariance, PTL

\* An access whose hook has returned, whole or half done, spares the log: its
\* regions are logged, and the log's are not.
LEMMA AccessSparesLog ==
  ASSUME CoveredAccesses, TypeOK, LogInv, pc = "hook", idx > Len(HookRegions(acc)),
         NEW a \in Addr, RegionOf(a) \in LogRegions
  PROVE  a \notin Bytes(acc)
BY AccessIsLogged DEF LogInv, NoneOfTheLog, Logged

\* The log's own memory is never written by an access or by the restart: the
\* panic of ltckpt_write_wl comes before the access, however many regions its
\* hook has logged by then.
THEOREM LogIsProtected ==
  ASSUME CoveredAccesses
  PROVE  Spec => LogProtected
<1> DEFINE Spared == \A a \in Addr : RegionOf(a) \in LogRegions => mem'[a] = mem[a]
<1>1. TypeOK /\ LogInv /\ [Next]_vars => [Spared]_vars
  <2> SUFFICES ASSUME TypeOK, LogInv, Next, NEW a \in Addr, RegionOf(a) \in LogRegions
               PROVE  mem'[a] = mem[a]
    OBVIOUS
  <2>1. CASE \E new \in Images : Access(new)
    BY <2>1, AccessSparesLog DEF Access
  <2>2. CASE \E new \in Images, r \in Region : AccessFaults(new, r)
    BY <2>2, AccessSparesLog DEF AccessFaults
  <2>3. CASE RestartStep
    <3>1. Len(wl) \in 1 .. Len(wl)
      BY <2>3 DEF RestartStep, TypeOK
    <3>2. wl[Len(wl)].addr # RegionOf(a)
      BY <3>1 DEF LogInv, NoneOfTheLog
    <3> QED
      BY <2>3, <3>2 DEF RestartStep, CopyBack
  <2>4. CASE UNCHANGED mem
    BY <2>4
  <2> QED
    BY <2>1, <2>2, <2>3, <2>4 DEF Next, Begin, write_wl, top_of_the_loop, Crash, RestartDone
<1> QED
  BY <1>1, LogInvariance, PTL DEF Spec, LogProtected

-----------------------------------------------------------------------------
\* The undo log implements Checkpoint, the promise rcvry relies on.
THEOREM UndoLogRefinesCheckpoint ==
  ASSUME CoveredAccesses
  PROVE  Spec => ImplementsCheckpoint
<1>1. Init => Ckpt!Init
  <2> SUFFICES ASSUME Init PROVE Ckpt!Init
    OBVIOUS
  <2>1. mem \in [Addr -> Val] /\ ckpt = mem /\ pc = "run"
    BY ConstantsAssumption DEF Init
  <2> QED
    BY <2>1 DEF Ckpt!Init, RestoredAddr
<1>2. TypeOK /\ TypeOK' /\ LogInv /\ [Next]_vars => [Ckpt!Next]_(Ckpt!vars)
  <2> SUFFICES ASSUME TypeOK, TypeOK', LogInv, [Next]_vars
               PROVE  [Ckpt!Next]_(Ckpt!vars)
    OBVIOUS
  <2> USE DEF Ckpt!Next, Ckpt!vars
  <2>1. CASE \E a \in Accesses : Begin(a)
    BY <2>1 DEF Begin
  <2>2. CASE write_wl
    <3>1. CASE pc' = "restart"
      BY <2>2, <3>1 DEF write_wl, Ckpt!Rollback
    <3>2. CASE pc' # "restart"
      BY <2>2, <3>2 DEF write_wl
    <3> QED
      BY <3>1, <3>2
  <2>3. CASE \E new \in Images : Access(new)
    <3>1. pc = "hook" /\ pc' = "run" /\ ckpt' = ckpt
      BY <2>3 DEF Access
    <3>2. [a \in RestoredAddr |-> mem'[a]] \in [RestoredAddr -> Val]
      BY DEF TypeOK, RestoredAddr
    <3> QED
      BY <3>1, <3>2 DEF Ckpt!Write
  <2>9. CASE \E new \in Images, r \in Region : AccessFaults(new, r)
    BY <2>9 DEF AccessFaults, Ckpt!Rollback
  <2>4. CASE top_of_the_loop
    <3>1. CASE CheckpointDue
      BY <2>4, <3>1 DEF top_of_the_loop, Ckpt!TakeCheckpoint
    <3>2. CASE ~CheckpointDue
      BY <2>4, <3>2 DEF top_of_the_loop
    <3> QED
      BY <3>1, <3>2
  <2>5. CASE Crash
    BY <2>5 DEF Crash, Ckpt!Rollback
  <2>6. CASE RestartStep
    BY <2>6 DEF RestartStep
  <2>7. CASE RestartDone
    <3>1. \A a \in RestoredAddr : mem[a] = ckpt[a]
      BY <2>7, EmptyLogExact DEF RestartDone
    <3> QED
      BY <2>7, <3>1 DEF RestartDone, Ckpt!Resume
  <2>8. CASE UNCHANGED vars
    BY <2>8 DEF vars
  <2> QED
    BY <2>1, <2>2, <2>3, <2>4, <2>5, <2>6, <2>7, <2>8, <2>9 DEF Next
<1> QED
  BY <1>1, <1>2, LogInvariance, TypeCorrect, PTL DEF Spec, ImplementsCheckpoint, Ckpt!Spec

-----------------------------------------------------------------------------
\* Which accesses the hooks cover: a store that stays within one region, and a
\* memory intrinsic that starts at a region boundary.
NaturallyAligned(a) ==
  IF a.hook = "store"
    THEN (a.addr % GRANULARITY) + a.size <= GRANULARITY
    ELSE a.addr % GRANULARITY = 0 /\ a.addr % MEMCPY_ALIGN = 0

\* Quotient and remainder, as the region arithmetic of the hooks uses them.
LEMMA DivMod ==
  ASSUME NEW g \in Nat \ {0}, NEW x \in Nat
  PROVE  /\ x = g * (x \div g) + (x % g)
         /\ x \div g \in Nat
         /\ x % g \in 0 .. g - 1
OBVIOUS

\* An address between two multiples of the region size is in the region below.
LEMMA DivUnique ==
  ASSUME NEW g \in Nat \ {0}, NEW q \in Nat, NEW t \in 0 .. g - 1
  PROVE  (g * q + t) \div g = q
<1>1. PICK d \in Int : d = (g * q + t) \div g
  OBVIOUS
<1>2. g * d <= g * q + t /\ g * q + t < g * d + g
  BY <1>1
<1>3. CASE d < q
  <2>1. d + 1 <= q
    BY <1>3
  <2>2. g * (d + 1) <= g * q
    BY <2>1
  <2>3. g * (d + 1) = g * d + g
    OBVIOUS
  <2> QED
    BY <1>2, <2>2, <2>3
<1>4. CASE d > q
  <2>1. q + 1 <= d
    BY <1>4
  <2>2. g * (q + 1) <= g * d
    BY <2>1
  <2>3. g * (q + 1) = g * q + g
    OBVIOUS
  <2> QED
    BY <1>2, <2>2, <2>3
<1> QED
  BY <1>1, <1>3, <1>4

\* The hooks log every region a naturally aligned access touches
\* (LTCKPT_DECLARE_STORE_HOOK, LTCKPT_DECLARE_MEMCPY_HOOK).
THEOREM AlignedIsCovered ==
  ASSUME NEW b \in Accesses, NaturallyAligned(b)
  PROVE  Covered(b)
<1> DEFINE g == GRANULARITY
           p == b.addr \div g
<1>1. b.addr \in Nat /\ b.size \in Nat \ {0} /\ g \in Nat \ {0}
  BY ConstantsAssumption DEF AccessType, Addr
<1>2. b.addr = g * p + (b.addr % g) /\ p \in Nat /\ b.addr % g \in 0 .. g - 1
  BY <1>1, DivMod
<1> SUFFICES ASSUME NEW a \in Bytes(b)
             PROVE  \E i \in DOMAIN HookRegions(b) : HookRegions(b)[i] = RegionOf(a)
  BY DEF Covered
<1> DEFINE d == a - b.addr
<1>3. a = b.addr + d /\ d \in Nat /\ d < b.size
  BY <1>1 DEF Bytes
<1>4. CASE b.hook = "store"
  <2>1. (b.addr % g) + d \in 0 .. g - 1
    <3>1. (b.addr % g) + b.size <= g
      BY <1>4 DEF NaturallyAligned
    <3>2. PICK t \in 0 .. g - 1 : t = b.addr % g
      BY <1>2
    <3> HIDE DEF p, d, g
    <3> QED
      BY <1>1, <1>3, <3>1, <3>2
  <2>2. a = g * p + ((b.addr % g) + d)
    <3> HIDE DEF p, d, g
    <3> QED BY <1>1, <1>2, <1>3
  <2>3. RegionOf(a) = p
    <3> HIDE DEF p, d
    <3> QED BY <1>1, <1>2, <2>1, <2>2, DivUnique DEF RegionOf
  <2>4. HookRegions(b) = <<p>>
    BY <1>4 DEF HookRegions, RegionOf
  <2> QED
    BY <2>3, <2>4
<1>5. CASE b.hook # "store"
  <2> DEFINE n == (b.size + g - 1) \div g
             j == d \div g
             t == d % g
  <2>1. b.addr = g * p /\ b.addr % MEMCPY_ALIGN = 0
    BY <1>1, <1>2, <1>5 DEF NaturallyAligned
  <2>2. HookRegions(b) = [k \in 1 .. n |-> RegionOf(b.addr + g * (k - 1))]
    BY <1>1, <1>5, <2>1 DEF HookRegions
  <2>3. d = g * j + t /\ j \in Nat /\ t \in 0 .. g - 1
    BY <1>1, <1>3, DivMod
  <2>4. n \in Nat /\ b.size + g - 1 < g * n + g
    <3>1. b.size + g - 1 \in Nat
      BY <1>1
    <3>2. b.size + g - 1 = g * n + ((b.size + g - 1) % g) /\ n \in Nat
          /\ (b.size + g - 1) % g \in 0 .. g - 1
      BY <1>1, <3>1, DivMod
    <3> HIDE DEF n, g
    <3> QED BY <1>1, <3>2
  <2> HIDE DEF p, d, n, j, t, g
  <2>5. g * (j + 1) < g * (n + 1)
    <3>1. g * (j + 1) = g * j + g /\ g * (n + 1) = g * n + g
      BY <1>1, <2>3, <2>4
    <3> QED
      BY <1>1, <1>3, <2>3, <2>4, <3>1
  <2>6. j + 1 <= n
    <3> SUFFICES ASSUME j + 1 >= n + 1 PROVE FALSE
      BY <2>3, <2>4
    <3>1. g * (j + 1) >= g * (n + 1)
      BY <1>1, <2>3, <2>4
    <3>2. g * (j + 1) \in Int /\ g * (n + 1) \in Int
      BY <1>1, <2>3, <2>4
    <3> QED
      BY <2>5, <3>1, <3>2
  <2>7. a = g * (p + j) + t /\ b.addr + g * j = g * (p + j) + 0
    <3>1. g * (p + j) = g * p + g * j
      BY <1>1, <1>2, <2>3
    <3> QED
      BY <1>1, <1>2, <1>3, <2>1, <2>3, <3>1
  <2>8. RegionOf(a) = p + j /\ RegionOf(b.addr + g * j) = p + j
    <3>1. p + j \in Nat /\ 0 \in 0 .. g - 1
      BY <1>1, <1>2, <2>3
    <3>2. (g * (p + j) + t) \div g = p + j
      BY <1>1, <2>3, <3>1, DivUnique
    <3>3. (g * (p + j) + 0) \div g = p + j
      BY <1>1, <3>1, DivUnique
    <3> QED
      BY <2>7, <3>2, <3>3 DEF RegionOf, g
  <2>9. j + 1 \in 1 .. n /\ HookRegions(b)[j + 1] = RegionOf(b.addr + g * j)
    <3>1. j + 1 \in 1 .. n /\ (j + 1) - 1 = j
      BY <2>3, <2>4, <2>6
    <3> QED
      BY <2>2, <3>1
  <2> QED
    BY <2>2, <2>8, <2>9
<1> QED
  BY <1>4, <1>5

=============================================================================
