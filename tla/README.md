# FIRestarter: a TLA+ model of the recovery run-time

FIRestarter makes a server survive its own crashes. The compiler passes split the
program into *recovery windows*, each running from one library call to the next, and
give every function two clones: one that runs a window in a hardware transaction (TSX),
one that logs every store to an undo log. After a crash the run-time rolls memory back
to the last library call and makes that call appear to have returned an error
(`README.md:15-18` of the repository).

This directory holds the TLA+ modules that model that run-time, the TLC configurations
that check them, and the TLAPS proofs about them. All paths below are relative to the
repository (`src/` in `PROJECT.json`).

## Inventory

| Component | Files | State it keeps | Operations | What makes it correct |
|---|---|---|---|---|
| Undo log | `llvm/static/ltckpt/mechanisms/ltckpt_writelog.c` | `wl_data`, `wl_position`, checkpoint counter `num_tols` | store hook, memcpy hook, top-of-the-loop (TOL), end-of-window (EOW), restart | a restart leaves every byte as at the last TOL |
| Hardware transactions | `.../ltckpt_tsx.c` | the processor's transaction, `tries`, hit and fail counters | TOL with retry loop, EOW, `ltckpt_switch_to_undolog` | an abort leaves nothing behind; no transaction spans a library call |
| SIGSEGV handler, dispatch | `llvm/static/rcvry/rcvry_signal.c`, `rcvry_dispatch.{c,h}` | `rcvry_current_site_id`, `rcvry_current_tx_type`, `rcvry_libcall_gates`, `prev_site_id`, `repeat_count` | `rcvry_signal_action`, `rcvry_dispatch`, adaptation | memory is rolled back by the mechanism that protected it; recovery ends |
| Gates and clone checks | `llvm/passes/include/hybrcvry/HybRcvryPass.h` | (code inserted in the program) | window entry gate, return-value store, register save, tx-type check at function entry and return | clone, gate and type agree |
| Recovery actions | `rcvry_actions.c`, `RcvryHelper.h` | `rcvry_return_value`, arguments recorded per site, `freeList` | `rcvry_ra_*` | the call's effect is undone once, and an error the application understands is returned |
| Fault injection | `rcvry_fi.c` | `fault_probability` per site | `rcvry_fi_fatal_fault` | each enabled site faults once |
| Checkpointing passes | `llvm/passes/ltckpt/*.cpp` | (compile time) | insertion of hooks, double-store elimination, merging of hooks | every store that can change a checkpointed word has a hook that ran before it |
| Bitmap | `.../mechanisms/bitmap` | a byte per region, shadow space, 8-bit epoch | store and memcpy hooks, TOL, fork | each region is saved once per checkpoint, by whichever thread comes first |
| mprotect | `.../mechanisms/mprotect` | page protection, page list | SIGSEGV handler, TOL, wrappers of system calls | a page is saved before it changes; the kernel meets no protected page |
| Soft-dirty | `.../mechanisms/ltckpt_softdirty.c` | the kernel's page marks, increments | TOL: walk, clear | the increments add up to the checkpoint |
| Fork | `.../mechanisms/ltckpt_fork.c` | a clone of the process, its id | TOL, hook before exit | the clone is the checkpoint and does not outlive its process |
| MINIX recovery | `llvm/static/ltckpt/ltckpt_recover.c`, `__MINIX` parts of the undo log | window flag, policy mask, trusted-base flag, the current message, the log | window manager, policy hooks, fault injection, restart, dispatcher | a request is undone and answered once, or the machine goes down for a reason |
| Delayed free | `rcvry_actions.c:539-557` | `freeList` | add, flush | nothing is freed that a rollback brings back |

Interactions. The passes put the ltckpt hooks and the gate code into the application;
the hooks and the SIGSEGV handler share `rcvry_current_tx_type` and the gate array; the
handler calls the recovery action of `rcvry_current_site_id`, then the undo log's restart
hook, then restores the registers saved at that site's gate. None of these variables is
written in one place only: both EOW hooks, the TSX hook's switch, the adaptation macro
and the handler write gates or type, and that is where the hard behaviours are:

- a crash between a hook and its store, in the middle of a hook, between the EOW hook
  and the library call, in the error-handling code that recovery itself started, or
  before the first site;
- a transaction that aborts at any step, with all of memory (gates, counters, type)
  going back, and retries;
- one global type against per-site gates;
- a region logged several times; a log at its limit; an access that straddles regions;
- counters that are sampled, reset and compared in two different clones;
- threads that compete for a region while another one takes the checkpoint; a process that
  inherits another one's checkpoint; pages that are stored to while they are walked;
- a MINIX service that crashes again while its request is handled for the second time, or
  after its log is full, or whose recovery's own kernel calls fail.

`hazards` in `PROJECT.json` lists them at their lines, with the properties aimed at each.

## Modules

| Module | Models |
|---|---|
| `Checkpoint` | the abstract promise: one checkpoint, a crash takes memory back to it |
| `UndoLog` | `ltckpt_writelog.c` on Linux, byte by byte, hook step by hook step |
| `HybridRecovery` | both clones, gates, TSX, undo log, handler, fault injection, adaptation |
| `RecoveryActions` | what each recovery action does to the resource its library call acquired |
| `Mechanism` | constants of the four mechanisms below |
| `Bitmap`, `Mprotect`, `SoftDirty`, `ForkCheckpoint` | the other checkpointing mechanisms, one module each |
| `MinixRecovery` | a MINIX service, its recovery window and the dispatcher |
| `StoreHooks` | which stores the ltckptbasic pass gives a hook, and the run of the function |
| `MCUndoLog`, `MCHybridRecovery`, `MCRecoveryActions`, `MCMechanisms`, `MCMinixRecovery`, `MCStoreHooks` | instances for TLC |
| `UndoLogProofs`, `HybridRecoveryProofs`, `MinixRecoveryProofs`, `RecoveryActionsProofs`, `StoreHooksProofs` | theorems about the module of that name |
| `BitmapProofs`, `PageProofs`, `MechanismProofs` | theorems about the bitmap; about `Mprotect` and `SoftDirty`; about `ForkCheckpoint`, and the types of all four |

### UndoLog

Memory is a function from byte addresses to values; a region is `WRITELOG_GRANULARITY` (8)
bytes. An access first runs its hook (`Begin`, then one `write_wl` per region), then changes
memory (`Access`, or `AccessFaults` when an intrinsic faults half way); `Crash` can come
before, between and after. `HookRegions` is the address arithmetic of the store and memcpy
hooks, with the real 8 and the real `~0x3` in every run. `RestartStep` is one iteration of
the restart loop, from the end of the log. `top_of_the_loop` is `CTX_NEW_TOL_OR_RETURN`
(with `CP_INTERVAL`) and the reset of `wl_position`. `MAXLEN` is the number of entries
before the first page that faults; a write there is a crash with a full log. `ckpt` is a
history variable. What the hook refuses and what the restart skips differ: `ltckpt_write_wl`
panics on the log's memory (`LogRegions`), `ltckpt_can_restore` also skips the regions that
hold `wl_data` and `wl_position` (`ControlRegions`), which can be logged when application
data lies beside them.

Left out: statistics, the `STKCHKLOG` debug log, the MINIX restart, `mmap` of the log.

### HybridRecovery

`pc` says where execution is: `window` (application code), `pre` (between the EOW hook and
the call), `call` (in the library), `entry` (the gate, where the saved registers lead),
`tol` and `tolfail` (the TSX hook's retry loop), `crashed` (in the handler), `exit1`,
`exit2`. One action per step of the code:

| Action | Code |
|---|---|
| `Store` | an application store, in the undo clone preceded by its hook |
| `TxTypeCheck` | `insertTxTypeCheck`: the clone is chosen at function entry and return |
| `EndOfWindow` | the EOW hook of the running clone (`EndOfWindowTsx`, `EndOfWindowUndo`) |
| `NonFaultableCall` | a call of a library function that cannot fail: an EOW hook in the undo clone, nothing in the TSX clone |
| `NonFaultableWrite` | what many of these functions write (`strcpy`, `fgets`, `qsort`): unlogged in the undo clone, part of the transaction in the TSX clone |
| `FatalFault`, `Call` | `rcvry_fi_fatal_fault`, then the call |
| `LibWrite`, `Return` | the library writes application memory; return value, site id and registers are stored |
| `EnterTsx`, `EnterUndo` | the gate and the TOL hook of the clone it selects |
| `XBegin`, `XAbort`, `TolFailed` | the processor's transaction (external) and the retry loop |
| `Crash` | a fault outside a transaction (inside one it is `XAbort`) |
| `SegvGiveUp`, `SegvNoAction`, `SegvActionFails`, `SegvRecover` | `rcvry_signal_action` and `rcvry_dispatch` |

A transaction's snapshot `xsave` holds every variable that lives in memory, so an abort
takes back gates, counters and history too; `prev_site` and `repeat_count` are not in it
because no handler ever runs inside a transaction. The log keeps only the first copy of a
cell: `UndoLog` proves that this is what the real log amounts to. Recovery actions are
abstracted to their outcome, from `rcvry_info[s].rcvry_type`: an error is set (`RET`),
the undo may also fail (`UNDO`), or it always fails (`FAIL`). `HasTol` says whether a
site's TOL hook is still there: where a non-faultable call has none of its own, the pass
erases the next one of the basic block (`TolErased`). `EnterUndo` has the default
`CP_INTERVAL` of 1, with which every TOL call takes a checkpoint; the other intervals are in
`UndoLog` only. The same holds for `top_of_the_loop` of `MinixRecovery`.

The build options and run-time switches are constants, so one module covers the
configurations the repository ships: `RCVRY_CKPT_DONT_REMEMBER`,
`RCVRY_CKPT_DEFAULT_TO_UNDOLOG`, `RCVRY_AUTO_ADAPT`, `LTCKPT_NO_TSX_FOR_RCVRY_FAIL`,
`-hybrcvry-stm-libcalls`, `RCVRY_FI`.

### RecoveryActions

`HybridRecovery` treats an action as an outcome; this module says what the action does.
One window is followed from its library call (`LibCall`) over its gate (`Gate`) and its
crashes (`Crash`) to its end. `held` is a ledger of the objects that exist: `"new"` is the
one the call made, `"arg"` one that an argument names and that may have been there before
(`before` remembers). The handler finds its object through the return slot (`slot`, a local
variable of the calling function), through a pointer variable the library filled in (`out`,
often a local of the same function), or through an argument: which one follows from what
`RcvryHelper::setRecoveryAction` records and from what the `rcvry_ra_*` function reads, and
the two do not always agree. There is one action per `rcvry_ra_*` function, under its name.
Each ends in one of these ways: `Epilogue` (error and errno are set, then memory is rolled
back, which restores what the window's stores to slot, pointer variable and errno have logged
in `log`, and execution goes to the gate), `exit1` (`RCVRY_E_FAIL` for want of an effect to
undo), `failed` (`RCVRY_E_FAIL` because the undoing call failed of its own accord: `waitpid`
with `ECHILD`, `rmdir` of a directory that was filled since), `exit0` (a forked child
leaves), or `abort` (a signal raised by the handler itself: a failed assertion, glibc's check
for a second free), which `HybridRecovery` does not have. The pthread functions report errors
as positive numbers, which the actions' tests for -1 miss (`UndoFailsUnnoticed`).

`libCallRecoveryMap` holds one function or more for each recovery type that
`RcvryHelper::init` gives to a function with an action. The environment is a set of
functions for each disturbance: `ReuseFrame` (the function that made the call has returned
and its frame serves another), `StoreErrno` (the window stores to errno), `WindowFree` (it
frees its own allocation), `ChildExits`, `ZeroDescriptor` (a descriptor 0), `MayFail` (the
call itself fails), `UndoMayFail` (the undoing call does).

### Bitmap, Mprotect, SoftDirty, ForkCheckpoint

These mechanisms have no restart hook on Linux, so the property of each is that the
checkpoint could be put together from what it keeps (`...Recoverable`, `SoftDirtyComplete`);
`ckpt`, `taken` and `image` (soft-dirty) are history variables. `MCMechanisms` composes
them: `method` is the one that was linked (`LTCKPT_CHECKPOINT_METHOD`), the variables of
the others are unused.

- `Bitmap`: each thread steps through `_ltckpt_save_sized_region` (`set_bit`, `TestOld`,
  `CopyRegion`, then `LoadEpoch`, `CompareAndSwap`, `PutShadow`, or `MarkSaved` in the
  unsynchronized build), region by region, and then makes its access; the epoch that is
  swapped in is the one loaded before. `top_of_the_loop` advances the 8-bit epoch and
  replaces the bitmap when it wraps, in one step: that another thread may begin a hook in the
  middle of it is left out. `fork_prepare` is the interposed `fork`. `racy` records a
  checkpoint taken while another thread was inside a hook or between hook and store, `stale`
  the regions whose mark is an epoch that had passed when it was written.
- `Mprotect`: `PageFault` is the SIGSEGV handler, with the assertion on a full list;
  `ctx_print` the printing of statistics with all pages unprotected; `Wrapper`, `Touch`,
  `EnterKernel`, `Kernel` a system call through `mprotect_overrides.c`. A call is the set of
  its wrapper's checks (`LTCKPT_CHECK_WRITE` or `LTCKPT_CHECK_BUFF` on a buffer) and the set
  of the buffers the kernel fills, and the two need not agree.
- `SoftDirty`: the marks are read a batch at a time (`ReadMarks`: ten pages, or to the end of
  the memory area), then the pages of the batch are visited, one step each, and `Store`
  goes on during all of it. `gap` records the pages stored to after their mark was read, or
  after their copy, and before `clear_refs`.
- `ForkCheckpoint`: processes of the application, each with its clone. A process that the
  application forks inherits the clone's id (`heirs`), may kill it, and cannot reap it.

### MinixRecovery

`pc` follows a service through its message loop: `top` (the undo log is reset), `receive`,
`wait`, `handle`, and after a crash `crashed`, `restore` (one step per log entry),
`dispatch`; `aborted` is `sys_abort`, `failed` a recovery that SEF gives up. Memory has
words of the data segment and words above `datamax` (`StackCell`), which the restart skips.
`detect_start_of_window` is the window manager, `set_recovery` the three policy hooks,
`do_suicide_per_site` and `aop_hook_rwindowprof` the two places that inject a fault,
`restart`, `restore_entry` and `restore_done` the restart hook, and `recovery_dispatcher`
with its `recovery_*` operators the dispatcher. The build options of the Makefile and the
naive modes are fields of `build`. Every kernel call of the recovery may fail (`kfail`).
`base`, `effects`, `answers`, `full`, `injected`, `kfail`, `outcome` are history variables.
SEF and the kernel are external, and so is the pass that puts the policy hooks before the
handler's calls; its trusted base is trusted not to crash.

### StoreHooks

A function is a small graph of blocks; `onFunction` selects the stores of the pass,
`DoubleStores` those that `eliminateDoubleStores` drops, `addStore` and `dump` build and
emit the chains of `aggregateStores` in any order of the stores (the pass iterates over a
set of pointers). Then the function runs along any path, and a store whose word no hook has
saved in its window is what the properties forbid. Offsets are in words of 8 bytes.

## Runs

| Run | Question | Result |
|---|---|---|
| `undolog` | aligned accesses within a region, over two regions and into the log, one region beside `wl_position`, one of the log itself, a log of 3 entries, `CP_INTERVAL` 2, a crash at every step and half way through an access | exact rollback, the log's memory is never written, implements `Checkpoint` |
| `hybrid_dont_remember` | the main configuration | rollback, agreement of mechanisms, protected error path, bounded and ending recovery, implements `Checkpoint` |
| `hybrid_undolog` | everything through the undo log, with fault injection and non-faultable calls that write nothing | holds |
| `hybrid_remember` | gates are kept | holds: the type is UNDOLOG for good after the first switch |
| `hybrid_adapt` | the adaptation's counters, with library writes between sites and a site without its TOL hook | hold: rate at most 100 %, whole samples |
| `hybrid_non_faultable` | a non-faultable call in a logged window, type reset to TSX | **violated** |
| `actions` | functions whose action finds its object: one crash after a call that succeeded; for those that go through the return slot, calls that fail and three crashes of one window; reused frames, errno stores and failing undo calls for the functions that stand them | undone exactly, an error is returned, no abort, no exit |
| `actions_all` | every function, every disturbance | the handler ends unless it waits for a child |
| `actions_accept` | `accept` | **violated**: the listening socket is closed |
| `mechanisms` | bitmap with two threads and a wrapping epoch, mprotect with a page list that fills up, soft-dirty with stores during the walk, fork with heirs of a clone | each keeps the checkpoint, up to the exceptions its property names (3.2 million states) |
| `minix` | one call of each policy, a log of 3 entries, injected and other crashes, kernel calls that fail, rehandling, the naive modes | a recovered request leaves nothing behind, is answered once, and every requester hears of it (1.6 million states) |
| `store_hooks` | functions of three blocks with a branch and a loop: all with windows of both kinds in two blocks, all with stores to two words in two places of each block, all of those with at most four stores to three words | stores in logged windows are logged on every path, with and without the two optimizations (523 thousand states) |

The two violated runs are the `findings`.

The modules show more deviations than there are runs for; each appears with the constants
named here.

Undo log, run-time and recovery actions:

- `UndoLog` with an access `[hook |-> "memcpy", addr |-> 4, size |-> 8]`, a structure copied
  to an address aligned to 4 and not to 8: its last region is not logged, and
  `RollbackExact` fails (`ltckpt_writelog.c:242`).
- `NonFaultableCalls` with `"write"`, in the undo clone: what `strcpy`, `fgets` or `qsort`
  (`tx_common.h:39`) writes in a window is in no log, stays after a rollback, and
  `RollbackCorrect` fails.
- `TolErased = {<<"tsx", s1>>}`: the hook of `s1` was erased in place of the one that a
  non-faultable call before it did not have (`HybRcvryPass.h:389`). The window of `s1` runs
  without a transaction, and `RollbackCorrect` fails.
- `StmSites = {s1}`, a site of `-hybrcvry-stm-libcalls`: it keeps its gate while the type
  is reset, and `RollbackCorrect` fails (`ltckpt_writelog.c:316`).
- `CrashPoints` with `"call"`, or `FISites # {}`, without `DefaultToUndolog`: a
  fault after the EOW hook comes when the transaction is already committed, and
  `RollbackCorrect` fails (`HybRcvryPass.h:669`).
- `AutoAdapt` with `DontRemember`: `rcvry_dispatch.h:33` sets the gate for good and the
  type only until the next reset, so `RollbackCorrect` fails as with stm sites.
- `repeat_count` (`rcvry_signal.c:63-67`) is not reset when a window completes: the
  65th repeated crash of one site, with no other site's crash in between, is `exit(2)`
  however many of its windows completed.
- `Functions = {"mkdir"}`: recovery of a call that failed (`MayFail`) removes the older
  directory, and a second crash of the window exits (`rcvry_actions.c:459`).
- `SlotReuse` with `open`, `malloc`, `fork`, `dlopen`: the slot is read before the rollback
  (`rcvry_actions.c:351`), when it may hold another frame's data; with `getaddrinfo` and
  `posix_memalign` so is the variable the library filled, and what is freed through it may
  be no allocation.
- `UndoMayFail` with `pthread_mutex_init` or `pthread_mutex_trylock`: the failure of the
  undoing call passes for success (`rcvry_actions.c:507,530`).
- Not in an instance: `waitpid` interrupted by a signal (`fork` is not in `UndoMayFail` of
  `actions_all`, so that `HandlerReturns` does not owe its truth to it).
- `ErrnoStores` with `malloc`: the action sets errno (`rcvry_actions.c:42`), then the rollback
  (`rcvry_signal.c:94-98`) restores the errno that the window's store had logged, and
  `ErrorReturned` fails.
- `ZeroDescriptor` with `open`: `rcvry_ra_close` leaves descriptor 0 open
  (`rcvry_actions.c:359`); with `accept` or `connect` the action's assertion fails.
- `fdopen`: the stream is taken for a descriptor (`RcvryHelper.h:561`), and stays.
- `WindowFrees` with `malloc`: what the window freed is freed again (`rcvry_actions.c:263`).
- `setlocale`: the recorded `argc` is 1, the action asserts 2 (`RcvryHelper.h:531`).
- `dlopen` and `getpwnam` are made to return -1, where their callers test for NULL.
- `rcvry_ra_set_ret_errno` sets `EACCES` whatever errno was recorded (`rcvry_actions.c:245`).
- `fork`: the parent waits for a child that nothing ends (`rcvry_actions.c:405`); the
  exception in `HandlerReturns`.

Other mechanisms. Each of these is an exception that a property of `mechanisms` states, or
an assumption of `Mechanism`:

- Bitmap: a checkpoint taken while another thread is past its hook and before its store
  (`racy`); a region that such a thread marks with the epoch it loaded before
  (`bitmap_plain_epoch.h:85`) counts as saved when the counter comes to that value, at any
  later checkpoint (`stale`; without this exception TLC violates `BitmapRecoverable`); in a
  build without `LTCKPT_BITMAP_SYNCHRONIZE`, two threads lose copies (the assumption on
  `Builds`); `fork_prepare` moves the state that can be recovered to the moment of the fork
  (`ltckpt_bitmap_init.c:106`); a process that dies between the compare-and-swap and the
  copy has marked a region that is not in the shadow space.
- mprotect: `poll`, `epoll_wait` and `stat` touch one byte, `recvmsg` nothing of `msg_name`
  (`mprotect_overrides.c:45,53,141,114`), so that with a second, protected page the call
  fails: `efault` occurs in the run, as the exception in `EfaultOnlyUnchecked`. Two buffers
  that the wrappers do not check are no exception: the kernel ignores a failed copy of
  `select`'s remaining time and only reads `semop`'s array; the pages of the output buffer
  are written unprotected (`StdioPages`); the list has no lock; areas mapped after
  initialization are not tracked.
- Soft-dirty: a store between the read of the page's mark, or its copy, and `clear_refs` is
  in no increment (`gap`, `util/pagemap.h:111`, `ltckpt_softdirty.c:113-124`).
- Fork: an heir kills the clone of its parent, and panics when that clone has been reaped
  (`ltckpt_fork.c:43`); a process that crashes leaves its clone behind. Reuse of a process
  id is not modelled.

MINIX (`ltckpt_recover.c`):

- A fault that is still there when the request is handled again (`LTRC_REHANDLE_REQUEST`)
  recurs for ever; `RequestSettled` holds because `MaxCrashes` ends the faults.
- The hook of request-specific recovery sets the bit of idempotent recovery (`:362`), so
  that policy has no recovery of its own.
- The naive modes answer nobody, or keep going with half-undone state; `outcome`
  `"ignored"` and the conditions on `build.naive` in the properties are these.
  With `LTRC_NO_RECOVERY_ON_SVC_FI` a fault-injection request is dropped.
- The guard of `Crash` leaves out crashes of the message loop (`inside_trusted_compute_base`),
  which the code trusts not to crash and does not protect: after the answer, or between TOL
  and delivery, there is no window to go back to.

Pass (`ltCkptPassBasic.cpp`):

- A window that a called function began, in a block where a transaction began before, has
  stores without hooks (`:236`): the exception `callee` of `StoresLogged`.
- `eliminateDoubleStores` does not ask whether a window begins between the two stores
  (`:375`; built with `LLVM_HAS_DSA` only): the condition `OneWindow`.
- `aggregateStores` passes the largest offset as the size (`:104`): of an object whose
  first word is stored to, the last one is missed. `0 \in Words`, without the last condition of
  `OptimizedStoresLogged`, shows it.
- The pass runs `eliminateDoubleStores` and then, if asked to, `aggregateStores`
  (`:267-270`); `onFunction` has either of them alone. The hooks of memory intrinsics and
  the functions that are skipped by name or section (`:163-201`) are left out.

Bounds. Four regions of 8 bytes with two values are two of application data, one beside the
log's variables and one of the log: accesses lie within a region, across two, and
across the border to either of the others, and a region is logged twice; a log of 3 entries
overflows in the middle of a memcpy hook. Two or three sites cover every kind of recovery
action and "the same site again" against "another site in between"; two cells separate a
logged from an unlogged one. `MaxTries` 2 gives a first and a last try, `MaxNest` 2 an
inner transaction (a window entered while another is open), `RepeatLimit` (64 in the code)
is 1 or 2: one below, at and above the limit are all reached. The adaptation runs stop
counting hits at `CounterMod - 1` (constraint `HitsBound`), so that the wrap of the 32-bit
counter, 2^32 transactions away, is not among the states of a sample. In `RecoveryActions`
one window at a time is enough because an action reads nothing of an earlier one but the
slot; `MaxRecoveries` is 1 where the first recovery is the question, 2 for the second, 3
to reach a recovery after a repeated one (it is a function, so that one run can combine them).

In `mechanisms` two regions let two threads meet on one region and pass each other on two;
`EPOCH_MOD` 3 (256) has two usable epochs, so the wrap is met within a few checkpoints;
three pages of two bytes hold a buffer that starts and ends inside a page, one over all
pages, and a message in one page with its header and name in the others; a batch of two
pages out of three (10 in the code) gives a page whose mark is read long before its visit,
and a second batch. The page tables have 3 and 2 entries (1000 in the code): mprotect's list
fills up only through second copies, soft-dirty's as soon as all three pages are marked. Two
processes and three clones are a parent and an heir, each with a clone, and one more
checkpoint than that. In `minix` there is one crash beyond the injected one, enough for a
crash during rehandling; a log of 3 entries takes two copies of one word and one of another
before it closes the window; there is one site per policy that differs, and a message of
each kind that the code tells apart. In `store_hooks` three blocks with a branch and a back
edge give every relation between two stores: dominating, dominated, neither, and again
through the loop.

`CHECK_DEADLOCK` is off because a process may exit, panic or abort, and a function return.

Fairness. `WF(Runtime)`: hooks and handler are straight-line code of a running thread.
`WF(XAbort)`: a transaction that stays open is aborted by the next timer interrupt. The
application itself is not assumed fair: `RecoveryTerminates` allows error-handling code
that never makes another library call. `WF(Handler)` in `RecoveryActions` is the same
assumption for the actions; a forked child is not assumed to exit. In `MinixRecovery` the
message loop, the restart and the dispatcher are straight-line code; a handler is assumed
to answer a request that wants an answer and to return, and a message that is to be handled
again is still there; stores, faults and new messages are not assumed.

Every property of a passing run has a mutant, a change of the code that a slip could have
made (a log reset forgotten, a store logged too late, a walk in the wrong direction, a
guard dropped), under which TLC finds it violated.

## Proofs

TLAPS proves the theorems below for every value of the constants that the assumption of
the component's module allows (`ConstantsAssumption`, `HybridAssumption`,
`ActionsAssumption`, `MechanismAssumption`, `MinixAssumption`, `StoreHooksAssumption`).
Every invariant of a passing run is stated by one of them.

**Undo log** (`UndoLogProofs`). `TypeCorrect`; and, assuming that each hook logs every
region its access touches (`CoveredAccesses`), `RollbackIsExact`, `LogIsProtected`,
`UnloggedIsUnchanged`, `OldestEntryIsCheckpoint` and `UndoLogRefinesCheckpoint`. (A build
without `LTCKPT_LIBCALL_INTERVALS`, whose restart skips the stack, is an instance like any
other.) `RollbackExact` speaks only of the end of the restart loop, so the inductive
invariant `LogInv` says what holds in between: a byte whose region is not in the log is
unchanged (`UnloggedUnchanged`), the first entry of a region holds its contents at the
checkpoint (`FirstCopyIsCheckpoint`), the regions a hook under way has passed are in the log
(`HookProgress`), and none is the log's own memory (`NoneOfTheLog`). `LogIsProtected`
follows: where an access is about to write, its regions are in the log, so none of them is
the log's. The proof of `LogInvAppend` is the argument for logging a region again, that of
`LogInvRestart` the one for walking backwards. `AlignedIsCovered` discharges
`CoveredAccesses` for stores within a region and intrinsics that start at a region boundary;
the structure copy among the deviations is what happens otherwise.

**Run-time, any configuration** (`HybridRecoveryProofs`). `HybridTypeCorrect` and
`AttemptsBounded`: a window is recovered at most `RepeatLimit + 2` times, by an invariant
(`RepeatInv`) that relates the history's count of SIGSEGVs to the handler's statics.

**Run-time, consistent configurations.** `Consistent`: faults only inside windows, no stm
sites, no adaptation, gates not remembered, and either everything through the undo log or
neither fault injection nor hooked non-faultable calls; every site has kept its TOL hook.
The configurations of `hybrid_dont_remember` and `hybrid_undolog` are consistent. Under it
`IInv` is inductive. `GateInv` is the core: outside the window being executed all gates and
the type are at the default, and in it type, gate and clone agree; `TxInv` says what an open
transaction would come back to, `MemInv` that the checkpoint is recoverable from the log or
from the transaction, `SiteInv` that no window belongs to site 0 after the first call. From
it follow `RollbackIsCorrect`, `MechanismsAgree`, `NothingIsRemembered`,
`CallsOutsideTransactions`, `ErrorPathIsProtected` and `HybridRefinesCheckpoint`.
`RollbackIsCorrect` and the refinement need one thing more, that no library call between two
sites writes memory (`AllWritesLogged`); `MemInv` is the only part of the invariant that
rests on it. The run `hybrid_non_faultable` and the deviations above show that with
`RCVRY_CKPT_DONT_REMEMBER` no other condition can be dropped.

**Run-time, remembered gates.** Without `RCVRY_CKPT_DONT_REMEMBER` fewer conditions do:
`RememberedRollback` allows stm sites, the adaptation and non-faultable calls that write
nothing (`Remembering`, which keeps `TolErased = {}` and `AllWritesLogged`). The reason is
`KeepGateInv`: nothing resets the type, so once any gate is not TSX the type is UNDOLOG for
good, and gate and type cannot disagree on a logged window. The price is that a TSX clone
may enter a window of the undo log with its transaction open; `KeepTxInv` says that an abort
then goes back to an older window, with the memory of that window. `RollbackCorrect` holds,
`MechanismAgrees` and the refinement of `Checkpoint` do not.

**Run-time, adaptation.** `SamplesAreWhole` in every configuration, and `FailsAreWithinHits`
as long as the 32-bit counter of hits does not wrap (`HitsInRange`, the bound of the run
`hybrid_adapt` as a hypothesis). Both invariants (`SampleInv`, `FailsInv`) speak of the
snapshot of an open transaction too, since an abort takes the counters back.

**Recovery actions** (`RecoveryActionsProofs`). `TypeCorrect`; then each property with a
condition of its own (`UndoCondition`, `ErrorCondition`, `AbortCondition`,
`GiveUpCondition`), for every set of functions, of each disturbance, and any bound on the
crashes of a window:

| Theorem | Functions left out | Other conditions |
|---|---|---|
| `RecoveredCallIsUndone` | `accept`, `connect`, `mmap`, `fdopen` | the frames of `malloc`, `open`, `posix_memalign` and `getaddrinfo` are not reused; `open` does not return 0; `mkdir` and `trylock` do not fail; the undoing pthread calls do not fail |
| `RecoveredCallReturnsError` | `accept`, `connect`, `getpwnam`, `dlopen` | no store to errno in a window whose callers look at it |
| `HandlerIsSafe` | `setlocale` | the frames of `malloc`, `dlopen`, `posix_memalign` and `getaddrinfo` are not reused; the last two do not fail; `accept` and `connect` not on descriptor 0; windows do not free; one crash for `posix_memalign`, `getaddrinfo`, `dlopen` |
| `HandlerGivesUpOnlyOnFail` | `fdopen` | the frames of `open`, `dlopen` and `fork` are not reused; `dlopen`, `fork`, `mkdir` and `mmap` do not fail; one crash for these four, `accept` and `connect` |

The conditions are tight: allow any one function more in any of these places and TLC finds
the property violated. `RightOnceIsRecovered` puts the four together for the functions of
the run `actions`, with its disturbances. The invariants relate the slot to the value the
gate stored (`SlotInv`), the log to the windows that may store to errno (`ErrnoInv`), and
that value, or the pointer the library filled in, to the object in the ledger (`UndoInv`,
`AbortInv`, `GiveUpInv`); the actions that are right only once rely on `Fresh`, that no
recovery of this window has come before.

**Mechanisms.** `BitmapKeepsCheckpoint` (`BitmapProofs`), for any number of threads and
regions and any width of the epoch. `BitmapInv` is the argument for saving without a lock:
a region not marked with the epoch is as at the checkpoint, and one that is marked is in the
shadow or in the buffer of the one thread that won it; no mark of a region outside `stale` is
newer than the epoch (`MarksOld`), which is what the wrap relies on. A thread whose epoch
was loaded before another's checkpoint puts the region it wins into `stale`, until the
region is marked afresh or the bitmap replaced. The assumption on `Builds` (one thread unless
synchronized) is the deviation above. `MprotectKeepsCheckpoint` and `SoftDirtyLosesOnlyTheGap`
(`PageProofs`): a page that can be written is in the list, first with its contents at the
checkpoint (`MprotectInv`); a page that is not marked, or whose mark was read in an earlier
batch or as not set, is in the increments as it is now, but for the gap (`SoftDirtyInv`).
`MprotectAvoidsEfault` needs no assumption on the calls: EFAULT is returned only for a buffer
that its wrapper does not check in full, and `TouchedCovers` is the arithmetic for buffers of
any size and alignment. `ForkKeepsCheckpoint`, `ForkLeavesNoOrphans` and `MechanismTypeCorrect`
(`MechanismProofs`); `Held` says who may know a clone's id.

**Pass** (`StoreHooksProofs`). `EveryStoreIsLogged` and `OptimizationsKeepStoresLogged`, for
every function: any number of blocks, any edges, any instructions, any order in which the
stores are visited. The first rests on `WindowInv`: where `instrumentStores` is false, a
transaction runs or a called function began the window. The second rests on `RunInv`: when an
instruction is reached, all that dominates it has run and its hooks with it (`Passed`),
and each store that lost its hook is dominated by one that saves its word (`Covered`). That
what dominates the target of a branch dominates its source (`EdgeDominance`) needs a path of
bounded length to be continued; one of full length meets a block twice and is cut there
(`PathStep`, by the pigeonhole principle). That the leader of a chain dominates the whole
chain, although stores join it in any order (`ChainInv`), needs dominance to be transitive
and, for blocks that can be reached, antisymmetric (`DominatesTransitive`). `RangeCovers`
is the arithmetic of the merged hook, and where the positive offsets are needed.

**MINIX** (`MinixRecoveryProofs`). `MinixTypeCorrect`, `RecoveryConsistent`,
`AtMostOneAnswer`, `InjectionIsRecoverable` and `AbortsJustified`, for any log size, any
assignment of policies to calls, any set of builds and any number of crashes. The
properties speak of the end of recovery, so `IInv` adds what holds on the way: the flags of
the window manager follow the message loop (`LoopInv`); the policy mask stands for the
calls the request made, and a mask without `FAIL_STOP` for an open window, also across
rehandling (`MaskInv`); an injected crash is idempotent (`FaultInv`); and as long as the
mask has no `FAIL_STOP`, the log leads back to the memory at the start of the window
(`UndoInv`). The last is the argument for closing the window for good when the log is full:
from then on stores are not logged, and only the mask says so. `OlderEntries` carries
`UndoInv` over the restart's walk from the newest entry to the oldest.

Only model-checked: liveness under fairness (`RecoveryTerminates`, `HandlerReturns`,
`RequestSettled`), which is outside the prover's logic. Proved under stronger conditions than
some run checks them: none; the instances of the passing runs satisfy the conditions of the
theorems (`Consistent` or `Remembering`, `CoveredAccesses`, the four conditions of
`RecoveryActionsProofs`).

## Not modelled

See `components` in `PROJECT.json`.

- Applications and third-party code: nearly all of the repository's 3 million lines of C and
  C++ (MySQL, Apache, nginx and others under `apps`). They are what is protected, not what
  protects; here they are the environment, which may store, call and crash at will. The
  run-time and the passes that carry the project's own logic are about 12 thousand lines.
- The IR transformations of the passes (block splitting, PHI repair, cloning), and the alias
  analyses by which ltckptbasic skips local objects: their input is LLVM IR.
- The kernel halves of the smmap and dune mechanisms, which are not in the repository.
- Bitmap builds that no configuration selects: bit, byte, tree and smmap bitmaps, the diff
  scheme, a bitmap per thread.
- Delayed free: no shipped configuration defines `RCVRY_ENABLE_DELAYED_FREES`, and without
  it the list that `rcvry_ra_free_freelist` flushes stays empty.
- Statistics, profiling, block traces, logging, experiment scripts.
- Threads in `UndoLog` and `HybridRecovery`: the log and the gates are shared by all threads
  of a process, and the servers of the shipped configurations are event driven.

## Plan

1. Refinement of `Checkpoint`, or of a variant that may return to an older window, without
   `RCVRY_CKPT_DONT_REMEMBER`.
2. What `Bitmap`, `Mprotect` and `ForkCheckpoint` promise in common, as a refinement of one
   abstract specification.
3. Two threads sharing one undo log; the two optimizations of the pass in sequence.
