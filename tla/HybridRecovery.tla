--------------------------- MODULE HybridRecovery ---------------------------
(***************************************************************************)
(* FIRestarter's run-time recovery: the two checkpointing clones of each   *)
(* function, the window entry gates between them, and the SIGSEGV handler. *)
(*                                                                         *)
(*   llvm/static/ltckpt/mechanisms/ltckpt_tsx.c       hardware transactions*)
(*   llvm/static/ltckpt/mechanisms/ltckpt_writelog.c  the undo log         *)
(*   llvm/static/rcvry/rcvry_{signal,dispatch,actions,fi}.c                *)
(*   llvm/passes/include/hybrcvry/HybRcvryPass.h      gates, clone checks  *)
(*                                                                         *)
(* A recovery window runs from one library call site to the next.  After   *)
(* the call the code stores the site's id, saves the registers and reads   *)
(* the site's gate: TSX enters the clone that runs in a transaction,       *)
(* anything else the clone whose stores are logged.  A fault inside a      *)
(* transaction is an abort; LTCKPT_TSX_MAX_TRIES aborts switch the site to *)
(* the undo log.  A fault outside one is a SIGSEGV: the handler runs the   *)
(* site's recovery action, restores memory from the log if                 *)
(* rcvry_current_tx_type says so, and jumps back to the saved registers,   *)
(* so that the call appears to have returned an error.                     *)
(*                                                                         *)
(* wl keeps the first copy of each cell, which is what walking the log     *)
(* backwards leaves behind (module UndoLog proves that).                   *)
(***************************************************************************)
EXTENDS Integers

CONSTANTS
  Site, NoSite,      \* library call sites; NoSite is site id 0, "invalid"
  Cell, Val, None,   \* memory the application writes; None is no log entry
  RecoveryType,      \* rcvry_info[s].rcvry_type: how the action of a site ends
  StmSites,          \* sites of -hybrcvry-stm-libcalls (ltckpt_type UNDOLOG)
  FISites,           \* RCVRY_FI: sites with fault_probability 100
  CrashPoints,       \* where the application may fault: "window", "call"
  NonFaultableCalls, \* library calls that are no sites: "hook", some whose result is
                     \* used; "write", some that write the application's memory
  TolErased,         \* <<clone, site>>: sites whose top-of-the-loop hook is gone
  DontRemember,      \* RCVRY_CKPT_DONT_REMEMBER
  DefaultToUndolog,  \* RCVRY_CKPT_DEFAULT_TO_UNDOLOG
  AutoAdapt,         \* RCVRY_AUTO_ADAPT
  NoTsxForFail,      \* LTCKPT_NO_TSX_FOR_RCVRY_FAIL
  MaxTries,          \* LTCKPT_TSX_MAX_TRIES
  RepeatLimit,       \* 64
  SampleSize, Threshold, Scale,   \* rcvry_auto_adapt_*
  CounterMod,        \* num_tsx_hits is a uint32_t: 2^32
  MaxNest            \* transactions the processor nests

Sites == Site \cup {NoSite}

ASSUME HybridAssumption ==
  /\ NoSite \notin Site
  /\ None \notin Val
  /\ RecoveryType \in [Site -> {"RET", "UNDO", "FAIL"}]
  /\ StmSites \subseteq Site
  /\ FISites \subseteq Site
  /\ CrashPoints \subseteq {"window", "call"}
  /\ NonFaultableCalls \subseteq {"hook", "write"}
  /\ TolErased \subseteq {"tsx", "undo"} \X Site
  /\ {DontRemember, DefaultToUndolog, AutoAdapt, NoTsxForFail} \subseteq BOOLEAN
  /\ MaxTries \in Nat \ {0}
  /\ RepeatLimit \in Nat
  /\ SampleSize \in Nat \ {0} /\ Threshold \in Nat /\ Scale \in Nat
  /\ CounterMod \in Nat \ {0}
  /\ MaxNest \in Nat \ {0}

VARIABLES
  gates,        \* rcvry_libcall_gates
  cur_tx_type,  \* rcvry_current_tx_type
  site,         \* rcvry_current_site_id
  next,         \* the site whose library call is being made
  ret,          \* rcvry_return_value: the library's, or the injected error
  mem,          \* application memory
  wl,           \* undo log: the first logged value of each cell, or None
  clone,        \* the clone that is executing
  hits, fails, sample,  \* num_tsx_hits, num_tsx_fails, sample_count
  fi,           \* sites whose fault_probability is still 100
  pc,           \* where execution is
  xnest,        \* depth of the open hardware transaction
  xsave,        \* what the processor restores when it aborts
  tries,        \* local variable of the TSX top-of-the-loop hook
  prev_site, repeat_count,   \* statics of rcvry_signal_action
  ckpt,         \* history: memory when the registers were saved
  streak        \* history: SIGSEGVs since a window last ran to its end, at
                \* most StreakCap of them counted

adapt   == <<hits, fails, sample>>
handler == <<prev_site, repeat_count>>
tx      == <<xnest, xsave, tries>>
history == <<ckpt, streak>>
vars == <<gates, cur_tx_type, site, next, ret, mem, wl, clone, adapt, fi, pc,
          tx, handler, history>>

TxType == {"TSX", "UNDOLOG"}
GateVal == TxType \cup {"CLOSE"}
Memory == [Cell -> Val]
Log == [Cell -> Val \cup {None}]
EmptyLog == [c \in Cell |-> None]

\* What a hardware transaction can roll back: all of memory and the point of
\* execution, hence every variable above that is not processor state.
Snapshot ==
  [gates : [Sites -> GateVal], cur : TxType, site : Sites, next : Sites,
   ret : {"lib", "err"}, mem : Memory, wl : Log, clone : {"tsx", "undo"},
   hits : [Sites -> Nat], fails : [Sites -> Nat], sample : [Sites -> Nat],
   fi : SUBSET Site, tries : Int, ckpt : Memory, streak : Nat]

PC == {"window", "pre", "call", "entry", "tol", "tolfail", "crashed",
       "exit1", "exit2"}

TypeOK ==
  /\ gates \in [Sites -> GateVal]
  /\ cur_tx_type \in TxType
  /\ site \in Sites /\ next \in Sites
  /\ ret \in {"lib", "err"}
  /\ mem \in Memory /\ wl \in Log /\ ckpt \in Memory
  /\ clone \in {"tsx", "undo"}
  /\ hits \in [Sites -> Nat] /\ fails \in [Sites -> Nat] /\ sample \in [Sites -> Nat]
  /\ fi \subseteq Site
  /\ pc \in PC
  /\ xnest \in 0 .. MaxNest
  /\ xsave \in Snapshot
  /\ tries \in Int
  /\ prev_site \in Sites /\ repeat_count \in Nat
  /\ streak \in Nat

Default == IF DefaultToUndolog THEN "UNDOLOG" ELSE "TSX"

\* Enough to tell a series of SIGSEGVs the handler should have cut short.
StreakCap == RepeatLimit + 3

OneMoreSegv == IF streak < StreakCap THEN streak + 1 ELSE streak

\* The clone a function's entry or return point selects (insertTxTypeCheck).
CloneFor(t) == IF t = "TSX" THEN "tsx" ELSE "undo"

\* The state a transaction started now would come back to.
Now == [gates |-> gates, cur |-> cur_tx_type, site |-> site, next |-> next,
        ret |-> ret, mem |-> mem, wl |-> wl, clone |-> clone, hits |-> hits,
        fails |-> fails, sample |-> sample, fi |-> fi, tries |-> tries,
        ckpt |-> ckpt, streak |-> streak]

\* rcvry_map_actions has run and main has been entered, before any site.
Init ==
  /\ gates = [s \in Sites |-> Default]
  /\ cur_tx_type = Default
  /\ site = NoSite /\ next = NoSite
  /\ ret = "lib"
  /\ mem \in Memory /\ ckpt = mem
  /\ wl = EmptyLog
  /\ clone = CloneFor(Default)
  /\ hits = [s \in Sites |-> 0] /\ fails = hits /\ sample = hits
  /\ fi = FISites
  /\ pc = "window"
  /\ tries = MaxTries
  /\ streak = 0
  /\ xnest = 0 /\ xsave = Now
  /\ prev_site = NoSite /\ repeat_count = 0

rcvry_type(s) == IF s = NoSite THEN "INVALID" ELSE RecoveryType[s]

-----------------------------------------------------------------------------
(* The application inside a window. *)

\* Mutated Store: the cell is logged after it has changed.
StoreLogsTooLate(c, v) ==
  /\ pc = "window"
  /\ mem' = [mem EXCEPT ![c] = v]
  /\ wl' = IF clone = "undo" /\ wl[c] = None THEN [wl EXCEPT ![c] = v] ELSE wl
  /\ UNCHANGED <<gates, cur_tx_type, site, next, ret, clone, adapt, fi, pc,
                 tx, handler, history>>

\* A store.  In the undo clone the hook logs the cell first.
Store(c, v) ==
  /\ pc = "window"
  /\ mem' = [mem EXCEPT ![c] = v]
  /\ wl' = IF clone = "undo" /\ wl[c] = None THEN [wl EXCEPT ![c] = mem[c]] ELSE wl
  /\ UNCHANGED <<gates, cur_tx_type, site, next, ret, clone, adapt, fi, pc,
                 tx, handler, history>>

\* A function is entered or returned from: the clone is chosen afresh.
TxTypeCheck ==
  /\ pc = "window"
  /\ clone' = CloneFor(cur_tx_type)
  /\ UNCHANGED <<gates, cur_tx_type, site, next, ret, mem, wl, adapt, fi, pc,
                 tx, handler, history>>

\* Mutated DontRememberReset: built without the option.
NeverReset == FALSE

\* The reset both end-of-window hooks make under RCVRY_CKPT_DONT_REMEMBER.
DontRememberReset == DontRemember /\ site \notin StmSites

\* Mutated AdaptDue: evaluated in the middle of a sample.
AdaptAlwaysDue(g) == AutoAdapt /\ g # "UNDOLOG" /\ hits[site] > 0

\* RCVRY_AUTO_ADAPT_CHECK_AND_SWITCH, given the gate the reset left.
AdaptDue(g) == AutoAdapt /\ g # "UNDOLOG" /\ hits[site] > 0 /\ sample[site] = 0

AdaptSwitch == (fails[site] * 100 * Scale) \div hits[site] >= Threshold

\* Mutated EndOfWindowTsx: _xend without asking _xtest, and no _xend at all.
EndOfWindowNoXtest ==
  /\ clone = "tsx"
  /\ xnest' = xnest - 1
  /\ UNCHANGED <<gates, cur_tx_type, hits, fails>>

EndOfWindowNoXend ==
  /\ clone = "tsx"
  /\ UNCHANGED <<gates, cur_tx_type, xnest, hits, fails>>

\* ltckpt_tsx.c, end-of-window hook.
EndOfWindowTsx ==
  /\ clone = "tsx"
  /\ IF NoTsxForFail /\ rcvry_type(site) = "FAIL"
       THEN UNCHANGED <<gates, cur_tx_type, xnest>>
       ELSE /\ xnest' = IF xnest > 0 THEN xnest - 1 ELSE 0
            /\ IF ~AutoAdapt /\ DontRememberReset
                 THEN /\ cur_tx_type' = Default
                      /\ gates' = [gates EXCEPT ![site] = Default]
                 ELSE UNCHANGED <<gates, cur_tx_type>>
  /\ UNCHANGED <<hits, fails>>

\* ltckpt_writelog.c, end-of-window hook.
EndOfWindowUndo ==
  /\ clone = "undo"
  /\ LET g == IF DontRememberReset THEN Default ELSE gates[site]
         t == IF DontRememberReset THEN Default ELSE cur_tx_type
     IN  IF AdaptDue(g)
           THEN /\ gates' = [gates EXCEPT ![site] = IF AdaptSwitch THEN "UNDOLOG" ELSE g]
                /\ cur_tx_type' = IF AdaptSwitch THEN "UNDOLOG" ELSE t
                /\ hits'  = [hits  EXCEPT ![site] = 0]
                /\ fails' = [fails EXCEPT ![site] = 0]
           ELSE /\ gates' = [gates EXCEPT ![site] = g]
                /\ cur_tx_type' = t
                /\ UNCHANGED <<hits, fails>>
  /\ UNCHANGED xnest

\* The hook before the library call of site n, in the clone that is running.
EndOfWindow(n) ==
  /\ pc = "window"
  /\ EndOfWindowTsx \/ EndOfWindowUndo
  /\ next' = n
  /\ streak' = 0
  /\ pc' = "pre"
  /\ UNCHANGED <<site, ret, mem, wl, clone, sample, fi, xsave, tries, handler, ckpt>>

\* A library call that cannot fail is no site.  In the TSX clone it has no
\* hooks; in the undo clone, if its result is used, rewireLibCallUsage removes
\* its top-of-the-loop hook but not its end-of-window hook.
NonFaultableCall ==
  /\ "hook" \in NonFaultableCalls
  /\ pc = "window"
  /\ EndOfWindowUndo
  /\ UNCHANGED <<site, next, ret, mem, wl, clone, sample, fi, pc, xsave, tries,
                 handler, history>>

\* Many such functions (strcpy, sprintf, fgets, qsort, gettimeofday ...) write
\* the application's memory.  The library is not instrumented: in the undo
\* clone nothing logs the write; in the TSX clone it is part of the transaction.
NonFaultableWrite(c, v) ==
  /\ "write" \in NonFaultableCalls
  /\ pc = "window"
  /\ mem' = [mem EXCEPT ![c] = v]
  /\ UNCHANGED <<gates, cur_tx_type, site, next, ret, wl, clone, adapt, fi, pc,
                 tx, handler, history>>

-----------------------------------------------------------------------------
(* The library call and the window entry gate after it. *)

\* rcvry_fi_fatal_fault, between the end-of-window hook and the call.
FatalFault ==
  /\ pc = "pre"
  /\ next \in fi
  /\ xnest = 0
  /\ fi' = fi \ {next}
  /\ pc' = "crashed"
  /\ streak' = OneMoreSegv
  /\ UNCHANGED <<gates, cur_tx_type, site, next, ret, mem, wl, clone, adapt, tx,
                 handler, ckpt>>

Call ==
  /\ pc = "pre"
  /\ next \notin fi
  /\ pc' = "call"
  /\ UNCHANGED <<gates, cur_tx_type, site, next, ret, mem, wl, clone, adapt, fi,
                 tx, handler, history>>

\* The library writes memory of the application; nothing logs it.
LibWrite(c, v) ==
  /\ pc = "call"
  /\ mem' = [mem EXCEPT ![c] = v]
  /\ UNCHANGED <<gates, cur_tx_type, site, next, ret, wl, clone, adapt, fi, pc,
                 tx, handler, history>>

\* The call returns: return value and site id are stored, registers saved.
Return ==
  /\ pc = "call"
  /\ ret' = "lib"
  /\ site' = next
  /\ ckpt' = mem
  /\ pc' = "entry"
  /\ UNCHANGED <<gates, cur_tx_type, next, mem, wl, clone, adapt, fi, tx, handler,
                 streak>>

\* The site's top-of-the-loop hook in clone c is still there.  For a
\* non-faultable call without hooks of its own, rewireLibCallUsage erases the
\* next one of the basic block, whichever site it belongs to (GET_THE_TOLINST).
HasTol(c) == <<c, site>> \notin TolErased

\* The gate says TSX: the TSX top-of-the-loop hook up to its first _xbegin.
EnterTsx ==
  /\ pc = "entry"
  /\ gates[site] = "TSX"
  /\ clone' = "tsx"
  /\ IF ~HasTol("tsx") \/ (NoTsxForFail /\ rcvry_type(site) = "FAIL")
       THEN pc' = "window" /\ UNCHANGED <<hits, tries>>
       ELSE /\ hits' = IF AutoAdapt THEN [hits EXCEPT ![site] = (@ + 1) % CounterMod]
                                    ELSE hits
            /\ tries' = MaxTries
            /\ pc' = "tol"
  /\ UNCHANGED <<gates, cur_tx_type, site, next, ret, mem, wl, fails, sample, fi,
                 xnest, xsave, handler, history>>

\* Mutated EnterUndo: wl_position is not reset.
EnterUndoKeepsLog ==
  /\ pc = "entry"
  /\ gates[site] # "TSX"
  /\ clone' = "undo"
  /\ pc' = "window"
  /\ UNCHANGED <<gates, cur_tx_type, site, next, ret, mem, wl, adapt, fi, tx, handler,
                 history>>

\* The gate says UNDOLOG or CLOSE: the undo log's top-of-the-loop hook, with
\* the default CP_INTERVAL of 1, so that CTX_NEW_TOL_OR_RETURN never returns
\* (module UndoLog has the other intervals).
EnterUndo ==
  /\ pc = "entry"
  /\ gates[site] # "TSX"
  /\ clone' = "undo"
  /\ wl' = IF HasTol("undo") THEN EmptyLog ELSE wl
  /\ pc' = "window"
  /\ UNCHANGED <<gates, cur_tx_type, site, next, ret, mem, adapt, fi, tx, handler,
                 history>>

\* _xbegin.  Only the outermost one saves state to come back to.
XBegin ==
  /\ pc = "tol"
  /\ xnest < MaxNest
  /\ xnest' = xnest + 1
  /\ xsave' = IF xnest = 0 THEN Now ELSE xsave
  /\ pc' = "window"
  /\ UNCHANGED <<gates, cur_tx_type, site, next, ret, mem, wl, clone, adapt, fi,
                 tries, handler, history>>

\* The transaction aborts: a fault in it, a system call, an interrupt, a
\* conflict or its size.  The outermost _xbegin returns its status.
XAbort ==
  /\ xnest > 0
  /\ xnest' = 0
  /\ pc' = "tolfail"
  /\ gates' = xsave.gates /\ cur_tx_type' = xsave.cur
  /\ site' = xsave.site /\ next' = xsave.next /\ ret' = xsave.ret
  /\ mem' = xsave.mem /\ wl' = xsave.wl /\ clone' = xsave.clone
  /\ hits' = xsave.hits /\ fails' = xsave.fails /\ sample' = xsave.sample
  /\ fi' = xsave.fi /\ tries' = xsave.tries
  /\ ckpt' = xsave.ckpt /\ streak' = xsave.streak
  /\ UNCHANGED <<xsave, handler>>

\* Mutated TolFailed: the switch forgets rcvry_current_tx_type; every try that
\* fails is counted as a failed entry.
TolFailedKeepsType ==
  /\ pc = "tolfail"
  /\ tries' = tries - 1
  /\ gates' = IF tries' > 0 THEN gates ELSE [gates EXCEPT ![site] = "UNDOLOG"]
  /\ pc' = IF tries' > 0 THEN "tol" ELSE "entry"
  /\ UNCHANGED <<cur_tx_type, site, next, ret, mem, wl, clone, adapt, fi, xnest, xsave,
                 handler, history>>

TolFailedCountsTries ==
  /\ pc = "tolfail"
  /\ tries' = tries - 1
  /\ fails'  = [fails  EXCEPT ![site] = @ + 1]
  /\ sample' = [sample EXCEPT ![site] = (@ + 1) % SampleSize]
  /\ cur_tx_type' = IF tries' > 0 THEN cur_tx_type ELSE "UNDOLOG"
  /\ gates' = IF tries' > 0 THEN gates ELSE [gates EXCEPT ![site] = "UNDOLOG"]
  /\ pc' = IF tries' > 0 THEN "tol" ELSE "entry"
  /\ UNCHANGED <<site, next, ret, mem, wl, clone, hits, fi, xnest, xsave, handler,
                 history>>

\* --tries <= 0: count the failure, ltckpt_switch_to_undolog, back to the
\* saved registers; otherwise try again.
TolFailed ==
  /\ pc = "tolfail"
  /\ tries' = tries - 1
  /\ IF tries' > 0
       THEN pc' = "tol" /\ UNCHANGED <<gates, cur_tx_type, fails, sample>>
       ELSE /\ IF AutoAdapt
                 THEN /\ fails'  = [fails  EXCEPT ![site] = @ + 1]
                      /\ sample' = [sample EXCEPT ![site] = (@ + 1) % SampleSize]
                 ELSE UNCHANGED <<fails, sample>>
            /\ cur_tx_type' = "UNDOLOG"
            /\ gates' = [gates EXCEPT ![site] = "UNDOLOG"]
            /\ pc' = "entry"
  /\ UNCHANGED <<site, next, ret, mem, wl, clone, hits, fi, xnest, xsave, handler,
                 history>>

-----------------------------------------------------------------------------
(* Crashes. *)

\* A fault outside any transaction.
Crash ==
  /\ pc \in CrashPoints
  /\ xnest = 0
  /\ pc' = "crashed"
  /\ streak' = OneMoreSegv
  /\ UNCHANGED <<gates, cur_tx_type, site, next, ret, mem, wl, clone, adapt, fi,
                 tx, handler, ckpt>>

\* Mutated Restarted: the restart hook is not called.
NotRestarted == mem

\* The log's restart hook: cells that were logged go back.
Restarted == [c \in Cell |-> IF wl[c] = None THEN mem[c] ELSE wl[c]]

\* Mutated SegvRepeat: prev_site_id is not updated.
SegvRepeatForgets(limitReached) ==
  /\ limitReached <=> (prev_site = site /\ repeat_count + 1 > RepeatLimit)
  /\ repeat_count' = IF prev_site = site THEN repeat_count + 1 ELSE 0
  /\ UNCHANGED prev_site

\* rcvry_signal_action(SIGSEGV), first part: give up after too many SIGSEGVs at
\* one site.
SegvRepeat(limitReached) ==
  /\ limitReached <=> (prev_site = site /\ repeat_count + 1 > RepeatLimit)
  /\ repeat_count' = IF prev_site = site THEN repeat_count + 1 ELSE 0
  /\ prev_site' = site

\* exit(2).
SegvGiveUp ==
  /\ pc = "crashed"
  /\ SegvRepeat(TRUE)
  /\ pc' = "exit2"
  /\ UNCHANGED <<gates, cur_tx_type, site, next, ret, mem, wl, clone, adapt, fi, tx,
                 history>>

\* Site 0 has no action: rcvry_dispatch calls a NULL pointer, which raises
\* SIGSEGV in the handler (SA_NODEFER).
SegvNoAction ==
  /\ pc = "crashed"
  /\ SegvRepeat(FALSE)
  /\ rcvry_type(site) = "INVALID"
  /\ gates' = [gates EXCEPT ![site] = "CLOSE"]
  /\ streak' = OneMoreSegv
  /\ UNCHANGED <<cur_tx_type, site, next, ret, mem, wl, clone, adapt, fi, pc, tx, ckpt>>

\* The action reports RCVRY_E_FAIL: exit(1).
SegvActionFails ==
  /\ pc = "crashed"
  /\ SegvRepeat(FALSE)
  /\ rcvry_type(site) \in {"FAIL", "UNDO"}
  /\ gates' = [gates EXCEPT ![site] = "CLOSE"]
  /\ pc' = "exit1"
  /\ UNCHANGED <<cur_tx_type, site, next, ret, mem, wl, clone, adapt, fi, tx, history>>

\* Mutated SegvRecover: the site's gate is opened again.
SegvRecoverReopens ==
  /\ pc = "crashed"
  /\ SegvRepeat(FALSE)
  /\ rcvry_type(site) \in {"RET", "UNDO"}
  /\ gates' = [gates EXCEPT ![site] = Default]
  /\ ret' = "err"
  /\ IF cur_tx_type = "UNDOLOG" THEN mem' = Restarted /\ wl' = EmptyLog
                                ELSE UNCHANGED <<mem, wl>>
  /\ pc' = "entry"
  /\ UNCHANGED <<cur_tx_type, site, next, clone, adapt, fi, tx, history>>

\* The action sets the error to return; memory is restored if the current
\* transaction type is the undo log; the registers take execution back to
\* the window entry gate.
SegvRecover ==
  /\ pc = "crashed"
  /\ SegvRepeat(FALSE)
  /\ rcvry_type(site) \in {"RET", "UNDO"}
  /\ gates' = [gates EXCEPT ![site] = "CLOSE"]
  /\ ret' = "err"
  /\ IF cur_tx_type = "UNDOLOG" THEN mem' = Restarted /\ wl' = EmptyLog
                                ELSE UNCHANGED <<mem, wl>>
  /\ pc' = "entry"
  /\ UNCHANGED <<cur_tx_type, site, next, clone, adapt, fi, tx, history>>

SegvHandler == SegvGiveUp \/ SegvNoAction \/ SegvActionFails \/ SegvRecover

-----------------------------------------------------------------------------
App == \/ \E c \in Cell, v \in Val : Store(c, v)
       \/ TxTypeCheck
       \/ \E n \in Site : EndOfWindow(n)
       \/ NonFaultableCall
       \/ \E c \in Cell, v \in Val : NonFaultableWrite(c, v)
       \/ FatalFault
       \/ Call
       \/ \E c \in Cell, v \in Val : LibWrite(c, v)
       \/ Return
       \/ Crash

Runtime == EnterTsx \/ EnterUndo \/ XBegin \/ TolFailed \/ SegvHandler

Next == App \/ Runtime \/ XAbort

\* The hooks and the handler are straight-line code of a running thread, and a
\* transaction that stays open is aborted by the next timer interrupt.
Fairness == WF_vars(Runtime) /\ WF_vars(XAbort)

Spec == Init /\ [][Next]_vars

FairSpec == Spec /\ Fairness

-----------------------------------------------------------------------------
(* Whenever execution is back at a window entry gate, after an abort as after a
   crash, memory is what it was when the registers saved there were taken
   (README.md: "we roll back the application state before the last recoverable
   library call"). *)
RollbackCorrect == pc \in {"entry", "tolfail"} => mem = ckpt

(* In a window the clone that is running is the one the handler will roll back
   for: the global rcvry_current_tx_type and the gates never disagree. *)
MechanismAgrees ==
  (pc = "window" /\ site # NoSite) => clone = CloneFor(cur_tx_type)

(* With RCVRY_CKPT_DONT_REMEMBER a window leaves no trace: when it ends, every
   gate and the transaction type are back to the default. *)
NothingRemembered ==
  pc \in {"pre", "call"} => /\ \A s \in Site : gates[s] = Default
                            /\ cur_tx_type = Default

(* A transaction never stays open across the library call of a site, whose
   effects it could not undo (the end-of-window hook commits it first).  Calls
   that are no sites do run inside transactions. *)
NoTransactionAcrossCall == pc \in {"pre", "call"} => xnest = 0

(* After a crash the window runs again with the injected error, not with the
   library's result, and under the undo log, so that a second crash in the
   error-handling code is recovered too. *)
ErrorPathProtected ==
  (streak > 0 /\ pc = "window" /\ site # NoSite) => ret = "err" /\ clone = "undo"

(* One window is not recovered forever: its SIGSEGVs are bounded by the repeat
   count of rcvry_signal_action. *)
RecoveryAttemptsBounded == streak <= RepeatLimit + 2

(* After a crash the process either exits, or runs on in the error-handling
   code: it gets to the next library call unless that code itself never does. *)
RecoveryTerminates ==
  pc = "crashed" ~> (pc \in {"pre", "exit1", "exit2"} \/ [](pc = "window"))

(* num_tsx_fails counts some of the entries num_tsx_hits counts, so the failure
   rate RCVRY_AUTO_ADAPT_CHECK_AND_SWITCH computes is at most 100 percent. *)
FailsWithinHits == \A s \in Sites : fails[s] <= hits[s]

(* A decision to adapt is always taken on whole samples: the counters are reset
   only when sample_count has come round to 0, so it stays the number of failures
   counted, modulo the sample size. *)
WholeSamples == \A s \in Sites : fails[s] % SampleSize = sample[s]

(* The whole run-time implements the checkpoint: from the fault on, memory counts
   as rolled back, and at the gate it really is. *)
Ckpt == INSTANCE Checkpoint WITH
          Addr <- Cell,
          mem  <- IF pc \in {"crashed", "exit1", "exit2"} THEN ckpt ELSE mem,
          mode <- IF pc \in {"window", "pre", "call"} THEN "run" ELSE "atckpt"

ImplementsCheckpoint == Ckpt!Spec

=============================================================================
