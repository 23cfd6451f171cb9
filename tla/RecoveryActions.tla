--------------------------- MODULE RecoveryActions ---------------------------
(***************************************************************************)
(* The recovery actions of llvm/static/rcvry/rcvry_actions.c: what the     *)
(* SIGSEGV handler does to the resource a library call acquired, before    *)
(* memory is rolled back and the call returns an error.                    *)
(*                                                                         *)
(* One window is followed from its library call to its end.  The ledger is *)
(* the set "held" of the objects that exist: "new" is what the call made   *)
(* (memory, a descriptor, a mapping, a child, a lock ...), "arg" an object *)
(* that was there before (the socket or directory an argument names, the   *)
(* lock's other owner).  An action finds its object through the return     *)
(* slot, through a pointer the library filled in, or through an argument,  *)
(* as the arguments recorded by RcvryHelper::setRecoveryAction say.        *)
(***************************************************************************)
EXTENDS Integers

CONSTANTS
  Functions,      \* library functions of the program
  MayFail,        \* those of them whose calls may fail
  SlotReuse,      \* those whose caller may return before the window ends
  WindowFrees,    \* those whose window may free the memory it allocated
  ErrnoStores,    \* those whose window may store to errno
  ZeroDescriptor, \* those that may work on descriptor 0, standard input being closed
  UndoMayFail,    \* those whose undoing library call may fail (EIO, ENOTEMPTY, ECHILD)
  MaxRecoveries   \* per function, a bound on the crashes of one window

\* RcvryHelper::init: the recovery type of each library function, one function
\* or more for each action.
libCallRecoveryMap ==
  [ malloc |-> "UNDO_MALLOC",       posix_memalign |-> "UNDO_MEMALIGN",
    open   |-> "CLOSE",             realloc |-> "UNDO_REALLOC",
    accept |-> "CLOSE_SOCKET",      connect |-> "CLOSE_SOCKET",
    dlopen |-> "DLCLOSE",           fork    |-> "UNDO_FORK",
    mkdir  |-> "UNDO_MKDIR",        mmap    |-> "UNDO_MMAP",
    getaddrinfo |-> "UNDO_ADDRINFO", setlocale |-> "UNDO_SETLOCALE",
    pthread_mutex_init |-> "UNDO_PTHRDMUTX_INIT",
    pthread_mutex_trylock |-> "UNDO_PTHRDMUTX_LOCK",
    fdopen |-> "CLOSE_RET_NULL",
    recv   |-> "SET_RET_ERRNO_ENOMEM",      chdir  |-> "SET_RET_ERRNO_EACCES",
    getenv |-> "SET_RET_NULL_ERRNO_ENOMEM", getpwnam |-> "SET_RET_ERRNO_ENOMEM",
    read   |-> "FAIL" ]

ASSUME ActionsAssumption ==
  /\ Functions \subseteq DOMAIN libCallRecoveryMap
  /\ MayFail \subseteq Functions
  /\ SlotReuse \subseteq Functions
  /\ WindowFrees \subseteq Functions
  /\ ErrnoStores \subseteq Functions
  /\ ZeroDescriptor \subseteq Functions
  /\ UndoMayFail \subseteq Functions
  /\ MaxRecoveries \in [Functions -> Nat]

-----------------------------------------------------------------------------
(* The C library, as its callers know it. *)

\* Values: a handle of the new object, NULL or 0, -1, a positive error number,
\* and whatever a reused stack frame or an unset pointer holds.
Val == {"res", "null", "neg", "code", "junk"}

\* Functions that make an object, that need one, that fail if it is there, and
\* that return it through a pointer argument.
Makes == {"malloc", "posix_memalign", "open", "accept", "dlopen", "fork", "mkdir", "mmap",
          "getaddrinfo", "pthread_mutex_init", "pthread_mutex_trylock", "fdopen"}
NeedsArg  == {"accept", "connect", "fdopen"}
Exclusive == {"mkdir", "pthread_mutex_trylock"}
FillsOut  == {"posix_memalign", "getaddrinfo"}

ReturnsCode == FillsOut \cup {"pthread_mutex_init", "pthread_mutex_trylock"}
ReturnsPointer == {"malloc", "dlopen", "getenv", "getpwnam", "setlocale", "realloc",
                   "fdopen"}
ReturnsDescriptor == {"open", "accept"}

OkValues(f) ==
  IF f \in ReturnsCode \cup {"mkdir", "connect", "chdir"} THEN {"null"}
  ELSE IF f = "fork" \/ f \in ReturnsDescriptor \cap ZeroDescriptor THEN {"res", "null"}
  ELSE {"res"}

\* What the caller of f takes for an error.
ErrorValues(f) == IF f \in ReturnsCode THEN {"code", "neg"}
                  ELSE IF f \in ReturnsPointer THEN {"null"} ELSE {"neg"}

-----------------------------------------------------------------------------
VARIABLES
  pc,        \* "app", "gate", "window", "handler", "exit0", "exit1", "abort", and
             \* "failed": exit(1) because the undoing call failed of its own accord
  func,      \* the site's library function
  before,    \* history: the objects that existed before the call
  held,      \* the objects that exist
  slot,      \* the return slot, a local variable of the calling function
  out,       \* what the library stored through a pointer argument
  log,       \* the undo log's copies of slot, out and errno, or "none"
  rcvry_return_value,
  errno,
  recoveries \* history: crashes of this window

vars == <<pc, func, before, held, slot, out, log, rcvry_return_value, errno, recoveries>>

Errno == {"lib", "app", "-1", "ENOMEM", "EACCES"}
OutVal == {"res", "null", "junk"}

NotLogged == [slot |-> "none", out |-> "none", errno |-> "none"]

TypeOK ==
  /\ pc \in {"app", "gate", "window", "handler", "exit0", "exit1", "failed", "abort"}
  /\ func \in Functions
  /\ before \subseteq {"arg"}
  /\ held \subseteq before \cup {"new"}
  /\ slot \in Val /\ out \in OutVal
  /\ log \in [slot : Val \cup {"none"}, out : OutVal \cup {"none"}, errno : Errno \cup {"none"}]
  /\ rcvry_return_value \in Val
  /\ errno \in Errno
  /\ recoveries \in 0 .. MaxRecoveries[func]

Init ==
  /\ pc = "app"
  /\ func \in Functions
  /\ before = {} /\ held = {}
  /\ slot = "junk" /\ out = "junk" /\ log = NotLogged
  /\ rcvry_return_value = "null"
  /\ errno = "lib"
  /\ recoveries = 0

\* The library call; its result goes to rcvry_return_value.
LibCall(f, b) ==
  /\ pc = "app"
  /\ f \in NeedsArg => "arg" \in b
  /\ func' = f
  /\ before' = b
  /\ \/ /\ f \in Exclusive => "arg" \notin b
        /\ held' = IF f \in Makes THEN b \cup {"new"} ELSE b
        /\ rcvry_return_value' \in OkValues(f)
        /\ out' = IF f \in FillsOut THEN "res" ELSE "junk"
     \/ /\ f \in MayFail
        /\ held' = b
        /\ rcvry_return_value' \in ErrorValues(f)
        /\ out' \in IF f \in FillsOut THEN {"null", "junk"} ELSE {"junk"}
  /\ errno' = "lib"
  /\ recoveries' = 0
  /\ pc' = "gate"
  /\ UNCHANGED <<slot, log>>

\* Mutated Gate: the wrong global is stored.
GateErrno ==
  /\ pc = "gate"
  /\ slot' = errno
  /\ log' = NotLogged
  /\ pc' = "window"
  /\ UNCHANGED <<func, before, held, out, rcvry_return_value, errno, recoveries>>

\* The window entry gate, where the saved registers lead: the return value is
\* stored to the slot, and the top-of-the-loop hook empties the log.
Gate ==
  /\ pc = "gate"
  /\ slot' = rcvry_return_value
  /\ log' = NotLogged
  /\ pc' = "window"
  /\ UNCHANGED <<func, before, held, out, rcvry_return_value, errno, recoveries>>

\* The function has returned and its frame serves another call, whose stores
\* are logged.  The variable that the library filled in is of the same frame,
\* or it is not.
ReuseFrame ==
  /\ func \in SlotReuse
  /\ pc = "window"
  /\ slot # "junk"
  /\ slot' = "junk"
  /\ out' \in {out, "junk"}
  /\ log' = [log EXCEPT !.slot = slot, !.out = IF out' = out THEN "none" ELSE out]
  /\ UNCHANGED <<pc, func, before, held, rcvry_return_value, errno, recoveries>>

\* The application stores to errno, as to any other variable; the first such
\* store is the one that is logged.
StoreErrno ==
  /\ func \in ErrnoStores
  /\ pc = "window"
  /\ log.errno = "none"
  /\ errno' = "app"
  /\ log' = [log EXCEPT !.errno = errno]
  /\ UNCHANGED <<pc, func, before, held, slot, out, rcvry_return_value, recoveries>>

\* free() is no site: it returns nothing, and nothing undoes it.
WindowFree ==
  /\ func \in WindowFrees \cap {"malloc", "posix_memalign"}
  /\ pc = "window"
  /\ "new" \in held
  /\ held' = held \ {"new"}
  /\ UNCHANGED <<pc, func, before, slot, out, log, rcvry_return_value, errno, recoveries>>

EndOfWindow ==
  /\ pc = "window"
  /\ pc' = "app"
  /\ UNCHANGED <<func, before, held, slot, out, log, rcvry_return_value, errno, recoveries>>

\* SIGSEGV in a window of the undo-log clone.
Crash ==
  /\ pc = "window"
  /\ recoveries < MaxRecoveries[func]
  /\ recoveries' = recoveries + 1
  /\ pc' = "handler"
  /\ UNCHANGED <<func, before, held, slot, out, log, rcvry_return_value, errno>>

-----------------------------------------------------------------------------
(* The actions.  Each ends in RCVRY_RA_EPILOGUE, in RCVRY_E_FAIL, upon which
   rcvry_dispatch exits, or in a signal of its own. *)

Dispatch(types) == pc = "handler" /\ libCallRecoveryMap[func] \in types

\* Mutated Epilogue: the action's errno is not set.
EpilogueNoErrno(ret, err) ==
  /\ rcvry_return_value' = ret
  /\ slot' = IF log.slot = "none" THEN ret ELSE log.slot
  /\ out' = IF log.out = "none" THEN out ELSE log.out
  /\ errno' = IF log.errno = "none" THEN errno ELSE log.errno
  /\ log' = NotLogged
  /\ pc' = "gate"
  /\ UNCHANGED <<func, before, recoveries>>

\* RCVRY_RA_EPILOGUE, the rollback after it, and the jump to the gate.  The
\* error is written to the slot as well, and errno is set, but the rollback
\* brings back the old content of what the window's stores have logged.
Epilogue(ret, err) ==
  /\ rcvry_return_value' = ret
  /\ slot' = IF log.slot = "none" THEN ret ELSE log.slot
  /\ out' = IF log.out = "none" THEN out ELSE log.out
  /\ errno' = IF log.errno = "none" THEN err ELSE log.errno
  /\ log' = NotLogged
  /\ pc' = "gate"
  /\ UNCHANGED <<func, before, recoveries>>

Stop(where) ==
  /\ pc' = where
  /\ UNCHANGED <<func, before, held, slot, out, log, rcvry_return_value, errno, recoveries>>

\* The library call that undoes the effect fails, and the action with it.
UndoFails == func \in UndoMayFail /\ Stop("failed")

\* An action that frees: nothing to do for NULL, which junk may be too; glibc
\* aborts on a second free or an invalid pointer.
FreeWhat(v, ret, err) ==
  \/ v \in {"null", "junk"} /\ UNCHANGED held /\ Epilogue(ret, err)
  \/ v = "res" /\ "new" \in held /\ held' = held \ {"new"} /\ Epilogue(ret, err)
  \/ (v = "junk" \/ (v = "res" /\ "new" \notin held)) /\ Stop("abort")

\* An action on whatever object its argument names, made by the call or not.
Named == IF "new" \in held THEN "new" ELSE "arg"

RemoveNamed(ret, err) == held' = held \ {Named} /\ Epilogue(ret, err)

\* RCVRY_TYPE_SET_RET_*: the value of argv[0]; errno is EACCES whatever argv[1]
\* says.
SetRet == {"SET_RET_ERRNO_ENOMEM", "SET_RET_ERRNO_EACCES", "SET_RET_NULL_ERRNO_ENOMEM"}

rcvry_ra_set_ret_errno ==
  /\ Dispatch(SetRet)
  /\ UNCHANGED held
  /\ Epilogue(IF libCallRecoveryMap[func] = "SET_RET_NULL_ERRNO_ENOMEM" THEN "null" ELSE "neg",
              "EACCES")

\* setlocale is dispatched to rcvry_ra_set_ret_errno, whose prologue asserts
\* argc = 2; the pass recorded 1.
SetlocaleAssert == Dispatch({"UNDO_SETLOCALE"}) /\ Stop("abort")

\* Mutated rcvry_ra_undo_malloc: nothing is freed.
undo_mallocLeaks ==
  /\ Dispatch({"UNDO_MALLOC"})
  /\ UNCHANGED held
  /\ Epilogue("null", "ENOMEM")

rcvry_ra_undo_malloc == Dispatch({"UNDO_MALLOC"}) /\ FreeWhat(slot, "null", "ENOMEM")

\* Mutated rcvry_ra_undo_memalign: frees the variable, not what it points to.
undo_memalignFreesArgument == Dispatch({"UNDO_MEMALIGN"}) /\ FreeWhat("junk", "code", errno)

rcvry_ra_undo_memalign == Dispatch({"UNDO_MEMALIGN"}) /\ FreeWhat(out, "code", errno)

rcvry_ra_undo_addrinfo == Dispatch({"UNDO_ADDRINFO"}) /\ FreeWhat(out, "neg", errno)

\* rcvry_ra_fail, also for realloc.
rcvry_ra_fail == Dispatch({"FAIL", "UNDO_REALLOC"}) /\ Stop("exit1")

\* argv[1] is the return value the pass recorded, not the errno.  The action
\* asserts that the descriptor is positive.
rcvry_ra_close_socket ==
  /\ Dispatch({"CLOSE_SOCKET"})
  /\ \/ "arg" \in held /\ held' = held \ {"arg"} /\ Epilogue("neg", "-1")
     \/ "arg" \notin held /\ Stop("exit1")
     \/ func \in ZeroDescriptor /\ Stop("abort")
     \/ UndoFails

\* The error of the two types that rcvry_ra_close serves.
CloseReturns == IF libCallRecoveryMap[func] = "CLOSE" THEN "neg" ELSE "null"

\* Mutated rcvry_ra_close: without the check for a positive descriptor.
rcvry_ra_closeUnchecked ==
  /\ Dispatch({"CLOSE", "CLOSE_RET_NULL"})
  /\ \/ /\ slot = "res" /\ "new" \in held
        /\ held' = held \ {"new"}
        /\ Epilogue(CloseReturns, "ENOMEM")
     \/ ~(slot = "res" /\ "new" \in held) /\ Stop("exit1")

\* The descriptor in the slot, if positive; junk may be someone else's.  The
\* stream that fdopen returned is taken for a descriptor too: the low half of
\* the pointer is not positive, or not a descriptor.
rcvry_ra_close ==
  /\ Dispatch({"CLOSE", "CLOSE_RET_NULL"})
  /\ \/ /\ slot \in {"neg", "null"} \/ (slot = "res" /\ func = "fdopen")
        /\ UNCHANGED held
        /\ Epilogue(CloseReturns, "ENOMEM")
     \/ /\ slot = "res" /\ func # "fdopen" /\ "new" \in held
        /\ held' = held \ {"new"}
        /\ Epilogue(CloseReturns, "ENOMEM")
     \/ /\ slot = "junk"
        /\ held' \in {held, held \ {"arg"}}
        /\ Epilogue(CloseReturns, "ENOMEM")
     \/ /\ slot = "junk" \/ (slot = "res" /\ (func = "fdopen" \/ "new" \notin held))
        /\ Stop("exit1")
     \/ slot \in {"res", "junk"} /\ UndoFails

\* dlclose of NULL or of a closed handle fails, of anything else it may fault.
rcvry_ra_dlclose ==
  /\ Dispatch({"DLCLOSE"})
  /\ \/ slot = "res" /\ "new" \in held /\ held' = held \ {"new"} /\ Epilogue("neg", errno)
     \/ ~(slot = "res" /\ "new" \in held) /\ Stop("exit1")
     \/ slot \in {"neg", "junk"} /\ Stop("abort")
     \/ UndoFails

\* Mutated rcvry_ra_undo_fork: no test for a fork that failed, so that
\* waitpid(-1) waits for any child.
undo_forkWaitsForAny ==
  /\ Dispatch({"UNDO_FORK"})
  /\ \/ slot = "null" /\ Stop("exit0")
     \/ slot = "res" /\ "new" \notin held /\ UNCHANGED held /\ Epilogue("neg", "ENOMEM")

\* The child exits; the parent waits for its child, which is not told to, and
\* fails if it is no longer its child.
rcvry_ra_undo_fork ==
  /\ Dispatch({"UNDO_FORK"})
  /\ \/ slot \in {"null", "junk"} /\ Stop("exit0")
     \/ slot = "res" /\ "new" \notin held /\ UNCHANGED held /\ Epilogue("neg", "ENOMEM")
     \/ slot \in {"res", "junk"} /\ UndoFails
     \/ slot \in {"neg", "junk"} /\ Stop("exit1")

\* The forked child comes to its end, sooner, later or never.
ChildExits ==
  /\ func = "fork" /\ rcvry_return_value = "res"
  /\ pc \in {"window", "handler"}
  /\ "new" \in held
  /\ held' = held \ {"new"}
  /\ UNCHANGED <<pc, func, before, slot, out, log, rcvry_return_value, errno, recoveries>>

rcvry_ra_undo_mkdir ==
  /\ Dispatch({"UNDO_MKDIR"})
  /\ \/ held # {} /\ RemoveNamed("neg", "ENOMEM")
     \/ held = {} /\ Stop("exit1")
     \/ UndoFails

\* munmap of argument 0, the address hint: NULL unmaps nothing, a hint that was
\* honoured the new mapping, one that was not whatever is there.  It fails when
\* the call did, on a length of 0.
rcvry_ra_undo_mmap ==
  /\ Dispatch({"UNDO_MMAP"})
  /\ \/ held' \in {held, held \ {"new"}, held \ {"arg"}} /\ Epilogue("neg", "ENOMEM")
     \/ "new" \notin held /\ Stop("exit1")
     \/ UndoFails

\* The pthread functions return their errors as positive numbers, so the tests
\* for -1 never succeed, and a failure passes for a success.
UndoFailsUnnoticed(ret, err) == func \in UndoMayFail /\ UNCHANGED held /\ Epilogue(ret, err)

rcvry_ra_undo_pthread_mutex_init ==
  /\ Dispatch({"UNDO_PTHRDMUTX_INIT"})
  /\ \/ held' = held \ {"new"} /\ Epilogue("code", errno)
     \/ UndoFailsUnnoticed("code", errno)

\* The lock is released whoever holds it.
rcvry_ra_undo_pthread_mutex_lock ==
  /\ Dispatch({"UNDO_PTHRDMUTX_LOCK"})
  /\ RemoveNamed("code", errno) \/ UndoFailsUnnoticed("code", errno)

Handler ==
  \/ rcvry_ra_set_ret_errno \/ SetlocaleAssert
  \/ rcvry_ra_undo_malloc \/ rcvry_ra_undo_memalign \/ rcvry_ra_undo_addrinfo
  \/ rcvry_ra_fail
  \/ rcvry_ra_close_socket \/ rcvry_ra_close \/ rcvry_ra_dlclose
  \/ rcvry_ra_undo_fork
  \/ rcvry_ra_undo_mkdir \/ rcvry_ra_undo_mmap
  \/ rcvry_ra_undo_pthread_mutex_init \/ rcvry_ra_undo_pthread_mutex_lock

Next ==
  \/ \E f \in Functions, b \in SUBSET {"arg"} : LibCall(f, b)
  \/ Gate \/ ReuseFrame \/ StoreErrno \/ WindowFree \/ ChildExits \/ EndOfWindow
  \/ Crash
  \/ Handler

\* The handler runs with the process stopped at the fault.
Spec == Init /\ [][Next]_vars /\ WF_vars(Handler)

-----------------------------------------------------------------------------
(* A recovered call has had no effect: back at the gate, what existed before the
   call exists, and nothing else (README.md: "we roll back the application state
   before the last recoverable library call"). *)
UndoneExactly == (pc = "gate" /\ recoveries > 0) => held = before

(* The injected value is one the function's callers take for an error (README.md:
   "forcing the call to immediately return a predetermined error code"), and where
   they look at errno next, the action has set it to an error number. *)
ErrorReturned ==
  (pc = "gate" /\ recoveries > 0) =>
     /\ rcvry_return_value \in ErrorValues(func)
     /\ func \notin ReturnsCode => errno \in {"ENOMEM", "EACCES"}

(* The handler does not crash in its turn: no assertion of an action's prologue
   fails, nothing is freed twice, and no invalid pointer is used. *)
HandlerNeverAborts == pc # "abort"

(* The handler gives up only on functions without an action, or because the call
   that undoes the effect failed of its own accord; in particular not for want of an
   effect, when the error-handling code of the same window crashes again. *)
GivesUpOnlyOnFail == pc = "exit1" => libCallRecoveryMap[func] \in {"FAIL", "UNDO_REALLOC"}

(* The handler comes to an end unless it waits for a child that never does
   (rcvry_ra_undo_fork). *)
HandlerReturns ==
  pc = "handler" ~> (pc # "handler" \/ [](func = "fork" /\ "new" \in held))

=============================================================================
