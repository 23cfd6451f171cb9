------------------------ MODULE RecoveryActionsProofs ------------------------
(***************************************************************************)
(* What the recovery actions achieve, for every set of library functions   *)
(* and every bound on the crashes of a window.  Each property has a        *)
(* condition of its own, on the functions of the program, on those whose   *)
(* calls may fail, whose frame may be gone, whose window may free or store *)
(* to errno, whose descriptor may be 0, whose undoing may fail, and on how *)
(* often a window may crash.  A condition names the functions whose action *)
(* does not have the property, and nothing else.                           *)
(***************************************************************************)
EXTENDS MCRecoveryActions, TLAPS

\* UndoneExactly: accept, connect, mmap and fdopen undo the wrong object.  An
\* action that reads the return slot or the filled-in variable needs its frame,
\* and one that undoes whatever object an argument names needs to know that the
\* call made it.  Descriptor 0 is never closed, and the pthread functions' failure
\* is not noticed.
UndoCondition ==
  /\ Functions \cap {"accept", "connect", "mmap", "fdopen"} = {}
  /\ SlotReuse \cap ({"malloc", "open"} \cup FillsOut) = {}
  /\ MayFail \cap Exclusive = {}
  /\ "open" \notin ZeroDescriptor
  /\ UndoMayFail \cap {"pthread_mutex_init", "pthread_mutex_trylock"} = {}

\* ErrorReturned: accept and connect set errno to -1, getpwnam and dlopen
\* return -1 for a pointer.  A store to errno in the window is rolled back, over
\* the errno of the action.
ErrorCondition ==
  /\ Functions \cap {"accept", "connect", "getpwnam", "dlopen"} = {}
  /\ ErrnoStores \subseteq ReturnsCode \cup {"read", "realloc", "setlocale"}

\* HandlerNeverAborts: the action of setlocale fails its assertion, and that of
\* accept and connect on descriptor 0; the pointer to free must be the one that the
\* call returned, still allocated.
FreesOnce == {"posix_memalign", "getaddrinfo", "dlopen"}

AbortCondition ==
  /\ "setlocale" \notin Functions
  /\ SlotReuse \cap ({"malloc", "dlopen"} \cup FillsOut) = {}
  /\ ZeroDescriptor \cap {"accept", "connect"} = {}
  /\ MayFail \cap FillsOut = {}
  /\ WindowFrees \cap {"malloc", "posix_memalign"} = {}
  /\ \A f \in Functions \cap FreesOnce : MaxRecoveries[f] <= 1

\* GivesUpOnlyOnFail: an action that undoes an effect fails when there is none,
\* because the call failed or was undone; the stream of fdopen is no descriptor.
UndoesOnce == {"accept", "connect", "dlopen", "fork", "mkdir", "mmap"}

GiveUpCondition ==
  /\ "fdopen" \notin Functions
  /\ SlotReuse \cap {"open", "dlopen", "fork"} = {}
  /\ MayFail \cap {"dlopen", "fork", "mkdir", "mmap"} = {}
  /\ \A f \in Functions \cap UndoesOnce : MaxRecoveries[f] <= 1

-----------------------------------------------------------------------------
(* Which function an action serves. *)

\* The recovery type of a function, read off libCallRecoveryMap.
LEMMA RecoveryTypes ==
  ASSUME NEW f \in Functions
  PROVE  /\ f \in DOMAIN libCallRecoveryMap
         /\ libCallRecoveryMap[f] \in SetRet => f \in {"recv", "chdir", "getenv", "getpwnam"}
         /\ libCallRecoveryMap[f] = "SET_RET_NULL_ERRNO_ENOMEM" <=> f = "getenv"
         /\ libCallRecoveryMap[f] = "UNDO_SETLOCALE" <=> f = "setlocale"
         /\ libCallRecoveryMap[f] = "UNDO_MALLOC" <=> f = "malloc"
         /\ libCallRecoveryMap[f] = "UNDO_MEMALIGN" <=> f = "posix_memalign"
         /\ libCallRecoveryMap[f] = "UNDO_ADDRINFO" <=> f = "getaddrinfo"
         /\ libCallRecoveryMap[f] \in {"FAIL", "UNDO_REALLOC"} <=> f \in {"read", "realloc"}
         /\ libCallRecoveryMap[f] = "CLOSE_SOCKET" <=> f \in {"accept", "connect"}
         /\ libCallRecoveryMap[f] = "CLOSE" <=> f = "open"
         /\ libCallRecoveryMap[f] = "CLOSE_RET_NULL" <=> f = "fdopen"
         /\ libCallRecoveryMap[f] = "DLCLOSE" <=> f = "dlopen"
         /\ libCallRecoveryMap[f] = "UNDO_FORK" <=> f = "fork"
         /\ libCallRecoveryMap[f] = "UNDO_MKDIR" <=> f = "mkdir"
         /\ libCallRecoveryMap[f] = "UNDO_MMAP" <=> f = "mmap"
         /\ libCallRecoveryMap[f] = "UNDO_PTHRDMUTX_INIT" <=> f = "pthread_mutex_init"
         /\ libCallRecoveryMap[f] = "UNDO_PTHRDMUTX_LOCK" <=> f = "pthread_mutex_trylock"
<1>1. f \in DOMAIN libCallRecoveryMap  BY ActionsAssumption
<1>2. QED  BY <1>1 DEF libCallRecoveryMap, SetRet

-----------------------------------------------------------------------------
(* Type correctness. *)

\* A program starts with the right types.
LEMMA TypeInit == Init => TypeOK
<1>1. \A f \in Functions : MaxRecoveries[f] \in Nat  BY ActionsAssumption
<1>2. QED  BY <1>1 DEF Init, TypeOK, Val, OutVal, Errno, NotLogged

\* A call, a crash and the handler keep the types.
LEMMA TypeStep == TypeOK /\ [Next]_vars => TypeOK'
<1> SUFFICES ASSUME TypeOK, [Next]_vars PROVE TypeOK'  OBVIOUS
<1> USE DEF TypeOK, Val, OutVal, Errno, NotLogged
<1>1. ASSUME NEW f \in Functions, NEW b \in SUBSET {"arg"}, LibCall(f, b)  PROVE TypeOK'
  <2>1. MaxRecoveries[f] \in Nat  BY ActionsAssumption
  <2>2. rcvry_return_value' \in Val  BY <1>1 DEF LibCall, OkValues, ErrorValues
  <2>3. out' \in {"res", "null", "junk"}  BY <1>1 DEF LibCall
  <2>4. held' \subseteq before' \cup {"new"}  BY <1>1 DEF LibCall
  <2>5. recoveries' \in 0 .. MaxRecoveries[func]'  BY <1>1, <2>1 DEF LibCall
  <2>6. QED  BY <1>1, <2>2, <2>3, <2>4, <2>5 DEF LibCall
<1>2. ASSUME NEW ret \in Val, NEW err \in Errno, Epilogue(ret, err), held' \subseteq held
      PROVE  TypeOK'
  BY <1>2 DEF Epilogue
<1>3. ASSUME NEW where \in {"exit0", "exit1", "failed", "abort"}, Stop(where)  PROVE TypeOK'
  BY <1>3 DEF Stop
<1>4. ASSUME NEW v, NEW ret \in Val, NEW err \in Errno, FreeWhat(v, ret, err)  PROVE TypeOK'
  BY <1>2, <1>3, <1>4 DEF FreeWhat
<1>5. CASE Gate  BY <1>5 DEF Gate
<1>6. CASE ReuseFrame
  <2>1. out' \in OutVal /\ slot' \in Val  BY <1>6 DEF ReuseFrame
  <2>2. log' \in [slot : Val \cup {"none"}, out : OutVal \cup {"none"}, errno : Errno \cup {"none"}]
    BY <1>6 DEF ReuseFrame
  <2>3. QED  BY <1>6, <2>1, <2>2 DEF ReuseFrame
<1>7. CASE WindowFree  BY <1>7 DEF WindowFree
<1>8. CASE ChildExits  BY <1>8 DEF ChildExits
<1>9. CASE EndOfWindow  BY <1>9 DEF EndOfWindow
<1>10. CASE Crash
  <2>1. MaxRecoveries[func] \in Nat  BY ActionsAssumption
  <2>2. QED  BY <1>10, <2>1 DEF Crash
<1>11. CASE rcvry_ra_set_ret_errno  BY <1>2, <1>11 DEF rcvry_ra_set_ret_errno
<1>12. CASE SetlocaleAssert  BY <1>3, <1>12 DEF SetlocaleAssert
<1>13. CASE rcvry_ra_undo_malloc  BY <1>4, <1>13 DEF rcvry_ra_undo_malloc
<1>14. CASE rcvry_ra_undo_memalign  BY <1>4, <1>14 DEF rcvry_ra_undo_memalign
<1>15. CASE rcvry_ra_undo_addrinfo  BY <1>4, <1>15 DEF rcvry_ra_undo_addrinfo
<1>16. CASE rcvry_ra_fail  BY <1>3, <1>16 DEF rcvry_ra_fail
<1>17. CASE rcvry_ra_close_socket  BY <1>2, <1>3, <1>17 DEF rcvry_ra_close_socket, UndoFails
<1>18. CASE rcvry_ra_close  BY <1>2, <1>3, <1>18 DEF rcvry_ra_close, CloseReturns, UndoFails
<1>19. CASE rcvry_ra_dlclose  BY <1>2, <1>3, <1>19 DEF rcvry_ra_dlclose, UndoFails
<1>20. CASE rcvry_ra_undo_fork  BY <1>2, <1>3, <1>20 DEF rcvry_ra_undo_fork, UndoFails
<1>21. CASE rcvry_ra_undo_mkdir  BY <1>2, <1>3, <1>21 DEF rcvry_ra_undo_mkdir, UndoFails, RemoveNamed
<1>22. CASE rcvry_ra_undo_mmap  BY <1>2, <1>3, <1>22 DEF rcvry_ra_undo_mmap, UndoFails
<1>23. CASE rcvry_ra_undo_pthread_mutex_init
  BY <1>2, <1>23 DEF rcvry_ra_undo_pthread_mutex_init, UndoFailsUnnoticed
<1>24. CASE rcvry_ra_undo_pthread_mutex_lock
  BY <1>2, <1>24 DEF rcvry_ra_undo_pthread_mutex_lock, UndoFailsUnnoticed, RemoveNamed
<1>25. CASE UNCHANGED vars  BY <1>25 DEF vars
<1>26. CASE StoreErrno  BY <1>26 DEF StoreErrno
<1>27. QED
  BY <1>1, <1>5, <1>6, <1>7, <1>8, <1>9, <1>10, <1>11, <1>12, <1>13, <1>14, <1>15, <1>16,
     <1>17, <1>18, <1>19, <1>20, <1>21, <1>22, <1>23, <1>24, <1>25, <1>26 DEF Next, Handler

(* Every state is well-typed: in particular no object appears that the call did not make or
   that was not there before, and a window crashes no more often than its bound says
   (rcvry_actions.c). *)
THEOREM TypeCorrect == Spec => []TypeOK
<1>1. QED  BY TypeInit, TypeStep, PTL DEF Spec

-----------------------------------------------------------------------------
(* What the properties share: the slot holds the value that the gate stored as long as
   its frame exists, errno is logged only where the window may store to it, the handler runs
   only after a crash, and neither a call nor an action returns junk. *)

SlotInv == (pc \in {"window", "handler"} /\ func \notin SlotReuse) => slot = rcvry_return_value

ErrnoInv == (pc \in {"window", "handler"} /\ func \notin ErrnoStores) => log.errno = "none"

CrashInv == pc = "handler" => recoveries > 0

ValueInv == rcvry_return_value # "junk"

\* A handler step leaves the handler, for the gate or for good.
LEMMA HandlerLeaves ==
  ASSUME Handler
  PROVE  /\ pc = "handler" /\ pc' \in {"gate", "exit0", "exit1", "failed", "abort"}
         /\ UNCHANGED <<func, before, recoveries>>
         /\ rcvry_return_value' \in {rcvry_return_value, "null", "neg", "code"}
<1> USE DEF Dispatch, Epilogue, Stop
<1>1. CASE rcvry_ra_set_ret_errno  BY <1>1 DEF rcvry_ra_set_ret_errno
<1>2. CASE SetlocaleAssert  BY <1>2 DEF SetlocaleAssert
<1>3. CASE rcvry_ra_undo_malloc  BY <1>3 DEF rcvry_ra_undo_malloc, FreeWhat
<1>4. CASE rcvry_ra_undo_memalign  BY <1>4 DEF rcvry_ra_undo_memalign, FreeWhat
<1>5. CASE rcvry_ra_undo_addrinfo  BY <1>5 DEF rcvry_ra_undo_addrinfo, FreeWhat
<1>6. CASE rcvry_ra_fail  BY <1>6 DEF rcvry_ra_fail
<1>7. CASE rcvry_ra_close_socket  BY <1>7 DEF rcvry_ra_close_socket, UndoFails
<1>8. CASE rcvry_ra_close  BY <1>8 DEF rcvry_ra_close, CloseReturns, UndoFails
<1>9. CASE rcvry_ra_dlclose  BY <1>9 DEF rcvry_ra_dlclose, UndoFails
<1>10. CASE rcvry_ra_undo_fork  BY <1>10 DEF rcvry_ra_undo_fork, UndoFails
<1>11. CASE rcvry_ra_undo_mkdir  BY <1>11 DEF rcvry_ra_undo_mkdir, UndoFails, RemoveNamed
<1>12. CASE rcvry_ra_undo_mmap  BY <1>12 DEF rcvry_ra_undo_mmap, UndoFails
<1>13. CASE rcvry_ra_undo_pthread_mutex_init  BY <1>13 DEF rcvry_ra_undo_pthread_mutex_init, UndoFailsUnnoticed
<1>14. CASE rcvry_ra_undo_pthread_mutex_lock
  BY <1>14 DEF rcvry_ra_undo_pthread_mutex_lock, UndoFailsUnnoticed, RemoveNamed
<1>15. QED
  BY <1>1, <1>2, <1>3, <1>4, <1>5, <1>6, <1>7, <1>8, <1>9, <1>10, <1>11, <1>12, <1>13, <1>14
  DEF Handler

\* The invariant that all proofs below start from.
BaseInv == TypeOK /\ SlotInv /\ ErrnoInv /\ CrashInv /\ ValueInv

\* Every step keeps what the gate has stored consistent with the call.
LEMMA BaseStep == BaseInv /\ [Next]_vars => BaseInv'
<1> SUFFICES ASSUME TypeOK, SlotInv, ErrnoInv, CrashInv, ValueInv, [Next]_vars
             PROVE  SlotInv' /\ ErrnoInv' /\ CrashInv' /\ ValueInv'
  BY TypeStep DEF BaseInv
<1> USE DEF SlotInv, ErrnoInv, CrashInv, ValueInv
<1>1. ASSUME NEW f \in Functions, NEW b \in SUBSET {"arg"}, LibCall(f, b)
      PROVE  SlotInv' /\ ErrnoInv' /\ CrashInv' /\ ValueInv'
  BY <1>1 DEF LibCall, OkValues, ErrorValues
<1>2. CASE Gate  BY <1>2 DEF Gate, NotLogged
<1>3. CASE ReuseFrame  BY <1>3 DEF ReuseFrame, TypeOK
<1>4. CASE WindowFree  BY <1>4 DEF WindowFree
<1>5. CASE ChildExits  BY <1>5 DEF ChildExits
<1>6. CASE EndOfWindow  BY <1>6 DEF EndOfWindow
<1>7. CASE Crash
  <2>1. recoveries \in Nat
    <3>1. MaxRecoveries[func] \in Nat  BY ActionsAssumption DEF TypeOK
    <3>2. QED  BY <3>1 DEF TypeOK
  <2>2. QED  BY <1>7, <2>1 DEF Crash
<1>8. CASE Handler  BY <1>8, HandlerLeaves
<1>9. CASE UNCHANGED vars  BY <1>9 DEF vars
<1>10. CASE StoreErrno  BY <1>10 DEF StoreErrno
<1>11. QED  BY <1>1, <1>2, <1>3, <1>4, <1>5, <1>6, <1>7, <1>8, <1>9, <1>10 DEF Next

\* The common invariant, in every state.
LEMMA Base == Spec => []BaseInv
<1>1. Init => BaseInv
  <2>1. Init => TypeOK  BY TypeInit
  <2>2. QED  BY <2>1 DEF Init, BaseInv, SlotInv, ErrnoInv, CrashInv, ValueInv
<1>2. QED  BY <1>1, BaseStep, PTL DEF Spec

-----------------------------------------------------------------------------
(* A recovered call is undone. *)

\* Nothing but the new object comes or goes; when it exists, the action's
\* pointer to it is good.
UndoInv ==
  /\ held \ {"new"} = before
  /\ func \in Exclusive => before = {}
  /\ "new" \in held => /\ func \in Makes
                       /\ func \in FillsOut => out = "res"
                       /\ func \in {"malloc", "open"} => rcvry_return_value = "res"
  /\ (pc = "gate" /\ recoveries > 0) => "new" \notin held

\* The action of the call takes back what it made, and nothing else.
LEMMA UndoHandler ==
  ASSUME UndoCondition, BaseInv, UndoInv, Handler  PROVE UndoInv'
<1> USE DEF UndoInv, Exclusive
<1>f. func \in Functions /\ before \subseteq {"arg"} /\ held \subseteq {"arg", "new"}
  BY DEF BaseInv, TypeOK
<1>l. /\ pc = "handler" /\ pc' \in {"gate", "exit0", "exit1", "failed", "abort"}
      /\ UNCHANGED <<func, before, recoveries>>
  BY HandlerLeaves
<1>s. func \in {"malloc", "open"} => slot = rcvry_return_value
  BY <1>f, <1>l DEF BaseInv, SlotInv, UndoCondition
<1>1. ASSUME held' = held, "new" \notin held  PROVE UndoInv'
  BY <1>1, <1>l
<1>2. ASSUME held' = held \ {"new"}  PROVE UndoInv'
  BY <1>2, <1>l
<1>3. ASSUME NEW where, where \in {"exit0", "exit1", "failed", "abort"}, Stop(where)  PROVE UndoInv'
  BY <1>3, <1>l DEF Stop
<1>4. CASE rcvry_ra_set_ret_errno
  <2>1. func \notin Makes  BY <1>4, <1>f, RecoveryTypes DEF rcvry_ra_set_ret_errno, Dispatch, Makes
  <2>2. QED  BY <1>4, <1>1, <2>1 DEF rcvry_ra_set_ret_errno
<1>5. CASE SetlocaleAssert  BY <1>5, <1>3 DEF SetlocaleAssert
<1>6. CASE rcvry_ra_undo_malloc
  <2>1. func = "malloc"  BY <1>6, <1>f, RecoveryTypes DEF rcvry_ra_undo_malloc, Dispatch
  <2>2. "new" \in held => slot = "res"  BY <2>1, <1>s
  <2>3. QED  BY <1>6, <2>2, <1>1, <1>2, <1>3 DEF rcvry_ra_undo_malloc, FreeWhat
<1>7. CASE rcvry_ra_undo_memalign
  <2>1. func = "posix_memalign"  BY <1>7, <1>f, RecoveryTypes DEF rcvry_ra_undo_memalign, Dispatch
  <2>2. "new" \in held => out = "res"  BY <2>1 DEF FillsOut
  <2>3. QED  BY <1>7, <2>2, <1>1, <1>2, <1>3 DEF rcvry_ra_undo_memalign, FreeWhat
<1>8. CASE rcvry_ra_undo_addrinfo
  <2>1. func = "getaddrinfo"  BY <1>8, <1>f, RecoveryTypes DEF rcvry_ra_undo_addrinfo, Dispatch
  <2>2. "new" \in held => out = "res"  BY <2>1 DEF FillsOut
  <2>3. QED  BY <1>8, <2>2, <1>1, <1>2, <1>3 DEF rcvry_ra_undo_addrinfo, FreeWhat
<1>9. CASE rcvry_ra_fail  BY <1>9, <1>3 DEF rcvry_ra_fail
<1>10. CASE rcvry_ra_close_socket
  BY <1>10, <1>f, RecoveryTypes DEF rcvry_ra_close_socket, UndoFails, Dispatch, UndoCondition
<1>11. CASE rcvry_ra_close
  <2>1. func = "open"
    BY <1>11, <1>f, RecoveryTypes DEF rcvry_ra_close, Dispatch, UndoCondition
  <2>2. "new" \in held => slot = "res"  BY <2>1, <1>s
  <2>3. slot # "junk"  BY <2>1, <1>s DEF BaseInv, ValueInv
  <2>4. QED  BY <1>11, <2>1, <2>2, <2>3, <1>1, <1>2, <1>3 DEF rcvry_ra_close, UndoFails
<1>12. CASE rcvry_ra_dlclose  BY <1>12, <1>2, <1>3 DEF rcvry_ra_dlclose, UndoFails
<1>13. CASE rcvry_ra_undo_fork  BY <1>13, <1>1, <1>3 DEF rcvry_ra_undo_fork, UndoFails
<1>14. CASE rcvry_ra_undo_mkdir
  <2>1. func = "mkdir"  BY <1>14, <1>f, RecoveryTypes DEF rcvry_ra_undo_mkdir, UndoFails, Dispatch
  <2>2. "arg" \notin held  BY <2>1
  <2>3. QED  BY <1>14, <2>2, <1>1, <1>2, <1>3 DEF rcvry_ra_undo_mkdir, UndoFails, RemoveNamed, Named
<1>15. CASE rcvry_ra_undo_mmap
  BY <1>15, <1>f, RecoveryTypes DEF rcvry_ra_undo_mmap, UndoFails, Dispatch, UndoCondition
<1>16. CASE rcvry_ra_undo_pthread_mutex_init
  <2>1. func = "pthread_mutex_init"
    BY <1>16, <1>f, RecoveryTypes DEF rcvry_ra_undo_pthread_mutex_init, Dispatch
  <2>2. func \notin UndoMayFail  BY <2>1 DEF UndoCondition
  <2>3. QED
    BY <1>16, <2>2, <1>2 DEF rcvry_ra_undo_pthread_mutex_init, UndoFailsUnnoticed
<1>17. CASE rcvry_ra_undo_pthread_mutex_lock
  <2>1. func = "pthread_mutex_trylock"
    BY <1>17, <1>f, RecoveryTypes DEF rcvry_ra_undo_pthread_mutex_lock, UndoFailsUnnoticed, Dispatch
  <2>2. "arg" \notin held /\ func \notin UndoMayFail  BY <2>1 DEF UndoCondition
  <2>3. QED
    BY <1>17, <2>2, <1>1, <1>2 DEF rcvry_ra_undo_pthread_mutex_lock, UndoFailsUnnoticed, RemoveNamed, Named
<1>18. QED
  BY <1>4, <1>5, <1>6, <1>7, <1>8, <1>9, <1>10, <1>11, <1>12, <1>13, <1>14, <1>15, <1>16,
     <1>17 DEF Handler

\* Every step keeps track of what a call has made.
LEMMA UndoStep == UndoCondition /\ BaseInv /\ UndoInv /\ [Next]_vars => UndoInv'
<1> SUFFICES ASSUME UndoCondition, BaseInv, UndoInv, [Next]_vars PROVE UndoInv'  OBVIOUS
<1>1. ASSUME NEW f \in Functions, NEW b \in SUBSET {"arg"}, LibCall(f, b)  PROVE UndoInv'
  <2>1. held' \ {"new"} = before'  BY <1>1 DEF LibCall
  <2>2. f \in Exclusive => b = {}  BY <1>1 DEF LibCall, UndoCondition
  <2>3. "new" \in held' => /\ f \in Makes
                           /\ f \in FillsOut => out' = "res"
                           /\ f \in {"malloc", "open"} => rcvry_return_value' = "res"
    BY <1>1 DEF LibCall, OkValues, ReturnsCode, ReturnsDescriptor, FillsOut, UndoCondition
  <2>4. QED  BY <1>1, <2>1, <2>2, <2>3 DEF LibCall, UndoInv
<1> USE DEF UndoInv
<1>2. CASE Gate  BY <1>2 DEF Gate
<1>3. CASE ReuseFrame  BY <1>3 DEF ReuseFrame, UndoCondition
<1>4. CASE WindowFree  BY <1>4 DEF WindowFree
<1>5. CASE ChildExits  BY <1>5 DEF ChildExits
<1>6. CASE EndOfWindow  BY <1>6 DEF EndOfWindow
<1>7. CASE Crash  BY <1>7 DEF Crash
<1>8. CASE Handler  BY <1>8, UndoHandler
<1>9. CASE UNCHANGED vars  BY <1>9 DEF vars
<1>10. CASE StoreErrno  BY <1>10 DEF StoreErrno
<1>11. QED  BY <1>1, <1>2, <1>3, <1>4, <1>5, <1>6, <1>7, <1>8, <1>9, <1>10 DEF Next

(* Back at the gate after a recovery, what existed before the call exists and nothing else,
   however often the window crashed: the effect is undone exactly, or the handler does not
   come back (rcvry_ra_undo_malloc, rcvry_ra_close, rcvry_ra_undo_mkdir and the others). *)
THEOREM RecoveredCallIsUndone ==
  ASSUME UndoCondition  PROVE Spec => []UndoneExactly
<1>1. Init => UndoInv  BY DEF Init, UndoInv
<1>2. BaseInv /\ UndoInv /\ [Next]_vars => UndoInv'  BY UndoStep
<1>3. BaseInv /\ UndoInv => UndoneExactly
  BY DEF BaseInv, TypeOK, UndoInv, UndoneExactly
<1>4. QED  BY <1>1, <1>2, <1>3, Base, PTL DEF Spec

-----------------------------------------------------------------------------
(* A recovered call returns an error. *)

\* The action of the call leaves an error that the call can return.
LEMMA ErrorHandler ==
  ASSUME ErrorCondition, BaseInv, Handler  PROVE ErrorReturned'
<1> USE DEF ErrorReturned, Epilogue, Stop, Dispatch,
            ErrorValues, ReturnsCode, ReturnsPointer, FillsOut
<1>f. func \in Functions  BY DEF BaseInv, TypeOK
<1>n. func \notin {"accept", "connect", "getpwnam", "dlopen"}  BY <1>f DEF ErrorCondition
<1>e. func \in ReturnsCode \cup {"read", "realloc", "setlocale"} \/ log.errno = "none"
  BY HandlerLeaves DEF ErrorCondition, BaseInv, ErrnoInv
<1>1. CASE rcvry_ra_set_ret_errno
  <2>1. func \in {"recv", "chdir", "getenv"}
    BY <1>1, <1>f, <1>n, RecoveryTypes DEF rcvry_ra_set_ret_errno
  <2>2. libCallRecoveryMap[func] = "SET_RET_NULL_ERRNO_ENOMEM" <=> func = "getenv"
    BY <1>f, RecoveryTypes
  <2>3. QED  BY <1>1, <1>e, <2>1, <2>2 DEF rcvry_ra_set_ret_errno
<1>2. CASE SetlocaleAssert  BY <1>2 DEF SetlocaleAssert
<1>3. CASE rcvry_ra_undo_malloc  BY <1>3, <1>f, <1>e, RecoveryTypes DEF rcvry_ra_undo_malloc, FreeWhat
<1>4. CASE rcvry_ra_undo_memalign  BY <1>4, <1>f, <1>e, RecoveryTypes DEF rcvry_ra_undo_memalign, FreeWhat
<1>5. CASE rcvry_ra_undo_addrinfo  BY <1>5, <1>f, <1>e, RecoveryTypes DEF rcvry_ra_undo_addrinfo, FreeWhat
<1>6. CASE rcvry_ra_fail  BY <1>6 DEF rcvry_ra_fail
<1>7. CASE rcvry_ra_close_socket  BY <1>7, <1>f, <1>n, RecoveryTypes DEF rcvry_ra_close_socket, UndoFails
<1>8. CASE rcvry_ra_close  BY <1>8, <1>f, <1>e, RecoveryTypes DEF rcvry_ra_close, CloseReturns, UndoFails
<1>9. CASE rcvry_ra_dlclose  BY <1>9, <1>f, <1>n, RecoveryTypes DEF rcvry_ra_dlclose, UndoFails
<1>10. CASE rcvry_ra_undo_fork  BY <1>10, <1>f, <1>e, RecoveryTypes DEF rcvry_ra_undo_fork, UndoFails
<1>11. CASE rcvry_ra_undo_mkdir
  BY <1>11, <1>f, <1>e, RecoveryTypes DEF rcvry_ra_undo_mkdir, UndoFails, RemoveNamed
<1>12. CASE rcvry_ra_undo_mmap  BY <1>12, <1>f, <1>e, RecoveryTypes DEF rcvry_ra_undo_mmap, UndoFails
<1>13. CASE rcvry_ra_undo_pthread_mutex_init
  BY <1>13, <1>f, <1>e, RecoveryTypes DEF rcvry_ra_undo_pthread_mutex_init, UndoFailsUnnoticed
<1>14. CASE rcvry_ra_undo_pthread_mutex_lock
  BY <1>14, <1>f, <1>e, RecoveryTypes DEF rcvry_ra_undo_pthread_mutex_lock, UndoFailsUnnoticed, RemoveNamed
<1>15. QED
  BY <1>1, <1>2, <1>3, <1>4, <1>5, <1>6, <1>7, <1>8, <1>9, <1>10, <1>11, <1>12, <1>13, <1>14
  DEF Handler

(* The value an action leaves for the gate is an error to the callers of the function, and
   errno is an error number where they look at it, whatever the window did and however often
   it crashed (RCVRY_RA_EPILOGUE). *)
THEOREM RecoveredCallReturnsError ==
  ASSUME ErrorCondition  PROVE Spec => []ErrorReturned
<1>1. Init => ErrorReturned  BY DEF Init, ErrorReturned
<1>2. ASSUME BaseInv, ErrorReturned, [Next]_vars  PROVE ErrorReturned'
  <2> USE DEF ErrorReturned
  <2>1. ASSUME NEW f \in Functions, NEW b \in SUBSET {"arg"}, LibCall(f, b)
        PROVE  ErrorReturned'
    BY <2>1 DEF LibCall
  <2>2. CASE Gate  BY <2>2 DEF Gate
  <2>3. CASE ReuseFrame  BY <2>3 DEF ReuseFrame
  <2>4. CASE WindowFree  BY <2>4 DEF WindowFree
  <2>5. CASE ChildExits  BY <2>5 DEF ChildExits
  <2>6. CASE EndOfWindow  BY <2>6 DEF EndOfWindow
  <2>7. CASE Crash  BY <2>7 DEF Crash
  <2>8. CASE Handler  BY <1>2, <2>8, ErrorHandler
  <2>9. CASE UNCHANGED vars  BY <1>2, <2>9 DEF vars
  <2>10. CASE StoreErrno  BY <2>10 DEF StoreErrno
  <2>11. QED  BY <1>2, <2>1, <2>2, <2>3, <2>4, <2>5, <2>6, <2>7, <2>8, <2>9, <2>10 DEF Next
<1>3. QED  BY <1>1, <1>2, Base, PTL DEF Spec

-----------------------------------------------------------------------------
(* The handler does not abort, and does not give up.  An action that is right only once
   runs in a state where the call's effect is as the call left it. *)

Fresh == pc = "handler" \/ (pc \in {"gate", "window"} /\ recoveries = 0)

\* What the actions that free rely on.
AbortInv ==
  /\ pc # "abort"
  /\ func = "malloc" => /\ rcvry_return_value \in {"res", "null"}
                        /\ rcvry_return_value = "res" => "new" \in held
  /\ (func \in FillsOut /\ Fresh) => (out = "res" /\ "new" \in held)
  /\ (func = "dlopen" /\ Fresh) => rcvry_return_value \in {"res", "null"}

\* The action of the call does not run into its own assertions.
LEMMA AbortHandler ==
  ASSUME AbortCondition, BaseInv, AbortInv, Handler  PROVE AbortInv'
<1> USE DEF AbortInv, Fresh, FillsOut
<1>f. func \in Functions /\ recoveries > 0  BY HandlerLeaves DEF BaseInv, TypeOK, CrashInv
<1>l. /\ pc = "handler" /\ pc' \in {"gate", "exit0", "exit1", "failed", "abort"}
      /\ UNCHANGED <<func, before, recoveries>>
  BY HandlerLeaves
<1>s. func \in {"malloc", "dlopen"} => slot = rcvry_return_value
  BY <1>f, <1>l DEF BaseInv, SlotInv, AbortCondition
<1>1. ASSUME NEW ret, NEW err, Epilogue(ret, err), func = "malloc" => ret = "null"
      PROVE  AbortInv'
  BY <1>1, <1>l, <1>f DEF Epilogue
<1>2. ASSUME NEW where, where \in {"exit0", "exit1", "failed"}, Stop(where)
      PROVE  AbortInv'
  BY <1>2, <1>l DEF Stop
<1>3. CASE rcvry_ra_set_ret_errno
  <2>1. func # "malloc"  BY <1>3, <1>f, RecoveryTypes DEF rcvry_ra_set_ret_errno, Dispatch
  <2>2. QED  BY <1>3, <1>1, <2>1 DEF rcvry_ra_set_ret_errno
<1>4. CASE SetlocaleAssert
  BY <1>4, <1>f, RecoveryTypes DEF SetlocaleAssert, Dispatch, AbortCondition
<1>5. CASE rcvry_ra_undo_malloc
  <2>1. func = "malloc"  BY <1>5, <1>f, RecoveryTypes DEF rcvry_ra_undo_malloc, Dispatch
  <2>2. slot \in {"res", "null"} /\ (slot = "res" => "new" \in held)  BY <2>1, <1>s
  <2>3. QED  BY <1>5, <2>1, <2>2, <1>1 DEF rcvry_ra_undo_malloc, FreeWhat
<1>6. CASE rcvry_ra_undo_memalign
  <2>1. func = "posix_memalign"  BY <1>6, <1>f, RecoveryTypes DEF rcvry_ra_undo_memalign, Dispatch
  <2>2. out = "res" /\ "new" \in held  BY <2>1, <1>l
  <2>3. QED  BY <1>6, <2>1, <2>2, <1>1 DEF rcvry_ra_undo_memalign, FreeWhat
<1>7. CASE rcvry_ra_undo_addrinfo
  <2>1. func = "getaddrinfo"  BY <1>7, <1>f, RecoveryTypes DEF rcvry_ra_undo_addrinfo, Dispatch
  <2>2. out = "res" /\ "new" \in held  BY <2>1, <1>l
  <2>3. QED  BY <1>7, <2>1, <2>2, <1>1 DEF rcvry_ra_undo_addrinfo, FreeWhat
<1>8. CASE rcvry_ra_fail  BY <1>8, <1>2 DEF rcvry_ra_fail
<1>9. CASE rcvry_ra_close_socket
  <2>1. func # "malloc"  BY <1>9, <1>f, RecoveryTypes DEF rcvry_ra_close_socket, UndoFails, Dispatch
  <2>2. func \notin ZeroDescriptor
    BY <1>9, <1>f, RecoveryTypes DEF rcvry_ra_close_socket, Dispatch, AbortCondition
  <2>3. QED  BY <1>9, <1>1, <1>2, <2>1, <2>2 DEF rcvry_ra_close_socket, UndoFails
<1>10. CASE rcvry_ra_close
  <2>1. func # "malloc"  BY <1>10, <1>f, RecoveryTypes DEF rcvry_ra_close, CloseReturns, UndoFails, Dispatch
  <2>2. QED  BY <1>10, <1>1, <1>2, <2>1 DEF rcvry_ra_close, CloseReturns, UndoFails
<1>11. CASE rcvry_ra_dlclose
  <2>1. func = "dlopen"  BY <1>11, <1>f, RecoveryTypes DEF rcvry_ra_dlclose, UndoFails, Dispatch
  <2>2. slot \in {"res", "null"}  BY <2>1, <1>s, <1>l
  <2>3. QED  BY <1>11, <2>1, <2>2, <1>1, <1>2 DEF rcvry_ra_dlclose, UndoFails
<1>12. CASE rcvry_ra_undo_fork
  <2>1. func # "malloc"  BY <1>12, <1>f, RecoveryTypes DEF rcvry_ra_undo_fork, UndoFails, Dispatch
  <2>2. QED  BY <1>12, <1>1, <1>2, <2>1 DEF rcvry_ra_undo_fork, UndoFails
<1>13. CASE rcvry_ra_undo_mkdir
  <2>1. func # "malloc"  BY <1>13, <1>f, RecoveryTypes DEF rcvry_ra_undo_mkdir, UndoFails, Dispatch
  <2>2. QED  BY <1>13, <1>1, <1>2, <2>1 DEF rcvry_ra_undo_mkdir, UndoFails, RemoveNamed
<1>14. CASE rcvry_ra_undo_mmap
  <2>1. func # "malloc"  BY <1>14, <1>f, RecoveryTypes DEF rcvry_ra_undo_mmap, UndoFails, Dispatch
  <2>2. QED  BY <1>14, <1>1, <1>2, <2>1 DEF rcvry_ra_undo_mmap, UndoFails
<1>15. CASE rcvry_ra_undo_pthread_mutex_init
  <2>1. func # "malloc"
    BY <1>15, <1>f, RecoveryTypes DEF rcvry_ra_undo_pthread_mutex_init, UndoFailsUnnoticed, Dispatch
  <2>2. QED  BY <1>15, <1>1, <2>1 DEF rcvry_ra_undo_pthread_mutex_init, UndoFailsUnnoticed
<1>16. CASE rcvry_ra_undo_pthread_mutex_lock
  <2>1. func # "malloc"
    BY <1>16, <1>f, RecoveryTypes DEF rcvry_ra_undo_pthread_mutex_lock, UndoFailsUnnoticed, Dispatch
  <2>2. QED  BY <1>16, <1>1, <2>1 DEF rcvry_ra_undo_pthread_mutex_lock, UndoFailsUnnoticed, RemoveNamed
<1>17. QED
  BY <1>3, <1>4, <1>5, <1>6, <1>7, <1>8, <1>9, <1>10, <1>11, <1>12, <1>13, <1>14, <1>15, <1>16
  DEF Handler

\* Every step keeps the handler clear of abort.
LEMMA AbortStep == AbortCondition /\ BaseInv /\ AbortInv /\ [Next]_vars => AbortInv'
<1> SUFFICES ASSUME AbortCondition, BaseInv, AbortInv, [Next]_vars PROVE AbortInv'  OBVIOUS
<1> USE DEF AbortInv, Fresh, FillsOut
<1>f. func \in Functions  BY DEF BaseInv, TypeOK
<1>1. ASSUME NEW f \in Functions, NEW b \in SUBSET {"arg"}, LibCall(f, b)  PROVE AbortInv'
  <2>1. f = "malloc" => /\ rcvry_return_value' \in {"res", "null"}
                        /\ rcvry_return_value' = "res" => "new" \in held'
    BY <1>1 DEF LibCall, Makes, OkValues, ErrorValues, ReturnsCode, ReturnsPointer
  <2>2. f \in FillsOut => (out' = "res" /\ "new" \in held')
    BY <1>1 DEF LibCall, AbortCondition, Makes
  <2>3. f = "dlopen" => rcvry_return_value' \in {"res", "null"}
    BY <1>1 DEF LibCall, OkValues, ErrorValues, ReturnsCode, ReturnsPointer
  <2>4. QED  BY <1>1, <2>1, <2>2, <2>3 DEF LibCall
<1>2. CASE Gate  BY <1>2 DEF Gate
<1>3. CASE ReuseFrame  BY <1>3 DEF ReuseFrame, AbortCondition
<1>4. CASE WindowFree  BY <1>4 DEF WindowFree, AbortCondition
<1>5. CASE ChildExits  BY <1>5 DEF ChildExits
<1>6. CASE EndOfWindow  BY <1>6 DEF EndOfWindow
<1>7. CASE Crash
  <2>1. func \in FreesOnce => recoveries = 0
    <3>1. recoveries \in 0 .. MaxRecoveries[func] /\ MaxRecoveries[func] \in Nat
      BY ActionsAssumption DEF BaseInv, TypeOK
    <3>2. func \in FreesOnce => MaxRecoveries[func] <= 1  BY <1>f DEF AbortCondition
    <3>3. QED  BY <1>7, <3>1, <3>2 DEF Crash
  <2>2. QED  BY <1>7, <2>1 DEF Crash, FreesOnce
<1>8. CASE Handler  BY <1>8, AbortHandler
<1>9. CASE UNCHANGED vars  BY <1>9 DEF vars
<1>10. CASE StoreErrno  BY <1>10 DEF StoreErrno
<1>11. QED  BY <1>1, <1>2, <1>3, <1>4, <1>5, <1>6, <1>7, <1>8, <1>9, <1>10 DEF Next

(* The handler does not crash in its turn: no action frees memory twice or through an
   invalid pointer, and no assertion of a prologue fails (rcvry_ra_undo_malloc,
   rcvry_ra_undo_memalign, rcvry_ra_dlclose and the others). *)
THEOREM HandlerIsSafe ==
  ASSUME AbortCondition  PROVE Spec => []HandlerNeverAborts
<1>1. Init => AbortInv  BY DEF Init, AbortInv, Fresh
<1>2. BaseInv /\ AbortInv /\ [Next]_vars => AbortInv'  BY AbortStep
<1>3. AbortInv => HandlerNeverAborts  BY DEF AbortInv, HandlerNeverAborts
<1>4. QED  BY <1>1, <1>2, <1>3, Base, PTL DEF Spec

-----------------------------------------------------------------------------
\* What the actions that undo an effect rely on.
GiveUpInv ==
  /\ GivesUpOnlyOnFail
  /\ (func = "open" /\ pc # "app") => /\ rcvry_return_value \in {"res", "neg", "null"}
                                      /\ rcvry_return_value = "res" => "new" \in held
  /\ (func \in {"accept", "connect"} /\ Fresh) => "arg" \in held
  /\ (func = "dlopen" /\ Fresh) => rcvry_return_value = "res"
  /\ (func = "fork" /\ Fresh) => rcvry_return_value \in {"res", "null"}
  /\ (func \in {"dlopen", "mkdir", "mmap"} /\ Fresh) => "new" \in held

\* The action of the call ends the program only where it is the failing one.
LEMMA GiveUpHandler ==
  ASSUME GiveUpCondition, BaseInv, GiveUpInv, Handler  PROVE GiveUpInv'
<1> USE DEF GiveUpInv, Fresh, GivesUpOnlyOnFail
<1>f. func \in Functions /\ recoveries > 0  BY HandlerLeaves DEF BaseInv, TypeOK, CrashInv
<1>l. /\ pc = "handler" /\ pc' \in {"gate", "exit0", "exit1", "failed", "abort"}
      /\ UNCHANGED <<func, before, recoveries>>
  BY HandlerLeaves
<1>s. func \in {"open", "dlopen", "fork"} => slot = rcvry_return_value
  BY <1>f, <1>l DEF BaseInv, SlotInv, GiveUpCondition
<1>1. ASSUME NEW ret, NEW err, Epilogue(ret, err), func = "open" => ret = "neg"
      PROVE  GiveUpInv'
  BY <1>1, <1>l, <1>f DEF Epilogue
<1>2. ASSUME NEW where, where \in {"exit0", "failed", "abort"}, Stop(where)
      PROVE  GiveUpInv'
  BY <1>2, <1>l DEF Stop
<1>n. func # "open" <=> libCallRecoveryMap[func] # "CLOSE"  BY <1>f, RecoveryTypes
<1>3. CASE rcvry_ra_set_ret_errno
  BY <1>3, <1>1, <1>n DEF rcvry_ra_set_ret_errno, Dispatch, SetRet
<1>4. CASE SetlocaleAssert  BY <1>4, <1>2 DEF SetlocaleAssert
<1>5. CASE rcvry_ra_undo_malloc
  BY <1>5, <1>1, <1>2, <1>n DEF rcvry_ra_undo_malloc, FreeWhat, Dispatch
<1>6. CASE rcvry_ra_undo_memalign
  BY <1>6, <1>1, <1>2, <1>n DEF rcvry_ra_undo_memalign, FreeWhat, Dispatch
<1>7. CASE rcvry_ra_undo_addrinfo
  BY <1>7, <1>1, <1>2, <1>n DEF rcvry_ra_undo_addrinfo, FreeWhat, Dispatch
<1>8. CASE rcvry_ra_fail
  <2>1. func \in {"read", "realloc"} /\ libCallRecoveryMap[func] \in {"FAIL", "UNDO_REALLOC"}
    BY <1>8, <1>f, RecoveryTypes DEF rcvry_ra_fail, Dispatch
  <2>2. QED  BY <1>8, <2>1, <1>l DEF rcvry_ra_fail, Stop
<1>9. CASE rcvry_ra_close_socket
  <2>1. func \in {"accept", "connect"}
    BY <1>9, <1>f, RecoveryTypes DEF rcvry_ra_close_socket, UndoFails, Dispatch
  <2>2. QED  BY <1>9, <2>1, <1>1, <1>2, <1>l DEF rcvry_ra_close_socket, UndoFails
<1>10. CASE rcvry_ra_close
  <2>1. func = "open" /\ libCallRecoveryMap[func] = "CLOSE"
    BY <1>10, <1>f, RecoveryTypes DEF rcvry_ra_close, Dispatch, GiveUpCondition
  <2>2. slot \in {"res", "neg", "null"} /\ (slot = "res" => "new" \in held)  BY <2>1, <1>s, <1>l
  <2>3. QED  BY <1>10, <2>1, <2>2, <1>1, <1>2 DEF rcvry_ra_close, CloseReturns, UndoFails
<1>11. CASE rcvry_ra_dlclose
  <2>1. func = "dlopen"  BY <1>11, <1>f, RecoveryTypes DEF rcvry_ra_dlclose, UndoFails, Dispatch
  <2>2. slot = "res" /\ "new" \in held  BY <2>1, <1>s, <1>l
  <2>3. QED  BY <1>11, <2>1, <2>2, <1>1, <1>2 DEF rcvry_ra_dlclose, UndoFails
<1>12. CASE rcvry_ra_undo_fork
  <2>1. func = "fork"  BY <1>12, <1>f, RecoveryTypes DEF rcvry_ra_undo_fork, UndoFails, Dispatch
  <2>2. slot \in {"res", "null"}  BY <2>1, <1>s, <1>l
  <2>3. QED  BY <1>12, <2>1, <2>2, <1>1, <1>2 DEF rcvry_ra_undo_fork, UndoFails
<1>13. CASE rcvry_ra_undo_mkdir
  <2>1. func = "mkdir"  BY <1>13, <1>f, RecoveryTypes DEF rcvry_ra_undo_mkdir, UndoFails, Dispatch
  <2>2. held # {}  BY <2>1, <1>l
  <2>3. QED  BY <1>13, <2>1, <2>2, <1>1, <1>2 DEF rcvry_ra_undo_mkdir, UndoFails, RemoveNamed
<1>14. CASE rcvry_ra_undo_mmap
  <2>1. func = "mmap"  BY <1>14, <1>f, RecoveryTypes DEF rcvry_ra_undo_mmap, UndoFails, Dispatch
  <2>2. "new" \in held  BY <2>1, <1>l
  <2>3. QED  BY <1>14, <2>1, <2>2, <1>1, <1>2 DEF rcvry_ra_undo_mmap, UndoFails
<1>15. CASE rcvry_ra_undo_pthread_mutex_init
  BY <1>15, <1>1, <1>n DEF rcvry_ra_undo_pthread_mutex_init, UndoFailsUnnoticed, Dispatch
<1>16. CASE rcvry_ra_undo_pthread_mutex_lock
  BY <1>16, <1>1, <1>n DEF rcvry_ra_undo_pthread_mutex_lock, UndoFailsUnnoticed, RemoveNamed, Dispatch
<1>17. QED
  BY <1>3, <1>4, <1>5, <1>6, <1>7, <1>8, <1>9, <1>10, <1>11, <1>12, <1>13, <1>14, <1>15, <1>16
  DEF Handler

\* Every step keeps the handler clear of exit.
LEMMA GiveUpStep == GiveUpCondition /\ BaseInv /\ GiveUpInv /\ [Next]_vars => GiveUpInv'
<1> SUFFICES ASSUME GiveUpCondition, BaseInv, GiveUpInv, [Next]_vars PROVE GiveUpInv'  OBVIOUS
<1> USE DEF GiveUpInv, Fresh, GivesUpOnlyOnFail
<1>f. func \in Functions  BY DEF BaseInv, TypeOK
<1>1. ASSUME NEW f \in Functions, NEW b \in SUBSET {"arg"}, LibCall(f, b)  PROVE GiveUpInv'
  <2>1. f = "open" => /\ rcvry_return_value' \in {"res", "neg", "null"}
                      /\ rcvry_return_value' = "res" => "new" \in held'
    BY <1>1 DEF LibCall, Makes, OkValues, ErrorValues, ReturnsCode, ReturnsPointer, FillsOut
  <2>2. f \in {"accept", "connect"} => "arg" \in held'  BY <1>1 DEF LibCall, NeedsArg
  <2>3. f \in {"dlopen", "mkdir", "mmap"} => "new" \in held'
    BY <1>1 DEF LibCall, GiveUpCondition, Makes
  <2>4. /\ f = "dlopen" => rcvry_return_value' = "res"
        /\ f = "fork" => rcvry_return_value' \in {"res", "null"}
    BY <1>1 DEF LibCall, GiveUpCondition, OkValues, ReturnsCode, ReturnsDescriptor, FillsOut
  <2>5. QED  BY <1>1, <2>1, <2>2, <2>3, <2>4 DEF LibCall
<1>2. CASE Gate  BY <1>2 DEF Gate
<1>3. CASE ReuseFrame  BY <1>3 DEF ReuseFrame
<1>4. CASE WindowFree  BY <1>4 DEF WindowFree
<1>5. CASE ChildExits  BY <1>5 DEF ChildExits
<1>6. CASE EndOfWindow  BY <1>6 DEF EndOfWindow
<1>7. CASE Crash
  <2>1. func \in UndoesOnce => recoveries = 0
    <3>1. recoveries \in 0 .. MaxRecoveries[func] /\ MaxRecoveries[func] \in Nat
      BY ActionsAssumption DEF BaseInv, TypeOK
    <3>2. func \in UndoesOnce => MaxRecoveries[func] <= 1  BY <1>f DEF GiveUpCondition
    <3>3. QED  BY <1>7, <3>1, <3>2 DEF Crash
  <2>2. QED  BY <1>7, <2>1 DEF Crash, UndoesOnce
<1>8. CASE Handler  BY <1>8, GiveUpHandler
<1>9. CASE UNCHANGED vars  BY <1>9 DEF vars
<1>10. CASE StoreErrno  BY <1>10 DEF StoreErrno
<1>11. QED  BY <1>1, <1>2, <1>3, <1>4, <1>5, <1>6, <1>7, <1>8, <1>9, <1>10 DEF Next

(* The handler gives up only on read and realloc, which have no action: no other action fails
   for want of an effect to undo (rcvry_ra_close, rcvry_ra_dlclose, rcvry_ra_undo_fork,
   rcvry_ra_undo_mkdir, rcvry_ra_undo_mmap, rcvry_ra_close_socket). *)
THEOREM HandlerGivesUpOnlyOnFail ==
  ASSUME GiveUpCondition  PROVE Spec => []GivesUpOnlyOnFail
<1>1. Init => GiveUpInv  BY DEF Init, GiveUpInv, Fresh, GivesUpOnlyOnFail
<1>2. BaseInv /\ GiveUpInv /\ [Next]_vars => GiveUpInv'  BY GiveUpStep
<1>3. GiveUpInv => GivesUpOnlyOnFail  BY DEF GiveUpInv
<1>4. QED  BY <1>1, <1>2, <1>3, Base, PTL DEF Spec

-----------------------------------------------------------------------------
(* All four properties together hold of the functions, failures, frames and stores of
   RightOnce, as often as Repeatable says: the functions of which the actions are right
   (rcvry_actions.c). *)
THEOREM RightOnceIsRecovered ==
  ASSUME Functions \subseteq RightOnce, MayFail \subseteq Repeatable,
         SlotReuse \subseteq FrameIgnored, WindowFrees = {},
         ErrnoStores \subseteq ErrnoIgnored, ZeroDescriptor = {},
         UndoMayFail \subseteq FailureSeen,
         \A f \in Functions \ Repeatable : MaxRecoveries[f] <= 1
  PROVE  Spec => [](UndoneExactly /\ ErrorReturned /\ HandlerNeverAborts /\ GivesUpOnlyOnFail)
<1> USE DEF RightOnce, Repeatable, FrameIgnored, FillsOut
<1>1. UndoCondition  BY DEF UndoCondition, Exclusive, FailureSeen
<1>2. ErrorCondition  BY DEF ErrorCondition, ErrnoIgnored
<1>3. AbortCondition  BY DEF AbortCondition, FreesOnce
<1>4. GiveUpCondition  BY DEF GiveUpCondition, UndoesOnce
<1>5. QED
  BY <1>1, <1>2, <1>3, <1>4, RecoveredCallIsUndone, RecoveredCallReturnsError, HandlerIsSafe,
     HandlerGivesUpOnlyOnFail, PTL

=============================================================================
