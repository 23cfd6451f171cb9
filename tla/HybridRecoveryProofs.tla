------------------------ MODULE HybridRecoveryProofs ------------------------
(***************************************************************************)
(* Theorems about HybridRecovery, for every set of sites and cells and     *)
(* every value of the options.                                             *)
(***************************************************************************)
EXTENDS HybridRecovery, TLAPS

USE DEF adapt, handler, tx, history

-----------------------------------------------------------------------------
(* Type correctness. *)

(* What a transaction saves is a snapshot (_xbegin). *)
LEMMA NowType == TypeOK => Now \in Snapshot
  BY DEF TypeOK, Now, Snapshot

(* The default transaction type is one of the two. *)
LEMMA DefaultType == Default \in TxType
  BY DEF Default, TxType

(* The end-of-window hooks keep the gates, the type and the counters well formed. *)
LEMMA EndOfWindowType ==
  ASSUME TypeOK, EndOfWindowTsx \/ EndOfWindowUndo
  PROVE  /\ gates' \in [Sites -> GateVal]
         /\ cur_tx_type' \in TxType
         /\ hits' \in [Sites -> Nat] /\ fails' \in [Sites -> Nat]
         /\ xnest' \in 0 .. MaxNest
<1> USE DefaultType, HybridAssumption
<1>1. CASE EndOfWindowTsx
  BY <1>1 DEF EndOfWindowTsx, TypeOK, GateVal, TxType
<1>2. CASE EndOfWindowUndo
  BY <1>2 DEF EndOfWindowUndo, TypeOK, GateVal, TxType
<1> QED BY <1>1, <1>2

(* Initial states are well typed. *)
LEMMA InitType == Init => TypeOK
<1> SUFFICES ASSUME Init PROVE TypeOK
  OBVIOUS
<1> USE HybridAssumption, DefaultType
<1>1. /\ gates \in [Sites -> GateVal] /\ cur_tx_type \in TxType
      /\ site \in Sites /\ next \in Sites /\ ret \in {"lib", "err"}
      /\ mem \in Memory /\ wl \in Log /\ ckpt \in Memory
      /\ clone \in {"tsx", "undo"}
      /\ fi \subseteq Site /\ pc \in PC /\ tries \in Int
      /\ xnest \in 0 .. MaxNest
      /\ prev_site \in Sites /\ repeat_count \in Nat /\ streak \in Nat
  BY DEF Init, Sites, GateVal, Memory, Log, EmptyLog, CloneFor, PC
<1>2. hits \in [Sites -> Nat] /\ fails \in [Sites -> Nat] /\ sample \in [Sites -> Nat]
  BY DEF Init
<1>3. xsave \in Snapshot
  BY <1>1, <1>2 DEF Init, Now, Snapshot
<1> QED BY <1>1, <1>2, <1>3 DEF TypeOK

(* Every step keeps the state well typed; one case per action. *)
LEMMA NextType == TypeOK /\ [Next]_vars => TypeOK'
<1> SUFFICES ASSUME TypeOK, [Next]_vars PROVE TypeOK'
  OBVIOUS
<1> USE HybridAssumption
<1>1. ASSUME NEW c \in Cell, NEW v \in Val, Store(c, v) PROVE TypeOK'
  BY <1>1 DEF Store, TypeOK, Memory, Log
<1>2. CASE TxTypeCheck
  BY <1>2 DEF TxTypeCheck, CloneFor, TypeOK
<1>3. ASSUME NEW n \in Site, EndOfWindow(n) PROVE TypeOK'
  BY <1>3, EndOfWindowType DEF EndOfWindow, TypeOK, Sites, PC
<1>4. CASE NonFaultableCall
  BY <1>4, EndOfWindowType DEF NonFaultableCall, TypeOK
<1>5. CASE FatalFault
  BY <1>5 DEF FatalFault, OneMoreSegv, TypeOK, PC
<1>6. CASE Call
  BY <1>6 DEF Call, TypeOK, PC
<1>7. ASSUME NEW c \in Cell, NEW v \in Val, LibWrite(c, v) PROVE TypeOK'
  BY <1>7 DEF LibWrite, TypeOK, Memory
<1>8. CASE Return
  BY <1>8 DEF Return, TypeOK, PC
<1>9. CASE Crash
  BY <1>9 DEF Crash, OneMoreSegv, TypeOK, PC
<1>10. CASE EnterTsx
  <2>1. hits' \in [Sites -> Nat] /\ pc' \in PC /\ tries' \in Int
    BY <1>10 DEF EnterTsx, TypeOK, PC
  <2> QED BY <1>10, <2>1 DEF EnterTsx, TypeOK
<1>11. CASE EnterUndo
  BY <1>11 DEF EnterUndo, TypeOK, PC, EmptyLog, Log
<1>12. CASE XBegin
  BY <1>12, NowType DEF XBegin, TypeOK, PC
<1>13. CASE TolFailed
  <2>1. fails' \in [Sites -> Nat] /\ sample' \in [Sites -> Nat]
    BY <1>13 DEF TolFailed, TypeOK
  <2> QED BY <1>13, <2>1 DEF TolFailed, TypeOK, PC, TxType, GateVal
<1>14. CASE SegvGiveUp
  BY <1>14 DEF SegvGiveUp, SegvRepeat, TypeOK, PC
<1>15. CASE SegvNoAction
  BY <1>15 DEF SegvNoAction, SegvRepeat, OneMoreSegv, TypeOK, GateVal
<1>16. CASE SegvActionFails
  BY <1>16 DEF SegvActionFails, SegvRepeat, TypeOK, PC, GateVal
<1>17. CASE SegvRecover
  <2>1. Restarted \in Memory /\ EmptyLog \in Log
    BY DEF Restarted, EmptyLog, Memory, Log, TypeOK
  <2>2. gates' \in [Sites -> GateVal]
    BY <1>17 DEF SegvRecover, TypeOK, GateVal
  <2> QED BY <1>17, <2>1, <2>2 DEF SegvRecover, SegvRepeat, TypeOK, PC
<1>18. CASE XAbort
  BY <1>18 DEF XAbort, Snapshot, TypeOK, PC
<1>19. CASE UNCHANGED vars
  BY <1>19 DEF vars, TypeOK
<1>20. ASSUME NEW c \in Cell, NEW v \in Val, NonFaultableWrite(c, v) PROVE TypeOK'
  BY <1>20 DEF NonFaultableWrite, TypeOK, Memory
<1> QED
  BY <1>1, <1>2, <1>3, <1>4, <1>5, <1>6, <1>7, <1>8, <1>9, <1>10, <1>11, <1>12,
     <1>13, <1>14, <1>15, <1>16, <1>17, <1>18, <1>19, <1>20
     DEF Next, App, Runtime, SegvHandler

(* Every variable keeps its type in every configuration: in particular _xend is
   never executed outside a transaction (xnest stays a natural number). *)
THEOREM HybridTypeCorrect == Spec => []TypeOK
  BY InitType, NextType, PTL DEF Spec

-----------------------------------------------------------------------------
(* One window is not recovered forever. *)

\* The handler's statics remember the n SIGSEGVs taken at site s in a row.
SegvCount(s, n) == n > 0 => prev_site = s /\ repeat_count >= n - 1

\* What the bound rests on: the statics are at least as far on as the streak,
\* both now and in the state an open transaction would come back to.
RepeatInv ==
  /\ repeat_count <= RepeatLimit + 1
  /\ pc # "exit2" => repeat_count <= RepeatLimit
  /\ pc \in {"exit1", "exit2"} => streak <= RepeatLimit + 2
  /\ pc = "crashed" => streak >= 1 /\ SegvCount(site, streak - 1)
  /\ pc \in {"window", "entry", "tol", "tolfail"} => SegvCount(site, streak)
  /\ pc \in {"pre", "call"} => streak = 0
  /\ xnest > 0 => /\ SegvCount(xsave.site, xsave.streak)
                  /\ pc \notin {"crashed", "exit1", "exit2"}

(* The invariant implies the bound. *)
LEMMA RepeatInvBounds == TypeOK /\ RepeatInv => RecoveryAttemptsBounded
  BY HybridAssumption DEF TypeOK, PC, RepeatInv, SegvCount, RecoveryAttemptsBounded

(* Main is entered before any SIGSEGV. *)
LEMMA InitRepeat == Init => RepeatInv
  BY HybridAssumption DEF Init, RepeatInv, SegvCount

(* Every step keeps the count; only the handler moves its statics, and only
   while no transaction is open that could forget a SIGSEGV. *)
LEMMA NextRepeat == TypeOK /\ TypeOK' /\ RepeatInv /\ [Next]_vars => RepeatInv'
<1> SUFFICES ASSUME TypeOK, TypeOK', RepeatInv, [Next]_vars PROVE RepeatInv'
  OBVIOUS
<1> USE HybridAssumption DEF RepeatInv, SegvCount
<1>1. ASSUME NEW c \in Cell, NEW v \in Val, Store(c, v) PROVE RepeatInv'
  BY <1>1 DEF Store
<1>2. CASE TxTypeCheck
  BY <1>2 DEF TxTypeCheck
<1>3. ASSUME NEW n \in Site, EndOfWindow(n) PROVE RepeatInv'
  BY <1>3 DEF EndOfWindow, EndOfWindowTsx, EndOfWindowUndo, TypeOK
<1>4. CASE NonFaultableCall
  BY <1>4 DEF NonFaultableCall, EndOfWindowUndo
<1>5. CASE FatalFault
  BY <1>5 DEF FatalFault, OneMoreSegv, StreakCap, TypeOK
<1>6. CASE Call
  BY <1>6 DEF Call
<1>7. ASSUME NEW c \in Cell, NEW v \in Val, LibWrite(c, v) PROVE RepeatInv'
  BY <1>7 DEF LibWrite
<1>8. CASE Return
  BY <1>8 DEF Return
<1>9. CASE Crash
  BY <1>9 DEF Crash, OneMoreSegv, StreakCap, TypeOK
<1>10. CASE EnterTsx
  BY <1>10 DEF EnterTsx
<1>11. CASE EnterUndo
  BY <1>11 DEF EnterUndo
<1>12. CASE XBegin
  BY <1>12 DEF XBegin, Now, TypeOK
<1>13. CASE TolFailed
  BY <1>13 DEF TolFailed
<1>14. CASE SegvGiveUp
  BY <1>14 DEF SegvGiveUp, SegvRepeat, TypeOK
<1>15. CASE SegvNoAction
  BY <1>15 DEF SegvNoAction, SegvRepeat, OneMoreSegv, StreakCap, TypeOK
<1>16. CASE SegvActionFails
  BY <1>16 DEF SegvActionFails, SegvRepeat, TypeOK
<1>17. CASE SegvRecover
  BY <1>17 DEF SegvRecover, SegvRepeat, TypeOK
<1>18. CASE XAbort
  BY <1>18 DEF XAbort, TypeOK
<1>19. CASE UNCHANGED vars
  BY <1>19 DEF vars
<1>20. ASSUME NEW c \in Cell, NEW v \in Val, NonFaultableWrite(c, v) PROVE RepeatInv'
  BY <1>20 DEF NonFaultableWrite
<1> QED
  BY <1>1, <1>2, <1>3, <1>4, <1>5, <1>6, <1>7, <1>8, <1>9, <1>10, <1>11, <1>12,
     <1>13, <1>14, <1>15, <1>16, <1>17, <1>18, <1>19, <1>20
     DEF Next, App, Runtime, SegvHandler

(* In every configuration rcvry_signal_action recovers one window at most
   RepeatLimit + 2 times before it exits or the window runs to its end. *)
THEOREM AttemptsBounded == Spec => []RecoveryAttemptsBounded
<1>1. Init => TypeOK /\ RepeatInv
  BY InitType, InitRepeat
<1>2. (TypeOK /\ RepeatInv) /\ [Next]_vars => (TypeOK /\ RepeatInv)'
  BY NextType, NextRepeat
<1> QED BY <1>1, <1>2, RepeatInvBounds, PTL DEF Spec

-----------------------------------------------------------------------------
(* Rollback, in the configurations in which gates and transaction type agree. *)

\* No site keeps its gate for itself (StmSites, AutoAdapt, no DontRemember), and
\* with transactions by default nothing faults or resets the transaction type
\* between the end of a window and the next gate.  Every site has kept its hooks.
\* Remembering, below, is the case without DontRemember; with it none of the other
\* conditions can be dropped.
Consistent ==
  /\ StmSites = {} /\ ~AutoAdapt /\ DontRemember
  /\ CrashPoints \subseteq {"window"}
  /\ TolErased = {}
  /\ DefaultToUndolog \/ (FISites = {} /\ "hook" \notin NonFaultableCalls)

\* No library call that is not a site writes the application's memory: what such
\* a call writes is not logged and stays after a rollback.
AllWritesLogged == "write" \notin NonFaultableCalls

\* LTCKPT_NO_TSX_FOR_RCVRY_FAIL: the window runs with no checkpoint at all.
Unprotected == NoTsxForFail /\ site \in Site /\ rcvry_type(site) = "FAIL"

\* Replaying the log would restore the checkpoint.
LogOK == \A c \in Cell : IF wl[c] = None THEN mem[c] = ckpt[c] ELSE wl[c] = ckpt[c]

SiteInv ==
  /\ pc \in {"pre", "call"} => next \in Site
  /\ pc \in {"entry", "tol", "tolfail"} => site \in Site
  /\ site = NoSite => xnest = 0
  /\ fi \subseteq FISites
  /\ xnest > 0 => xsave.fi \subseteq FISites

GateInv ==
  /\ \A s \in Site : s # site => gates[s] = Default
  /\ pc \in {"pre", "call"} =>
       cur_tx_type = Default /\ (site \in Site => gates[site] = Default)
  /\ pc = "window" => clone = CloneFor(cur_tx_type)
  /\ pc = "window" /\ clone = "tsx" =>
       ~DefaultToUndolog /\ (site \in Site => gates[site] = "TSX")
  /\ pc = "entry" => CloneFor(gates[site]) = CloneFor(cur_tx_type)
  /\ pc \in {"tol", "tolfail"} =>
       cur_tx_type = "TSX" /\ gates[site] = "TSX" /\ clone = "tsx"
  /\ DefaultToUndolog => /\ cur_tx_type = "UNDOLOG"
                         /\ \A s \in Site : gates[s] # "TSX"
  /\ pc = "crashed" /\ site \in Site /\ ~Unprotected => cur_tx_type = "UNDOLOG"

TxInv ==
  /\ xnest > 0 =>
       /\ pc = "window" /\ clone = "tsx" /\ xnest = 1 /\ ~Unprotected /\ streak = 0
       /\ xsave.site = site /\ xsave.gates = gates /\ xsave.cur = "TSX"
       /\ xsave.clone = "tsx" /\ xsave.ckpt = ckpt /\ xsave.streak = 0
  /\ pc = "window" /\ site \in Site /\ clone = "tsx" /\ xnest = 0 => Unprotected
  /\ pc \in {"tol", "tolfail"} => xnest = 0 /\ ~Unprotected
  /\ pc \in {"tol", "tolfail", "pre", "call"} => streak = 0
  /\ pc = "entry" /\ gates[site] = "TSX" => streak = 0
  /\ pc = "window" /\ clone = "tsx" => streak = 0
  /\ pc \in {"entry", "window"} /\ streak > 0 => ret = "err"

MemInv == AllWritesLogged =>
  /\ pc \in {"entry", "tol", "tolfail"} => mem = ckpt
  /\ xnest > 0 => xsave.mem = ckpt
  /\ pc = "window" /\ clone = "undo" => LogOK
  /\ pc = "pre" /\ DefaultToUndolog => LogOK
  /\ pc = "crashed" /\ site \in Site /\ ~Unprotected => LogOK

IInv == SiteInv /\ GateInv /\ TxInv /\ MemInv

(* In such a configuration an end-of-window hook resets gate and type to the
   default, unless the window had no checkpoint to begin with. *)
LEMMA ConsistentEndOfWindow ==
  ASSUME Consistent, TypeOK
  PROVE  /\ EndOfWindowUndo => /\ gates' = [gates EXCEPT ![site] = Default]
                               /\ cur_tx_type' = Default
                               /\ xnest' = xnest
         /\ EndOfWindowTsx /\ ~Unprotected =>
                               /\ gates' = [gates EXCEPT ![site] = Default]
                               /\ cur_tx_type' = Default
                               /\ xnest' = IF xnest > 0 THEN xnest - 1 ELSE 0
         /\ EndOfWindowTsx /\ Unprotected => UNCHANGED <<gates, cur_tx_type, xnest>>
<1> USE HybridAssumption DEF Consistent, DontRememberReset
<1>1. ASSUME EndOfWindowUndo
      PROVE  /\ gates' = [gates EXCEPT ![site] = Default]
             /\ cur_tx_type' = Default
             /\ xnest' = xnest
  BY <1>1 DEF EndOfWindowUndo, AdaptDue
<1>2. EndOfWindowTsx => (NoTsxForFail /\ rcvry_type(site) = "FAIL" <=> Unprotected)
  BY DEF Unprotected, rcvry_type, TypeOK, Sites
<1>3. ASSUME EndOfWindowTsx, ~Unprotected
      PROVE  /\ gates' = [gates EXCEPT ![site] = Default]
             /\ cur_tx_type' = Default
             /\ xnest' = IF xnest > 0 THEN xnest - 1 ELSE 0
  BY <1>2, <1>3 DEF EndOfWindowTsx
<1>4. ASSUME EndOfWindowTsx, Unprotected
      PROVE  UNCHANGED <<gates, cur_tx_type, xnest>>
  BY <1>2, <1>4 DEF EndOfWindowTsx
<1> QED BY <1>1, <1>3, <1>4

(* The run-time starts in such a state. *)
LEMMA InitInv == Consistent /\ Init => IInv
<1> SUFFICES ASSUME Consistent, Init PROVE IInv
  OBVIOUS
<1> USE HybridAssumption
<1>1. SiteInv
  BY DEF Init, SiteInv
<1>2. GateInv
  BY DEF Init, GateInv, Default, CloneFor, Sites
<1>3. TxInv
  BY DEF Init, TxInv
<1>4. MemInv
  BY DEF Init, MemInv, LogOK, EmptyLog
<1> QED BY <1>1, <1>2, <1>3, <1>4 DEF IInv

(* Every step keeps the invariant; one case per action. *)
LEMMA NextInv == Consistent /\ TypeOK /\ TypeOK' /\ IInv /\ [Next]_vars => IInv'
<1> SUFFICES ASSUME Consistent, TypeOK, TypeOK', IInv, [Next]_vars PROVE IInv'
  OBVIOUS
<1> USE HybridAssumption DEF IInv, SiteInv, GateInv, TxInv, MemInv, Unprotected
<1>1. ASSUME NEW c \in Cell, NEW v \in Val, Store(c, v) PROVE IInv'
  <2>1. SiteInv' /\ GateInv' /\ TxInv'
    BY <1>1 DEF Store
  <2>2. ASSUME clone = "undo", AllWritesLogged PROVE LogOK'
    BY <1>1, <2>2 DEF Store, LogOK, TypeOK, Memory, Log
  <2> QED BY <1>1, <2>1, <2>2 DEF Store
<1>2. CASE TxTypeCheck
  BY <1>2 DEF TxTypeCheck, LogOK
<1>3. ASSUME NEW n \in Site, EndOfWindow(n) PROVE IInv'
  <2>1. /\ pc = "window" /\ pc' = "pre" /\ next' = n /\ streak' = 0
        /\ UNCHANGED <<site, ret, mem, wl, clone, fi, xsave, ckpt>>
    BY <1>3 DEF EndOfWindow
  <2>2. \/ /\ gates' = [gates EXCEPT ![site] = Default]
           /\ cur_tx_type' = Default
        \/ /\ UNCHANGED <<gates, cur_tx_type>>
           /\ clone = "tsx" /\ Unprotected
    BY <1>3, ConsistentEndOfWindow DEF EndOfWindow, EndOfWindowTsx
  <2>3. xnest' = 0
    BY <1>3, ConsistentEndOfWindow
       DEF EndOfWindow, EndOfWindowTsx, EndOfWindowUndo, TypeOK
  <2>4. SiteInv' /\ TxInv'
    BY <2>1, <2>3
  <2>5. GateInv'
    BY <2>1, <2>2 DEF Default, CloneFor, TypeOK, TxType, Sites
  <2>6. MemInv'
    BY <2>1, <2>3 DEF LogOK, TypeOK
  <2> QED BY <2>4, <2>5, <2>6
<1>4. CASE NonFaultableCall
  <2>1. DefaultToUndolog
    BY <1>4 DEF NonFaultableCall, Consistent
  <2>2. gates' = [gates EXCEPT ![site] = Default] /\ cur_tx_type' = Default /\ xnest' = xnest
    BY <1>4, ConsistentEndOfWindow DEF NonFaultableCall
  <2> QED BY <1>4, <2>1, <2>2 DEF NonFaultableCall, Default, CloneFor, TypeOK, Sites, LogOK
<1>5. CASE FatalFault
  BY <1>5 DEF FatalFault, Consistent, LogOK
<1>6. CASE Call
  BY <1>6 DEF Call
<1>7. ASSUME NEW c \in Cell, NEW v \in Val, LibWrite(c, v) PROVE IInv'
  BY <1>7 DEF LibWrite
<1>8. CASE Return
  BY <1>8 DEF Return, TypeOK, Sites
<1>9. CASE Crash
  BY <1>9 DEF Crash, Consistent, LogOK, CloneFor, TypeOK, TxType
<1>10. CASE EnterTsx
  BY <1>10 DEF EnterTsx, Consistent, HasTol, CloneFor, Default, TypeOK, TxType
<1>11. CASE EnterUndo
  BY <1>11 DEF EnterUndo, Consistent, HasTol, CloneFor, EmptyLog, LogOK, TypeOK, TxType
<1>12. CASE XBegin
  BY <1>12 DEF XBegin, Now, CloneFor, Default
<1>13. CASE TolFailed
  BY <1>13 DEF TolFailed, CloneFor, TypeOK, Sites
<1>14. CASE SegvGiveUp
  BY <1>14 DEF SegvGiveUp
<1>15. CASE SegvNoAction
  BY <1>15 DEF SegvNoAction, rcvry_type, LogOK, TypeOK
<1>16. CASE SegvActionFails
  BY <1>16 DEF SegvActionFails, rcvry_type, TypeOK
<1>17. CASE SegvRecover
  <2>1. site \in Site /\ ~Unprotected
    BY <1>17 DEF SegvRecover, rcvry_type, TypeOK, Sites
  <2>2. AllWritesLogged => mem' = ckpt
    BY <1>17, <2>1 DEF SegvRecover, Restarted, LogOK, TypeOK, Memory
  <2> QED BY <1>17, <2>1, <2>2 DEF SegvRecover, CloneFor, TypeOK, Sites
<1>18. CASE XAbort
  BY <1>18 DEF XAbort, TypeOK, Sites
<1>19. CASE UNCHANGED vars
  BY <1>19 DEF vars, LogOK
<1>20. ASSUME NEW c \in Cell, NEW v \in Val, NonFaultableWrite(c, v) PROVE IInv'
  BY <1>20 DEF NonFaultableWrite, AllWritesLogged
<1> QED
  BY <1>1, <1>2, <1>3, <1>4, <1>5, <1>6, <1>7, <1>8, <1>9, <1>10, <1>11, <1>12,
     <1>13, <1>14, <1>15, <1>16, <1>17, <1>18, <1>19, <1>20
     DEF Next, App, Runtime, SegvHandler

(* The invariant holds throughout every consistent configuration. *)
THEOREM ConsistentInvariance ==
  ASSUME Consistent
  PROVE  Spec => [](TypeOK /\ IInv)
<1>1. Init => TypeOK /\ IInv
  BY InitType, InitInv
<1>2. (TypeOK /\ IInv) /\ [Next]_vars => (TypeOK /\ IInv)'
  BY NextType, NextInv
<1> QED BY <1>1, <1>2, PTL DEF Spec

(* Whenever a window is entered, the first time or again after an abort or a
   SIGSEGV, memory is that of its checkpoint (README.md: "we roll back the
   application state before the last recoverable library call"), as long as
   every write to memory between two sites is the application's own. *)
THEOREM RollbackIsCorrect ==
  ASSUME Consistent, AllWritesLogged
  PROVE  Spec => []RollbackCorrect
<1>1. TypeOK /\ IInv => RollbackCorrect
  BY HybridAssumption DEF IInv, MemInv, RollbackCorrect
<1> QED BY <1>1, ConsistentInvariance, PTL

(* rcvry_current_tx_type, which the handler decides by, names the mechanism of the
   clone that is running. *)
THEOREM MechanismsAgree ==
  ASSUME Consistent
  PROVE  Spec => []MechanismAgrees
<1>1. TypeOK /\ IInv => MechanismAgrees
  BY HybridAssumption DEF IInv, GateInv, MechanismAgrees
<1> QED BY <1>1, ConsistentInvariance, PTL

(* Every library call is made with all gates and the type back at the default
   (RCVRY_CKPT_DONT_REMEMBER). *)
THEOREM NothingIsRemembered ==
  ASSUME Consistent
  PROVE  Spec => []NothingRemembered
<1>1. TypeOK /\ IInv => NothingRemembered
  BY HybridAssumption DEF IInv, GateInv, NothingRemembered
<1> QED BY <1>1, ConsistentInvariance, PTL

(* No transaction is open while a library call is made. *)
THEOREM CallsOutsideTransactions ==
  ASSUME Consistent
  PROVE  Spec => []NoTransactionAcrossCall
<1>1. TypeOK /\ IInv => NoTransactionAcrossCall
  BY HybridAssumption DEF IInv, TxInv, TypeOK, NoTransactionAcrossCall
<1> QED BY <1>1, ConsistentInvariance, PTL

(* The error-handling code a recovery starts runs with the injected error and
   under the undo log. *)
THEOREM ErrorPathIsProtected ==
  ASSUME Consistent
  PROVE  Spec => []ErrorPathProtected
<1>1. TypeOK /\ IInv => ErrorPathProtected
  BY HybridAssumption DEF IInv, TxInv, TypeOK, ErrorPathProtected
<1> QED BY <1>1, ConsistentInvariance, PTL

-----------------------------------------------------------------------------
(* The run-time implements module Checkpoint. *)

(* A step of the run-time is a step of the checkpoint, or none. *)
LEMMA StepSimulation ==
  ASSUME Consistent, AllWritesLogged, TypeOK, TypeOK', IInv, IInv', [Next]_vars
  PROVE  [Ckpt!Next]_(Ckpt!vars)
<1> USE HybridAssumption DEF Ckpt!vars
<1>1. ASSUME NEW c \in Cell, NEW v \in Val, Store(c, v) \/ LibWrite(c, v)
                                                \/ NonFaultableWrite(c, v)
      PROVE  Ckpt!Write
  BY <1>1 DEF Store, LibWrite, NonFaultableWrite, Ckpt!Write, TypeOK, Memory
<1>2. CASE Crash \/ FatalFault
  <2>1. Ckpt!Rollback
    BY <1>2 DEF Crash, FatalFault, Ckpt!Rollback
  <2> QED BY <2>1 DEF Ckpt!Next
<1>3. CASE XAbort
  <2>1. mem' = ckpt /\ ckpt' = ckpt /\ pc' = "tolfail"
    BY <1>3 DEF XAbort, IInv, TxInv, MemInv
  <2>2. Ckpt!Rollback
    BY <2>1 DEF Ckpt!Rollback
  <2> QED BY <2>2 DEF Ckpt!Next
<1>4. CASE Return
  <2>1. Ckpt!TakeCheckpoint
    BY <1>4 DEF Return, Ckpt!TakeCheckpoint
  <2> QED BY <2>1 DEF Ckpt!Next
<1>5. CASE EnterTsx \/ EnterUndo \/ XBegin
  <2>1. Ckpt!Resume \/ UNCHANGED Ckpt!vars
    BY <1>5 DEF EnterTsx, EnterUndo, XBegin, Ckpt!Resume
  <2> QED BY <2>1 DEF Ckpt!Next
<1>6. CASE SegvRecover
  <2>1. mem' = ckpt' /\ ckpt' = ckpt /\ pc = "crashed" /\ pc' = "entry"
    BY <1>6 DEF SegvRecover, IInv, MemInv
  <2> QED BY <2>1
<1>7. CASE TxTypeCheck \/ NonFaultableCall \/ Call \/ TolFailed \/ UNCHANGED vars
  BY <1>7 DEF TxTypeCheck, NonFaultableCall, Call, TolFailed, vars
<1>8. ASSUME NEW n \in Site, EndOfWindow(n) PROVE UNCHANGED Ckpt!vars
  BY <1>8 DEF EndOfWindow
<1>9. CASE SegvGiveUp \/ SegvNoAction \/ SegvActionFails
  BY <1>9 DEF SegvGiveUp, SegvNoAction, SegvActionFails
<1> QED
  BY <1>1, <1>2, <1>3, <1>4, <1>5, <1>6, <1>7, <1>8, <1>9
     DEF Next, App, Runtime, SegvHandler, Ckpt!Next

(* Gates, clones, transactions, undo log and handler together implement the
   checkpoint abstraction in every consistent configuration in which no library
   call between two sites writes memory unlogged. *)
THEOREM HybridRefinesCheckpoint ==
  ASSUME Consistent, AllWritesLogged
  PROVE  Spec => ImplementsCheckpoint
<1>1. Init => Ckpt!Init
  BY DEF Init, Ckpt!Init, Memory
<1>2. (TypeOK /\ IInv) /\ (TypeOK /\ IInv)' /\ [Next]_vars => [Ckpt!Next]_(Ckpt!vars)
  BY StepSimulation
<1> QED
  BY <1>1, <1>2, ConsistentInvariance, PTL DEF Spec, ImplementsCheckpoint, Ckpt!Spec

-----------------------------------------------------------------------------
(* Rollback without RCVRY_CKPT_DONT_REMEMBER. *)

\* Gates and type are kept from window to window; faults strike only inside
\* windows, or everything goes through the undo log; every site has kept its
\* hooks and every write between two sites is the application's own.
Remembering ==
  /\ ~DontRemember
  /\ CrashPoints \subseteq {"window"}
  /\ DefaultToUndolog \/ FISites = {}
  /\ TolErased = {} /\ AllWritesLogged

\* Once a site's gate is not TSX, the type is UNDOLOG for good.
GateNamesType(g, t) == (\E s \in Site : g[s] # "TSX") => t = "UNDOLOG"

KeepGateInv ==
  /\ pc # "exit1" => GateNamesType(gates, cur_tx_type)
  /\ DefaultToUndolog => /\ cur_tx_type = "UNDOLOG"
                         /\ \A s \in Site : gates[s] # "TSX"
                         /\ xnest = 0
                         /\ pc \notin {"tol", "tolfail"}
                         /\ pc \in {"window", "pre"} => clone = "undo"
  /\ pc \in {"entry", "tol", "tolfail"} => site \in Site
  /\ pc \in {"pre", "call"} => next \in Site
  /\ pc \in {"crashed", "exit1", "exit2"} => xnest = 0
  /\ fi \subseteq FISites

\* A transaction that is left open over library calls comes back to the window
\* it was started for.
KeepTxInv ==
  xnest > 0 => /\ xsave.mem = xsave.ckpt
               /\ GateNamesType(xsave.gates, xsave.cur)
               /\ xsave.site \in Site
               /\ xsave.fi \subseteq FISites

\* A window outside any transaction is logged, or has no recovery.
KeepLogInv ==
  /\ pc \in {"entry", "tol", "tolfail"} => mem = ckpt
  /\ pc = "window" /\ xnest = 0 /\ site \in Site /\ ~Unprotected =>
       clone = "undo" /\ cur_tx_type = "UNDOLOG" /\ LogOK
  /\ pc = "pre" /\ DefaultToUndolog /\ site \in Site /\ ~Unprotected => LogOK
  /\ pc = "crashed" /\ site \in Site /\ ~Unprotected =>
       cur_tx_type = "UNDOLOG" /\ LogOK

KeepInv == KeepGateInv /\ KeepTxInv /\ KeepLogInv

(* With nothing reset, the end-of-window hooks leave gates and type alone, or the
   adaptation sets both to the undo log. *)
LEMMA RememberingEndOfWindow ==
  ASSUME Remembering, TypeOK, EndOfWindowTsx \/ EndOfWindowUndo
  PROVE  /\ GateNamesType(gates, cur_tx_type) => GateNamesType(gates', cur_tx_type')
         /\ \A s \in Site : gates[s] # "TSX" => gates'[s] # "TSX"
         /\ cur_tx_type = "UNDOLOG" => cur_tx_type' = "UNDOLOG"
         /\ xnest = 0 => xnest' = 0
         /\ xnest' > 0 => xnest > 0
<1> USE HybridAssumption DEF Remembering, DontRememberReset
<1>1. CASE EndOfWindowTsx
  BY <1>1 DEF EndOfWindowTsx, TypeOK, GateNamesType
<1>2. CASE EndOfWindowUndo
  <2>1. [gates EXCEPT ![site] = gates[site]] = gates
    BY DEF TypeOK
  <2>2. \/ UNCHANGED <<gates, cur_tx_type>>
        \/ /\ gates' = [gates EXCEPT ![site] = "UNDOLOG"]
           /\ cur_tx_type' = "UNDOLOG"
    <3>1. CASE AdaptDue(gates[site]) /\ AdaptSwitch
      BY <1>2, <3>1 DEF EndOfWindowUndo
    <3>2. CASE ~(AdaptDue(gates[site]) /\ AdaptSwitch)
      BY <1>2, <2>1, <3>2 DEF EndOfWindowUndo
    <3> QED BY <3>1, <3>2
  <2>3. xnest' = xnest
    BY <1>2 DEF EndOfWindowUndo
  <2>4. gates \in [Sites -> GateVal] /\ Site \subseteq Sites /\ xnest \in Nat
    BY DEF TypeOK, Sites
  <2>5. CASE UNCHANGED <<gates, cur_tx_type>>
    BY <2>3, <2>5 DEF GateNamesType
  <2>6. CASE gates' = [gates EXCEPT ![site] = "UNDOLOG"] /\ cur_tx_type' = "UNDOLOG"
    <3>1. \A s \in Site : gates[s] # "TSX" => gates'[s] # "TSX"
      BY <2>4, <2>6
    <3> QED BY <2>3, <2>6, <3>1 DEF GateNamesType
  <2> QED BY <2>2, <2>5, <2>6
<1> QED BY <1>1, <1>2

(* The run-time starts in such a state. *)
LEMMA InitKeep == Remembering /\ Init => KeepInv
  BY HybridAssumption
     DEF Init, KeepInv, KeepGateInv, KeepTxInv, KeepLogInv, GateNamesType, Default,
         CloneFor, Sites

(* Every step keeps the invariant; one case per action. *)
LEMMA NextKeep ==
  Remembering /\ TypeOK /\ TypeOK' /\ KeepInv /\ [Next]_vars => KeepInv'
<1> SUFFICES ASSUME Remembering, TypeOK, TypeOK', KeepInv, [Next]_vars PROVE KeepInv'
  OBVIOUS
<1> USE HybridAssumption
        DEF KeepInv, KeepGateInv, KeepTxInv, KeepLogInv, GateNamesType, Unprotected
<1>1. ASSUME NEW c \in Cell, NEW v \in Val, Store(c, v) PROVE KeepInv'
  <2>1. KeepGateInv' /\ KeepTxInv'
    BY <1>1 DEF Store
  <2>2. ASSUME clone = "undo", LogOK PROVE LogOK'
    BY <1>1, <2>2 DEF Store, LogOK, TypeOK, Memory, Log
  <2> QED BY <1>1, <2>1, <2>2 DEF Store
<1>2. CASE TxTypeCheck
  BY <1>2 DEF TxTypeCheck, CloneFor, LogOK
<1>3. ASSUME NEW n \in Site, EndOfWindow(n) PROVE KeepInv'
  <2>1. /\ pc = "window" /\ pc' = "pre" /\ next' = n
        /\ UNCHANGED <<site, mem, wl, clone, fi, xsave, ckpt>>
    BY <1>3 DEF EndOfWindow
  <2>2. /\ GateNamesType(gates, cur_tx_type) => GateNamesType(gates', cur_tx_type')
        /\ \A s \in Site : gates[s] # "TSX" => gates'[s] # "TSX"
        /\ cur_tx_type = "UNDOLOG" => cur_tx_type' = "UNDOLOG"
        /\ xnest = 0 => xnest' = 0
        /\ xnest' > 0 => xnest > 0
    BY <1>3, RememberingEndOfWindow DEF EndOfWindow
  <2> QED BY <2>1, <2>2 DEF LogOK, TypeOK
<1>4. CASE NonFaultableCall
  <2>1. /\ GateNamesType(gates, cur_tx_type) => GateNamesType(gates', cur_tx_type')
        /\ \A s \in Site : gates[s] # "TSX" => gates'[s] # "TSX"
        /\ cur_tx_type = "UNDOLOG" => cur_tx_type' = "UNDOLOG"
        /\ xnest' = xnest
    BY <1>4, RememberingEndOfWindow DEF NonFaultableCall, EndOfWindowUndo
  <2> QED BY <1>4, <2>1 DEF NonFaultableCall, LogOK, TypeOK
<1>5. CASE FatalFault
  BY <1>5 DEF FatalFault, Remembering, LogOK
<1>6. CASE Call
  BY <1>6 DEF Call
<1>7. ASSUME NEW c \in Cell, NEW v \in Val, LibWrite(c, v) PROVE KeepInv'
  BY <1>7 DEF LibWrite
<1>8. CASE Return
  BY <1>8 DEF Return
<1>9. CASE Crash
  BY <1>9 DEF Crash, Remembering, LogOK
<1>10. CASE EnterTsx
  BY <1>10 DEF EnterTsx, Remembering, HasTol
<1>11. CASE EnterUndo
  BY <1>11 DEF EnterUndo, Remembering, HasTol, EmptyLog, LogOK
<1>12. CASE XBegin
  BY <1>12 DEF XBegin, Now, TypeOK
<1>13. CASE TolFailed
  BY <1>13 DEF TolFailed, TypeOK
<1>14. CASE SegvGiveUp
  BY <1>14 DEF SegvGiveUp
<1>15. CASE SegvNoAction
  BY <1>15 DEF SegvNoAction, rcvry_type, LogOK, TypeOK, Sites
<1>16. CASE SegvActionFails
  BY <1>16 DEF SegvActionFails, TypeOK
<1>17. CASE SegvRecover
  <2>1. site \in Site /\ ~Unprotected
    BY <1>17 DEF SegvRecover, rcvry_type, TypeOK, Sites
  <2>2. mem' = ckpt
    BY <1>17, <2>1 DEF SegvRecover, Restarted, LogOK, TypeOK, Memory
  <2> QED BY <1>17, <2>1, <2>2 DEF SegvRecover, TypeOK
<1>18. CASE XAbort
  BY <1>18 DEF XAbort, TypeOK
<1>19. CASE UNCHANGED vars
  BY <1>19 DEF vars, LogOK
<1>20. ASSUME NEW c \in Cell, NEW v \in Val, NonFaultableWrite(c, v) PROVE KeepInv'
  BY <1>20 DEF NonFaultableWrite, Remembering, AllWritesLogged
<1> QED
  BY <1>1, <1>2, <1>3, <1>4, <1>5, <1>6, <1>7, <1>8, <1>9, <1>10, <1>11, <1>12,
     <1>13, <1>14, <1>15, <1>16, <1>17, <1>18, <1>19, <1>20
     DEF Next, App, Runtime, SegvHandler

(* Rollback stays correct when gates are remembered, with sites that keep their
   gate for themselves, with the automatic adaptation, with hooked calls that are no
   sites and write nothing, and even though a transaction may then stay open over a
   library call: an abort comes back to the window the outermost transaction was
   started for, with that window's memory. *)
THEOREM RememberedRollback ==
  ASSUME Remembering
  PROVE  Spec => []RollbackCorrect
<1>1. Init => TypeOK /\ KeepInv
  BY InitType, InitKeep
<1>2. (TypeOK /\ KeepInv) /\ [Next]_vars => (TypeOK /\ KeepInv)'
  BY NextType, NextKeep
<1>3. TypeOK /\ KeepInv => RollbackCorrect
  BY DEF KeepInv, KeepLogInv, RollbackCorrect
<1> QED BY <1>1, <1>2, <1>3, PTL DEF Spec

-----------------------------------------------------------------------------
(* The counters of RCVRY_AUTO_ADAPT. *)

(* A number below m is its own remainder. *)
LEMMA ModUnique ==
  ASSUME NEW q \in Int, NEW r \in Int, NEW m \in Nat \ {0}, 0 <= r, r < m
  PROVE  (m * q + r) % m = r
  OBVIOUS

(* Counting modulo m and taking the remainder of the count are the same. *)
LEMMA ModSucc ==
  ASSUME NEW a \in Nat, NEW m \in Nat \ {0}
  PROVE  (a + 1) % m = ((a % m) + 1) % m
<1>0. m \in Int /\ m > 0
  OBVIOUS
<1>1. PICK q \in Int : a = m * q + (a % m)
  BY <1>0, SMT
<1>2. a % m \in Int /\ 0 <= a % m /\ a % m < m
  OBVIOUS
<1>3. CASE (a % m) + 1 < m
  <2>1. (m * q + ((a % m) + 1)) % m = (a % m) + 1
    BY <1>2, <1>3, ModUnique
  <2>2. (m * 0 + ((a % m) + 1)) % m = (a % m) + 1
    BY <1>2, <1>3, ModUnique
  <2> QED BY <1>1, <1>2, <2>1, <2>2
<1>4. CASE (a % m) + 1 = m
  <2>1. (m * (q + 1) + 0) % m = 0
    BY ModUnique
  <2>2. (m * 1 + 0) % m = 0
    BY ModUnique
  <2> QED BY <1>1, <1>2, <1>4, <2>1, <2>2
<1> QED BY <1>2, <1>3, <1>4

SampleOK(f, n) == \A s \in Sites : f[s] % SampleSize = n[s]

\* A transaction must not forget a failure without its sample either.
SampleInv ==
  /\ SampleOK(fails, sample)
  /\ xnest > 0 => SampleOK(xsave.fails, xsave.sample)

\* num_tsx_hits has not come near its 32 bits.
HitsInRange == \A s \in Sites : hits[s] < CounterMod - 1

\* The entry that is being tried is counted, and not yet as a failure.
FailsInv ==
  /\ FailsWithinHits
  /\ AutoAdapt /\ pc \in {"tol", "tolfail"} => fails[site] < hits[site]
  /\ xnest > 0 => \A s \in Sites : xsave.fails[s] <= xsave.hits[s]
  /\ AutoAdapt /\ xnest > 0 => xsave.fails[xsave.site] < xsave.hits[xsave.site]

(* Failures and samples start at 0. *)
LEMMA InitSample == Init => SampleInv
<1>1. 0 % SampleSize = 0
  BY HybridAssumption
<1> QED BY <1>1 DEF Init, SampleInv, SampleOK

(* The end-of-window hooks reset a failure count only when its sample is 0. *)
LEMMA EndOfWindowSample ==
  ASSUME TypeOK, SampleOK(fails, sample), EndOfWindowTsx \/ EndOfWindowUndo
  PROVE  SampleOK(fails', sample)
<1>1. 0 % SampleSize = 0
  BY HybridAssumption
<1>2. CASE UNCHANGED fails
  BY <1>2
<1>3. CASE fails' = [fails EXCEPT ![site] = 0] /\ sample[site] = 0
  BY <1>1, <1>3 DEF SampleOK, TypeOK
<1> QED BY <1>2, <1>3 DEF EndOfWindowTsx, EndOfWindowUndo, AdaptDue

(* Every step keeps failures and samples together; only four actions touch them. *)
LEMMA NextSample == TypeOK /\ SampleInv /\ [Next]_vars => SampleInv'
<1> SUFFICES ASSUME TypeOK, SampleInv, [Next]_vars PROVE SampleInv'
  OBVIOUS
<1> USE HybridAssumption DEF SampleInv
<1>1. ASSUME NEW n \in Site, EndOfWindow(n) PROVE SampleInv'
  <2>1. SampleOK(fails', sample') /\ (xnest' > 0 => xnest > 0) /\ xsave' = xsave
    BY <1>1, EndOfWindowSample
       DEF EndOfWindow, EndOfWindowTsx, EndOfWindowUndo, TypeOK
  <2> QED BY <2>1
<1>2. CASE NonFaultableCall
  <2>1. SampleOK(fails', sample') /\ xnest' = xnest /\ xsave' = xsave
    BY <1>2, EndOfWindowSample DEF NonFaultableCall, EndOfWindowUndo
  <2> QED BY <2>1
<1>3. CASE TolFailed
  <2>1. CASE UNCHANGED <<fails, sample>>
    BY <1>3, <2>1 DEF TolFailed
  <2>2. CASE /\ fails'  = [fails  EXCEPT ![site] = @ + 1]
             /\ sample' = [sample EXCEPT ![site] = (@ + 1) % SampleSize]
    <3>1. (fails[site] + 1) % SampleSize = (sample[site] + 1) % SampleSize
      BY ModSucc DEF TypeOK, SampleOK
    <3>2. SampleOK(fails', sample')
      BY <2>2, <3>1 DEF SampleOK, TypeOK
    <3> QED BY <1>3, <3>2 DEF TolFailed
  <2> QED BY <1>3, <2>1, <2>2 DEF TolFailed
<1>4. CASE XBegin
  BY <1>4 DEF XBegin, Now, TypeOK
<1>5. CASE XAbort
  BY <1>5 DEF XAbort
<1>6. CASE UNCHANGED <<fails, sample, xnest, xsave>>
  BY <1>6
<1>7. ASSUME NEW c \in Cell, NEW v \in Val, Store(c, v) \/ LibWrite(c, v)
                                                \/ NonFaultableWrite(c, v)
      PROVE  SampleInv'
  BY <1>6, <1>7 DEF Store, LibWrite, NonFaultableWrite
<1> QED
  BY <1>1, <1>2, <1>3, <1>4, <1>5, <1>6, <1>7
     DEF Next, App, Runtime, SegvHandler, vars, TxTypeCheck, FatalFault, Call, Return,
         Crash, EnterTsx, EnterUndo, SegvGiveUp, SegvNoAction, SegvActionFails,
         SegvRecover

(* RCVRY_AUTO_ADAPT decides on whole samples only, also when a transaction that
   counted a failure is rolled back. *)
THEOREM SamplesAreWhole == Spec => []WholeSamples
<1>1. Init => TypeOK /\ SampleInv
  BY InitType, InitSample
<1>2. (TypeOK /\ SampleInv) /\ [Next]_vars => (TypeOK /\ SampleInv)'
  BY NextType, NextSample
<1>3. TypeOK /\ SampleInv => WholeSamples
  BY DEF SampleInv, SampleOK, WholeSamples
<1> QED BY <1>1, <1>2, <1>3, PTL DEF Spec

(* Hits and failures start at 0. *)
LEMMA InitFails == Init => FailsInv
  BY DEF Init, FailsInv, FailsWithinHits

(* The end-of-window hooks reset hits and failures together. *)
LEMMA EndOfWindowFails ==
  ASSUME TypeOK, FailsWithinHits, EndOfWindowTsx \/ EndOfWindowUndo
  PROVE  FailsWithinHits'
<1>1. CASE UNCHANGED <<hits, fails>>
  BY <1>1 DEF FailsWithinHits
<1>2. CASE /\ hits'  = [hits  EXCEPT ![site] = 0]
           /\ fails' = [fails EXCEPT ![site] = 0]
  BY <1>2 DEF FailsWithinHits, TypeOK
<1> QED BY <1>1, <1>2 DEF EndOfWindowTsx, EndOfWindowUndo

(* A step that does not wrap a counter keeps the failures within the hits. *)
LEMMA NextFails ==
  TypeOK /\ TypeOK' /\ HitsInRange /\ FailsInv /\ [Next]_vars => FailsInv'
<1> SUFFICES ASSUME TypeOK, TypeOK', HitsInRange, FailsInv, [Next]_vars PROVE FailsInv'
  OBVIOUS
<1> USE HybridAssumption DEF FailsInv
<1>1. ASSUME NEW n \in Site, EndOfWindow(n) PROVE FailsInv'
  <2>1. FailsWithinHits' /\ (xnest' > 0 => xnest > 0) /\ xsave' = xsave /\ pc' = "pre"
    BY <1>1, EndOfWindowFails
       DEF EndOfWindow, EndOfWindowTsx, EndOfWindowUndo, TypeOK
  <2> QED BY <2>1
<1>2. CASE NonFaultableCall
  <2>1. FailsWithinHits' /\ xnest' = xnest /\ xsave' = xsave /\ pc' = "window"
    BY <1>2, EndOfWindowFails DEF NonFaultableCall, EndOfWindowUndo
  <2> QED BY <2>1
<1>3. CASE EnterTsx
  <2>1. CASE UNCHANGED hits /\ (AutoAdapt => pc' = "window")
    BY <1>3, <2>1 DEF EnterTsx, FailsWithinHits
  <2>2. CASE hits' = [hits EXCEPT ![site] = (@ + 1) % CounterMod]
    <3>1. (hits[site] + 1) % CounterMod = hits[site] + 1
      <4>1. (CounterMod * 0 + (hits[site] + 1)) % CounterMod = hits[site] + 1
        BY ModUnique DEF TypeOK, HitsInRange
      <4> QED BY <4>1 DEF TypeOK
    <3> QED BY <1>3, <2>2, <3>1 DEF EnterTsx, FailsWithinHits, TypeOK
  <2> QED BY <1>3, <2>1, <2>2 DEF EnterTsx
<1>4. CASE TolFailed
  BY <1>4 DEF TolFailed, FailsWithinHits, TypeOK
<1>5. CASE XBegin
  BY <1>5 DEF XBegin, Now, TypeOK, FailsWithinHits
<1>6. CASE XAbort
  BY <1>6 DEF XAbort, FailsWithinHits
<1>7. CASE UNCHANGED <<hits, fails, xnest, xsave>> /\ pc' \notin {"tol", "tolfail"}
  BY <1>7 DEF FailsWithinHits
<1>8. CASE UNCHANGED vars
  BY <1>8 DEF vars, FailsWithinHits
<1>9. ASSUME NEW c \in Cell, NEW v \in Val, Store(c, v) \/ LibWrite(c, v)
                                                \/ NonFaultableWrite(c, v)
      PROVE  FailsInv'
  BY <1>7, <1>9 DEF Store, LibWrite, NonFaultableWrite
<1> QED
  BY <1>1, <1>2, <1>3, <1>4, <1>5, <1>6, <1>7, <1>8, <1>9
     DEF Next, App, Runtime, SegvHandler, TxTypeCheck, FatalFault, Call, Return,
         Crash, EnterUndo, SegvGiveUp, SegvNoAction, SegvActionFails, SegvRecover

(* As long as num_tsx_hits does not come near its 32 bits, the failure rate of the
   adaptation is at most 100 percent, whatever transactions forget. *)
THEOREM FailsAreWithinHits == Spec /\ []HitsInRange => []FailsWithinHits
<1>1. Init => TypeOK /\ FailsInv
  BY InitType, InitFails
<1>2. (TypeOK /\ FailsInv) /\ HitsInRange /\ [Next]_vars => (TypeOK /\ FailsInv)'
  BY NextType, NextFails
<1>3. TypeOK /\ FailsInv => FailsWithinHits
  BY DEF FailsInv
<1> QED BY <1>1, <1>2, <1>3, PTL DEF Spec

=============================================================================
