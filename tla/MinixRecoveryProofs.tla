------------------------- MODULE MinixRecoveryProofs -------------------------
(***************************************************************************)
(* Theorems about MinixRecovery, for every set of cells, calls, messages   *)
(* and builds, every size of the log and any number of crashes.            *)
(***************************************************************************)
EXTENDS MinixRecovery, TLAPS

USE DEF service, window, faults, history

-----------------------------------------------------------------------------
(* The inductive invariant. *)

\* A request is between its delivery and the end of its recovery.
Active == pc \in {"handle", "crashed", "restore", "dispatch"}

\* The flags of the window manager follow the message loop.
LoopInv ==
  /\ prior = have
  /\ Active => have /\ outcome = "none"
  /\ pc = "wait" => ~have
  /\ pc \in {"receive", "wait", "handle"} => enabled
  /\ pc \in {"receive", "wait"} => wl = <<>>
  /\ pc = "handle" => ~injected /\ (open => Len(wl) < WRITELOG_MAXLEN)

\* What the policy bits say of a request in progress, or about to be rehandled.
MaskInv ==
  /\ "REPROCESSING_REQ" \in mask =>
       /\ pc \in {"top", "receive", "wait"}
       /\ "FAIL_STOP" \notin mask /\ "PROCESS_SPECIFIC" \notin mask
  /\ (Active \/ "REPROCESSING_REQ" \in mask) =>
       /\ "FAIL_STOP" \notin mask =>
            ~full /\ answers = 0 /\ \A s \in effects : Policy[s] # "fail_stop"
       /\ "PROCESS_SPECIFIC" \notin mask =>
            \A s \in effects : Policy[s] # "process_local"
  /\ Active /\ "FAIL_STOP" \in mask =>
       full \/ \E s \in effects : Policy[s] = "fail_stop"
  /\ pc = "handle" /\ ~open => "FAIL_STOP" \in mask

\* An injected crash can be recovered from.
FaultInv ==
  (injected /\ pc \in {"crashed", "restore", "dispatch"}) =>
     mask = {"IDEMPOTENT"} /\ (build.when_recoverable => msg.replyable)

\* Index i of the log holds the first copy of cell c.
FirstCopy(c, i) ==
  /\ i \in 1 .. Len(wl) /\ wl[i].addr = c
  /\ \A j \in 1 .. Len(wl) : j < i => wl[j].addr # c

\* The log leads back to the start of the window.
LogOK ==
  \A c \in Cell \ StackCell :
     /\ (\A i \in 1 .. Len(wl) : wl[i].addr # c) => mem[c] = base[c]
     /\ \A i \in 1 .. Len(wl) : FirstCopy(c, i) => wl[i].val = base[c]

UndoInv ==
  "FAIL_STOP" \notin mask =>
    /\ pc \in {"handle", "crashed", "restore"} => LogOK
    /\ pc = "dispatch" => \A c \in Cell \ StackCell : mem[c] = base[c]

IInv ==
  /\ MinixTypeOK /\ LoopInv /\ MaskInv /\ FaultInv /\ UndoInv
  /\ RecoveredConsistent /\ AnsweredOnce /\ InjectedRecoverable /\ AbortJustified

(* The boot-time state satisfies it. *)
LEMMA InitIInv == Init => IInv
<1> SUFFICES ASSUME Init PROVE IInv
  OBVIOUS
<1> USE MinixAssumption
<1>1. MinixTypeOK
  <2>1. mem \in [Cell -> Val] /\ base \in [Cell -> Val] /\ wl = <<>> /\ Len(wl) <= WRITELOG_MAXLEN
    BY DEF Init
  <2>2. do_suicide \in [Site -> BOOLEAN]
    BY DEF Init
  <2>3. mask \subseteq Bit /\ crashes \in 0 .. MaxCrashes /\ effects \subseteq Site /\ answers \in Nat
    BY DEF Init, Bit
  <2> HIDE MinixAssumption
  <2>4. wl \in Seq([addr : Cell, val : Val])
    BY <2>1
  <2>5. /\ enabled \in BOOLEAN /\ open \in BOOLEAN /\ tcb \in BOOLEAN /\ have \in BOOLEAN
        /\ prior \in BOOLEAN /\ sef_init_done \in BOOLEAN /\ armed \in BOOLEAN
        /\ full \in BOOLEAN /\ injected \in BOOLEAN /\ kfail \in BOOLEAN
        /\ build \in Builds /\ msg \in Messages /\ pc = "top" /\ outcome = "none"
    BY DEF Init
  <2> QED BY <2>1, <2>2, <2>3, <2>4, <2>5 DEF MinixTypeOK
<1>2. LoopInv /\ MaskInv /\ FaultInv /\ UndoInv
  BY DEF Init, LoopInv, MaskInv, FaultInv, UndoInv, Active
<1>3. RecoveredConsistent /\ AnsweredOnce /\ InjectedRecoverable /\ AbortJustified
  BY DEF Init, RecoveredConsistent, AnsweredOnce, InjectedRecoverable, AbortJustified
<1> QED BY <1>1, <1>2, <1>3 DEF IInv

-----------------------------------------------------------------------------
(* Each action preserves it. *)

(* Emptying the log and waiting for a message (ltckpt_top_of_the_loop_hook, sef_receive). *)
LEMMA LoopStep == IInv /\ (top_of_the_loop \/ sef_receive) => IInv'
<1> SUFFICES ASSUME IInv, top_of_the_loop \/ sef_receive PROVE IInv'
  OBVIOUS
<1> USE MinixAssumption DEF IInv
<1>1. CASE top_of_the_loop
  <2>1. MinixTypeOK'
    BY <1>1 DEF top_of_the_loop, MinixTypeOK
  <2>2. (LoopInv /\ MaskInv /\ FaultInv /\ UndoInv)'
    BY <1>1 DEF top_of_the_loop, LoopInv, MaskInv, FaultInv, UndoInv, Active
  <2>3. (RecoveredConsistent /\ AnsweredOnce /\ InjectedRecoverable /\ AbortJustified)'
    BY <1>1 DEF top_of_the_loop, RecoveredConsistent, AnsweredOnce, InjectedRecoverable, AbortJustified
  <2> QED BY <2>1, <2>2, <2>3
<1>2. CASE sef_receive
  <2>1. MinixTypeOK'
    <3>1. mask' \subseteq Bit /\ pc' = "wait"
      BY <1>2 DEF sef_receive, detect_start_of_window, MinixTypeOK
    <3>2. have' \in BOOLEAN /\ prior' \in BOOLEAN
      BY <1>2 DEF sef_receive, detect_start_of_window
    <3>3. open' \in BOOLEAN /\ tcb' \in BOOLEAN
      BY <1>2 DEF sef_receive, detect_start_of_window, MinixTypeOK
    <3> QED BY <1>2, <3>1, <3>2, <3>3 DEF sef_receive, MinixTypeOK
  <2>2. (LoopInv /\ MaskInv /\ FaultInv /\ UndoInv)'
    BY <1>2 DEF sef_receive, detect_start_of_window, LoopInv, MaskInv, FaultInv, UndoInv, Active, MinixTypeOK
  <2>3. (RecoveredConsistent /\ AnsweredOnce /\ InjectedRecoverable /\ AbortJustified)'
    BY <1>2 DEF sef_receive, RecoveredConsistent, AnsweredOnce, InjectedRecoverable, AbortJustified
  <2> QED BY <2>1, <2>2, <2>3
<1> QED BY <1>1, <1>2

(* Delivering a message opens the window over an empty log; one that is handled again
   keeps what its first run did. *)
LEMMA DeliverStep ==
  ASSUME IInv, NEW m \in Messages, sef_handle_message(m) PROVE IInv'
<1> USE MinixAssumption DEF IInv
<1>1. MinixTypeOK'
  <2>1. mask' \subseteq Bit /\ open' \in BOOLEAN /\ tcb' \in BOOLEAN /\ have' \in BOOLEAN /\ prior' \in BOOLEAN
    BY DEF sef_handle_message, detect_start_of_window, MinixTypeOK, Bit
  <2>2. effects' \subseteq Site /\ answers' \in Nat /\ full' \in BOOLEAN
    <3> HIDE MinixAssumption
    <3>1. CASE "REPROCESSING_REQ" \in mask
      <4>1. UNCHANGED <<effects, answers, full>>
        BY <3>1 DEF sef_handle_message
      <4> QED BY <4>1 DEF MinixTypeOK
    <3>2. CASE "REPROCESSING_REQ" \notin mask
      <4>1. effects' = {} /\ answers' = 0 /\ full' = FALSE
        BY <3>2, Zenon DEF sef_handle_message
      <4> QED BY <4>1
    <3> QED BY <3>1, <3>2
  <2> HIDE MinixAssumption
  <2> QED BY <2>1, <2>2 DEF sef_handle_message, MinixTypeOK
<1>2. LoopInv'
  BY DEF sef_handle_message, detect_start_of_window, LoopInv, Active, MinixTypeOK
<1>3. mask' = {"IDEMPOTENT"} /\ open'
  BY DEF sef_handle_message, detect_start_of_window, LoopInv
<1>4. MaskInv'
  BY <1>3 DEF sef_handle_message, MaskInv, Active
<1>5. (FaultInv /\ UndoInv)'
  BY DEF sef_handle_message, FaultInv, UndoInv, LogOK, FirstCopy, LoopInv, MinixTypeOK
<1>6. (RecoveredConsistent /\ AnsweredOnce /\ InjectedRecoverable /\ AbortJustified)'
  BY DEF sef_handle_message, RecoveredConsistent, AnsweredOnce, InjectedRecoverable, AbortJustified
<1> QED BY <1>1, <1>2, <1>4, <1>5, <1>6

(* A store is logged while the window is open, and a log that fills up marks the
   request fail-stop. *)
LEMMA StoreStep ==
  ASSUME IInv, NEW c \in Cell, NEW v \in Val, Store(c, v) PROVE IInv'
<1> USE MinixAssumption DEF IInv
<1> DEFINE e == [addr |-> c, val |-> mem[c]]
<1>1. e \in [addr : Cell, val : Val] /\ mem' \in [Cell -> Val]
  BY DEF Store, MinixTypeOK
<1>2. CASE open
  <2>1. /\ wl' = Append(wl, e) /\ Len(wl) < WRITELOG_MAXLEN
        /\ wl' \in Seq([addr : Cell, val : Val]) /\ Len(wl') = Len(wl) + 1
        /\ \A i \in 1 .. Len(wl) : wl'[i] = wl[i]
        /\ wl'[Len(wl) + 1] = e
    <3> HIDE MinixAssumption
    <3>1. wl' = Append(wl, e) /\ Len(wl) < WRITELOG_MAXLEN
      BY <1>2 DEF Store, LoopInv
    <3>2. wl \in Seq([addr : Cell, val : Val])
      BY DEF MinixTypeOK
    <3> HIDE DEF e
    <3> QED BY <1>1, <3>1, <3>2
  <2>2. MinixTypeOK'
    <3>1. Len(wl') <= WRITELOG_MAXLEN
      BY <2>1 DEF MinixTypeOK
    <3>2. mask' \subseteq Bit /\ open' \in BOOLEAN /\ full' \in BOOLEAN
      BY DEF Store, MinixTypeOK, Bit
    <3> HIDE MinixAssumption
    <3> QED BY <1>1, <2>1, <3>1, <3>2 DEF Store, MinixTypeOK
  <2>3. LoopInv'
    <3>1. pc' = "handle" /\ UNCHANGED <<prior, have, outcome, enabled, injected>>
      BY DEF Store
    <3>2. open' => Len(wl') < WRITELOG_MAXLEN
      <4>1. Len(wl') \in Nat
        BY <2>1
      <4> QED BY <1>2, <4>1 DEF Store, LoopInv
    <3> QED BY <3>1, <3>2 DEF Store, LoopInv, Active
  <2>4. MaskInv'
    BY <1>2 DEF Store, MaskInv, Active, LoopInv
  <2>5. FaultInv'
    BY DEF Store, FaultInv
  <2>6. UndoInv'
    <3> SUFFICES ASSUME "FAIL_STOP" \notin mask' PROVE LogOK'
      BY DEF UndoInv, Store
    <3>1. LogOK /\ "FAIL_STOP" \notin mask
      BY DEF UndoInv, Store
    <3> SUFFICES ASSUME NEW d \in Cell \ StackCell
                 PROVE  /\ (\A i \in 1 .. Len(wl') : wl'[i].addr # d) => mem'[d] = base'[d]
                        /\ \A i \in 1 .. Len(wl') : FirstCopy(d, i)' => wl'[i].val = base'[d]
      BY DEF LogOK
    <3>2. ASSUME \A i \in 1 .. Len(wl') : wl'[i].addr # d
          PROVE  mem'[d] = base'[d]
      <4>1. Len(wl) + 1 \in 1 .. Len(wl')
        BY <2>1 DEF MinixTypeOK
      <4>2. d # c
        BY <3>2, <2>1, <4>1
      <4>3. \A i \in 1 .. Len(wl) : wl[i].addr # d
        BY <3>2, <2>1 DEF MinixTypeOK
      <4> QED BY <3>1, <4>2, <4>3 DEF LogOK, Store, MinixTypeOK
    <3>3. ASSUME NEW i \in 1 .. Len(wl'), FirstCopy(d, i)'
          PROVE  wl'[i].val = base'[d]
      <4>1. CASE i \in 1 .. Len(wl)
        <5>1. wl[i].addr = d
          BY <3>3, <2>1, <4>1 DEF FirstCopy
        <5>2. ASSUME NEW j \in 1 .. Len(wl), j < i PROVE wl[j].addr # d
          <6>1. j \in 1 .. Len(wl')
            BY <2>1
          <6> QED BY <3>3, <2>1, <5>2, <6>1 DEF FirstCopy
        <5>3. FirstCopy(d, i)
          BY <5>1, <5>2, <4>1 DEF FirstCopy
        <5> QED BY <5>3, <4>1, <3>1, <2>1 DEF LogOK, Store
      <4>2. CASE i = Len(wl) + 1
        <5>1. d = c
          BY <3>3, <2>1, <4>2 DEF FirstCopy
        <5>2. ASSUME NEW j \in 1 .. Len(wl) PROVE wl[j].addr # d
          <6>1. j \in 1 .. Len(wl') /\ j < i
            BY <2>1, <4>2
          <6> QED BY <3>3, <2>1, <6>1 DEF FirstCopy
        <5> QED BY <5>1, <5>2, <4>2, <3>1, <2>1 DEF LogOK, Store
      <4> QED BY <4>1, <4>2, <2>1 DEF MinixTypeOK
    <3> QED BY <3>2, <3>3
  <2>7. (RecoveredConsistent /\ AnsweredOnce /\ InjectedRecoverable /\ AbortJustified)'
    BY DEF Store, RecoveredConsistent, AnsweredOnce, InjectedRecoverable, AbortJustified
  <2> QED BY <2>2, <2>3, <2>4, <2>5, <2>6, <2>7
<1>3. CASE ~open
  <2>1. MinixTypeOK'
    BY <1>1, <1>3 DEF Store, MinixTypeOK
  <2>2. (LoopInv /\ MaskInv /\ FaultInv)'
    BY <1>3 DEF Store, LoopInv, MaskInv, FaultInv, Active
  <2>3. UndoInv'
    BY <1>3 DEF Store, UndoInv, MaskInv
  <2>4. (RecoveredConsistent /\ AnsweredOnce /\ InjectedRecoverable /\ AbortJustified)'
    BY <1>3 DEF Store, RecoveredConsistent, AnsweredOnce, InjectedRecoverable, AbortJustified
  <2> QED BY <2>1, <2>2, <2>3, <2>4
<1> QED BY <1>2, <1>3 DEF MinixTypeOK

(* An instrumented call leaves its policy in the mask (ltckpt_set_*_recovery); a
   fail-stop one closes the window. *)
LEMMA CallStep ==
  ASSUME IInv, NEW s \in Site, CallSite(s) PROVE IInv'
<1> USE MinixAssumption DEF IInv
<1>1. Policy[s] \in Policies
  OBVIOUS
<1>2. mask \subseteq mask' /\ mask' \subseteq mask \cup {"FAIL_STOP", "PROCESS_SPECIFIC", "IDEMPOTENT"}
  BY <1>1 DEF CallSite, set_recovery, Policies
<1>3. /\ Policy[s] = "fail_stop" => "FAIL_STOP" \in mask'
      /\ Policy[s] # "fail_stop" => open' = open /\ ("FAIL_STOP" \in mask' => "FAIL_STOP" \in mask)
      /\ Policy[s] = "process_local" => "PROCESS_SPECIFIC" \in mask'
  BY <1>1 DEF CallSite, set_recovery, Policies
<1>4. MinixTypeOK'
  <2>1. mask' \subseteq Bit
    BY <1>2 DEF Bit, MinixTypeOK
  <2>2. open' \in BOOLEAN /\ effects' \subseteq Site
    BY DEF CallSite, set_recovery, MinixTypeOK
  <2>3. answers' \in Nat
    BY DEF CallSite, MinixTypeOK
  <2> HIDE MinixAssumption
  <2> QED BY <2>1, <2>2, <2>3 DEF CallSite, MinixTypeOK
<1>5. LoopInv'
  BY DEF CallSite, set_recovery, LoopInv, Active
<1>6. MaskInv'
  <2>1. "REPROCESSING_REQ" \notin mask /\ "REPROCESSING_REQ" \notin mask'
    BY <1>2 DEF MaskInv, CallSite
  <2>2. "FAIL_STOP" \notin mask' =>
          ~full' /\ answers' = 0 /\ \A t \in effects' : Policy[t] # "fail_stop"
    BY <1>2, <1>3 DEF MaskInv, CallSite, Active
  <2>3. "PROCESS_SPECIFIC" \notin mask' => \A t \in effects' : Policy[t] # "process_local"
    BY <1>2, <1>3 DEF MaskInv, CallSite, Active
  <2>4. "FAIL_STOP" \in mask' => full' \/ \E t \in effects' : Policy[t] = "fail_stop"
    BY <1>3 DEF MaskInv, CallSite, Active
  <2>5. ~open' => "FAIL_STOP" \in mask'
    BY <1>2, <1>3 DEF MaskInv, CallSite
  <2> QED BY <2>1, <2>2, <2>3, <2>4, <2>5 DEF MaskInv
<1>7. FaultInv'
  BY DEF CallSite, FaultInv
<1>8. UndoInv'
  BY <1>2 DEF CallSite, UndoInv, LogOK, FirstCopy
<1>9. AnsweredOnce'
  BY DEF CallSite, AnsweredOnce
<1>10. (RecoveredConsistent /\ InjectedRecoverable /\ AbortJustified)'
  BY DEF CallSite, RecoveredConsistent, InjectedRecoverable, AbortJustified
<1> QED BY <1>4, <1>5, <1>6, <1>7, <1>8, <1>9, <1>10

(* The handler returns to the message loop. *)
LEMMA ReturnStep == ASSUME IInv, Return PROVE IInv'
<1> USE DEF IInv
<1>1. MinixTypeOK'
  BY DEF Return, MinixTypeOK
<1>2. (LoopInv /\ MaskInv /\ FaultInv /\ UndoInv)'
  BY DEF Return, LoopInv, MaskInv, FaultInv, UndoInv, Active
<1>3. (RecoveredConsistent /\ AnsweredOnce /\ InjectedRecoverable /\ AbortJustified)'
  BY DEF Return, RecoveredConsistent, AnsweredOnce, InjectedRecoverable, AbortJustified, LoopInv, Active
<1> QED BY <1>1, <1>2, <1>3

(* A fault, injected or not.  Outside the window the mask holds the fail-stop bit, so
   the profiling hook's ltckpt_do_suicide does nothing. *)
LEMMA FaultStep ==
  ASSUME IInv, Crash \/ aop_hook_rwindowprof \/ \E s \in Site : do_suicide_per_site(s)
  PROVE  IInv'
<1> USE DEF IInv
<1>1. CASE Crash
  <2>1. MinixTypeOK'
    BY <1>1, MinixAssumption DEF Crash, MinixTypeOK
  <2>2. (LoopInv /\ MaskInv /\ FaultInv)'
    BY <1>1 DEF Crash, LoopInv, MaskInv, FaultInv, Active
  <2>3. UndoInv'
    BY <1>1 DEF Crash, UndoInv, LogOK, FirstCopy
  <2>4. (RecoveredConsistent /\ AnsweredOnce /\ InjectedRecoverable /\ AbortJustified)'
    BY <1>1 DEF Crash, RecoveredConsistent, AnsweredOnce, InjectedRecoverable, AbortJustified
  <2> QED BY <2>1, <2>2, <2>3, <2>4
<1>2. CASE aop_hook_rwindowprof
  <2>1. mask # {"IDEMPOTENT"}
    BY <1>2 DEF aop_hook_rwindowprof, MaskInv
  <2>2. UNCHANGED <<pc, injected>> /\ armed' = FALSE
    BY <1>2, <2>1 DEF aop_hook_rwindowprof, Suicide
  <2>3. MinixTypeOK'
    BY <1>2, <2>2 DEF aop_hook_rwindowprof, MinixTypeOK
  <2>4. (LoopInv /\ MaskInv /\ FaultInv)'
    BY <1>2, <2>2 DEF aop_hook_rwindowprof, LoopInv, MaskInv, FaultInv, Active
  <2>5. UndoInv'
    BY <1>2, <2>2 DEF aop_hook_rwindowprof, UndoInv, LogOK, FirstCopy
  <2>6. (RecoveredConsistent /\ AnsweredOnce /\ InjectedRecoverable /\ AbortJustified)'
    BY <1>2, <2>2 DEF aop_hook_rwindowprof, RecoveredConsistent, AnsweredOnce, InjectedRecoverable, AbortJustified
  <2> QED BY <2>3, <2>4, <2>5, <2>6
<1>3. ASSUME NEW s \in Site, do_suicide_per_site(s) PROVE IInv'
  <2>1. /\ pc = "handle" /\ pc' \in {"handle", "crashed"}
        /\ pc' = "handle" => ~injected'
        /\ pc' = "crashed" => mask = {"IDEMPOTENT"} /\ (build.when_recoverable => msg.replyable)
    BY <1>3 DEF do_suicide_per_site, Suicide, LoopInv
  <2>2. UNCHANGED <<build, service, open, mask, have, prior, sef_init_done, msg, crashes,
                    base, effects, answers, full, kfail, outcome>>
    BY <1>3 DEF do_suicide_per_site
  <2>3. MinixTypeOK'
    <3>1. do_suicide' \in [Site -> BOOLEAN]
      BY <1>3 DEF do_suicide_per_site, MinixTypeOK
    <3>2. tcb' \in BOOLEAN
      BY <1>3 DEF do_suicide_per_site, MinixTypeOK
    <3>3. armed' \in BOOLEAN
      BY <1>3 DEF do_suicide_per_site, MinixTypeOK
    <3>4. injected' \in BOOLEAN
      BY <1>3 DEF do_suicide_per_site, Suicide, MinixTypeOK
    <3> QED BY <2>1, <2>2, <3>1, <3>2, <3>3, <3>4 DEF MinixTypeOK
  <2>4. (LoopInv /\ MaskInv /\ FaultInv)'
    BY <2>1, <2>2 DEF LoopInv, MaskInv, FaultInv, Active
  <2>5. UndoInv'
    BY <2>1, <2>2 DEF UndoInv, LogOK, FirstCopy
  <2>6. (RecoveredConsistent /\ AnsweredOnce /\ InjectedRecoverable /\ AbortJustified)'
    BY <2>1, <2>2 DEF RecoveredConsistent, AnsweredOnce, InjectedRecoverable, AbortJustified
  <2> QED BY <2>3, <2>4, <2>5, <2>6
<1> QED BY <1>1, <1>2, <1>3

(* Taking over the state of the crashed instance, and the end of the walk over its log. *)
LEMMA RestartStep == ASSUME IInv, restart \/ restore_done PROVE IInv'
<1> USE DEF IInv
<1>1. CASE restart
  <2>1. MinixTypeOK'
    <3>1. pc' \in {"restore", "failed"} /\ tcb' \in BOOLEAN /\ enabled' \in BOOLEAN /\ kfail' \in BOOLEAN
      BY <1>1 DEF restart
    <3> QED BY <1>1, <3>1 DEF restart, MinixTypeOK
  <2>2. (LoopInv /\ MaskInv /\ FaultInv)'
    BY <1>1 DEF restart, LoopInv, MaskInv, FaultInv, Active
  <2>3. UndoInv'
    BY <1>1 DEF restart, UndoInv, LogOK, FirstCopy
  <2>4. (RecoveredConsistent /\ AnsweredOnce /\ InjectedRecoverable /\ AbortJustified)'
    BY <1>1 DEF restart, RecoveredConsistent, AnsweredOnce, InjectedRecoverable, AbortJustified
  <2> QED BY <2>1, <2>2, <2>3, <2>4
<1>2. CASE restore_done
  <2>1. MinixTypeOK'
    BY <1>2 DEF restore_done, MinixTypeOK
  <2>2. (LoopInv /\ MaskInv /\ FaultInv)'
    BY <1>2 DEF restore_done, LoopInv, MaskInv, FaultInv, Active
  <2>3. UndoInv'
    BY <1>2 DEF restore_done, UndoInv, LogOK
  <2>4. (RecoveredConsistent /\ AnsweredOnce /\ InjectedRecoverable /\ AbortJustified)'
    BY <1>2 DEF restore_done, RecoveredConsistent, AnsweredOnce, InjectedRecoverable, AbortJustified
  <2> QED BY <2>1, <2>2, <2>3, <2>4
<1> QED BY <1>1, <1>2

(* What is left of a log without its newest entry. *)
LEMMA OlderEntries ==
  ASSUME NEW S, NEW s \in Seq(S), s # <<>>
  PROVE  /\ Len(s) \in Nat /\ Len(s) > 0 /\ s[Len(s)] \in S
         /\ SubSeq(s, 1, Len(s) - 1) \in Seq(S)
         /\ Len(SubSeq(s, 1, Len(s) - 1)) = Len(s) - 1
         /\ \A i \in 1 .. Len(s) - 1 : SubSeq(s, 1, Len(s) - 1)[i] = s[i]
<1>1. Len(s) \in Nat /\ Len(s) > 0
  OBVIOUS
<1>2. s[Len(s)] \in S
  BY <1>1
<1>3. PICK m \in Nat : m = Len(s) - 1
  BY <1>1
<1>4. SubSeq(s, 1, m) \in Seq(S)
  BY <1>1, <1>3
<1>5. Len(SubSeq(s, 1, m)) = m
  BY <1>1, <1>3
<1>6. \A i \in 1 .. m : SubSeq(s, 1, m)[i] = s[i]
  BY <1>1, <1>3
<1> QED BY <1>1, <1>2, <1>3, <1>4, <1>5, <1>6

(* An entry that is copied back is the first copy of its cell, or an older one is left
   in the log; entries of the stack are skipped. *)
LEMMA RestoreStep == ASSUME IInv, restore_entry PROVE IInv'
<1> USE DEF IInv
<1> DEFINE n == Len(wl)
           e == wl[n]
<1>0. /\ wl \in Seq([addr : Cell, val : Val]) /\ wl # <<>>
      /\ wl' = SubSeq(wl, 1, Len(wl) - 1)
  BY DEF restore_entry, MinixTypeOK
<1>1. n \in Nat /\ n > 0 /\ e \in [addr : Cell, val : Val]
  BY <1>0, OlderEntries
<1>2. /\ wl' \in Seq([addr : Cell, val : Val]) /\ Len(wl') = n - 1
      /\ \A i \in 1 .. n - 1 : wl'[i] = wl[i]
  BY <1>0, <1>1, OlderEntries
<1>3. \/ /\ mem' = IF e.addr \in StackCell THEN mem ELSE [mem EXCEPT ![e.addr] = e.val]
         /\ pc' = "restore" /\ kfail' = kfail
      \/ pc' = "failed" /\ kfail' = TRUE /\ mem' = mem
  BY DEF restore_entry
<1>4. MinixTypeOK'
  <2>1. mem' \in [Cell -> Val]
    BY <1>1, <1>3 DEF MinixTypeOK
  <2>2. Len(wl') <= WRITELOG_MAXLEN
    BY <1>1, <1>2, MinixAssumption DEF MinixTypeOK
  <2>3. pc' \in {"restore", "failed"} /\ kfail' \in BOOLEAN
    BY <1>3 DEF MinixTypeOK
  <2> QED BY <1>2, <2>1, <2>2, <2>3 DEF restore_entry, MinixTypeOK
<1>5. (LoopInv /\ MaskInv /\ FaultInv)'
  BY <1>3 DEF restore_entry, LoopInv, MaskInv, FaultInv, Active
<1>6. UndoInv'
  <2> SUFFICES ASSUME "FAIL_STOP" \notin mask', pc' = "restore" PROVE LogOK'
    BY <1>3 DEF UndoInv
  <2>1. LogOK
    BY DEF UndoInv, restore_entry
  <2>2. mem' = IF e.addr \in StackCell THEN mem ELSE [mem EXCEPT ![e.addr] = e.val]
    BY <1>3
  <2>3. UNCHANGED base
    BY DEF restore_entry
  <2> SUFFICES ASSUME NEW d \in Cell \ StackCell
               PROVE  /\ (\A i \in 1 .. Len(wl') : wl'[i].addr # d) => mem'[d] = base'[d]
                      /\ \A i \in 1 .. Len(wl') : FirstCopy(d, i)' => wl'[i].val = base'[d]
    BY DEF LogOK
  <2>4. ASSUME \A i \in 1 .. Len(wl') : wl'[i].addr # d
        PROVE  mem'[d] = base'[d]
    <3>1. \A i \in 1 .. n - 1 : wl[i].addr # d
      BY <2>4, <1>2
    <3>2. CASE e.addr = d
      <4>1. FirstCopy(d, n)
        BY <3>1, <3>2, <1>1 DEF FirstCopy
      <4>2. e.val = base[d]
        BY <4>1, <1>1, <2>1 DEF LogOK
      <4> QED BY <3>2, <4>2, <2>2, <2>3 DEF MinixTypeOK
    <3>3. CASE e.addr # d
      <4>1. \A i \in 1 .. n : wl[i].addr # d
        BY <3>1, <3>3, <1>1
      <4>2. mem[d] = base[d]
        BY <4>1, <2>1 DEF LogOK
      <4> QED BY <3>3, <4>2, <2>2, <2>3 DEF MinixTypeOK
    <3> QED BY <3>2, <3>3
  <2>5. ASSUME NEW i \in 1 .. Len(wl'), FirstCopy(d, i)'
        PROVE  wl'[i].val = base'[d]
    <3>1. i \in 1 .. n /\ wl'[i] = wl[i]
      BY <1>1, <1>2
    <3>2. ASSUME NEW j \in 1 .. n, j < i PROVE wl[j].addr # d
      <4>1. j \in 1 .. Len(wl') /\ wl'[j] = wl[j]
        BY <1>1, <1>2, <3>2
      <4> QED BY <4>1, <2>5, <3>2 DEF FirstCopy
    <3>3. FirstCopy(d, i)
      BY <2>5, <3>1, <3>2 DEF FirstCopy
    <3> QED BY <3>1, <3>3, <2>1, <2>3 DEF LogOK
  <2> QED BY <2>4, <2>5
<1>7. (RecoveredConsistent /\ AnsweredOnce /\ InjectedRecoverable /\ AbortJustified)'
  BY <1>3 DEF restore_entry, RecoveredConsistent, AnsweredOnce, InjectedRecoverable, AbortJustified
<1> QED BY <1>4, <1>5, <1>6, <1>7

-----------------------------------------------------------------------------
(* The dispatcher. *)

(* What a reply does: the requester is answered, or the kernel refuses. *)
LEMMA SendReply ==
  ASSUME send_reply
  PROVE  /\ mask' = mask
         /\ \/ answers' = answers + 1 /\ pc' = "top" /\ outcome' = "replied" /\ kfail' = kfail
            \/ /\ answers' = answers /\ kfail' = TRUE
               /\ \/ pc' = "top" /\ outcome' = "ignored"
                  \/ pc' \in {"aborted", "failed"} /\ outcome' = outcome
  BY DEF send_reply, Success, Failure

\* The ways out of the dispatcher, with what made it take them.
Gone    == pc' \in {"aborted", "failed"} /\ outcome' = outcome /\ UNCHANGED mask
Dropped == pc' = "top" /\ outcome' \in {"ignored", "skipped"} /\ UNCHANGED mask

(* The dispatcher's decisions, in terms of the mask, the message and the build. *)
LEMMA Dispatch ==
  ASSUME IInv, recovery_dispatcher
  PROVE  \/ Dropped /\ UNCHANGED answers /\ kfail' \in BOOLEAN
         \/ Gone /\ UNCHANGED answers /\ kfail' = TRUE
         \/ /\ Gone /\ UNCHANGED <<answers, kfail>>
            /\ build.naive = "DEFAULT" \/ "FAIL_STOP" \in mask
            /\ ~msg.replyable \/ "FAIL_STOP" \in mask
         \/ /\ "FAIL_STOP" \notin mask
            /\ pc' = "top" /\ outcome' = "replied" /\ answers' = answers + 1 /\ UNCHANGED <<kfail, mask>>
            /\ "PROCESS_SPECIFIC" \in mask => msg.src # "user"
         \/ /\ "FAIL_STOP" \notin mask
            /\ pc' = "top" /\ outcome' = "killed" /\ UNCHANGED <<answers, kfail, mask>>
         \/ /\ "FAIL_STOP" \notin mask /\ "PROCESS_SPECIFIC" \notin mask
            /\ pc' = "top" /\ outcome' = "rehandled" /\ UNCHANGED <<answers, kfail>>
            /\ mask' = mask \cup {"REPROCESSING_REQ"}
<1> USE DEF IInv
<1>0. kfail \in BOOLEAN
  BY DEF MinixTypeOK
<1>1. CASE build.no_recovery_on_fi /\ msg.fi_ctl
  BY <1>0, <1>1 DEF recovery_dispatcher, Success, Dropped
<1>2. CASE ~(build.no_recovery_on_fi /\ msg.fi_ctl) /\ ~is_message_replyable
  <2>1. Failure /\ UNCHANGED <<answers, kfail, mask>>
    BY <1>2 DEF recovery_dispatcher
  <2>2. CASE build.naive # "DEFAULT"
    BY <1>0, <2>1, <2>2 DEF Failure, Success, Dropped
  <2>3. CASE build.naive = "DEFAULT"
    <3>1. ~msg.replyable
      BY <1>2, <2>3 DEF is_message_replyable
    <3> QED BY <2>1, <2>3, <3>1 DEF Failure, Gone
  <2> QED BY <2>2, <2>3
<1>3. CASE ~(build.no_recovery_on_fi /\ msg.fi_ctl) /\ is_message_replyable /\ "FAIL_STOP" \in mask
  <2>1. recovery_fail_stop
    BY <1>3 DEF recovery_dispatcher
  <2> QED BY <1>0, <1>3, <2>1 DEF recovery_fail_stop, Failure, Success, Gone, Dropped
<1>4. CASE /\ ~(build.no_recovery_on_fi /\ msg.fi_ctl) /\ is_message_replyable
           /\ "FAIL_STOP" \notin mask /\ "PROCESS_SPECIFIC" \in mask
  <2>1. recovery_process_specific
    BY <1>4 DEF recovery_dispatcher
  <2>2. CASE msg.src = "user"
    BY <1>4, <2>1, <2>2 DEF recovery_process_specific, Failure, Success, Gone, Dropped
  <2>3. CASE msg.src # "user"
    <3>1. send_reply
      BY <2>1, <2>3 DEF recovery_process_specific
    <3> QED BY <1>4, <2>3, <3>1, SendReply DEF Gone, Dropped
  <2> QED BY <2>2, <2>3
<1>5. CASE /\ ~(build.no_recovery_on_fi /\ msg.fi_ctl) /\ is_message_replyable
           /\ "FAIL_STOP" \notin mask /\ "PROCESS_SPECIFIC" \notin mask
  <2>1. recovery_idempotent
    BY <1>5 DEF recovery_dispatcher
  <2>2. CASE build.rehandle
    BY <1>0, <1>5, <2>1, <2>2 DEF recovery_idempotent, Success, Dropped
  <2>3. CASE ~build.rehandle /\ ~msg.replyable /\ build.naive # "ALWAYS_REPLY"
    BY <1>0, <2>1, <2>3 DEF recovery_idempotent, Failure, Success, Gone, Dropped
  <2>4. CASE ~build.rehandle /\ ~(~msg.replyable /\ build.naive # "ALWAYS_REPLY")
    <3>1. send_reply
      BY <2>1, <2>4 DEF recovery_idempotent
    <3> QED BY <1>5, <3>1, SendReply DEF Gone, Dropped
  <2> QED BY <2>2, <2>3, <2>4
<1> QED BY <1>1, <1>2, <1>3, <1>4, <1>5

(* The dispatcher keeps its promises to the requester. *)
LEMMA DispatchStep == ASSUME IInv, recovery_dispatcher PROVE IInv'
<1> USE DEF IInv
<1>1. /\ pc = "dispatch" /\ tcb' = TRUE
      /\ UNCHANGED <<build, service, open, have, prior, sef_init_done, faults, msg,
                     base, effects, full, injected>>
  BY DEF recovery_dispatcher
<1>2. /\ pc' \in {"top", "aborted", "failed"} /\ kfail' \in BOOLEAN
      /\ outcome' \in {"none", "replied", "killed", "rehandled", "skipped", "ignored"}
  BY Dispatch DEF Dropped, Gone, MinixTypeOK
<1>3. mask' = mask \/ (/\ mask' = mask \cup {"REPROCESSING_REQ"} /\ pc' = "top"
                       /\ "FAIL_STOP" \notin mask /\ "PROCESS_SPECIFIC" \notin mask
                       /\ UNCHANGED answers)
  BY Dispatch DEF Dropped, Gone
<1>4. answers' \in {0, 1}
  <2>1. answers \in {0, 1} /\ ("FAIL_STOP" \notin mask => answers = 0)
    BY <1>1 DEF MaskInv, Active, AnsweredOnce, MinixTypeOK
  <2>2. answers' = answers \/ ("FAIL_STOP" \notin mask /\ answers' = answers + 1)
    BY Dispatch
  <2> QED BY <2>1, <2>2
<1>5. MinixTypeOK'
  <2>1. mask' \subseteq Bit
    BY <1>3 DEF MinixTypeOK, Bit
  <2>2. answers' \in Nat
    BY <1>4
  <2> QED BY <1>1, <1>2, <2>1, <2>2 DEF MinixTypeOK
<1>6. LoopInv'
  BY <1>1, <1>2 DEF LoopInv, Active
<1>7. MaskInv'
  BY <1>1, <1>2, <1>3 DEF MaskInv, Active
<1>8. (FaultInv /\ UndoInv)'
  BY <1>2 DEF FaultInv, UndoInv
<1>9. RecoveredConsistent'
  <2> SUFFICES ASSUME pc' = "top", outcome' \in {"replied", "killed", "rehandled"}
               PROVE  /\ \A c \in Cell \ StackCell : mem[c] = base[c]
                      /\ \A s \in effects : Policy[s] # "fail_stop"
                      /\ (\E s \in effects : Policy[s] = "process_local")
                           => outcome' = "killed" \/ (outcome' = "replied" /\ msg.src # "user")
    BY <1>1 DEF RecoveredConsistent
  <2>1. "FAIL_STOP" \notin mask
    BY Dispatch DEF Dropped, Gone
  <2>2. "PROCESS_SPECIFIC" \in mask => outcome' = "killed" \/ (outcome' = "replied" /\ msg.src # "user")
    BY Dispatch DEF Dropped, Gone
  <2> QED BY <1>1, <2>1, <2>2 DEF MaskInv, Active, UndoInv
<1>10. AnsweredOnce'
  BY <1>4 DEF AnsweredOnce
<1>11. InjectedRecoverable'
  <2> SUFFICES ASSUME injected, build.when_recoverable, pc' \in {"aborted", "failed"} PROVE kfail' = TRUE
    BY <1>1, <1>2 DEF InjectedRecoverable
  <2>1. mask = {"IDEMPOTENT"} /\ msg.replyable
    BY <1>1 DEF FaultInv
  <2> QED BY <2>1, Dispatch DEF Dropped
<1>12. AbortJustified'
  <2> SUFFICES ASSUME pc' \in {"aborted", "failed"}, msg.replyable
               PROVE  kfail' = TRUE \/ full \/ \E s \in effects : Policy[s] = "fail_stop"
    BY <1>1, <1>2 DEF AbortJustified
  <2>1. kfail' = TRUE \/ "FAIL_STOP" \in mask
    BY Dispatch DEF Dropped
  <2> QED BY <1>1, <2>1 DEF MaskInv, Active
<1> QED BY <1>5, <1>6, <1>7, <1>8, <1>9, <1>10, <1>11, <1>12

(* Every step preserves the invariant. *)
LEMMA NextIInv == IInv /\ [Next]_vars => IInv'
<1> SUFFICES ASSUME IInv, [Next]_vars PROVE IInv'
  OBVIOUS
<1>1. CASE UNCHANGED vars
  <2>1. (MinixTypeOK /\ LoopInv /\ MaskInv /\ FaultInv)'
    BY <1>1 DEF vars, IInv, MinixTypeOK, LoopInv, MaskInv, FaultInv, Active
  <2>2. UndoInv'
    BY <1>1 DEF vars, IInv, UndoInv, LogOK, FirstCopy
  <2>3. (RecoveredConsistent /\ AnsweredOnce /\ InjectedRecoverable /\ AbortJustified)'
    BY <1>1 DEF vars, IInv, RecoveredConsistent, AnsweredOnce, InjectedRecoverable, AbortJustified
  <2> QED BY <2>1, <2>2, <2>3 DEF IInv
<1>2. CASE Next
  BY <1>2, LoopStep, DeliverStep, StoreStep, CallStep, ReturnStep, FaultStep,
     RestartStep, RestoreStep, DispatchStep DEF Next
<1> QED BY <1>1, <1>2

-----------------------------------------------------------------------------
(* The theorems. *)

(* The conjunction above is an invariant of the service. *)
LEMMA Invariance == Spec => []IInv
  BY InitIInv, NextIInv, PTL DEF Spec

(* The variables keep their types; in particular no store runs over the end of the log
   (WRITELOG_MAXLEN), since a full log closes the window. *)
THEOREM MinixTypeCorrect == Spec => []MinixTypeOK
<1>1. IInv => MinixTypeOK
  BY DEF IInv
<1> QED BY Invariance, <1>1, PTL

(* A request that was replied to, whose requester was killed, or that is handled again
   has left no trace in the memory of the service or outside it, for any log size, any
   policies of the calls and any number of crashes. *)
THEOREM RecoveryConsistent == Spec => []RecoveredConsistent
<1>1. IInv => RecoveredConsistent
  BY DEF IInv
<1> QED BY Invariance, <1>1, PTL

(* No request is answered twice, by the handler's reply and ltckpt_send_reply or by two
   runs of the handler. *)
THEOREM AtMostOneAnswer == Spec => []AnsweredOnce
<1>1. IInv => AnsweredOnce
  BY DEF IInv
<1> QED BY Invariance, <1>1, PTL

(* ltckpt_do_suicide only injects faults the dispatcher recovers from. *)
THEOREM InjectionIsRecoverable == Spec => []InjectedRecoverable
<1>1. IInv => InjectedRecoverable
  BY DEF IInv
<1> QED BY Invariance, <1>1, PTL

(* sys_abort is called for what this request did and not for what an earlier one did. *)
THEOREM AbortsJustified == Spec => []AbortJustified
<1>1. IInv => AbortJustified
  BY DEF IInv
<1> QED BY Invariance, <1>1, PTL

=============================================================================
