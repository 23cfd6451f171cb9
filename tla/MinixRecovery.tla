---------------------------- MODULE MinixRecovery ----------------------------
(***************************************************************************)
(* Recovery of a MINIX system service: ltckpt_recover.c with the __MINIX   *)
(* parts of mechanisms/ltckpt_writelog.c.  A service handles one message   *)
(* at a time.  Its recovery window opens when a message is delivered and   *)
(* closes when a call of the handler makes the request impossible to undo, *)
(* or when the undo log is full.  After a crash a new instance takes over  *)
(* the state of the old one, undoes it with the log, and the dispatcher    *)
(* answers the request with an error, kills the requester, handles the     *)
(* request again, or takes the machine down.                               *)
(*                                                                         *)
(* SEF, the library that receives messages and restarts services, and the  *)
(* kernel are external; so is the pass that inserts the site hooks.        *)
(***************************************************************************)
EXTENDS Integers, Sequences, FiniteSets

CONSTANTS
  Cell, StackCell,     \* words of memory, and those above datamax
  Val, Zero,           \* their values
  WRITELOG_MAXLEN,     \* entries of the log
  Site, Policy,        \* instrumented calls, and the policy of each
  AnswerSite,          \* the call that answers the request
  Messages,            \* [src, fi_ctl, replyable]
  Builds,              \* options of the Makefile, and the naive mode
  SuicideSites,        \* sites switched on for fault injection
  MaxCrashes           \* a bound on the crashes that are not injected

Policies   == {"idempotent", "request_specific", "process_local", "fail_stop"}
Bit        == {"IDEMPOTENT", "PROCESS_SPECIFIC", "FAIL_STOP", "REPROCESSING_REQ"}
NaiveModes == {"DEFAULT", "NEVER_REPLY", "CONDITIONAL_REPLY", "ALWAYS_REPLY"}

ASSUME MinixAssumption ==
  /\ StackCell \subseteq Cell /\ Zero \in Val
  /\ WRITELOG_MAXLEN \in Nat \ {0}
  /\ Policy \in [Site -> Policies]
  /\ AnswerSite \in Site /\ Policy[AnswerSite] = "fail_stop"
  /\ Messages \subseteq [src : {"user", "system", "RS"}, fi_ctl : BOOLEAN, replyable : BOOLEAN]
  /\ \A m \in Messages : m.fi_ctl => m.src = "RS"
  /\ Builds \subseteq [rehandle : BOOLEAN, when_recoverable : BOOLEAN, only_once : BOOLEAN,
                       no_recovery_on_fi : BOOLEAN, naive : NaiveModes]
  /\ SuicideSites \subseteq Site
  /\ MaxCrashes \in Nat

VARIABLES
  build, mem, wl, enabled,       \* options; memory; the log, ltckpt_writelog_enabled
  open, mask, tcb,               \* sa_window__is_open, g_recovery_bitmask, inside_trusted_compute_base
  have, prior, sef_init_done,    \* have_handled_message, prior_have_handled_message
  armed, do_suicide,             \* suicide_on_window_close, g_shutter_board[].do_suicide
  msg,                           \* the current message
  pc,                            \* "top", "receive", "wait", "handle", "crashed", "restore", "dispatch", "aborted", "failed"
  crashes,
  base, effects, answers, full,  \* history: memory when the window opened; calls made, answers sent,
  injected, kfail, outcome       \*   log full, for msg; how it crashed, kernel failures, how it was recovered

service == <<mem, wl, enabled>>
window  == <<open, mask, tcb, have, prior, sef_init_done>>
faults  == <<armed, do_suicide, crashes>>
history == <<base, effects, answers, full, injected, kfail, outcome>>
vars == <<build, service, window, faults, msg, pc, history>>

MinixTypeOK ==
  /\ build \in Builds /\ msg \in Messages
  /\ mem \in [Cell -> Val] /\ base \in [Cell -> Val]
  /\ wl \in Seq([addr : Cell, val : Val]) /\ Len(wl) <= WRITELOG_MAXLEN
  /\ enabled \in BOOLEAN /\ open \in BOOLEAN /\ tcb \in BOOLEAN
  /\ have \in BOOLEAN /\ prior \in BOOLEAN /\ sef_init_done \in BOOLEAN
  /\ armed \in BOOLEAN /\ full \in BOOLEAN /\ injected \in BOOLEAN /\ kfail \in BOOLEAN
  /\ mask \subseteq Bit
  /\ do_suicide \in [Site -> BOOLEAN]
  /\ pc \in {"top", "receive", "wait", "handle", "crashed", "restore", "dispatch", "aborted", "failed"}
  /\ crashes \in 0 .. MaxCrashes
  /\ effects \subseteq Site /\ answers \in Nat
  /\ outcome \in {"none", "replied", "killed", "rehandled", "skipped", "ignored"}

Init ==
  /\ build \in Builds
  /\ mem = [c \in Cell |-> Zero] /\ base = mem /\ wl = <<>> /\ enabled = FALSE
  /\ open = FALSE /\ mask = {"IDEMPOTENT"} /\ tcb = TRUE
  /\ have = FALSE /\ prior = FALSE /\ sef_init_done = FALSE
  /\ armed = TRUE /\ do_suicide = [s \in Site |-> s \in SuicideSites] /\ crashes = 0
  /\ msg \in Messages /\ pc = "top"
  /\ effects = {} /\ answers = 0 /\ full = FALSE /\ injected = FALSE /\ kfail = FALSE /\ outcome = "none"

-----------------------------------------------------------------------------
(* The message loop. *)

\* ltckpt_top_of_the_loop_hook of the undo log, with the default CP_INTERVAL of
\* 1: CTX_NEW_TOL_OR_RETURN always goes on to the reset (module UndoLog has the
\* other intervals).
top_of_the_loop ==
  /\ pc = "top"
  /\ wl' = <<>> /\ enabled' = TRUE
  /\ pc' = "receive"
  /\ UNCHANGED <<build, mem, window, faults, msg, history>>

\* Mutated detect_start_of_window: the policy bits of the last request are kept.
detect_start_of_windowKeepsMask(h) ==
  /\ have' = h /\ prior' = h
  /\ open' = IF h THEN TRUE ELSE IF prior THEN FALSE ELSE open
  /\ mask' = mask
  /\ tcb'  = IF prior = h THEN tcb ELSE prior

\* The window manager, when SEF has set have_handled_message to h.
detect_start_of_window(h) ==
  /\ have' = h /\ prior' = h
  /\ IF ~prior /\ h
       THEN open' = TRUE /\ mask' = {"IDEMPOTENT"} /\ tcb' = FALSE
       ELSE IF prior /\ ~h THEN open' = FALSE /\ tcb' = TRUE /\ UNCHANGED mask
                           ELSE UNCHANGED <<open, mask, tcb>>

\* The service asks SEF for the next message; the one before is done with.
sef_receive ==
  /\ pc = "receive"
  /\ detect_start_of_window(FALSE)
  /\ pc' = "wait"
  /\ UNCHANGED <<build, service, sef_init_done, faults, msg, history>>

\* SEF delivers a message, the same again if rehandling is active.  Before the
\* service is initialized they are requests of RS.
sef_handle_message(m) ==
  /\ pc = "wait"
  /\ IF "REPROCESSING_REQ" \in mask
       THEN m = msg /\ UNCHANGED <<effects, answers, full>>
       ELSE /\ sef_init_done \/ m.src = "RS"
            /\ effects' = {} /\ answers' = 0 /\ full' = FALSE
  /\ detect_start_of_window(TRUE)
  /\ msg' = m /\ base' = mem
  /\ injected' = FALSE /\ kfail' = FALSE /\ outcome' = "none"
  /\ pc' = "handle"
  /\ UNCHANGED <<build, service, sef_init_done, faults>>

-----------------------------------------------------------------------------
(* The handler of a message, and the hooks in it. *)

\* Mutated Store: a full log closes the window without a fail-stop mark; the
\* log is found full one entry late.
StoreUnmarked(c, v) ==
  /\ pc = "handle"
  /\ wl' = IF enabled /\ open THEN Append(wl, [addr |-> c, val |-> mem[c]]) ELSE wl
  /\ open' = (open /\ Len(wl') < WRITELOG_MAXLEN)
  /\ mem' = [mem EXCEPT ![c] = v]
  /\ UNCHANGED <<build, enabled, mask, tcb, have, prior, sef_init_done, faults, msg, pc, history>>

StoreLate(c, v) ==
  /\ pc = "handle"
  /\ wl' = IF enabled /\ open THEN Append(wl, [addr |-> c, val |-> mem[c]]) ELSE wl
  /\ open' = (open /\ Len(wl') <= WRITELOG_MAXLEN)
  /\ mask' = IF Len(wl') > WRITELOG_MAXLEN THEN mask \cup {"FAIL_STOP"} ELSE mask
  /\ mem' = [mem EXCEPT ![c] = v]
  /\ UNCHANGED <<build, enabled, tcb, have, prior, sef_init_done, faults, msg, pc, history>>

\* A store and its hook: logged only while the window is open, and a log that
\* has become full closes the window for good.
Store(c, v) ==
  /\ pc = "handle"
  /\ IF enabled /\ open
       THEN /\ wl' = Append(wl, [addr |-> c, val |-> mem[c]])
            /\ IF Len(wl') >= WRITELOG_MAXLEN
                 THEN open' = FALSE /\ mask' = mask \cup {"FAIL_STOP"} /\ full' = TRUE
                 ELSE UNCHANGED <<open, mask, full>>
       ELSE UNCHANGED <<wl, open, mask, full>>
  /\ mem' = [mem EXCEPT ![c] = v]
  /\ UNCHANGED <<build, enabled, tcb, have, prior, sef_init_done, faults, msg, pc,
                 base, effects, answers, injected, kfail, outcome>>

\* Mutated set_recovery: fail-stop sites only close the window.
set_recoveryUnmarked(s) ==
  /\ open' = IF Policy[s] = "fail_stop" THEN FALSE ELSE open
  /\ mask' = IF Policy[s] = "process_local" THEN mask \cup {"PROCESS_SPECIFIC"} ELSE mask

\* The ltckpt_set_*_recovery hook of site s; request specific sets the bit of
\* idempotent recovery.
set_recovery(s) ==
  /\ mask' = mask \cup (CASE Policy[s] = "fail_stop"     -> {"FAIL_STOP"}
                          [] Policy[s] = "process_local" -> {"PROCESS_SPECIFIC"}
                          [] OTHER                       -> {"IDEMPOTENT"})
  /\ open' = IF Policy[s] = "fail_stop" /\ have THEN FALSE ELSE open

\* An instrumented call of the handler; the last one is the answer.
CallSite(s) ==
  /\ pc = "handle"
  /\ s = AnswerSite => (msg.replyable /\ answers = 0)
  /\ set_recovery(s)
  /\ effects' = effects \cup {s}
  /\ answers' = IF s = AnswerSite THEN answers + 1 ELSE answers
  /\ UNCHANGED <<build, service, tcb, have, prior, sef_init_done, faults, msg, pc,
                 base, full, injected, kfail, outcome>>

\* The handler returns to the message loop.
Return ==
  /\ pc = "handle"
  /\ msg.replyable => answers > 0
  /\ pc' = "top" /\ sef_init_done' = TRUE
  /\ UNCHANGED <<build, service, open, mask, tcb, have, prior, faults, msg, history>>

-----------------------------------------------------------------------------
(* Faults. *)

\* Mutated Suicide: it crashes whatever recovery the request needs.
SuicideAlways ==
  IF tcb THEN UNCHANGED <<pc, injected>>
         ELSE pc' = "crashed" /\ injected' = TRUE

\* ltckpt_do_suicide: the service crashes, unless it is in the trusted base or
\* recovery would not be idempotent.
Suicide ==
  IF tcb \/ mask # {"IDEMPOTENT"}
    THEN UNCHANGED <<pc, injected>>
    ELSE pc' = "crashed" /\ injected' = TRUE

\* Mutated do_suicide_per_site: the site stays enabled.
do_suicide_per_siteAgain(s) ==
  /\ pc = "handle" /\ ~tcb /\ sef_init_done
  /\ open /\ do_suicide[s] /\ armed
  /\ msg.src # "RS" /\ (build.when_recoverable => msg.replyable)
  /\ armed' = ~build.only_once /\ Suicide
  /\ UNCHANGED <<build, service, window, do_suicide, msg, crashes, base, effects, answers, full, kfail, outcome>>

\* The fault injected at site s, once.
do_suicide_per_site(s) ==
  /\ pc = "handle" /\ ~tcb
  /\ IF ~sef_init_done
       THEN tcb' = TRUE /\ UNCHANGED <<do_suicide, armed, pc, injected>>
       ELSE /\ open /\ do_suicide[s] /\ armed
            /\ msg.src # "RS"
            /\ build.when_recoverable => msg.replyable
            /\ do_suicide' = [do_suicide EXCEPT ![s] = FALSE]
            /\ armed' = ~build.only_once /\ Suicide
            /\ UNCHANGED tcb
  /\ UNCHANGED <<build, service, open, mask, have, prior, sef_init_done, msg, crashes,
                 base, effects, answers, full, kfail, outcome>>

\* The profiling hook of a basic block outside the window.
aop_hook_rwindowprof ==
  /\ pc = "handle" /\ ~tcb /\ ~open /\ armed
  /\ armed' = FALSE /\ Suicide
  /\ UNCHANGED <<build, service, window, do_suicide, msg, crashes,
                 base, effects, answers, full, kfail, outcome>>

\* A fault of the handler itself.  The trusted base is trusted not to have any.
Crash ==
  /\ pc = "handle" /\ ~tcb
  /\ crashes < MaxCrashes
  /\ crashes' = crashes + 1
  /\ pc' = "crashed"
  /\ UNCHANGED <<build, service, window, armed, do_suicide, msg, history>>

-----------------------------------------------------------------------------
(* Recovery in the new instance. *)

\* ltckpt_restart and the head of the restart hook of the undo log: the log is
\* disabled, also in the old instance, and the state of the old one taken over.
\* Each is a kernel call that may fail.
restart ==
  /\ pc = "crashed"
  /\ tcb' = TRUE /\ enabled' = FALSE
  /\ pc' \in {"restore", "failed"}
  /\ kfail' = (pc' = "failed")
  /\ UNCHANGED <<build, mem, wl, open, mask, have, prior, sef_init_done, faults, msg,
                 base, effects, answers, full, injected, outcome>>

\* An iteration of its loop: the newest entry is copied back from the old
\* instance, unless it is one of the stack.
restore_entry ==
  /\ pc = "restore" /\ wl # <<>>
  /\ wl' = SubSeq(wl, 1, Len(wl) - 1)
  /\ LET e == wl[Len(wl)] IN
       \/ /\ mem' = IF e.addr \in StackCell THEN mem ELSE [mem EXCEPT ![e.addr] = e.val]
          /\ UNCHANGED <<pc, kfail>>
       \/ pc' = "failed" /\ kfail' = TRUE /\ UNCHANGED mem
  /\ UNCHANGED <<build, enabled, window, faults, msg,
                 base, effects, answers, full, injected, outcome>>

\* The hook returns, and SEF calls the dispatcher.
restore_done ==
  /\ pc = "restore" /\ wl = <<>>
  /\ pc' = "dispatch"
  /\ UNCHANGED <<build, service, window, faults, msg, history>>

is_message_replyable ==
  CASE build.naive = "NEVER_REPLY"  -> FALSE
    [] build.naive = "ALWAYS_REPLY" -> TRUE
    [] OTHER                        -> msg.replyable

\* The request is done with, and the service goes on with its message loop.
Success(how) ==
  /\ outcome' = how
  /\ pc' = "top"

\* The dispatcher's last resort, sys_abort, which may fail.
Failure ==
  IF build.naive # "DEFAULT"
    THEN Success("ignored")
    ELSE pc' \in {"aborted", "failed"} /\ UNCHANGED outcome

\* ltckpt_send_reply(ERESTART), an asynsend that may fail.
send_reply ==
  \/ answers' = answers + 1 /\ Success("replied") /\ UNCHANGED <<kfail, mask>>
  \/ kfail' = TRUE /\ Failure /\ UNCHANGED <<answers, mask>>

recovery_idempotent ==
  IF build.rehandle
    THEN /\ IF msg.fi_ctl
              THEN Success("ignored") /\ UNCHANGED mask
              ELSE Success("rehandled") /\ mask' = mask \cup {"REPROCESSING_REQ"}
         /\ UNCHANGED <<answers, kfail>>
    ELSE IF ~msg.replyable /\ build.naive # "ALWAYS_REPLY"
           THEN Failure /\ UNCHANGED <<answers, kfail, mask>>
           ELSE send_reply

\* SIGKILL for a user process, which may be gone; an error for a service.
recovery_process_specific ==
  IF msg.src = "user"
    THEN /\ \/ Success("killed") /\ UNCHANGED kfail
            \/ kfail' = TRUE /\ Failure
         /\ UNCHANGED <<answers, mask>>
    ELSE send_reply

recovery_fail_stop ==
  /\ \/ pc' = "aborted" /\ UNCHANGED outcome
     \/ Failure
  /\ UNCHANGED <<answers, kfail, mask>>

\* The policy with the least left to save goes first.
recovery_dispatcher ==
  /\ pc = "dispatch"
  /\ tcb' = TRUE
  /\ IF build.no_recovery_on_fi /\ msg.fi_ctl
       THEN Success("skipped") /\ UNCHANGED <<answers, kfail, mask>>
     ELSE IF ~is_message_replyable
       THEN Failure /\ UNCHANGED <<answers, kfail, mask>>
     ELSE IF "FAIL_STOP" \in mask THEN recovery_fail_stop
     ELSE IF "PROCESS_SPECIFIC" \in mask THEN recovery_process_specific
     ELSE recovery_idempotent
  /\ UNCHANGED <<build, service, open, have, prior, sef_init_done, faults, msg,
                 base, effects, full, injected>>

Next ==
  \/ top_of_the_loop \/ sef_receive
  \/ \E m \in Messages : sef_handle_message(m)
  \/ \E c \in Cell, v \in Val : Store(c, v)
  \/ \E s \in Site : CallSite(s) \/ do_suicide_per_site(s)
  \/ Return \/ aop_hook_rwindowprof \/ Crash
  \/ restart \/ restore_entry \/ restore_done \/ recovery_dispatcher

\* The message loop and recovery are straight-line code, a request that was
\* delivered is there to be delivered again, and a handler answers and returns.
Fairness ==
  /\ WF_vars(top_of_the_loop) /\ WF_vars(sef_receive)
  /\ WF_vars(sef_handle_message(msg))
  /\ WF_vars(CallSite(AnswerSite)) /\ WF_vars(Return)
  /\ WF_vars(restart) /\ WF_vars(restore_entry) /\ WF_vars(restore_done)
  /\ WF_vars(recovery_dispatcher)

Spec == Init /\ [][Next]_vars /\ Fairness

-----------------------------------------------------------------------------
(* A request that recovery dealt with left nothing behind: memory is as it was when
   the window opened, no fail-stop call was made, and calls with effects on the
   requester only if the requester is a user process that was killed, or a service that
   was told (the bits of g_recovery_bitmask, the closing of the window on a full log and
   the order of the dispatcher's tests, ltckpt_recover.c:519-541). *)
RecoveredConsistent ==
  (pc = "top" /\ outcome \in {"replied", "killed", "rehandled"}) =>
    /\ \A c \in Cell \ StackCell : mem[c] = base[c]
    /\ \A s \in effects : Policy[s] # "fail_stop"
    /\ (\E s \in effects : Policy[s] = "process_local")
          => outcome = "killed" \/ (outcome = "replied" /\ msg.src # "user")

(* A request is answered at most once, by its handler or by recovery, however often the
   handler crashes and is run again. *)
AnsweredOnce == answers <= 1

(* An injected fault takes the machine down only if a kernel call of the recovery failed
   (LTRC_SUICIDE_WHEN_RECOVERABLE, and the tests of the window, the mask and the
   message before ltckpt_do_suicide crashes). *)
InjectedRecoverable ==
  (injected /\ build.when_recoverable /\ build.naive = "DEFAULT" /\ pc \in {"aborted", "failed"})
    => kfail

(* The machine is taken down for a request that wants an answer only if that request made
   a fail-stop call or filled the log, or a kernel call failed: what an earlier request did
   to g_recovery_bitmask is forgotten when the window opens (ltckpt_recover.c:142). *)
AbortJustified ==
  (pc \in {"aborted", "failed"} /\ msg.replyable) =>
    kfail \/ full \/ \E s \in effects : Policy[s] = "fail_stop"

(* A requester that waits for an answer gets one, or is killed, or the machine goes
   down: recovery does not leave it hanging, and rehandling ends when the faults do. *)
RequesterWaits ==
  /\ pc = "handle" /\ msg.replyable /\ answers = 0
  /\ build.naive = "DEFAULT" /\ ~msg.fi_ctl

RequestSettled ==
  RequesterWaits ~> (answers > 0 \/ outcome = "killed" \/ pc \in {"aborted", "failed"})

=============================================================================
