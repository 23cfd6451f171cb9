--------------------------- MODULE MCMinixRecovery ---------------------------
(* A service with one global word and one on the stack, and one call per policy. *)
EXTENDS MinixRecovery

MCPolicy == [local |-> "process_local", query |-> "idempotent", reply |-> "fail_stop"]

MCMessages ==
  {[src |-> "user",   fi_ctl |-> FALSE, replyable |-> TRUE],
   [src |-> "system", fi_ctl |-> FALSE, replyable |-> TRUE],
   [src |-> "user",   fi_ctl |-> FALSE, replyable |-> FALSE],
   [src |-> "RS",     fi_ctl |-> TRUE,  replyable |-> TRUE]}

Default == [rehandle |-> FALSE, when_recoverable |-> TRUE, only_once |-> TRUE,
            no_recovery_on_fi |-> TRUE, naive |-> "DEFAULT"]

\* The fault-injection options, none of them with rehandling, and the naive modes.
MCBuilds ==
  {[Default EXCEPT !.rehandle = TRUE, !.when_recoverable = FALSE, !.only_once = FALSE,
                   !.no_recovery_on_fi = FALSE]}
  \cup {[Default EXCEPT !.naive = n] : n \in NaiveModes}

=============================================================================
