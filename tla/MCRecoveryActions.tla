-------------------------- MODULE MCRecoveryActions --------------------------
(* Instances of RecoveryActions for TLC. *)
EXTENDS RecoveryActions

AllFunctions == DOMAIN libCallRecoveryMap

\* Functions whose recovery can be repeated, and is right also when the call
\* failed: the object is found through the return slot, or there is none.
Repeatable == {"malloc", "open", "recv", "chdir", "getenv", "read"}

\* Functions whose first recovery is right after a call that succeeded.
RightOnce == Repeatable \cup
  {"posix_memalign", "fork", "mkdir", "getaddrinfo", "pthread_mutex_init",
   "pthread_mutex_trylock", "realloc"}

\* Functions of those whose action reads nothing from the caller's frame.
FrameIgnored == RightOnce \ {"malloc", "open", "fork", "posix_memalign", "getaddrinfo"}

\* Functions of those whose callers do not look at errno, or never return.
ErrnoIgnored == RightOnce \cap (ReturnsCode \cup {"read", "realloc"})

\* Functions of those whose undoing call reports its failure.
FailureSeen == RightOnce \ {"pthread_mutex_init", "pthread_mutex_trylock"}

\* Without fork, whose waiting parent would else be let go by a signal.
NotFork == AllFunctions \ {"fork"}

RightBound == [f \in RightOnce |-> IF f \in Repeatable THEN 3 ELSE 1]
Twice      == [f \in AllFunctions |-> 2]
Once       == [f \in Functions |-> 1]

=============================================================================
