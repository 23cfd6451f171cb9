----------------------------- MODULE Checkpoint -----------------------------
(***************************************************************************)
(* What every checkpointing mechanism of ltckpt promises to rcvry: there   *)
(* is one current checkpoint, and a crash takes the application's memory   *)
(* back to it, whatever was stored in between (README.md: "when a crash    *)
(* occurs, we roll back the application state").  It says nothing of how   *)
(* (a log, copied pages, a hardware transaction, a forked process).        *)
(***************************************************************************)
CONSTANTS Addr, Val

VARIABLES mem,    \* the application's memory
          ckpt,   \* its contents at the current checkpoint
          mode    \* "run", or "atckpt": standing at the checkpoint

vars == <<mem, ckpt, mode>>

TypeOK == /\ mem  \in [Addr -> Val]
          /\ ckpt \in [Addr -> Val]
          /\ mode \in {"run", "atckpt"}

Init == /\ mem \in [Addr -> Val]
        /\ ckpt = mem
        /\ mode \in {"run", "atckpt"}

\* The application runs: any store to memory.
Write == /\ mode = "run"
         /\ mem' \in [Addr -> Val]
         /\ UNCHANGED <<ckpt, mode>>

\* A checkpoint is taken; the caller may stay at it or run on at once.
TakeCheckpoint == /\ ckpt' = mem
                  /\ mode' \in {"run", "atckpt"}
                  /\ UNCHANGED mem

\* A crash, with everything done since the checkpoint undone.
Rollback == /\ mem' = ckpt
            /\ mode' \in {"run", "atckpt"}
            /\ UNCHANGED ckpt

\* Execution leaves the checkpoint.
Resume == /\ mode = "atckpt"
          /\ mode' = "run"
          /\ UNCHANGED <<mem, ckpt>>

Next == Write \/ TakeCheckpoint \/ Rollback \/ Resume

Spec == Init /\ [][Next]_vars

=============================================================================
