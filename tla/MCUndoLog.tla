------------------------------ MODULE MCUndoLog ------------------------------
(* Instances of UndoLog for TLC, with the real region size and alignment.   *)
EXTENDS UndoLog

\* Four 8-byte regions of memory, all bytes equal within an image.
MCImages == {[a \in Addr |-> v] : v \in Val}

\* Stores of the natural sizes at naturally aligned addresses, and memory
\* intrinsics on 8-byte aligned addresses: part of a region, two regions, two
\* of which one holds wl_position, and all up to the log.
AlignedAccesses ==
  { [hook |-> "store",  addr |-> 0,  size |-> 8],
    [hook |-> "store",  addr |-> 12, size |-> 4],
    [hook |-> "memcpy", addr |-> 8,  size |-> 3],
    [hook |-> "memcpy", addr |-> 0,  size |-> 16],
    [hook |-> "memcpy", addr |-> 8,  size |-> 12],
    [hook |-> "memcpy", addr |-> 8,  size |-> 20] }

=============================================================================
