----------------------------- MODULE MCStoreHooks -----------------------------
(* All small functions of three blocks with a branch and a loop. *)
EXTENDS StoreHooks

\* 1 branches to 2 or 3; 2 goes on to 3, and 3 back to 2 or out.
MCSucc == <<{2, 3}, {3}, {0, 2}>>

nop       == [op |-> "nop"]
store(o)  == [op |-> "store", off |-> o]
tol(t)    == [op |-> "tol", type |-> t]
callee_(t) == [op |-> "call", type |-> t]

Compiled(C, o) == {[code |-> c, option |-> o] : c \in C}
Stores(c) == {s \in Point : c[s].op = "store"}

\* Windows of both kinds, from hooks and from calls, in blocks 1 and 2.
Windowed ==
  LET I == {store(1), tol("LTCKPT"), tol("TSX"), callee_("LTCKPT"), callee_("TSX")}
  IN  {[s \in Point |-> IF s[1] = 3 THEN nop ELSE c[s]] : c \in [(1 .. 2) \X (1 .. BlockLen) -> I]}

\* Stores only, the third instruction of a block left out.
StoresOnly(words) ==
  {[s \in Point |-> IF s[2] = 3 THEN nop ELSE c[s]] :
     c \in [Block \X (1 .. 2) -> {nop} \cup {store(o) : o \in words}]}

MCPrograms ==
  Compiled(Windowed, "none")
    \cup Compiled(StoresOnly({1, 2}), "double_stores")
    \cup Compiled({c \in StoresOnly(Words) : Cardinality(Stores(c)) <= 4}, "aggregate")

=============================================================================
