------------------------------- MODULE MCLeases -------------------------------
(***************************************************************************)
(* Concurrent queries over two rows with pages of one row, so that every   *)
(* query has a cursor to continue with.                                    *)
(***************************************************************************)
EXTENDS LeaseInvariants, TLC

Pages(route, delivery, limit) ==
  [route |-> route, match |-> Rows, delivery |-> delivery, limit |-> limit]

MixedPages == {Pages("FACTS", FALSE, 1), Pages("TRACES", TRUE, 2)}
TracePages == {Pages("TRACES", FALSE, 1)}
TaskPages == {Pages("TASKS", FALSE, 1)}

RequestSymmetry == Permutations(Requests)
PoolSymmetry == Permutations(Pool)
LeaseSymmetry == RequestSymmetry \cup PoolSymmetry
===============================================================================
