---------------------------------- MODULE Lists ----------------------------------
(***************************************************************************)
(* The lists that the parts of BlueZ keep are searched and thinned out in  *)
(* the same way everywhere: queue_find and queue_remove_all of             *)
(* src/shared/queue.c, g_slist_remove and std::list::remove walk along the *)
(* entries and pick those that match.                                      *)
(***************************************************************************)
EXTENDS Integers, Sequences

\* The elements of q that are in S, in their order.
Filter(q, S) ==
    LET F[i \in 0..Len(q)] ==
            IF i = 0 THEN <<>> ELSE IF q[i] \in S THEN Append(F[i - 1], q[i]) ELSE F[i - 1]
    IN  F[Len(q)]
==================================================================================
