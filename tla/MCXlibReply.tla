----------------------------- MODULE MCXlibReply -----------------------------
(* Instances of XlibReply for TLC: two threads of one client.                  *)
EXTENDS XlibReply, TLC

CONSTANTS t1, t2

\* Each thread reads events; the two calls with a reply are in different ones.
Apart == t1 :> {"round_trip", "next_event", "send"} @@ t2 :> {"attributes", "next_event"}

All == [t \in Threads |-> Call]

Symmetry == Permutations(Threads)
=============================================================================
