---------------------------- MODULE MCLockImages ----------------------------
(* Instances of LockImages for TLC: two lock_window processes, a1 and a2, and  *)
(* an X client, c1.                                                            *)
EXTENDS LockImages, TLC

CONSTANTS a1, a2, c1, w1, w2

\* Every thread is a process of its own.
SingleThreaded == [t \in Thread |-> t]

AdminCommands == {"lock", "unlock", "reset", "changed_bg"}
Admins        == [t \in Thread |-> IF t \in {a1, a2} THEN AdminCommands ELSE {"query"}]

\* lock_window and lock_server in a1, a client that also locks in c1.
Rivals == [t \in Thread |-> IF t = a1 THEN Command ELSE {"query", "lock"}]

AdminSymmetry == Permutations({a1, a2}) \cup Permutations({w1, w2})
=============================================================================
