----------------------------- MODULE MCEdgePool -----------------------------
(* Small instances of EdgePool: the tables of a rollout over two replicas. *)
EXTENDS EdgePool

T(p1, s1, p2, s2) ==
    [r \in Replica |-> IF r = 1 THEN [port |-> p1, state |-> s1] ELSE [port |-> p2, state |-> s2]]

\* Replica 1 serves; replica 2 takes over while 1 drains; 1 is held; 1 is gone.
RolloutTables ==
    {T(1, "active", 0, "none"), T(1, "draining", 2, "active"),
     T(1, "held", 2, "active"), T(0, "none", 2, "active")}

\* Both serve; both drain; replica 1 is replaced by a container on port 3.
ReplaceTables ==
    {T(1, "active", 2, "active"), T(1, "draining", 2, "draining"), T(3, "active", 2, "held")}

AllTables == RolloutTables \cup ReplaceTables
=============================================================================
