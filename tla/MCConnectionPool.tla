-------------------------- MODULE MCConnectionPool --------------------------
(***************************************************************************)
(* Instances of ConnectionPool for TLC.                                    *)
(***************************************************************************)
EXTENDS ConnectionPool, TLC

CONSTANTS c1, c2, dev, plc1, plc2, t1, t2, t3

\* Two callers compete for one priority device and one plain budget.
MCCallers == {c1, c2}
MCAddrs == {dev, plc1, plc2}
MCDevice == {dev}
MCOneCaller == {c1}

MCPriority == {dev}
MCCap == [x \in MCPriority |-> 1]
MCCap2 == [x \in MCPriority |-> 2]
MCConns == {t1, t2, t3}
MCConns2 == {t1, t2}
NoProbe == {}

Symmetry == Permutations(MCCallers) \cup Permutations(MCConns) \cup Permutations({plc1, plc2})
====
