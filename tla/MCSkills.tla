------------------------------ MODULE MCSkills ------------------------------
(* Two providers, the second in a scope of its own that hides a skill of the *)
(* first; a pinned and an unpinned agent.                                    *)
EXTENDS Skills

MCOffers == [p \in Providers |-> IF p = "p1" THEN {"a"} ELSE {"a", "b"}]
MCScopeOf == [p \in Providers |-> IF p = "p1" THEN 1 ELSE 2]
MCRankOf == [p \in Providers \cup {"runtime"} |-> IF p = "runtime" THEN 2 ELSE 1]
MCMaxLoads == [a \in Agents |-> IF a \in PinnedAgents THEN 2 ELSE 0]
=============================================================================
