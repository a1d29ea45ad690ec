---------------------------- MODULE MCRoleSeat ----------------------------
(* Small instance of RoleSeat: two sessions, the incumbent in two durable    *)
(* revisions; handoffs to each, and one nobody accepted.                    *)
EXTENDS RoleSeat

CONSTANTS s1, s2, k1, h1, h2, i1, t1, t2

MCSessionRefs == {[id |-> s1, durable |-> 1], [id |-> s1, durable |-> 2], [id |-> s2, durable |-> 1]}

MCIdentity(s) == [session |-> s, generation |-> 1]

MCHandoffs ==
    {[task |-> k1, sha |-> h1, recipient |-> MCIdentity(s2),
      acceptance |-> Evidence("handoffAcceptance", <<k1, MCIdentity(s2)>>)],
     [task |-> k1, sha |-> h2, recipient |-> MCIdentity(s1), acceptance |-> Evidence("other", <<>>)]}

MCIncumbents == {[id |-> s1, durable |-> 1]}
MCInitializations == {i1}
MCTransitions == {t1, t2}
MCSymmetry == Permutations(MCTransitions)
===========================================================================
