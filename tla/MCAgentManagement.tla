-------------------------- MODULE MCAgentManagement --------------------------
(* Small sets of requests for module AgentManagement. *)
EXTENDS AgentManagement, TLC
CONSTANTS a1, a2, d, v, w

Req(op, target, how, spec, msg) ==
    [op |-> op, target |-> target, how |-> how, spec |-> spec, msg |-> msg]

McRotations == {Req("rotate", 0, "retain", w, TRUE), Req("rotate", 0, "close", d, TRUE),
                Req("rotate", 1, "retain", d, FALSE), Req("create", None, "none", w, FALSE)}
McSimple == {Req(op, t, "none", None, FALSE) : op \in {"close", "online", "offline", "restart"}, t \in {0, 1}}
    \cup {Req("grant", 1, "none", None, FALSE), Req("revoke", 1, "none", None, FALSE),
          Req("query", None, "none", None, FALSE)}
McAll == McRotations \cup McSimple
    \cup {Req("replace", 1, "close_before", w, TRUE), Req("replace", 1, "close_after", v, FALSE),
          Req("replace", 1, "keep", v, TRUE)}
McProgress == {Req("rotate", 0, "retain", w, TRUE), Req("rotate", 0, "close", w, TRUE),
               Req("close", 1, "none", None, FALSE), Req("revoke", 0, "none", None, FALSE)}

McSymmetry == Permutations(Actions)
=============================================================================
