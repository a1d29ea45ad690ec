------------------------ MODULE MCNotificationOutbox ------------------------
(* A completion and a follow-up, a Worker and a coordinator with one runtime *)
(* each, for module NotificationOutbox.  The coordinator is live at first.   *)
(* Either the outbox is empty, takes one of them, and any two mishaps        *)
(* happen; or it has both, and the seat may be rebound.                      *)
EXTENDS NotificationOutbox

CONSTANTS n1, n2, s1, s2, a1, a2

McOutbox == <<n1, n2>>
McStarts ==
    {[committed |-> {}, live |-> {a2}, kinds |-> Mishaps, mishaps |-> 2],
     [committed |-> {n1, n2}, live |-> {a2}, kinds |-> {"rebind"}, mishaps |-> 1]}
McPair == (a1 :> s1) @@ (a2 :> s2)
=============================================================================
