--------------------------- MODULE MCTaskProvider ---------------------------
(* Model-checking instances of TaskProvider. *)
EXTENDS TaskProvider, TLC

\* Action ids are opaque, so it is enough to look at behaviours that use the ids
\* 1, 2, 3, ... in the order of their first use.
Used(i) == receipts[i].op # "absent" \/ prepared[i].op # "absent"
UsableIds == {i \in Actions : \A j \in Actions : j < i => Used(j)}

NextInOrder ==
    \/ \E seat \in Seats, a \in AssignmentIds : SeatedQuery(seat, a)
    \/ \E id \in UsableIds :
          \/ \E seat \in Seats : SeatAction(id, seat)
          \/ \E session \in Sessions : WorkerAction(id, session)
          \/ SystemAction(id)

SpecInOrder == Init /\ [][NextInOrder]_vars

\* Identifiers no operation distinguishes.
Symmetry == Permutations(AssignmentIds) \cup Permutations(SendIds)
            \cup Permutations(MessageIds) \cup Permutations(Tasks)
            \cup Permutations(Workflows) \cup Permutations(Sessions)
=============================================================================
