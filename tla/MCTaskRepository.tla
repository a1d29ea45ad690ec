------------------------- MODULE MCTaskRepository -------------------------
(* Small instance of TaskRepository. *)
EXTENDS TaskRepository

CONSTANTS p1, p2, t1, t2, k1

MCProcs == {p1, p2}
MCTasks == {t1, t2}
MCTokens == {k1}
MCFilters == {None, t2}
MCWatchers == {p1}

\* A draft, two requests that race for the next revision, and a request of
\* another task that takes over the receipt id of the first.
MCRequests ==
    {[receipt |-> 1, expected |-> 1, cmd |-> "createDraft", task |-> t1, revision |-> 1, token |-> None],
     [receipt |-> 2, expected |-> 2, cmd |-> "publish", task |-> t1, revision |-> 1, token |-> k1],
     [receipt |-> 3, expected |-> 2, cmd |-> "cancelDraft", task |-> t1, revision |-> 1, token |-> None],
     [receipt |-> 1, expected |-> 3, cmd |-> "createDraft", task |-> t2, revision |-> 1, token |-> None]}
=============================================================================
