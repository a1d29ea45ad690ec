------------------------- MODULE AssignmentLifecycle -------------------------
(***************************************************************************)
(* What the Task Service promises about one assignment, whoever acts and   *)
(* in whatever order requests arrive: the states an assignment and its     *)
(* attempts go through.  There are no callers, revisions, receipts or      *)
(* notifications here; TaskProvider has them and implements this.          *)
(***************************************************************************)
EXTENDS Naturals

CONSTANTS AssignmentIds, Actions, None, MaxAttempt

VARIABLES
    life,       \* per assignment: state, active attempt, retry authorization, closure
    tries       \* per assignment and number: phase of the attempt and the action that ended it

vars == <<life, tries>>

Numbers == 1 .. MaxAttempt
Live == {"running", "blocked", "review_ready"}

New(state) == [state |-> state, active |-> 0, retry |-> None, reason |-> "none",
               closer |-> None, last |-> 0]
NotTried == [phase |-> "absent", term |-> None]

\* An assignment that stays open.
Becomes(x, state, n, retry) ==
    [state |-> state, active |-> n, retry |-> retry, reason |-> x.reason,
     closer |-> x.closer, last |-> x.last]

Init ==
    /\ life = [a \in AssignmentIds |-> New("absent")]
    /\ tries = [a \in AssignmentIds |-> [n \in Numbers |-> NotTried]]

Assign(a) ==
    /\ life[a].state = "absent"
    /\ life' = [life EXCEPT ![a] = New("awaiting_ack")]
    /\ UNCHANGED tries

\* The first attempt answers the assignment, a later one uses up a retry.
Start(a, n) ==
    /\ \/ life[a].state = "awaiting_ack" /\ n = 1
       \/ life[a].state = "retry_pending" /\ life[a].retry # None /\ n = life[a].active + 1
    /\ life' = [life EXCEPT ![a] = Becomes(@, "active", n, None)]
    /\ tries' = [tries EXCEPT ![a][n] = [phase |-> "running", term |-> None]]

\* The attempt in progress moves between its live phases.
Moves == {<<"running", "blocked">>, <<"blocked", "running">>, <<"running", "review_ready">>,
          <<"review_ready", "running">>}
Progress(a, phase) ==
    LET n == life[a].active IN
    /\ n # 0
    /\ <<tries[a][n].phase, phase>> \in Moves
    /\ tries' = [tries EXCEPT ![a][n] = [phase |-> phase, term |-> @.term]]
    /\ UNCHANGED life

\* The Worker gives a live attempt up, or the authority rejects a submitted one.
Lose(a, phase, id) ==
    LET n == life[a].active IN
    /\ n # 0
    /\ \/ phase = "aborted" /\ tries[a][n].phase \in Live
       \/ phase = "failed" /\ tries[a][n].phase = "review_ready"
    /\ tries' = [tries EXCEPT ![a][n] = [phase |-> phase, term |-> id]]
    /\ life' = [life EXCEPT ![a] = Becomes(@, "retry_pending", @.active, None)]

AuthorizeRetry(a, id) ==
    /\ life[a].state = "retry_pending"
    /\ life[a].retry = None
    /\ life' = [life EXCEPT ![a] = Becomes(@, "retry_pending", @.active, id)]
    /\ UNCHANGED tries

CloseFor(a, reason, id) ==
    /\ life[a].state \notin {"absent", "closed"}
    /\ life' = [life EXCEPT ![a] =
                [state |-> "closed", active |-> @.active, retry |-> None, reason |-> reason,
                 closer |-> id, last |-> @.active]]

Decline(a, id) ==
    /\ life[a].state = "awaiting_ack"
    /\ CloseFor(a, "declined", id)
    /\ UNCHANGED tries

Complete(a, id) ==
    LET n == life[a].active IN
    /\ n # 0
    /\ tries[a][n].phase = "review_ready"
    /\ tries' = [tries EXCEPT ![a][n] = [phase |-> "completed", term |-> id]]
    /\ CloseFor(a, "completed", id)

Cancel(a, id) ==
    LET n == life[a].active IN
    /\ CloseFor(a, "cancelled", id)
    /\ tries' = IF n # 0 /\ tries[a][n].phase \in Live
                THEN [tries EXCEPT ![a][n] = [phase |-> "cancelled", term |-> id]]
                ELSE tries

\* The coordinator gives up on work whose last attempt is lost.
GiveUp(a, id) ==
    LET n == life[a].active IN
    /\ n # 0
    /\ tries[a][n].phase \in {"failed", "aborted"}
    /\ CloseFor(a, tries[a][n].phase, id)
    /\ UNCHANGED tries

Next ==
    \E a \in AssignmentIds :
       \/ Assign(a)
       \/ \E n \in Numbers : Start(a, n)
       \/ \E phase \in Live : Progress(a, phase)
       \/ \E id \in Actions :
             \/ \E phase \in {"failed", "aborted"} : Lose(a, phase, id)
             \/ AuthorizeRetry(a, id)
             \/ Decline(a, id)
             \/ Complete(a, id)
             \/ Cancel(a, id)
             \/ GiveUp(a, id)

Spec == Init /\ [][Next]_vars

-----------------------------------------------------------------------------
(* What follows for an assignment x and its attempts ts. *)

\* Attempts are numbered without gaps up to the active one, only the active one
\* can be live, it is live exactly while the assignment is active, and a retry
\* waits only behind an attempt that failed or was aborted.
OneLive(x, ts) ==
    /\ \A n \in Numbers :
          /\ ts[n].phase # "absent" <=> n <= x.active
          /\ n < x.active => ts[n].phase \in {"failed", "aborted"}
    /\ x.state = "active" <=> (x.active # 0 /\ ts[x.active].phase \in Live)
    /\ x.state \in {"absent", "awaiting_ack"} => x.active = 0
    /\ x.state = "retry_pending" =>
          x.active # 0 /\ ts[x.active].phase \in {"failed", "aborted"}

\* Why an assignment was closed agrees with how its last attempt ended: a
\* cancellation may find the attempt already failed or aborted, but never
\* completed, and a completion closes with the decision that completed it.
Agrees(x, ts) ==
    LET t == ts[x.active] IN
    x.state = "closed" =>
      /\ x.last = x.active
      /\ x.reason = "declined" => x.active = 0
      /\ x.reason \in {"completed", "failed", "aborted"} =>
           x.active # 0 /\ t.phase = x.reason
      /\ x.reason = "completed" => t.term = x.closer
      /\ x.reason = "cancelled" /\ x.active # 0 =>
           /\ t.phase \in {"cancelled", "failed", "aborted"}
           /\ t.phase = "cancelled" => t.term = x.closer
=============================================================================
