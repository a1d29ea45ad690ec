------------------------------ MODULE DurableLog ------------------------------
(***************************************************************************)
(* What the journal of the Task Service provider promises, without files,  *)
(* locks or recovery: one growing log of committed actions.  A call that   *)
(* commits appends its action once; a caller told that its call committed  *)
(* finds the action in the log from then on, whatever fails.  Losing power *)
(* may cut the log back, but never below an action whose commit was        *)
(* confirmed.                                                              *)
(***************************************************************************)
EXTENDS Naturals, Sequences

CONSTANT Actions

VARIABLES
    log,        \* the committed actions, oldest first
    confirmed   \* the actions whose committing call returned Ok

vars == <<log, confirmed>>

Applied(h) == {h[i] : i \in 1 .. Len(h)}

Init == log = <<>> /\ confirmed = {}

\* mutate reaches the journal.
CommitAction(a) ==
    /\ a \notin Applied(log)
    /\ log' = Append(log, a)
    /\ UNCHANGED confirmed

\* mutate returns Ok for a record it wrote.
Confirm(a) ==
    /\ a \in Applied(log)
    /\ confirmed' = confirmed \cup {a}
    /\ UNCHANGED log

\* Power is lost.
CutBack(n) ==
    /\ confirmed \subseteq Applied(SubSeq(log, 1, n))
    /\ log' = SubSeq(log, 1, n)
    /\ UNCHANGED confirmed

Next ==
    \/ \E a \in Actions : CommitAction(a) \/ Confirm(a)
    \/ \E n \in 0 .. Len(log) : CutBack(n)

Spec == Init /\ [][Next]_vars
=============================================================================
