------------------------ MODULE TaskProvider_proofs ------------------------
(* Theorems about the Task Service provider, for every set of assignments,  *)
(* actions, seats and sessions and every value of the ceilings.             *)
EXTENDS TaskProvider, FiniteSetTheorems, TLAPS

USE BoundsAssumption, NoneAssumption DEF Local, Numbers, Scope

\* A record is written in one place; everything else keeps its type.
LEMMA InitType == Init => TypeOK /\ Linked
  <1> SUFFICES ASSUME Init PROVE TypeOK /\ Linked
    OBVIOUS
  <1> USE DEF Init
  <1>1. workflows \in [Workflows -> WorkflowRecord]
    BY DEF NoWorkflow, WorkflowRecord
  <1>2. revisions \in [Tasks -> [Revisions -> RevisionRecord]]
    BY DEF NoRevision, RevisionRecord
  <1>3. assignments \in [AssignmentIds -> AssignmentRecord]
    BY DEF NoAssignment, AssignmentRecord, AssignmentStates, ClosureReasons
  <1>4. attempts \in [AssignmentIds -> [Numbers -> AttemptRecord]]
    BY DEF NoAttempt, AttemptRecord, Phases
  <1>5. sends \in [SendIds -> SendRecord]
    BY DEF NoSend, SendRecord
  <1>6. receipts \in [Actions -> ReceiptRecord]
    BY DEF NoReceipt, ReceiptRecord, NoBinding, Binding
  <1>7. prepared \in [Actions -> PreparedRecord]
    BY DEF NoPrepared, PreparedRecord, NoBinding, Binding, NoContext, Context
  <1>8. views \in [Seats -> ViewRecord]
    BY DEF NoView, ViewRecord, NoContext, Context, Phases
  <1>9. TypeOK
    BY <1>1, <1>2, <1>3, <1>4, <1>5, <1>6, <1>7, <1>8 DEF TypeOK
  <1>10. Linked
    BY DEF Linked, NoWorkflow, NoRevision, NoAssignment, NoPrepared, NoView
  <1> QED
    BY <1>9, <1>10

-----------------------------------------------------------------------------
(* What the helpers return. *)

LEMMA AssignedRefs ==
  ASSUME TypeOK, Linked, NEW a \in AssignmentIds, assignments[a].state # "absent"
  PROVE  /\ assignments[a].task \in Tasks
         /\ assignments[a].trev \in Revisions
         /\ assignments[a].assignee \in Sessions
         /\ RevisionOf(a) \in RevisionRecord
         /\ RevisionOf(a).wf \in Workflows
         /\ RevisionOf(a).auth \in Seats
         /\ CoordinatorSeat(a) \in Seats
  <1>1. /\ assignments[a].task \in Tasks
        /\ assignments[a].trev \in Revisions
        /\ assignments[a].assignee \in Sessions
    BY DEF TypeOK, Linked, AssignmentRecord
  <1>2. RevisionOf(a) \in RevisionRecord
    <2>1. revisions[assignments[a].task] \in [Revisions -> RevisionRecord]
      BY <1>1 DEF TypeOK
    <2> QED
      BY <1>1, <2>1 DEF RevisionOf
  <1>3. RevisionOf(a).wf # None
    BY DEF Linked
  <1>4. /\ RevisionOf(a).wf \in Workflows
        /\ RevisionOf(a).auth \in Seats
        /\ workflows[RevisionOf(a).wf].rev > 0
    BY <1>1, <1>2, <1>3 DEF Linked, RevisionOf, RevisionRecord
  <1>5. CoordinatorSeat(a) \in Seats
    BY <1>4 DEF TypeOK, Linked, CoordinatorSeat, WorkflowRecord
  <1> QED
    BY <1>1, <1>2, <1>4, <1>5

LEMMA ContextTypes ==
  ASSUME TypeOK, NEW a \in AssignmentIds
  PROVE  /\ MechanicalContext(a) \in Context
         /\ \A op : WorkerContext(op, a) \in Context
         /\ \A ctx \in Context : BindingOf(ctx) \in Binding
  <1>1. MechanicalContext(a) \in Context
    BY DEF TypeOK, MechanicalContext, Context, AssignmentRecord, AttemptRecord
  <1>2. \A op : WorkerContext(op, a) \in Context
    BY <1>1 DEF WorkerContext, Context, TypeOK, AssignmentRecord
  <1>3. \A ctx \in Context : BindingOf(ctx) \in Binding
    BY DEF BindingOf, Binding, Context
  <1> QED
    BY <1>1, <1>2, <1>3

LEMMA CommitType ==
  ASSUME TypeOK, NEW id \in Actions, NEW op \in Ops,
         NEW who \in Seats \cup Sessions \cup {"system", None},
         NEW on \in AssignmentIds \cup Workflows \cup {None}, NEW bind \in Binding,
         Commit(id, op, who, on, bind)
  PROVE  receipts' \in [Actions -> ReceiptRecord]
  BY DEF TypeOK, Commit, ReceiptRecord

LEMMA ScheduleType ==
  ASSUME TypeOK, NEW a \in AssignmentIds, NEW num \in 0 .. MaxAttempt, NEW id \in Actions,
         NEW kind \in NoteKinds, NEW target \in Seats, Schedule(a, num, id, kind, target)
  PROVE  notes' \subseteq NoteRecord
  <1> DEFINE new == [asg |-> a, num |-> num, action |-> id, kind |-> kind,
                     target |-> target, rev |-> 1, facts |-> {}]
  <1>1. new \in NoteRecord
    BY DEF NoteRecord
  <1>2. notes' = notes \cup {new}
    BY DEF Schedule
  <1> QED
    BY <1>1, <1>2 DEF TypeOK

LEMMA CoordinatorNoteType ==
  ASSUME TypeOK, Linked, NEW a \in AssignmentIds, assignments[a].state # "absent",
         NEW num \in 0 .. MaxAttempt, NEW id \in Actions, NEW kind \in NoteKinds,
         ScheduleForCoordinator(a, num, id, kind)
  PROVE  notes' \subseteq NoteRecord
  BY AssignedRefs, ScheduleType DEF ScheduleForCoordinator

LEMMA FollowupType ==
  ASSUME TypeOK, Linked, NEW a \in AssignmentIds, assignments[a].state # "absent",
         NEW num \in Numbers, NEW id \in Actions, ScheduleFollowup(a, num, id)
  PROVE  followups' \subseteq FollowupRecord
  <1> DEFINE new == [asg |-> a, num |-> num, action |-> id,
                     target |-> assignments[a].assignee, rev |-> 1, facts |-> {}]
  <1>1. new \in FollowupRecord
    BY AssignedRefs DEF FollowupRecord
  <1>2. followups' = followups \cup {new}
    BY DEF ScheduleFollowup
  <1> QED
    BY <1>1, <1>2 DEF TypeOK

LEMMA AttemptWrites ==
  ASSUME NEW t \in AttemptRecord, CanBump(t.rev), NEW phase \in Phases, NEW id \in Actions
  PROVE  /\ InPhase(t, phase) \in AttemptRecord
         /\ EndedBy(t, phase, id) \in AttemptRecord
  <1>1. t.rev + 1 \in Local
    BY DEF CanBump, AttemptRecord
  <1>2. InPhase(t, phase) \in AttemptRecord
    BY <1>1 DEF InPhase, AttemptRecord
  <1>3. EndedBy(t, phase, id) \in AttemptRecord
    BY <1>1 DEF EndedBy, AttemptRecord
  <1> QED
    BY <1>2, <1>3

-----------------------------------------------------------------------------
(* Steps that publish no revision and forget no assignment. *)

\* x is a later version of assignment a.
Keeps(a, x) ==
    /\ x \in AssignmentRecord
    /\ x.state # "absent"
    /\ x.task = assignments[a].task
    /\ x.trev = assignments[a].trev
    /\ x.assignee = assignments[a].assignee

AssignmentsKept ==
    /\ assignments' \in [AssignmentIds -> AssignmentRecord]
    /\ \A a \in AssignmentIds :
         IF assignments[a].state = "absent"
         THEN assignments'[a].state = "absent"
         ELSE Keeps(a, assignments'[a])

PreparedLinked ==
    \A i \in Actions : prepared'[i].op # "absent" =>
       /\ prepared'[i].asg \in AssignmentIds
       /\ assignments[prepared'[i].asg].state # "absent"

ViewsLinked ==
    \A s \in Seats : views'[s].asg # None =>
       /\ views'[s].asg \in AssignmentIds
       /\ assignments[views'[s].asg].state # "absent"

LEMMA Unchanged ==
  ASSUME TypeOK, Linked
  PROVE  /\ UNCHANGED assignments => AssignmentsKept
         /\ UNCHANGED prepared => PreparedLinked
         /\ UNCHANGED views => ViewsLinked
  <1>1. UNCHANGED assignments => AssignmentsKept
    BY DEF TypeOK, AssignmentsKept, Keeps
  <1>2. UNCHANGED prepared => PreparedLinked
    BY DEF TypeOK, Linked, PreparedLinked, PreparedRecord
  <1>3. UNCHANGED views => ViewsLinked
    BY DEF TypeOK, Linked, ViewsLinked, ViewRecord
  <1> QED
    BY <1>1, <1>2, <1>3

LEMMA Updated ==
  ASSUME TypeOK, NEW a \in AssignmentIds, assignments[a].state # "absent", NEW x, Keeps(a, x),
         assignments' = [assignments EXCEPT ![a] = x]
  PROVE  AssignmentsKept
  BY DEF TypeOK, AssignmentsKept, Keeps

LEMMA AssignmentWrites ==
  ASSUME TypeOK, NEW a \in AssignmentIds, CanBump(assignments[a].rev),
         NEW id \in Actions, NEW n \in 0 .. MaxAttempt, NEW reason \in ClosureReasons
  PROVE  /\ Keeps(a, Closed(a, reason, n, id))
         /\ Keeps(a, RetryPending(a))
         /\ Keeps(a, Started(a, n))
  <1> DEFINE x == assignments[a]
  <1>1. x \in AssignmentRecord
    BY DEF TypeOK
  <1>2. x.rev + 1 \in Local
    BY <1>1 DEF CanBump, AssignmentRecord
  <1>3. Keeps(a, Closed(a, reason, n, id))
    BY <1>1, <1>2, ZenonT(60) DEF Keeps, Closed, AssignmentRecord, AssignmentStates
  <1>4. Keeps(a, RetryPending(a))
    BY <1>1, <1>2, ZenonT(60) DEF Keeps, RetryPending, AssignmentRecord, AssignmentStates
  <1>5. Keeps(a, Started(a, n))
    BY <1>1, <1>2, ZenonT(60) DEF Keeps, Started, AssignmentRecord, AssignmentStates
  <1> QED
    BY <1>3, <1>4, <1>5

LEMMA AttemptUpdate ==
  ASSUME TypeOK, NEW a \in AssignmentIds, NEW n \in Numbers, NEW t \in AttemptRecord,
         attempts' = [attempts EXCEPT ![a][n] = t]
  PROVE  attempts' \in [AssignmentIds -> [Numbers -> AttemptRecord]]
  <1>1. attempts[a] \in [Numbers -> AttemptRecord]
    BY DEF TypeOK
  <1>2. [attempts[a] EXCEPT ![n] = t] \in [Numbers -> AttemptRecord]
    BY <1>1
  <1> QED
    BY <1>2 DEF TypeOK

\* Linked survives a step that publishes no revision and forgets no assignment.
LEMMA LinkedKept ==
  ASSUME TypeOK, Linked, UNCHANGED <<workflows, revisions>>,
         AssignmentsKept, PreparedLinked, ViewsLinked
  PROVE  Linked'
  <1>1. \A w \in Workflows : workflows'[w].rev > 0 => workflows'[w].seat # None
    BY DEF Linked
  <1>2. \A t \in Tasks, r \in Revisions : revisions'[t][r].wf # None =>
         /\ revisions'[t][r].auth # None
         /\ workflows'[revisions'[t][r].wf].rev > 0
    BY DEF Linked
  <1>3. ASSUME NEW a \in AssignmentIds, assignments'[a].state # "absent"
        PROVE  /\ assignments'[a].task # None
               /\ assignments'[a].trev \in Revisions
               /\ assignments'[a].assignee # None
               /\ RevisionOf(a)'.wf # None
    <2>1. assignments[a].state # "absent" /\ Keeps(a, assignments'[a])
      BY <1>3 DEF AssignmentsKept
    <2>2. /\ assignments[a].task # None
          /\ assignments[a].trev \in Revisions
          /\ assignments[a].assignee # None
          /\ RevisionOf(a).wf # None
      BY <2>1 DEF Linked
    <2> QED
      BY <2>1, <2>2 DEF RevisionOf, Keeps
  <1>4. \A i \in Actions : prepared'[i].op # "absent" =>
         /\ prepared'[i].asg # None
         /\ assignments'[prepared'[i].asg].state # "absent"
    BY DEF AssignmentsKept, PreparedLinked, Keeps
  <1>5. \A s \in Seats : views'[s].asg # None => assignments'[views'[s].asg].state # "absent"
    BY DEF AssignmentsKept, ViewsLinked, Keeps
  <1> QED
    BY <1>1, <1>2, <1>3, <1>4, <1>5 DEF Linked
\* What every executed Worker action does to the tables its operation does not touch.
LEMMA ExecuteFacts ==
  ASSUME TypeOK, Linked, NEW id \in Actions, NEW session \in Sessions, NEW op \in WorkerOps,
         Execute(id, session, op)
  PROVE  /\ prepared[id].asg \in AssignmentIds
         /\ assignments[prepared[id].asg].state # "absent"
         /\ prepared[id].ctx \in Context
         /\ op \in BoundOps => /\ prepared[id].ctx.num \in Numbers
                               /\ prepared[id].ctx.num = assignments[prepared[id].asg].active
                               /\ BoundAttempt(id) \in AttemptRecord
         /\ receipts' \in [Actions -> ReceiptRecord]
         /\ prepared' \in [Actions -> PreparedRecord]
         /\ PreparedLinked
         /\ UNCHANGED <<schema, workflows, revisions, sends, followups, views>>
  <1>1. prepared[id] \in PreparedRecord
    BY DEF TypeOK
  <1>2. prepared[id].op = op /\ op # "absent"
    BY DEF Execute, WorkerOps
  <1>3. /\ prepared[id].asg \in AssignmentIds
        /\ assignments[prepared[id].asg].state # "absent"
        /\ prepared[id].ctx \in Context
        /\ prepared[id].bind \in Binding
    BY <1>1, <1>2 DEF Linked, PreparedRecord
  <1>4. ASSUME op \in BoundOps
        PROVE  /\ prepared[id].ctx.num \in Numbers
               /\ prepared[id].ctx.num = assignments[prepared[id].asg].active
               /\ BoundAttempt(id) \in AttemptRecord
    <2>1. /\ prepared[id].ctx.num # 0
          /\ prepared[id].ctx.num = assignments[prepared[id].asg].active
      BY <1>4 DEF Execute, RequireAttemptContext
    <2>2. prepared[id].ctx.num \in Numbers
      BY <2>1, <1>3 DEF Context
    <2>3. attempts[prepared[id].asg] \in [Numbers -> AttemptRecord]
      BY <1>3 DEF TypeOK
    <2> QED
      BY <2>1, <2>2, <2>3 DEF BoundAttempt
  <1>5. Commit(id, op, session, prepared[id].asg, prepared[id].bind)
    BY DEF Execute
  <1>6. op \in Ops
    BY DEF Ops
  <1>7. receipts' \in [Actions -> ReceiptRecord]
    BY <1>3, <1>5, <1>6, CommitType
  <1>8. prepared' = [prepared EXCEPT ![id] = NoPrepared]
    BY DEF Execute
  <1>9. NoPrepared \in PreparedRecord
    BY DEF NoPrepared, PreparedRecord, NoBinding, Binding, NoContext, Context
  <1>10. prepared' \in [Actions -> PreparedRecord]
    BY <1>8, <1>9 DEF TypeOK
  <1>11. ASSUME NEW i \in Actions, prepared'[i].op # "absent"
         PROVE  /\ prepared'[i].asg \in AssignmentIds
                /\ assignments[prepared'[i].asg].state # "absent"
    <2>1. prepared'[i] = prepared[i]
      BY <1>8, <1>11 DEF TypeOK, NoPrepared
    <2>2. prepared[i] \in PreparedRecord
      BY DEF TypeOK
    <2> QED
      BY <1>11, <2>1, <2>2 DEF Linked, PreparedRecord
  <1>12. UNCHANGED <<schema, workflows, revisions, sends, followups, views>>
    BY DEF Execute
  <1> QED
    BY <1>3, <1>4, <1>7, <1>10, <1>11, <1>12 DEF PreparedLinked

\* A Worker operation only has to account for its attempt, its assignment and its note.
LEMMA ExecuteType ==
  ASSUME TypeOK, Linked, NEW id \in Actions, NEW session \in Sessions, NEW op \in WorkerOps,
         Execute(id, session, op), AssignmentsKept,
         attempts' \in [AssignmentIds -> [Numbers -> AttemptRecord]],
         notes' \subseteq NoteRecord
  PROVE  TypeOK' /\ Linked'
  <1>1. TypeOK'
    BY ExecuteFacts DEF TypeOK, AssignmentsKept
  <1>2. ViewsLinked
    BY Unchanged, ExecuteFacts
  <1>3. Linked'
    BY <1>2, ExecuteFacts, LinkedKept
  <1> QED
    BY <1>1, <1>3

LEMMA WorkerExecuteType ==
  ASSUME TypeOK, Linked, NEW id \in Actions, NEW session \in Sessions,
         \/ Start(id, session) \/ Decline(id, session) \/ ReportStatus(id, session)
         \/ Block(id, session) \/ Resume(id, session) \/ Submit(id, session)
         \/ AbortAttempt(id, session)
  PROVE  TypeOK' /\ Linked'
  <1> DEFINE a == prepared[id].asg
             n == prepared[id].ctx.num
             t == BoundAttempt(id)
  <1> USE DEF WorkerOps, BoundOps
  <1>1. CASE Start(id, session)
    <2> DEFINE m == IF assignments[a].state = "awaiting_ack" THEN 1
                                                              ELSE assignments[a].active + 1
    <2>1. Execute(id, session, "start") /\ m \in Numbers /\ CanBump(assignments[a].rev)
      BY <1>1 DEF Start
    <2>2. a \in AssignmentIds /\ assignments[a].state # "absent"
      BY <2>1, ExecuteFacts
    <2>3. Keeps(a, Started(a, m))
      <3>1. "none" \in ClosureReasons /\ m \in 0 .. MaxAttempt
        BY <2>1 DEF ClosureReasons
      <3> QED
        BY <2>1, <2>2, <3>1, AssignmentWrites
    <2>4. AssignmentsKept
      <3>1. assignments' = [assignments EXCEPT ![a] = Started(a, m)]
        BY <1>1 DEF Start
      <3> QED
        BY <2>2, <2>3, <3>1, Updated
    <2>5. attempts' \in [AssignmentIds -> [Numbers -> AttemptRecord]]
      <3> DEFINE new == [phase |-> "running", tok |-> id, rev |-> 1, statuses |-> {},
                         results |-> {}, term |-> None]
      <3>1. new \in AttemptRecord
        BY DEF AttemptRecord, Phases, LivePhases
      <3>2. attempts' = [attempts EXCEPT ![a][m] = new]
        BY <1>1 DEF Start
      <3> HIDE DEF new, m
      <3> QED
        BY <2>1, <2>2, <3>1, <3>2, AttemptUpdate
    <2>6. notes' \subseteq NoteRecord
      BY <1>1 DEF Start, TypeOK
    <2> QED
      BY <2>1, <2>4, <2>5, <2>6, ExecuteType
  <1>2. CASE Decline(id, session)
    <2>1. Execute(id, session, "decline") /\ CanBump(assignments[a].rev)
      BY <1>2 DEF Decline, CanClose
    <2>2. a \in AssignmentIds /\ assignments[a].state # "absent"
      BY <2>1, ExecuteFacts
    <2>3. Keeps(a, Closed(a, "declined", 0, id))
      <3>1. "declined" \in ClosureReasons /\ 0 \in 0 .. MaxAttempt
        BY DEF ClosureReasons
      <3> QED
        BY <2>1, <2>2, <3>1, AssignmentWrites
    <2>4. AssignmentsKept
      BY <1>2, <2>2, <2>3, Updated DEF Decline
    <2>5. attempts' \in [AssignmentIds -> [Numbers -> AttemptRecord]]
      BY <1>2 DEF Decline, TypeOK
    <2>6. notes' \subseteq NoteRecord
      <3>1. "declined" \in NoteKinds /\ 0 \in 0 .. MaxAttempt
        BY DEF NoteKinds
      <3>2. ScheduleForCoordinator(a, 0, id, "declined")
        BY <1>2 DEF Decline
      <3> QED
        BY <2>2, <3>1, <3>2, CoordinatorNoteType
    <2> QED
      BY <2>1, <2>4, <2>5, <2>6, ExecuteType
  <1>3. CASE ReportStatus(id, session)
    <2>1. Execute(id, session, "report_status")
      BY <1>3 DEF ReportStatus
    <2>2. a \in AssignmentIds /\ n \in Numbers /\ t \in AttemptRecord
      BY <2>1, ExecuteFacts
    <2>3. attempts' \in [AssignmentIds -> [Numbers -> AttemptRecord]]
      <3> DEFINE new == [t EXCEPT !.rev = @ + 1, !.statuses = @ \cup {id}]
      <3>1. CanBump(t.rev) /\ attempts' = [attempts EXCEPT ![a][n] = new]
        BY <1>3 DEF ReportStatus, BoundTo
      <3>2. t.rev + 1 \in Local
        BY <2>2, <3>1 DEF CanBump, AttemptRecord
      <3>3. new \in AttemptRecord
        <4> HIDE DEF t
        <4> QED
          BY <2>2, <3>2 DEF AttemptRecord
      <3> HIDE DEF new
      <3> QED
        BY <2>2, <3>1, <3>3, AttemptUpdate
    <2>4. AssignmentsKept /\ notes' \subseteq NoteRecord
      BY <1>3, Unchanged DEF ReportStatus, TypeOK
    <2> QED
      BY <2>1, <2>3, <2>4, ExecuteType
  <1>4. CASE Block(id, session)
    <2>1. Execute(id, session, "block")
      BY <1>4 DEF Block
    <2>2. /\ a \in AssignmentIds /\ assignments[a].state # "absent"
          /\ n \in Numbers /\ t \in AttemptRecord
      BY <2>1, ExecuteFacts
    <2>3. attempts' \in [AssignmentIds -> [Numbers -> AttemptRecord]]
      <3>1. CanBump(t.rev) /\ attempts' = [attempts EXCEPT ![a][n] = InPhase(t, "blocked")]
        BY <1>4 DEF Block, BoundTo
      <3>2. "blocked" \in Phases
        BY DEF Phases, LivePhases
      <3>3. InPhase(t, "blocked") \in AttemptRecord
        BY <2>2, <3>1, <3>2, AttemptWrites
      <3> QED
        BY <2>2, <3>1, <3>3, AttemptUpdate
    <2>4. notes' \subseteq NoteRecord
      <3>1. "blocked" \in NoteKinds /\ n \in 0 .. MaxAttempt
        BY <2>2 DEF NoteKinds
      <3>2. ScheduleForCoordinator(a, n, id, "blocked")
        BY <1>4 DEF Block
      <3> QED
        BY <2>2, <3>1, <3>2, CoordinatorNoteType
    <2>5. AssignmentsKept
      BY <1>4, Unchanged DEF Block
    <2> QED
      BY <2>1, <2>3, <2>4, <2>5, ExecuteType
  <1>5. CASE Resume(id, session)
    <2>1. Execute(id, session, "resume")
      BY <1>5 DEF Resume
    <2>2. a \in AssignmentIds /\ n \in Numbers /\ t \in AttemptRecord
      BY <2>1, ExecuteFacts
    <2>3. attempts' \in [AssignmentIds -> [Numbers -> AttemptRecord]]
      <3>1. CanBump(t.rev) /\ attempts' = [attempts EXCEPT ![a][n] = InPhase(t, "running")]
        BY <1>5 DEF Resume, BoundTo
      <3>2. "running" \in Phases
        BY DEF Phases, LivePhases
      <3>3. InPhase(t, "running") \in AttemptRecord
        BY <2>2, <3>1, <3>2, AttemptWrites
      <3> QED
        BY <2>2, <3>1, <3>3, AttemptUpdate
    <2>4. AssignmentsKept /\ notes' \subseteq NoteRecord
      BY <1>5, Unchanged DEF Resume, TypeOK
    <2> QED
      BY <2>1, <2>3, <2>4, ExecuteType
  <1>6. CASE Submit(id, session)
    <2>1. Execute(id, session, "submit")
      BY <1>6 DEF Submit
    <2>2. /\ a \in AssignmentIds /\ assignments[a].state # "absent"
          /\ n \in Numbers /\ t \in AttemptRecord
      BY <2>1, ExecuteFacts
    <2>3. attempts' \in [AssignmentIds -> [Numbers -> AttemptRecord]]
      <3> DEFINE ready == InPhase(t, "review_ready")
                 new == [ready EXCEPT !.results = @ \cup {id}]
      <3>1. CanBump(t.rev) /\ attempts' = [attempts EXCEPT ![a][n] = new]
        BY <1>6 DEF Submit, BoundTo
      <3>2. "review_ready" \in Phases
        BY DEF Phases, LivePhases
      <3>3. ready \in AttemptRecord
        BY <2>2, <3>1, <3>2, AttemptWrites
      <3> HIDE DEF ready
      <3>4. new \in AttemptRecord
        BY <3>3 DEF AttemptRecord
      <3> HIDE DEF new
      <3> QED
        BY <2>2, <3>1, <3>4, AttemptUpdate
    <2>4. notes' \subseteq NoteRecord
      <3>1. "review_ready" \in NoteKinds /\ n \in 0 .. MaxAttempt
        BY <2>2 DEF NoteKinds
      <3>2. Schedule(a, n, id, "review_ready", RevisionOf(a).auth)
        BY <1>6 DEF Submit
      <3>3. RevisionOf(a).auth \in Seats
        BY <2>2, AssignedRefs
      <3> QED
        BY <2>2, <3>1, <3>2, <3>3, ScheduleType
    <2>5. AssignmentsKept
      BY <1>6, Unchanged DEF Submit
    <2> QED
      BY <2>1, <2>3, <2>4, <2>5, ExecuteType
  <1>7. CASE AbortAttempt(id, session)
    <2>1. Execute(id, session, "abort_attempt") /\ CanBump(assignments[a].rev)
      BY <1>7 DEF AbortAttempt
    <2>2. /\ a \in AssignmentIds /\ assignments[a].state # "absent"
          /\ n \in Numbers /\ t \in AttemptRecord
      BY <2>1, ExecuteFacts
    <2>3. attempts' \in [AssignmentIds -> [Numbers -> AttemptRecord]]
      <3>1. /\ CanBump(t.rev)
            /\ attempts' = [attempts EXCEPT ![a][n] = EndedBy(t, "aborted", id)]
        BY <1>7 DEF AbortAttempt, BoundTo
      <3>2. "aborted" \in Phases
        BY DEF Phases, EndPhases
      <3>3. EndedBy(t, "aborted", id) \in AttemptRecord
        BY <2>2, <3>1, <3>2, AttemptWrites
      <3> QED
        BY <2>2, <3>1, <3>3, AttemptUpdate
    <2>4. AssignmentsKept
      <3>1. "none" \in ClosureReasons /\ 0 \in 0 .. MaxAttempt
        BY DEF ClosureReasons
      <3>2. Keeps(a, RetryPending(a))
        BY <2>1, <2>2, <3>1, AssignmentWrites
      <3>3. assignments' = [assignments EXCEPT ![a] = RetryPending(a)]
        BY <1>7 DEF AbortAttempt
      <3> QED
        BY <2>2, <3>2, <3>3, Updated
    <2>5. notes' \subseteq NoteRecord
      <3>1. "attempt_aborted" \in NoteKinds /\ n \in 0 .. MaxAttempt
        BY <2>2 DEF NoteKinds
      <3>2. ScheduleForCoordinator(a, n, id, "attempt_aborted")
        BY <1>7 DEF AbortAttempt
      <3> QED
        BY <2>2, <3>1, <3>2, CoordinatorNoteType
    <2> QED
      BY <2>1, <2>3, <2>4, <2>5, ExecuteType
  <1> QED
    BY <1>1, <1>2, <1>3, <1>4, <1>5, <1>6, <1>7

-----------------------------------------------------------------------------
(* Seats and the system. *)

\* An operation that publishes nothing and prepares nothing.
LEMMA FrameType ==
  ASSUME TypeOK, Linked, UNCHANGED <<schema, workflows, revisions, prepared, views>>,
         AssignmentsKept,
         attempts' \in [AssignmentIds -> [Numbers -> AttemptRecord]],
         sends' \in [SendIds -> SendRecord],
         notes' \subseteq NoteRecord, followups' \subseteq FollowupRecord,
         receipts' \in [Actions -> ReceiptRecord]
  PROVE  TypeOK' /\ Linked'
  <1>1. TypeOK'
    BY DEF TypeOK, AssignmentsKept
  <1>2. PreparedLinked /\ ViewsLinked
    BY Unchanged
  <1>3. Linked'
    BY <1>2, LinkedKept
  <1> QED
    BY <1>1, <1>3

\* A seat that has read something has read an assignment that is still there.
LEMMA ViewFacts ==
  ASSUME TypeOK, Linked, NEW seat \in Seats, views[seat].asg # None
  PROVE  /\ views[seat].asg \in AssignmentIds
         /\ assignments[views[seat].asg].state # "absent"
         /\ views[seat].ctx \in Context
         /\ BindingOf(views[seat].ctx) \in Binding
  <1>1. views[seat] \in ViewRecord
    BY DEF TypeOK
  <1>2. /\ views[seat].asg \in AssignmentIds
        /\ assignments[views[seat].asg].state # "absent"
        /\ views[seat].ctx \in Context
    BY <1>1 DEF Linked, ViewRecord
  <1> QED
    BY <1>2, ContextTypes

LEMMA AttemptContextFacts ==
  ASSUME TypeOK, NEW a \in AssignmentIds, NEW ctx \in Context, RequireAttemptContext(a, ctx)
  PROVE  /\ ctx.num \in Numbers
         /\ ctx.num = assignments[a].active
         /\ attempts[a][ctx.num] \in AttemptRecord
  <1>1. ctx.num \in Numbers /\ ctx.num = assignments[a].active
    BY DEF RequireAttemptContext, Context
  <1>2. attempts[a] \in [Numbers -> AttemptRecord]
    BY DEF TypeOK
  <1> QED
    BY <1>1, <1>2

LEMMA ReviewFacts ==
  ASSUME TypeOK, Linked, NEW id \in Actions, NEW seat \in Seats, NEW op \in TerminalOps,
         Review(id, seat, op)
  PROVE  /\ views[seat].asg \in AssignmentIds
         /\ assignments[views[seat].asg].state # "absent"
         /\ views[seat].ctx.num \in Numbers
         /\ views[seat].ctx.num = assignments[views[seat].asg].active
         /\ attempts[views[seat].asg][views[seat].ctx.num] \in AttemptRecord
         /\ attempts[views[seat].asg][views[seat].ctx.num].phase = "review_ready"
         /\ CanBump(attempts[views[seat].asg][views[seat].ctx.num].rev)
         /\ receipts' \in [Actions -> ReceiptRecord]
         /\ UNCHANGED <<schema, workflows, revisions, sends, prepared, views>>
  <1> DEFINE v == views[seat]
  <1>1. /\ v.asg # None /\ RequireAttemptContext(v.asg, v.ctx)
        /\ attempts[v.asg][v.ctx.num].phase = "review_ready"
        /\ CanBump(attempts[v.asg][v.ctx.num].rev)
        /\ Commit(id, op, seat, v.asg, BindingOf(v.ctx))
        /\ UNCHANGED <<schema, workflows, revisions, sends, prepared, views>>
    BY DEF Review
  <1>2. /\ v.asg \in AssignmentIds /\ assignments[v.asg].state # "absent"
        /\ v.ctx \in Context /\ BindingOf(v.ctx) \in Binding
    BY <1>1, ViewFacts
  <1>3. /\ v.ctx.num \in Numbers /\ v.ctx.num = assignments[v.asg].active
        /\ attempts[v.asg][v.ctx.num] \in AttemptRecord
    BY <1>1, <1>2, AttemptContextFacts
  <1>4. op \in Ops
    BY DEF Ops
  <1>5. receipts' \in [Actions -> ReceiptRecord]
    BY <1>1, <1>2, <1>4, CommitType
  <1> QED
    BY <1>1, <1>2, <1>3, <1>5

LEMMA ReviewType ==
  ASSUME TypeOK, Linked, NEW id \in Actions, NEW seat \in Seats,
         RequestChanges(id, seat) \/ AcceptResult(id, seat) \/ FailResult(id, seat)
  PROVE  TypeOK' /\ Linked'
  <1> DEFINE a == views[seat].asg
             n == views[seat].ctx.num
             t == attempts[a][n]
  <1>0. {"running", "completed", "failed"} \subseteq Phases
    BY DEF Phases, LivePhases, EndPhases
  <1>1. CASE RequestChanges(id, seat)
    <2>1. Review(id, seat, "request_changes") /\ "request_changes" \in TerminalOps
      BY <1>1 DEF RequestChanges, TerminalOps
    <2>2. /\ a \in AssignmentIds /\ assignments[a].state # "absent"
          /\ n \in Numbers /\ t \in AttemptRecord /\ CanBump(t.rev)
          /\ receipts' \in [Actions -> ReceiptRecord]
          /\ UNCHANGED <<schema, workflows, revisions, sends, prepared, views>>
      BY <2>1, ReviewFacts
    <2>3. attempts' \in [AssignmentIds -> [Numbers -> AttemptRecord]]
      <3>1. InPhase(t, "running") \in AttemptRecord
        BY <1>0, <2>2, AttemptWrites
      <3>2. attempts' = [attempts EXCEPT ![a][n] = InPhase(t, "running")]
        BY <1>1, <2>2 DEF RequestChanges, TypeOK
      <3> QED
        BY <2>2, <3>1, <3>2, AttemptUpdate
    <2>4. followups' \subseteq FollowupRecord
      BY <1>1, <2>2, FollowupType DEF RequestChanges
    <2>5. AssignmentsKept /\ notes' \subseteq NoteRecord /\ sends' \in [SendIds -> SendRecord]
      BY <1>1, <2>2, Unchanged DEF RequestChanges, TypeOK
    <2> QED
      BY <2>2, <2>3, <2>4, <2>5, FrameType
  <1>2. CASE AcceptResult(id, seat)
    <2>1. /\ Review(id, seat, "accept_result") /\ "accept_result" \in TerminalOps
          /\ CanBump(assignments[a].rev)
      BY <1>2 DEF AcceptResult, TerminalOps, CanClose
    <2>2. /\ a \in AssignmentIds /\ assignments[a].state # "absent"
          /\ n \in Numbers /\ t \in AttemptRecord /\ CanBump(t.rev)
          /\ receipts' \in [Actions -> ReceiptRecord]
          /\ UNCHANGED <<schema, workflows, revisions, sends, prepared, views>>
      BY <2>1, ReviewFacts
    <2>3. attempts' \in [AssignmentIds -> [Numbers -> AttemptRecord]]
      <3>1. EndedBy(t, "completed", id) \in AttemptRecord
        BY <1>0, <2>2, AttemptWrites
      <3>2. attempts' = [attempts EXCEPT ![a][n] = EndedBy(t, "completed", id)]
        BY <1>2, <2>2 DEF AcceptResult, TypeOK
      <3> QED
        BY <2>2, <3>1, <3>2, AttemptUpdate
    <2>4. AssignmentsKept
      <3>1. "completed" \in ClosureReasons /\ n \in 0 .. MaxAttempt
        BY <2>2 DEF ClosureReasons
      <3>2. Keeps(a, Closed(a, "completed", n, id))
        BY <2>1, <2>2, <3>1, AssignmentWrites
      <3> QED
        BY <1>2, <2>2, <3>2, Updated DEF AcceptResult
    <2>5. notes' \subseteq NoteRecord
      <3>1. "terminal_closure" \in NoteKinds /\ n \in 0 .. MaxAttempt
        BY <2>2 DEF NoteKinds
      <3>2. ScheduleForCoordinator(a, n, id, "terminal_closure")
        BY <1>2 DEF AcceptResult
      <3> QED
        BY <2>2, <3>1, <3>2, CoordinatorNoteType
    <2>6. followups' \subseteq FollowupRecord /\ sends' \in [SendIds -> SendRecord]
      BY <1>2, <2>2 DEF AcceptResult, TypeOK
    <2> QED
      BY <2>2, <2>3, <2>4, <2>5, <2>6, FrameType
  <1>3. CASE FailResult(id, seat)
    <2>1. /\ Review(id, seat, "fail_result") /\ "fail_result" \in TerminalOps
          /\ CanBump(assignments[a].rev)
      BY <1>3 DEF FailResult, TerminalOps
    <2>2. /\ a \in AssignmentIds /\ assignments[a].state # "absent"
          /\ n \in Numbers /\ t \in AttemptRecord /\ CanBump(t.rev)
          /\ receipts' \in [Actions -> ReceiptRecord]
          /\ UNCHANGED <<schema, workflows, revisions, sends, prepared, views>>
      BY <2>1, ReviewFacts
    <2>3. attempts' \in [AssignmentIds -> [Numbers -> AttemptRecord]]
      <3>1. EndedBy(t, "failed", id) \in AttemptRecord
        BY <1>0, <2>2, AttemptWrites
      <3>2. attempts' = [attempts EXCEPT ![a][n] = EndedBy(t, "failed", id)]
        BY <1>3, <2>2 DEF FailResult, TypeOK
      <3> QED
        BY <2>2, <3>1, <3>2, AttemptUpdate
    <2>4. AssignmentsKept
      <3>1. "none" \in ClosureReasons /\ n \in 0 .. MaxAttempt
        BY <2>2 DEF ClosureReasons
      <3>2. Keeps(a, RetryPending(a))
        BY <2>1, <2>2, <3>1, AssignmentWrites
      <3> QED
        BY <1>3, <2>2, <3>2, Updated DEF FailResult
    <2>5. notes' \subseteq NoteRecord
      <3>1. "owner_action_required" \in NoteKinds /\ n \in 0 .. MaxAttempt
        BY <2>2 DEF NoteKinds
      <3>2. ScheduleForCoordinator(a, n, id, "owner_action_required")
        BY <1>3 DEF FailResult
      <3> QED
        BY <2>2, <3>1, <3>2, CoordinatorNoteType
    <2>6. followups' \subseteq FollowupRecord /\ sends' \in [SendIds -> SendRecord]
      BY <1>3, <2>2 DEF FailResult, TypeOK
    <2> QED
      BY <2>2, <2>3, <2>4, <2>5, <2>6, FrameType
  <1> QED
    BY <1>1, <1>2, <1>3

LEMMA CancelType ==
  ASSUME TypeOK, Linked, NEW id \in Actions, NEW seat \in Seats,
         TerminalCancel(id, seat) \/ CancelAssignment(id, seat)
  PROVE  TypeOK' /\ Linked'
  <1> DEFINE v == views[seat]
             a == v.asg
             n == assignments[a].active
             t == attempts[a][n]
  <1>1. /\ a # None
        /\ CancelWith(id, a, v.ctx)
        /\ \E op \in {"cancel", "cancel_assignment"} : Commit(id, op, seat, a, BindingOf(v.ctx))
    BY DEF TerminalCancel, CancelAssignment
  <1>2. /\ a \in AssignmentIds /\ assignments[a].state # "absent"
        /\ v.ctx \in Context /\ BindingOf(v.ctx) \in Binding
    BY <1>1, ViewFacts
  <1>3. n \in 0 .. MaxAttempt /\ assignments[a] \in AssignmentRecord
    BY <1>2 DEF TypeOK, AssignmentRecord
  <1>4. receipts' \in [Actions -> ReceiptRecord]
    <2>1. PICK op \in {"cancel", "cancel_assignment"} : Commit(id, op, seat, a, BindingOf(v.ctx))
      BY <1>1
    <2>2. op \in Ops
      BY DEF Ops, TerminalOps, OtherOps
    <2> QED
      BY <1>2, <2>1, <2>2, CommitType
  <1>5. AssignmentsKept
    <2>1. "cancelled" \in ClosureReasons
      BY DEF ClosureReasons
    <2>2. Keeps(a, Closed(a, "cancelled", n, id))
      BY <1>1, <1>2, <1>3, <2>1, AssignmentWrites DEF CancelWith, CanClose
    <2>3. assignments' = [assignments EXCEPT ![a] = Closed(a, "cancelled", n, id)]
      BY <1>1 DEF CancelWith
    <2> QED
      BY <1>2, <2>2, <2>3, Updated
  <1>6. attempts' \in [AssignmentIds -> [Numbers -> AttemptRecord]]
    <2>1. CASE n # 0 /\ t.phase \notin EndPhases
      <3>1. n \in Numbers
        BY <1>3, <2>1
      <3>2. attempts[a] \in [Numbers -> AttemptRecord]
        BY <1>2 DEF TypeOK
      <3>3. t \in AttemptRecord
        BY <3>1, <3>2
      <3>4. CanBump(t.rev) /\ "cancelled" \in Phases
        BY <1>1, <2>1 DEF CancelWith, Phases, EndPhases
      <3>5. EndedBy(t, "cancelled", id) \in AttemptRecord
        BY <3>3, <3>4, AttemptWrites
      <3>6. attempts' = [attempts EXCEPT ![a][n] = EndedBy(@, "cancelled", id)]
        BY <1>1, <2>1 DEF CancelWith
      <3>7. attempts' = [attempts EXCEPT ![a][n] = EndedBy(t, "cancelled", id)]
        BY <1>2, <3>1, <3>6 DEF TypeOK
      <3> QED
        BY <1>2, <3>1, <3>5, <3>7, AttemptUpdate
    <2>2. CASE ~ (n # 0 /\ t.phase \notin EndPhases)
      <3>1. attempts' = attempts
        BY <1>1, <2>2 DEF CancelWith
      <3> QED
        BY <3>1 DEF TypeOK
    <2> QED
      BY <2>1, <2>2
  <1>7. notes' \subseteq NoteRecord
    <2>1. v.ctx.num \in 0 .. MaxAttempt /\ "terminal_closure" \in NoteKinds
      BY <1>2 DEF Context, NoteKinds
    <2>2. ScheduleForCoordinator(a, v.ctx.num, id, "terminal_closure")
      BY <1>1 DEF CancelWith
    <2> QED
      BY <1>2, <2>1, <2>2, CoordinatorNoteType
  <1>8. UNCHANGED <<schema, workflows, revisions, sends, followups, prepared, views>>
    BY <1>1 DEF CancelWith
  <1>9. followups' \subseteq FollowupRecord /\ sends' \in [SendIds -> SendRecord]
    BY <1>8 DEF TypeOK
  <1> QED
    BY <1>4, <1>5, <1>6, <1>7, <1>8, <1>9, FrameType

LEMMA AuthorizeType ==
  ASSUME TypeOK, Linked, NEW id \in Actions, NEW seat \in Seats,
         AuthorizeAttemptRetry(id, seat)
  PROVE  TypeOK' /\ Linked'
  <1> DEFINE a == views[seat].asg
             x == assignments[a]
             new == [x EXCEPT !.rev = @ + 1, !.retry = id]
  <1>1. a \in AssignmentIds /\ x.state # "absent"
    BY ViewFacts DEF AuthorizeAttemptRetry
  <1>2. x \in AssignmentRecord /\ CanBump(x.rev)
    BY <1>1 DEF TypeOK, AuthorizeAttemptRetry
  <1>3. x.rev + 1 \in Local
    BY <1>2 DEF CanBump, AssignmentRecord
  <1>4. Keeps(a, new)
    BY <1>1, <1>2, <1>3 DEF Keeps, AssignmentRecord
  <1>5. assignments' = [assignments EXCEPT ![a] = new]
    BY <1>1 DEF AuthorizeAttemptRetry, TypeOK
  <1>6. AssignmentsKept
    BY <1>1, <1>4, <1>5, Updated
  <1>7. receipts' \in [Actions -> ReceiptRecord]
    <2>1. "authorize_attempt_retry" \in Ops /\ NoBinding \in Binding
      BY DEF Ops, OtherOps, NoBinding, Binding
    <2>2. Commit(id, "authorize_attempt_retry", seat, a, NoBinding)
      BY DEF AuthorizeAttemptRetry
    <2> QED
      BY <1>1, <2>1, <2>2, CommitType
  <1>8. UNCHANGED <<schema, workflows, revisions, attempts, sends, notes, followups,
                    prepared, views>>
    BY DEF AuthorizeAttemptRetry
  <1>9. /\ attempts' \in [AssignmentIds -> [Numbers -> AttemptRecord]]
        /\ sends' \in [SendIds -> SendRecord]
        /\ notes' \subseteq NoteRecord
        /\ followups' \subseteq FollowupRecord
    BY <1>8 DEF TypeOK
  <1> QED
    BY <1>6, <1>7, <1>8, <1>9, FrameType

LEMMA CloseType ==
  ASSUME TypeOK, Linked, NEW id \in Actions, NEW seat \in Seats, CloseAssignment(id, seat)
  PROVE  TypeOK' /\ Linked'
  <1> DEFINE v == views[seat]
             a == v.asg
             n == v.ctx.num
             why == CloseReason(attempts[a][n].phase)
  <1>1. /\ a \in AssignmentIds /\ assignments[a].state # "absent"
        /\ v.ctx \in Context /\ BindingOf(v.ctx) \in Binding
    BY ViewFacts DEF CloseAssignment
  <1>2. n \in 0 .. MaxAttempt
    BY <1>1 DEF Context
  <1>3. AssignmentsKept
    <2>1. why \in ClosureReasons
      BY DEF CloseReason, ClosureReasons
    <2>2. CanBump(assignments[a].rev)
      BY DEF CloseAssignment, CanClose
    <2>3. Keeps(a, Closed(a, why, n, id))
      BY <1>1, <1>2, <2>1, <2>2, AssignmentWrites
    <2>4. assignments' = [assignments EXCEPT ![a] = Closed(a, why, n, id)]
      BY DEF CloseAssignment
    <2> QED
      BY <1>1, <2>3, <2>4, Updated
  <1>4. receipts' \in [Actions -> ReceiptRecord]
    <2>1. "close_assignment" \in Ops
      BY DEF Ops, OtherOps
    <2>2. Commit(id, "close_assignment", seat, a, BindingOf(v.ctx))
      BY DEF CloseAssignment
    <2> QED
      BY <1>1, <2>1, <2>2, CommitType
  <1>5. notes' \subseteq NoteRecord
    <2>1. "terminal_closure" \in NoteKinds
      BY DEF NoteKinds
    <2>2. ScheduleForCoordinator(a, n, id, "terminal_closure")
      BY DEF CloseAssignment
    <2> QED
      BY <1>1, <1>2, <2>1, <2>2, CoordinatorNoteType
  <1>6. UNCHANGED <<schema, workflows, revisions, attempts, sends, followups, prepared, views>>
    BY DEF CloseAssignment
  <1>7. /\ attempts' \in [AssignmentIds -> [Numbers -> AttemptRecord]]
        /\ sends' \in [SendIds -> SendRecord]
        /\ followups' \subseteq FollowupRecord
    BY <1>6 DEF TypeOK
  <1> QED
    BY <1>3, <1>4, <1>5, <1>6, <1>7, FrameType

LEMMA DeliveryType ==
  ASSUME TypeOK, Linked, NEW id \in Actions, NEW sd \in SendIds,
         \/ \E seat \in Seats, msg \in MessageIds : RetryDelivery(id, seat, sd, msg)
         \/ \E kind \in CommKinds : RecordCommunicationEvent(id, sd, kind)
  PROVE  TypeOK' /\ Linked'
  <1>0. /\ {"retry_delivery", "record_communication_event"} \subseteq Ops
        /\ NoBinding \in Binding
    BY DEF Ops, OtherOps, NoBinding, Binding
  <1>1. ASSUME NEW seat \in Seats, NEW msg \in MessageIds, RetryDelivery(id, seat, sd, msg)
        PROVE  TypeOK' /\ Linked'
    <2> DEFINE a == views[seat].asg
    <2>1. a \in AssignmentIds
      BY <1>1, ViewFacts DEF RetryDelivery
    <2>2. PICK ord \in 1 .. MaxLocal :
             sends' = [sends EXCEPT ![sd] = [asg |-> a, ord |-> ord, msg |-> msg, rev |-> 1]]
      BY <1>1 DEF RetryDelivery
    <2>3. [asg |-> a, ord |-> ord, msg |-> msg, rev |-> 1] \in SendRecord
      BY <2>1 DEF SendRecord
    <2>4. sends' \in [SendIds -> SendRecord]
      BY <2>2, <2>3 DEF TypeOK
    <2>5. receipts' \in [Actions -> ReceiptRecord]
      BY <1>0, <1>1, <2>1, CommitType DEF RetryDelivery
    <2>6. UNCHANGED <<schema, workflows, revisions, assignments, attempts, notes,
                      followups, prepared, views>>
      BY <1>1 DEF RetryDelivery
    <2>7. /\ AssignmentsKept
          /\ attempts' \in [AssignmentIds -> [Numbers -> AttemptRecord]]
          /\ notes' \subseteq NoteRecord
          /\ followups' \subseteq FollowupRecord
      BY <2>6, Unchanged DEF TypeOK
    <2> QED
      BY <2>4, <2>5, <2>6, <2>7, FrameType
  <1>2. ASSUME NEW kind \in CommKinds, RecordCommunicationEvent(id, sd, kind)
        PROVE  TypeOK' /\ Linked'
    <2> DEFINE a == sends[sd].asg
    <2>1. sends[sd] \in SendRecord
      BY DEF TypeOK
    <2>2. a \in AssignmentIds /\ assignments[a].state # "absent"
      BY <1>2, <2>1 DEF RecordCommunicationEvent, SendRecord, Scoped
    <2>3. sends' \in [SendIds -> SendRecord]
      <3>1. sends' = [sends EXCEPT ![sd] = [sends[sd] EXCEPT !.rev = @ + 1]]
        BY <1>2 DEF RecordCommunicationEvent, TypeOK
      <3>2. sends[sd].rev + 1 \in Local
        BY <1>2, <2>1 DEF RecordCommunicationEvent, CanBump, SendRecord
      <3>3. [sends[sd] EXCEPT !.rev = @ + 1] \in SendRecord
        BY <2>1, <3>2 DEF SendRecord
      <3> QED
        BY <3>1, <3>3 DEF TypeOK
    <2>4. notes' \subseteq NoteRecord
      <3>1. CASE kind = "retries_exhausted"
        <4>1. ScheduleForCoordinator(a, assignments[a].active, id, "retries_exhausted")
          BY <1>2, <3>1 DEF RecordCommunicationEvent
        <4>2. "retries_exhausted" \in NoteKinds /\ assignments[a].active \in 0 .. MaxAttempt
          BY <2>2 DEF NoteKinds, TypeOK, AssignmentRecord
        <4> QED
          BY <2>2, <4>1, <4>2, CoordinatorNoteType
      <3>2. CASE kind # "retries_exhausted"
        BY <1>2, <3>2 DEF RecordCommunicationEvent, TypeOK
      <3> QED
        BY <3>1, <3>2
    <2>5. receipts' \in [Actions -> ReceiptRecord]
      BY <1>0, <1>2, <2>2, CommitType DEF RecordCommunicationEvent
    <2>6. UNCHANGED <<schema, workflows, revisions, assignments, attempts, followups,
                      prepared, views>>
      BY <1>2 DEF RecordCommunicationEvent
    <2>7. /\ AssignmentsKept
          /\ attempts' \in [AssignmentIds -> [Numbers -> AttemptRecord]]
          /\ followups' \subseteq FollowupRecord
      BY <2>6, Unchanged DEF TypeOK
    <2> QED
      BY <2>3, <2>4, <2>5, <2>6, <2>7, FrameType
  <1> QED
    BY <1>1, <1>2

LEMMA FactType ==
  ASSUME TypeOK, Linked, NEW id \in Actions, NEW fact \in FactKinds,
         \/ \E x \in notes : RecordCompletionNotificationFact(id, x, fact)
         \/ \E x \in followups : RecordWorkerFollowupFact(id, x, fact)
  PROVE  TypeOK' /\ Linked'
  <1>0. /\ {"record_completion_notification_fact", "record_worker_followup_fact"} \subseteq Ops
        /\ NoBinding \in Binding
    BY DEF Ops, OtherOps, NoBinding, Binding
  <1>1. ASSUME NEW x \in notes, RecordCompletionNotificationFact(id, x, fact)
        PROVE  TypeOK' /\ Linked'
    <2>1. x \in NoteRecord
      BY DEF TypeOK
    <2>2. x.rev + 1 \in Local
      BY <1>1, <2>1 DEF RecordCompletionNotificationFact, CanBump, NoteRecord
    <2>3. WithFact(x, fact) \in NoteRecord
      BY <2>1, <2>2 DEF WithFact, NoteRecord
    <2>4. notes' \subseteq NoteRecord
      BY <1>1, <2>3 DEF RecordCompletionNotificationFact, TypeOK
    <2>5. receipts' \in [Actions -> ReceiptRecord]
      <3>1. x.asg \in AssignmentIds
        BY <2>1 DEF NoteRecord
      <3> QED
        BY <1>0, <1>1, <3>1, CommitType DEF RecordCompletionNotificationFact
    <2>6. UNCHANGED <<schema, workflows, revisions, assignments, attempts, sends,
                      followups, prepared, views>>
      BY <1>1 DEF RecordCompletionNotificationFact
    <2>7. /\ AssignmentsKept
          /\ attempts' \in [AssignmentIds -> [Numbers -> AttemptRecord]]
          /\ sends' \in [SendIds -> SendRecord]
          /\ followups' \subseteq FollowupRecord
      BY <2>6, Unchanged DEF TypeOK
    <2> QED
      BY <2>4, <2>5, <2>6, <2>7, FrameType
  <1>2. ASSUME NEW x \in followups, RecordWorkerFollowupFact(id, x, fact)
        PROVE  TypeOK' /\ Linked'
    <2>1. x \in FollowupRecord
      BY DEF TypeOK
    <2>2. x.rev + 1 \in Local
      BY <1>2, <2>1 DEF RecordWorkerFollowupFact, CanBump, FollowupRecord
    <2>3. WithFact(x, fact) \in FollowupRecord
      BY <2>1, <2>2 DEF WithFact, FollowupRecord
    <2>4. followups' \subseteq FollowupRecord
      BY <1>2, <2>3 DEF RecordWorkerFollowupFact, TypeOK
    <2>5. receipts' \in [Actions -> ReceiptRecord]
      <3>1. x.asg \in AssignmentIds
        BY <2>1 DEF FollowupRecord
      <3> QED
        BY <1>0, <1>2, <3>1, CommitType DEF RecordWorkerFollowupFact
    <2>6. UNCHANGED <<schema, workflows, revisions, assignments, attempts, sends, notes,
                      prepared, views>>
      BY <1>2 DEF RecordWorkerFollowupFact
    <2>7. /\ AssignmentsKept
          /\ attempts' \in [AssignmentIds -> [Numbers -> AttemptRecord]]
          /\ sends' \in [SendIds -> SendRecord]
          /\ notes' \subseteq NoteRecord
      BY <2>6, Unchanged DEF TypeOK
    <2> QED
      BY <2>4, <2>5, <2>6, <2>7, FrameType
  <1> QED
    BY <1>1, <1>2

\* The tables a publication leaves alone stay linked: the task revisions an
\* assignment may name are never withdrawn.
LEMMA PublishLinked ==
  ASSUME TypeOK, Linked, NEW w \in Workflows, NEW seat \in Seats, NEW proj \in Scope,
         NEW t \in Tasks, NEW r \in Revisions, NEW auth \in Seats,
         TouchWorkflow(w, seat, proj), PublishRevision(t, r, w, proj, auth),
         UNCHANGED <<assignments, attempts, prepared, views>>
  PROVE  /\ workflows' \in [Workflows -> WorkflowRecord]
         /\ revisions' \in [Tasks -> [Revisions -> RevisionRecord]]
         /\ Linked'
  <1> DEFINE wf == [rev |-> workflows[w].rev + 1, seat |-> seat, proj |-> proj]
             rv == [wf |-> w, proj |-> proj, auth |-> auth]
  <1>1. workflows[w] \in WorkflowRecord
    BY DEF TypeOK
  <1>2. workflows[w].rev + 1 \in Local
    BY <1>1 DEF TouchWorkflow, CanBump, WorkflowRecord
  <1>3. wf \in WorkflowRecord
    BY <1>2 DEF WorkflowRecord
  <1>4. workflows' = [workflows EXCEPT ![w] = wf]
    BY DEF TouchWorkflow
  <1>5. workflows' \in [Workflows -> WorkflowRecord]
    BY <1>3, <1>4 DEF TypeOK
  <1>6. rv \in RevisionRecord
    BY DEF RevisionRecord
  <1>7. revisions' = [revisions EXCEPT ![t][r] = rv]
    BY DEF PublishRevision
  <1>8. revisions[t] \in [Revisions -> RevisionRecord]
    BY DEF TypeOK
  <1>9. [revisions[t] EXCEPT ![r] = rv] \in [Revisions -> RevisionRecord]
    BY <1>6, <1>8
  <1>10. revisions' = [revisions EXCEPT ![t] = [revisions[t] EXCEPT ![r] = rv]]
    BY <1>7 DEF TypeOK
  <1>11. revisions' \in [Tasks -> [Revisions -> RevisionRecord]]
    BY <1>9, <1>10 DEF TypeOK
  <1>12. \A u \in Tasks, q \in Revisions :
            revisions'[u][q] = IF u = t /\ q = r THEN rv ELSE revisions[u][q]
    <2> TAKE u \in Tasks, q \in Revisions
    <2>1. revisions'[u] = IF u = t THEN [revisions[t] EXCEPT ![r] = rv] ELSE revisions[u]
      BY <1>10 DEF TypeOK
    <2> HIDE DEF rv
    <2> QED
      BY <2>1, <1>8
  <1>13. \A x \in Workflows : workflows'[x] = IF x = w THEN wf ELSE workflows[x]
    BY <1>4 DEF TypeOK
  <1>14. \A x \in Workflows : workflows'[x].rev > 0 => workflows'[x].seat # None
    BY <1>13 DEF Linked
  <1>15. \A x \in Workflows : workflows[x].rev > 0 => workflows'[x].rev > 0
    BY <1>1, <1>2, <1>13 DEF WorkflowRecord
  <1>16. ASSUME NEW u \in Tasks, NEW q \in Revisions, revisions'[u][q].wf # None
         PROVE  /\ revisions'[u][q].auth # None
                /\ workflows'[revisions'[u][q].wf].rev > 0
    <2>1. CASE u = t /\ q = r
      <3>1. revisions'[u][q] = rv
        BY <1>12, <2>1
      <3>2. workflows'[w].rev > 0
        BY <1>1, <1>13 DEF WorkflowRecord
      <3> QED
        BY <3>1, <3>2
    <2>2. CASE ~ (u = t /\ q = r)
      <3>1. revisions'[u][q] = revisions[u][q]
        BY <1>12, <2>2
      <3>2. revisions[u] \in [Revisions -> RevisionRecord]
        BY DEF TypeOK
      <3>3. revisions[u][q].wf \in Workflows
        BY <1>16, <3>1, <3>2 DEF RevisionRecord
      <3>4. revisions[u][q].auth # None /\ workflows[revisions[u][q].wf].rev > 0
        BY <1>16, <3>1 DEF Linked
      <3> QED
        BY <1>15, <3>1, <3>3, <3>4
    <2> QED
      BY <2>1, <2>2
  <1>17. ASSUME NEW a \in AssignmentIds, assignments'[a].state # "absent"
         PROVE  /\ assignments'[a].task # None
                /\ assignments'[a].trev \in Revisions
                /\ assignments'[a].assignee # None
                /\ RevisionOf(a)'.wf # None
    <2>1. assignments[a].state # "absent" /\ assignments'[a] = assignments[a]
      BY <1>17
    <2>2. /\ assignments[a].task \in Tasks /\ assignments[a].trev \in Revisions
          /\ assignments[a].assignee \in Sessions /\ RevisionOf(a).wf # None
      BY <2>1, AssignedRefs DEF Linked
    <2>3. RevisionOf(a)'.wf # None
      BY <1>12, <2>1, <2>2 DEF RevisionOf
    <2> QED
      BY <2>1, <2>2, <2>3
  <1>18. Linked'
    BY <1>14, <1>16, <1>17 DEF Linked
  <1> QED
    BY <1>5, <1>11, <1>18

LEMMA PublishType ==
  ASSUME TypeOK, Linked, NEW id \in Actions, NEW seat \in Seats, Publish(id, seat)
  PROVE  TypeOK' /\ Linked'
  <1>0. /\ {"create_revision", "create_project_revision"} \subseteq Ops
        /\ NoBinding \in Binding
    BY DEF Ops, OtherOps, NoBinding, Binding
  <1>1. PICK w \in Workflows, t \in Tasks, r \in Revisions, auth \in Seats :
           \/ CreateRevision(id, seat, w, t, r, auth)
           \/ \E proj \in Projects : CreateProjectRevision(id, seat, proj, w, t, r, auth)
    BY DEF Publish
  <1>2. PICK proj \in Scope :
           /\ TouchWorkflow(w, seat, proj)
           /\ PublishRevision(t, r, w, proj, auth)
           /\ schema' \in {"V2", "V3"}
           /\ \E op \in {"create_revision", "create_project_revision"} :
                 Commit(id, op, seat, w, NoBinding)
           /\ UNCHANGED <<assignments, attempts, sends, notes, followups, prepared, views>>
    BY <1>1 DEF CreateRevision, CreateProjectRevision, TypeOK
  <1>3. receipts' \in [Actions -> ReceiptRecord]
    BY <1>0, <1>2, CommitType
  <1>4. /\ workflows' \in [Workflows -> WorkflowRecord]
        /\ revisions' \in [Tasks -> [Revisions -> RevisionRecord]]
        /\ Linked'
    BY <1>2, PublishLinked
  <1>5. TypeOK'
    BY <1>2, <1>3, <1>4 DEF TypeOK
  <1> QED
    BY <1>4, <1>5

LEMMA DispatchType ==
  ASSUME TypeOK, Linked, NEW id \in Actions, NEW seat \in Seats, Dispatch(id, seat)
  PROVE  TypeOK' /\ Linked'
  <1>0. /\ {"assign_and_dispatch", "assign_project_and_dispatch"} \subseteq Ops
        /\ NoBinding \in Binding
    BY DEF Ops, OtherOps, NoBinding, Binding
  <1>1. PICK a \in AssignmentIds, sd \in SendIds, msg \in MessageIds, t \in Tasks,
             r \in Revisions, worker \in Sessions :
           /\ Assign(seat, a, sd, msg, t, r, worker)
           /\ schema' \in {"V2", "V3"}
           /\ \E op \in {"assign_and_dispatch", "assign_project_and_dispatch"} :
                 Commit(id, op, seat, a, NoBinding)
           /\ UNCHANGED <<workflows, revisions, attempts, notes, followups, prepared, views>>
    BY DEF Dispatch, AssignAndDispatch, AssignProjectAndDispatch, TypeOK
  <1> DEFINE rv == revisions[t][r]
             new == [state |-> "awaiting_ack", proj |-> rv.proj, task |-> t, trev |-> r,
                     assignee |-> worker, rev |-> 1, active |-> 0, retry |-> None,
                     reason |-> "none", closer |-> None, last |-> 0]
             snd == [asg |-> a, ord |-> 1, msg |-> msg, rev |-> 1]
  <1>2. /\ assignments[a].state = "absent" /\ rv.wf # None
        /\ assignments' = [assignments EXCEPT ![a] = new]
        /\ sends' = [sends EXCEPT ![sd] = snd]
    BY <1>1 DEF Assign
  <1>3. rv \in RevisionRecord
    <2>1. revisions[t] \in [Revisions -> RevisionRecord]
      BY DEF TypeOK
    <2> QED
      BY <2>1
  <1>4. new \in AssignmentRecord
    BY <1>3 DEF AssignmentRecord, AssignmentStates, ClosureReasons, RevisionRecord
  <1>5. snd \in SendRecord
    BY DEF SendRecord
  <1>6. /\ assignments' \in [AssignmentIds -> AssignmentRecord]
        /\ sends' \in [SendIds -> SendRecord]
    BY <1>2, <1>4, <1>5 DEF TypeOK
  <1>7. receipts' \in [Actions -> ReceiptRecord]
    BY <1>0, <1>1, CommitType
  <1>8. TypeOK'
    BY <1>1, <1>6, <1>7 DEF TypeOK
  <1>9. \A b \in AssignmentIds : assignments'[b] = IF b = a THEN new ELSE assignments[b]
    BY <1>2 DEF TypeOK
  <1>10. ASSUME NEW b \in AssignmentIds, assignments'[b].state # "absent"
         PROVE  /\ assignments'[b].task # None
                /\ assignments'[b].trev \in Revisions
                /\ assignments'[b].assignee # None
                /\ RevisionOf(b)'.wf # None
    <2>1. CASE b = a
      <3>1. assignments'[b] = new
        BY <1>9, <2>1
      <3>2. RevisionOf(b)' = rv
        BY <1>1, <3>1 DEF RevisionOf
      <3> QED
        BY <1>2, <3>1, <3>2
    <2>2. CASE b # a
      <3>1. assignments'[b] = assignments[b]
        BY <1>9, <2>2
      <3>2. RevisionOf(b)' = RevisionOf(b)
        BY <1>1, <3>1 DEF RevisionOf
      <3> QED
        BY <1>10, <3>1, <3>2 DEF Linked
    <2> QED
      BY <2>1, <2>2
  <1>11. \A b \in AssignmentIds : assignments[b].state # "absent" =>
            assignments'[b].state # "absent"
    BY <1>9
  <1>12. \A i \in Actions : prepared'[i].op # "absent" =>
            /\ prepared'[i].asg # None
            /\ assignments'[prepared'[i].asg].state # "absent"
    BY <1>1, <1>11 DEF Linked, TypeOK, PreparedRecord
  <1>13. \A s \in Seats : views'[s].asg # None => assignments'[views'[s].asg].state # "absent"
    BY <1>1, <1>11 DEF Linked, TypeOK, ViewRecord
  <1>14. Linked'
    BY <1>1, <1>10, <1>12, <1>13 DEF Linked
  <1> QED
    BY <1>8, <1>14

LEMMA QueryType ==
  ASSUME TypeOK, Linked, NEW seat \in Seats, NEW a \in AssignmentIds, SeatedQuery(seat, a)
  PROVE  TypeOK' /\ Linked'
  <1> DEFINE ctx == MechanicalContext(a)
             new == [asg |-> a, ctx |-> ctx,
                     phase |-> IF ctx.num = 0 THEN "absent" ELSE attempts[a][ctx.num].phase,
                     results |-> IF ctx.num = 0 THEN {} ELSE attempts[a][ctx.num].results]
  <1>1. ctx \in Context
    BY ContextTypes
  <1>2. new \in ViewRecord
    <2>1. ctx.num \in 0 .. MaxAttempt
      BY <1>1 DEF Context
    <2>2. attempts[a] \in [Numbers -> AttemptRecord]
      BY DEF TypeOK
    <2>3. ctx.num # 0 => attempts[a][ctx.num] \in AttemptRecord
      BY <2>1, <2>2
    <2> HIDE DEF ctx
    <2>4. new.phase \in Phases /\ new.results \in SUBSET Actions
      BY <2>3 DEF AttemptRecord, Phases
    <2> QED
      BY <1>1, <2>4 DEF ViewRecord
  <1>3. views' = [views EXCEPT ![seat] = new] /\ UNCHANGED store
    BY DEF SeatedQuery
  <1> HIDE DEF ctx
  <1>4. TypeOK'
    <2>1. views' \in [Seats -> ViewRecord]
      BY <1>2, <1>3 DEF TypeOK
    <2> QED
      BY <1>3, <2>1 DEF TypeOK, store
  <1>5. UNCHANGED <<workflows, revisions, assignments, prepared>>
    BY <1>3 DEF store
  <1>6. ViewsLinked
    <2> SUFFICES ASSUME NEW s \in Seats, views'[s].asg # None
                 PROVE  /\ views'[s].asg \in AssignmentIds
                        /\ assignments[views'[s].asg].state # "absent"
      BY DEF ViewsLinked
    <2>1. CASE s = seat
      <3>1. views'[s].asg = a
        BY <1>3, <2>1 DEF TypeOK
      <3> QED
        BY <3>1 DEF SeatedQuery
    <2>2. CASE s # seat
      <3>1. views'[s] = views[s]
        BY <1>3, <2>2 DEF TypeOK
      <3> QED
        BY <3>1, ViewFacts
    <2> QED
      BY <2>1, <2>2
  <1>7. Linked'
    BY <1>5, <1>6, Unchanged, LinkedKept
  <1> QED
    BY <1>4, <1>7

\* Preparing and preparing again write one table.
LEMMA PreparedUpdate ==
  ASSUME TypeOK, Linked, NEW id \in Actions, NEW x \in PreparedRecord,
         x.asg \in AssignmentIds, assignments[x.asg].state # "absent",
         prepared' = [prepared EXCEPT ![id] = x],
         UNCHANGED <<schema, workflows, revisions, assignments, attempts, sends, notes,
                     followups, receipts, views>>
  PROVE  TypeOK' /\ Linked'
  <1>1. prepared' \in [Actions -> PreparedRecord]
    BY DEF TypeOK
  <1>2. TypeOK'
    BY <1>1 DEF TypeOK
  <1>3. PreparedLinked
    <2> SUFFICES ASSUME NEW i \in Actions, prepared'[i].op # "absent"
                 PROVE  /\ prepared'[i].asg \in AssignmentIds
                        /\ assignments[prepared'[i].asg].state # "absent"
      BY DEF PreparedLinked
    <2>1. prepared'[i] = IF i = id THEN x ELSE prepared[i]
      BY DEF TypeOK
    <2>2. prepared[i] \in PreparedRecord
      BY DEF TypeOK
    <2> QED
      BY <2>1, <2>2 DEF Linked, PreparedRecord
  <1>4. Linked'
    BY <1>3, Unchanged, LinkedKept
  <1> QED
    BY <1>2, <1>4

LEMMA PrepareType ==
  ASSUME TypeOK, Linked, NEW id \in Actions, NEW session \in Sessions,
         \/ \E op \in WorkerOps, a \in AssignmentIds : PrepareWorkerAction(id, session, op, a)
         \/ RefreshWorkerAction(id, session)
  PROVE  TypeOK' /\ Linked'
  <1>1. ASSUME NEW op \in WorkerOps, NEW a \in AssignmentIds,
               PrepareWorkerAction(id, session, op, a)
        PROVE  TypeOK' /\ Linked'
    <2> DEFINE ctx == WorkerContext(op, a)
               new == [op |-> op, session |-> session, asg |-> a, ctx |-> ctx,
                       bind |-> BindingOf(ctx)]
    <2>1. ctx \in Context /\ BindingOf(ctx) \in Binding
      BY ContextTypes
    <2>2. assignments[a].state # "absent"
      BY <1>1 DEF PrepareWorkerAction, CanPrepare, Scoped
    <2>3. prepared' = [prepared EXCEPT ![id] = new]
      BY <1>1 DEF PrepareWorkerAction
    <2> HIDE DEF ctx
    <2>4. new \in PreparedRecord /\ new.asg = a
      BY <2>1 DEF PreparedRecord
    <2>5. UNCHANGED <<schema, workflows, revisions, assignments, attempts, sends, notes,
                      followups, receipts, views>>
      BY <1>1 DEF PrepareWorkerAction
    <2> HIDE DEF new
    <2> QED
      BY <2>2, <2>3, <2>4, <2>5, PreparedUpdate
  <1>2. CASE RefreshWorkerAction(id, session)
    <2> DEFINE p == prepared[id]
               ctx == WorkerContext(p.op, p.asg)
               new == [p EXCEPT !.ctx = ctx]
    <2>1. p \in PreparedRecord /\ p.op # "absent"
      BY <1>2 DEF TypeOK, RefreshWorkerAction
    <2>2. p.asg \in AssignmentIds /\ assignments[p.asg].state # "absent"
      BY <2>1 DEF Linked, PreparedRecord
    <2>3. ctx \in Context
      BY <2>2, ContextTypes
    <2>4. prepared' = [prepared EXCEPT ![id] = new]
      BY <1>2 DEF RefreshWorkerAction, TypeOK
    <2> HIDE DEF ctx
    <2>5. new \in PreparedRecord /\ new.asg = p.asg
      BY <2>1, <2>3 DEF PreparedRecord
    <2>6. UNCHANGED <<schema, workflows, revisions, assignments, attempts, sends, notes,
                      followups, receipts, views>>
      BY <1>2 DEF RefreshWorkerAction
    <2> HIDE DEF new
    <2> QED
      BY <2>2, <2>4, <2>5, <2>6, PreparedUpdate
  <1> QED
    BY <1>1, <1>2

LEMMA TypeStep ==
  ASSUME TypeOK, Linked, [Next]_vars
  PROVE  TypeOK' /\ Linked'
  <1>1. CASE UNCHANGED vars
    <2>1. TypeOK'
      BY <1>1 DEF TypeOK, vars
    <2>2. UNCHANGED <<workflows, revisions, assignments, prepared, views>>
      BY <1>1 DEF vars
    <2>3. Linked'
      BY <2>2, Unchanged, LinkedKept
    <2> QED
      BY <2>1, <2>3
  <1>2. CASE \E seat \in Seats, a \in AssignmentIds : SeatedQuery(seat, a)
    BY <1>2, QueryType
  <1>3. ASSUME NEW id \in Actions, NEW seat \in Seats, SeatAction(id, seat)
        PROVE  TypeOK' /\ Linked'
    BY <1>3, PublishType, DispatchType, DeliveryType, ReviewType, CancelType, AuthorizeType,
       CloseType DEF SeatAction
  <1>4. ASSUME NEW id \in Actions, NEW session \in Sessions, WorkerAction(id, session)
        PROVE  TypeOK' /\ Linked'
    BY <1>4, PrepareType, WorkerExecuteType DEF WorkerAction
  <1>5. ASSUME NEW id \in Actions, SystemAction(id)
        PROVE  TypeOK' /\ Linked'
    BY <1>5, DeliveryType, FactType DEF SystemAction
  <1> QED
    BY <1>1, <1>2, <1>3, <1>4, <1>5 DEF Next

\* No operation of the provider, in any order, writes a record whose revision or
\* attempt number leaves its ceiling, or a reference that resolves to nothing.
THEOREM TypeCorrect == Spec => [](TypeOK /\ Linked)
  <1>1. Init => TypeOK /\ Linked
    BY InitType
  <1>2. TypeOK /\ Linked /\ [Next]_vars => (TypeOK /\ Linked)'
    BY TypeStep
  <1> QED
    BY <1>1, <1>2, PTL DEF Spec

-----------------------------------------------------------------------------
(* The provider implements AssignmentLifecycle, and what follows from that. *)

HIDE DEF Numbers

\* A write to one assignment, or to one attempt, seen through the mapping.
LEMMA LifeUpdate ==
  ASSUME TypeOK, NEW a \in AssignmentIds, NEW x,
         assignments' = [assignments EXCEPT ![a] = x]
  PROVE  LifeMap' = [LifeMap EXCEPT ![a] = AssignmentView(x)]
  BY DEF TypeOK, LifeMap

LEMMA TriesUpdate ==
  ASSUME TypeOK, NEW a \in AssignmentIds, NEW n \in Numbers, NEW t,
         attempts' = [attempts EXCEPT ![a][n] = t]
  PROVE  TriesMap' = [TriesMap EXCEPT ![a][n] = AttemptView(t)]
  <1>1. \A b \in AssignmentIds, m \in Numbers :
           attempts'[b][m] = IF b = a /\ m = n THEN t ELSE attempts[b][m]
    <2> TAKE b \in AssignmentIds, m \in Numbers
    <2>1. attempts[b] \in [Numbers -> AttemptRecord] /\ attempts[a] \in [Numbers -> AttemptRecord]
      BY DEF TypeOK
    <2>2. attempts'[b] = IF b = a THEN [attempts[a] EXCEPT ![n] = t] ELSE attempts[b]
      BY DEF TypeOK
    <2> QED
      BY <2>1, <2>2
  <1>2. TriesMap[a] = [m \in Numbers |-> AttemptView(attempts[a][m])]
    BY DEF TriesMap
  <1>3. [TriesMap[a] EXCEPT ![n] = AttemptView(t)]
          = [m \in Numbers |-> AttemptView(attempts'[a][m])]
    BY <1>1, <1>2
  <1>4. [TriesMap EXCEPT ![a][n] = AttemptView(t)]
          = [b \in AssignmentIds |-> IF b = a THEN [TriesMap[a] EXCEPT ![n] = AttemptView(t)]
                                              ELSE TriesMap[b]]
    BY DEF TriesMap
  <1>5. \A b \in AssignmentIds : b # a =>
           TriesMap[b] = [m \in Numbers |-> AttemptView(attempts'[b][m])]
    BY <1>1 DEF TriesMap
  <1>6. TriesMap' = [b \in AssignmentIds |-> [m \in Numbers |-> AttemptView(attempts'[b][m])]]
    BY DEF TriesMap
  <1> QED
    BY <1>3, <1>4, <1>5, <1>6, SMTT(60)

LEMMA Mapped ==
  ASSUME NEW a \in AssignmentIds
  PROVE  /\ LifeMap[a] = AssignmentView(assignments[a])
         /\ LifeMap[a].state = assignments[a].state
         /\ LifeMap[a].active = assignments[a].active
         /\ LifeMap[a].retry = assignments[a].retry
         /\ \A n \in Numbers :
              /\ TriesMap[a][n] = AttemptView(attempts[a][n])
              /\ TriesMap[a][n].phase = attempts[a][n].phase
              /\ TriesMap[a][n].term = attempts[a][n].term
  <1>1. LifeMap[a] = AssignmentView(assignments[a])
    BY DEF LifeMap
  <1>2. /\ LifeMap[a].state = assignments[a].state
        /\ LifeMap[a].active = assignments[a].active
        /\ LifeMap[a].retry = assignments[a].retry
    BY <1>1 DEF AssignmentView
  <1>3. \A n \in Numbers : TriesMap[a][n] = AttemptView(attempts[a][n])
    BY DEF TriesMap
  <1>4. \A n \in Numbers : /\ TriesMap[a][n].phase = attempts[a][n].phase
                           /\ TriesMap[a][n].term = attempts[a][n].term
    <2> TAKE n \in Numbers
    <2>1. TriesMap[a][n] = AttemptView(attempts[a][n])
      BY <1>3
    <2> QED
      BY <2>1 DEF AttemptView
  <1> QED
    BY <1>1, <1>2, <1>3, <1>4

\* The concrete writes are the abstract ones.
LEMMA ViewWrites ==
  ASSUME TypeOK, NEW a \in AssignmentIds, NEW n, NEW id, NEW reason
  PROVE  /\ AssignmentView(Started(a, n))
              = Lifecycle!Becomes(LifeMap[a], "active", n, None)
         /\ AssignmentView(RetryPending(a))
              = Lifecycle!Becomes(LifeMap[a], "retry_pending", LifeMap[a].active, None)
         /\ AssignmentView(Closed(a, reason, n, id))
              = [state |-> "closed", active |-> LifeMap[a].active, retry |-> None,
                 reason |-> reason, closer |-> id, last |-> n]
  <1>1. assignments[a] \in AssignmentRecord
    BY DEF TypeOK
  <1>2. LifeMap[a] = AssignmentView(assignments[a])
    BY Mapped
  <1> USE <1>1, <1>2 DEF AssignmentView, AssignmentRecord
  <1>3. AssignmentView(Started(a, n)) = Lifecycle!Becomes(LifeMap[a], "active", n, None)
    BY DEF Started, Lifecycle!Becomes
  <1>4. AssignmentView(RetryPending(a))
              = Lifecycle!Becomes(LifeMap[a], "retry_pending", LifeMap[a].active, None)
    BY DEF RetryPending, Lifecycle!Becomes
  <1>5. AssignmentView(Closed(a, reason, n, id))
              = [state |-> "closed", active |-> LifeMap[a].active, retry |-> None,
                 reason |-> reason, closer |-> id, last |-> n]
    BY DEF Closed
  <1> QED
    BY <1>3, <1>4, <1>5

\* A lifecycle step, or none.
LifeStep == Lifecycle!Next \/ UNCHANGED Lifecycle!vars

LEMMA LifeStutter ==
  ASSUME UNCHANGED <<assignments, attempts>>
  PROVE  LifeStep
  BY DEF LifeStep, Lifecycle!vars, LifeMap, TriesMap

LEMMA LifeUnchanged ==
  /\ UNCHANGED assignments => UNCHANGED LifeMap
  /\ UNCHANGED attempts => UNCHANGED TriesMap
  BY DEF LifeMap, TriesMap

LEMMA AttemptViews ==
  ASSUME NEW t \in AttemptRecord, NEW phase, NEW id
  PROVE  /\ AttemptView(InPhase(t, phase)) = [phase |-> phase, term |-> t.term]
         /\ AttemptView(EndedBy(t, phase, id)) = [phase |-> phase, term |-> id]
         /\ AttemptView(t) = [phase |-> t.phase, term |-> t.term]
  BY DEF AttemptView, InPhase, EndedBy, AttemptRecord

\* The three ways an attempt in progress can be written.
LEMMA ProgressStep ==
  ASSUME TypeOK, NEW a \in AssignmentIds, NEW n \in Numbers, n = assignments[a].active,
         NEW phase \in LivePhases, <<attempts[a][n].phase, phase>> \in Lifecycle!Moves,
         NEW t, AttemptView(t) = [phase |-> phase, term |-> attempts[a][n].term],
         attempts' = [attempts EXCEPT ![a][n] = t], UNCHANGED assignments
  PROVE  LifeStep
  <1>1. UNCHANGED LifeMap /\ TriesMap' = [TriesMap EXCEPT ![a][n] = AttemptView(t)]
    BY LifeUnchanged, TriesUpdate
  <1>2. LifeMap[a].active = n
    BY Mapped
  <1>3. /\ TriesMap[a][n].phase = attempts[a][n].phase
        /\ TriesMap[a][n].term = attempts[a][n].term
    BY Mapped
  <1>4. TriesMap' = [TriesMap EXCEPT ![a][n] = [phase |-> phase, term |-> @.term]]
    BY <1>1, <1>3 DEF TriesMap
  <1>5. Lifecycle!Progress(a, phase)
    BY <1>1, <1>2, <1>3, <1>4 DEF Lifecycle!Progress, Numbers
  <1> QED
    BY <1>5 DEF LifeStep, Lifecycle!Next, LivePhases, Lifecycle!Live

LEMMA LoseStep ==
  ASSUME TypeOK, NEW a \in AssignmentIds, NEW n \in Numbers, n = assignments[a].active,
         NEW phase, NEW id \in Actions,
         \/ phase = "aborted" /\ attempts[a][n].phase \in LivePhases
         \/ phase = "failed" /\ attempts[a][n].phase = "review_ready",
         NEW t, AttemptView(t) = [phase |-> phase, term |-> id],
         attempts' = [attempts EXCEPT ![a][n] = t],
         assignments' = [assignments EXCEPT ![a] = RetryPending(a)]
  PROVE  LifeStep
  <1>1. TriesMap' = [TriesMap EXCEPT ![a][n] = [phase |-> phase, term |-> id]]
    BY TriesUpdate, ZenonT(60)
  <1>2. LifeMap' = [LifeMap EXCEPT ![a] = AssignmentView(RetryPending(a))]
    BY LifeUpdate
  <1>3. LifeMap' = [LifeMap EXCEPT ![a] = Lifecycle!Becomes(@, "retry_pending", @.active, None)]
    BY <1>2, ViewWrites DEF LifeMap
  <1>4. LifeMap[a].active = n /\ TriesMap[a][n].phase = attempts[a][n].phase
    BY Mapped
  <1>5. Lifecycle!Lose(a, phase, id)
    BY <1>1, <1>3, <1>4 DEF Lifecycle!Lose, Lifecycle!Live, LivePhases, Numbers
  <1> QED
    BY <1>5 DEF LifeStep, Lifecycle!Next

\* Closing an assignment that is open, under any reason.
LEMMA CloseStep ==
  ASSUME TypeOK, NEW a \in AssignmentIds, NEW n, n = assignments[a].active,
         assignments[a].state \notin {"absent", "closed"}, NEW reason, NEW id,
         assignments' = [assignments EXCEPT ![a] = Closed(a, reason, n, id)]
  PROVE  Lifecycle!CloseFor(a, reason, id)
  <1>1. LifeMap' = [LifeMap EXCEPT ![a] = AssignmentView(Closed(a, reason, n, id))]
    BY LifeUpdate
  <1>2. LifeMap[a].active = n /\ LifeMap[a].state = assignments[a].state
    BY Mapped
  <1>3. LifeMap' = [LifeMap EXCEPT ![a] =
            [state |-> "closed", active |-> @.active, retry |-> None, reason |-> reason,
             closer |-> id, last |-> @.active]]
    <2>1. AssignmentView(Closed(a, reason, n, id))
            = [state |-> "closed", active |-> LifeMap[a].active, retry |-> None,
               reason |-> reason, closer |-> id, last |-> LifeMap[a].active]
      BY <1>2, ViewWrites
    <2> QED
      BY <1>1, <2>1 DEF LifeMap
  <1> QED
    BY <1>2, <1>3 DEF Lifecycle!CloseFor

-----------------------------------------------------------------------------
(* Each operation is a lifecycle step or none. *)

LEMMA WorkerLifeStep ==
  ASSUME TypeOK, Linked, OneLiveAttempt, NEW id \in Actions, NEW session \in Sessions,
         \/ Start(id, session) \/ Decline(id, session) \/ ReportStatus(id, session)
         \/ Block(id, session) \/ Resume(id, session) \/ Submit(id, session)
         \/ AbortAttempt(id, session)
  PROVE  LifeStep
  <1> DEFINE a == prepared[id].asg
             n == prepared[id].ctx.num
             t == BoundAttempt(id)
  <1>0. t = attempts[a][n]
    BY DEF BoundAttempt
  <1>1. CASE Start(id, session)
    <2> DEFINE m == IF assignments[a].state = "awaiting_ack" THEN 1
                                                              ELSE assignments[a].active + 1
               new == [phase |-> "running", tok |-> id, rev |-> 1, statuses |-> {},
                       results |-> {}, term |-> None]
    <2>1. Execute(id, session, "start") /\ m \in Numbers
      BY <1>1 DEF Start
    <2>2. "start" \in WorkerOps
      BY DEF WorkerOps
    <2>3. a \in AssignmentIds
      BY <2>1, <2>2, ExecuteFacts
    <2>4. TriesMap' = [TriesMap EXCEPT ![a][m] = [phase |-> "running", term |-> None]]
      <3>1. attempts' = [attempts EXCEPT ![a][m] = new]
        BY <1>1 DEF Start
      <3>2. AttemptView(new) = [phase |-> "running", term |-> None]
        BY DEF AttemptView
      <3> HIDE DEF new, m
      <3>3. TriesMap' = [TriesMap EXCEPT ![a][m] = AttemptView(new)]
        BY <2>1, <2>3, <3>1, TriesUpdate
      <3> QED
        BY <3>2, <3>3
    <2>5. LifeMap' = [LifeMap EXCEPT ![a] = Lifecycle!Becomes(@, "active", m, None)]
      <3>1. assignments' = [assignments EXCEPT ![a] = Started(a, m)]
        BY <1>1 DEF Start
      <3> HIDE DEF m
      <3>2. LifeMap' = [LifeMap EXCEPT ![a] = AssignmentView(Started(a, m))]
        BY <2>3, <3>1, LifeUpdate
      <3> QED
        BY <2>3, <3>2, ViewWrites DEF LifeMap
    <2>6. \/ LifeMap[a].state = "awaiting_ack" /\ m = 1
          \/ /\ LifeMap[a].state = "retry_pending" /\ LifeMap[a].retry # None
             /\ m = LifeMap[a].active + 1
      <3>1. \/ assignments[a].state = "awaiting_ack"
            \/ assignments[a].state = "retry_pending" /\ assignments[a].retry # None
        BY <1>1 DEF Start
      <3>2. /\ LifeMap[a].state = assignments[a].state
            /\ LifeMap[a].active = assignments[a].active
            /\ LifeMap[a].retry = assignments[a].retry
        BY <2>3, Mapped
      <3> QED
        BY <3>1, <3>2
    <2> HIDE DEF m
    <2>7. Lifecycle!Start(a, m)
      BY <2>4, <2>5, <2>6 DEF Lifecycle!Start
    <2>8. m \in Lifecycle!Numbers
      BY <2>1 DEF Numbers, Lifecycle!Numbers
    <2> QED
      BY <2>3, <2>7, <2>8 DEF LifeStep, Lifecycle!Next
  <1>2. CASE Decline(id, session)
    <2>1. /\ Execute(id, session, "decline") /\ assignments[a].state = "awaiting_ack"
          /\ assignments' = [assignments EXCEPT ![a] = Closed(a, "declined", 0, id)]
          /\ UNCHANGED attempts
      BY <1>2 DEF Decline
    <2>2. "decline" \in WorkerOps
      BY DEF WorkerOps
    <2>3. a \in AssignmentIds
      BY <2>1, <2>2, ExecuteFacts
    <2>4. assignments[a].active = 0
      BY <2>1, <2>3 DEF OneLiveAttempt, Lifecycle!OneLive
    <2>5. Lifecycle!CloseFor(a, "declined", id)
      BY <2>1, <2>3, <2>4, CloseStep
    <2>6. LifeMap[a].state = "awaiting_ack" /\ UNCHANGED TriesMap
      BY <2>1, <2>3, Mapped, LifeUnchanged
    <2> QED
      BY <2>3, <2>5, <2>6 DEF LifeStep, Lifecycle!Next, Lifecycle!Decline
  <1>3. CASE ReportStatus(id, session)
    <2> DEFINE new == [t EXCEPT !.rev = @ + 1, !.statuses = @ \cup {id}]
    <2>1. /\ Execute(id, session, "report_status")
          /\ attempts' = [attempts EXCEPT ![a][n] = new]
          /\ UNCHANGED assignments
      BY <1>3 DEF ReportStatus, BoundTo
    <2>2. a \in AssignmentIds /\ n \in Numbers /\ t \in AttemptRecord
      BY <2>1, ExecuteFacts DEF WorkerOps, BoundOps
    <2>3. AttemptView(new) = TriesMap[a][n]
      <3>1. TriesMap[a][n] = AttemptView(t)
        BY <1>0, <2>2, Mapped
      <3> HIDE DEF t
      <3> QED
        BY <2>2, <3>1 DEF AttemptView, AttemptRecord
    <2> HIDE DEF new
    <2>4. TriesMap' = [TriesMap EXCEPT ![a][n] = TriesMap[a][n]]
      BY <2>1, <2>2, <2>3, TriesUpdate
    <2>5. UNCHANGED TriesMap
      BY <2>4 DEF TriesMap
    <2> QED
      BY <2>1, <2>5, LifeUnchanged DEF LifeStep, Lifecycle!vars
  <1>4. ASSUME NEW phase \in LivePhases, NEW from, NEW new, NEW op \in BoundOps,
               Execute(id, session, op), t.phase = from,
               <<from, phase>> \in Lifecycle!Moves,
               AttemptView(new) = [phase |-> phase, term |-> t.term],
               BoundTo(id, new), UNCHANGED assignments
        PROVE  LifeStep
    <2>1. op \in WorkerOps
      BY DEF BoundOps
    <2>2. a \in AssignmentIds /\ n \in Numbers /\ n = assignments[a].active
      BY <1>4, <2>1, ExecuteFacts
    <2>3. attempts' = [attempts EXCEPT ![a][n] = new]
      BY <1>4 DEF BoundTo
    <2> QED
      BY <1>0, <1>4, <2>2, <2>3, ProgressStep
  <1>5. /\ {"block", "resume", "submit", "abort_attempt"} \subseteq BoundOps \cap WorkerOps
        /\ {"running", "blocked", "review_ready"} \subseteq LivePhases
    BY DEF WorkerOps, BoundOps, LivePhases
  <1>6. /\ <<"running", "blocked">> \in Lifecycle!Moves
        /\ <<"blocked", "running">> \in Lifecycle!Moves
        /\ <<"running", "review_ready">> \in Lifecycle!Moves
    BY DEF Lifecycle!Moves
  <1>7. \A op \in BoundOps : Execute(id, session, op) => t \in AttemptRecord
    BY ExecuteFacts DEF BoundOps
  <1>8. CASE Block(id, session)
    <2>1. /\ Execute(id, session, "block") /\ t.phase = "running"
          /\ BoundTo(id, InPhase(t, "blocked")) /\ UNCHANGED assignments
      BY <1>8 DEF Block
    <2>2. AttemptView(InPhase(t, "blocked")) = [phase |-> "blocked", term |-> t.term]
      BY <1>5, <1>7, <2>1, AttemptViews
    <2> QED
      BY <1>4, <1>5, <1>6, <2>1, <2>2
  <1>9. CASE Resume(id, session)
    <2>1. /\ Execute(id, session, "resume") /\ t.phase = "blocked"
          /\ BoundTo(id, InPhase(t, "running")) /\ UNCHANGED assignments
      BY <1>9 DEF Resume
    <2>2. AttemptView(InPhase(t, "running")) = [phase |-> "running", term |-> t.term]
      BY <1>5, <1>7, <2>1, AttemptViews
    <2> QED
      BY <1>4, <1>5, <1>6, <2>1, <2>2
  <1>10. CASE Submit(id, session)
    <2> DEFINE ready == InPhase(t, "review_ready")
               new == [ready EXCEPT !.results = @ \cup {id}]
    <2>1. /\ Execute(id, session, "submit") /\ t.phase = "running"
          /\ BoundTo(id, new) /\ UNCHANGED assignments
      BY <1>10 DEF Submit
    <2>2. t \in AttemptRecord
      BY <1>5, <1>7, <2>1
    <2>3. AttemptView(new) = [phase |-> "review_ready", term |-> t.term]
      <3> HIDE DEF t
      <3> QED
        BY <2>2 DEF InPhase, AttemptView, AttemptRecord
    <2> HIDE DEF new
    <2> QED
      BY <1>4, <1>5, <1>6, <2>1, <2>3
  <1>11. CASE AbortAttempt(id, session)
    <2>1. /\ Execute(id, session, "abort_attempt") /\ t.phase \in LivePhases
          /\ attempts' = [attempts EXCEPT ![a][n] = EndedBy(t, "aborted", id)]
          /\ assignments' = [assignments EXCEPT ![a] = RetryPending(a)]
      BY <1>11 DEF AbortAttempt, BoundTo
    <2>2. /\ a \in AssignmentIds /\ n \in Numbers /\ n = assignments[a].active
          /\ t \in AttemptRecord
      BY <1>5, <2>1, ExecuteFacts
    <2>3. AttemptView(EndedBy(t, "aborted", id)) = [phase |-> "aborted", term |-> id]
      BY <2>2, AttemptViews
    <2> QED
      BY <1>0, <2>1, <2>2, <2>3, LoseStep
  <1> QED
    BY <1>1, <1>2, <1>3, <1>8, <1>9, <1>10, <1>11

LEMMA ReviewLifeStep ==
  ASSUME TypeOK, Linked, OneLiveAttempt, NEW id \in Actions, NEW seat \in Seats,
         RequestChanges(id, seat) \/ AcceptResult(id, seat) \/ FailResult(id, seat)
  PROVE  LifeStep
  <1> DEFINE a == views[seat].asg
             n == views[seat].ctx.num
             t == attempts[a][n]
  <1>1. PICK op \in TerminalOps : Review(id, seat, op)
    BY DEF RequestChanges, AcceptResult, FailResult, TerminalOps
  <1>2. /\ a \in AssignmentIds /\ n \in Numbers /\ n = assignments[a].active
        /\ t \in AttemptRecord /\ t.phase = "review_ready"
    BY <1>1, ReviewFacts
  <1>3. attempts[a] \in [Numbers -> AttemptRecord]
    BY <1>2 DEF TypeOK
  <1>4. CASE RequestChanges(id, seat)
    <2>1. /\ attempts' = [attempts EXCEPT ![a][n] = InPhase(t, "running")]
          /\ UNCHANGED assignments
      BY <1>2, <1>4 DEF RequestChanges, TypeOK
    <2>2. AttemptView(InPhase(t, "running")) = [phase |-> "running", term |-> t.term]
      BY <1>2, AttemptViews
    <2>3. "running" \in LivePhases /\ <<t.phase, "running">> \in Lifecycle!Moves
      BY <1>2 DEF LivePhases, Lifecycle!Moves
    <2> QED
      BY <1>2, <2>1, <2>2, <2>3, ProgressStep
  <1>5. CASE AcceptResult(id, seat)
    <2>1. /\ attempts' = [attempts EXCEPT ![a][n] = EndedBy(t, "completed", id)]
          /\ assignments' = [assignments EXCEPT ![a] = Closed(a, "completed", n, id)]
          /\ assignments[a].state # "closed"
      BY <1>2, <1>5 DEF AcceptResult, TypeOK, CanClose
    <2>2. assignments[a].state # "absent"
      BY <1>1, ReviewFacts
    <2>3. Lifecycle!CloseFor(a, "completed", id)
      BY <1>2, <2>1, <2>2, CloseStep
    <2>4. TriesMap' = [TriesMap EXCEPT ![a][n] = [phase |-> "completed", term |-> id]]
      <3>1. AttemptView(EndedBy(t, "completed", id)) = [phase |-> "completed", term |-> id]
        BY <1>2, AttemptViews
      <3>2. TriesMap' = [TriesMap EXCEPT ![a][n] = AttemptView(EndedBy(t, "completed", id))]
        BY <1>2, <2>1, TriesUpdate
      <3> QED
        BY <3>1, <3>2
    <2>5. LifeMap[a].active = n /\ n # 0 /\ TriesMap[a][n].phase = "review_ready"
      BY <1>2, Mapped DEF Numbers
    <2>6. Lifecycle!Complete(a, id)
      BY <2>3, <2>4, <2>5 DEF Lifecycle!Complete
    <2> QED
      BY <1>2, <2>6 DEF LifeStep, Lifecycle!Next
  <1>6. CASE FailResult(id, seat)
    <2>1. /\ attempts' = [attempts EXCEPT ![a][n] = EndedBy(t, "failed", id)]
          /\ assignments' = [assignments EXCEPT ![a] = RetryPending(a)]
      BY <1>2, <1>6 DEF FailResult, TypeOK
    <2>2. AttemptView(EndedBy(t, "failed", id)) = [phase |-> "failed", term |-> id]
      BY <1>2, AttemptViews
    <2> QED
      BY <1>2, <2>1, <2>2, LoseStep
  <1> QED
    BY <1>4, <1>5, <1>6

LEMMA CancelLifeStep ==
  ASSUME TypeOK, Linked, OneLiveAttempt, NEW id \in Actions, NEW seat \in Seats,
         TerminalCancel(id, seat) \/ CancelAssignment(id, seat)
  PROVE  LifeStep
  <1> DEFINE v == views[seat]
             a == v.asg
             n == assignments[a].active
             t == attempts[a][n]
  <1>1. a # None /\ CancelWith(id, a, v.ctx)
    BY DEF TerminalCancel, CancelAssignment
  <1>2. a \in AssignmentIds /\ assignments[a].state # "absent"
    BY <1>1, ViewFacts
  <1>3. /\ assignments' = [assignments EXCEPT ![a] = Closed(a, "cancelled", n, id)]
        /\ assignments[a].state # "closed"
    BY <1>1 DEF CancelWith, CanClose
  <1>4. Lifecycle!CloseFor(a, "cancelled", id)
    BY <1>2, <1>3, CloseStep
  <1>5. n \in 0 .. MaxAttempt /\ LifeMap[a].active = n
    BY <1>2, Mapped DEF TypeOK, AssignmentRecord
  <1>6. CASE n = 0
    <2>1. UNCHANGED attempts
      BY <1>1, <1>6 DEF CancelWith
    <2>2. UNCHANGED TriesMap
      BY <2>1, LifeUnchanged
    <2>3. Lifecycle!Cancel(a, id)
      BY <1>4, <1>5, <1>6, <2>2 DEF Lifecycle!Cancel
    <2> QED
      BY <1>2, <2>3 DEF LifeStep, Lifecycle!Next
  <1>7. CASE n # 0
    <2>1. n \in Numbers
      BY <1>5, <1>7 DEF Numbers
    <2>2. t \in AttemptRecord
      <3>1. attempts[a] \in [Numbers -> AttemptRecord]
        BY <1>2 DEF TypeOK
      <3> QED
        BY <2>1, <3>1
    <2>3. t.phase # "absent"
      BY <1>2, <2>1 DEF OneLiveAttempt, Lifecycle!OneLive, Lifecycle!Numbers, Numbers
    <2>4. t.phase \in LivePhases \/ t.phase \in EndPhases
      BY <2>2, <2>3 DEF AttemptRecord, Phases
    <2>5. LivePhases \cap EndPhases = {} /\ LivePhases = Lifecycle!Live
      BY DEF LivePhases, EndPhases, Lifecycle!Live
    <2>6. TriesMap[a][n].phase = t.phase
      BY <1>2, <2>1, Mapped
    <2>7. CASE t.phase \in LivePhases
      <3>1. attempts' = [attempts EXCEPT ![a][n] = EndedBy(@, "cancelled", id)]
        BY <1>1, <1>7, <2>5, <2>7 DEF CancelWith
      <3>2. attempts' = [attempts EXCEPT ![a][n] = EndedBy(t, "cancelled", id)]
        BY <1>2, <2>1, <3>1 DEF TypeOK
      <3>3. AttemptView(EndedBy(t, "cancelled", id)) = [phase |-> "cancelled", term |-> id]
        BY <2>2, AttemptViews
      <3>4. TriesMap' = [TriesMap EXCEPT ![a][n] = AttemptView(EndedBy(t, "cancelled", id))]
        BY <1>2, <2>1, <3>2, TriesUpdate
      <3>5. TriesMap' = [TriesMap EXCEPT ![a][n] = [phase |-> "cancelled", term |-> id]]
        BY <3>3, <3>4
      <3>6. Lifecycle!Cancel(a, id)
        BY <1>4, <1>5, <1>7, <2>5, <2>6, <2>7, <3>5 DEF Lifecycle!Cancel
      <3> QED
        BY <1>2, <3>6 DEF LifeStep, Lifecycle!Next
    <2>8. CASE t.phase \in EndPhases
      <3>1. UNCHANGED attempts
        BY <1>1, <2>8 DEF CancelWith
      <3>2. UNCHANGED TriesMap
        BY <3>1, LifeUnchanged
      <3>3. Lifecycle!Cancel(a, id)
        BY <1>4, <1>5, <2>5, <2>6, <2>8, <3>2 DEF Lifecycle!Cancel
      <3> QED
        BY <1>2, <3>3 DEF LifeStep, Lifecycle!Next
    <2> QED
      BY <2>4, <2>7, <2>8
  <1> QED
    BY <1>6, <1>7

LEMMA CoordinatorLifeStep ==
  ASSUME TypeOK, Linked, OneLiveAttempt, NEW id \in Actions, NEW seat \in Seats,
         AuthorizeAttemptRetry(id, seat) \/ CloseAssignment(id, seat)
  PROVE  LifeStep
  <1> DEFINE v == views[seat]
             a == v.asg
  <1>1. /\ a \in AssignmentIds /\ assignments[a].state # "absent" /\ v.ctx \in Context
    BY ViewFacts DEF AuthorizeAttemptRetry, CloseAssignment
  <1>2. CASE AuthorizeAttemptRetry(id, seat)
    <2> DEFINE x == assignments[a]
               new == [x EXCEPT !.rev = @ + 1, !.retry = id]
    <2>1. /\ x \in AssignmentRecord /\ x.state = "retry_pending" /\ x.retry = None
          /\ assignments' = [assignments EXCEPT ![a] = new]
          /\ UNCHANGED attempts
      BY <1>1, <1>2 DEF AuthorizeAttemptRetry, TypeOK
    <2>2. LifeMap[a] = AssignmentView(x)
      BY <1>1, Mapped
    <2>3. AssignmentView(new)
            = Lifecycle!Becomes(LifeMap[a], "retry_pending", LifeMap[a].active, id)
      <3> HIDE DEF x
      <3> QED
        BY <2>1, <2>2 DEF AssignmentView, Lifecycle!Becomes, AssignmentRecord
    <2> HIDE DEF new
    <2>4. LifeMap' = [LifeMap EXCEPT ![a] = AssignmentView(new)]
      BY <1>1, <2>1, LifeUpdate
    <2>5. LifeMap' = [LifeMap EXCEPT ![a] = Lifecycle!Becomes(@, "retry_pending", @.active, id)]
      BY <1>1, <2>3, <2>4 DEF LifeMap
    <2>6. /\ LifeMap[a].state = "retry_pending" /\ LifeMap[a].retry = None
          /\ UNCHANGED TriesMap
      BY <1>1, <2>1, Mapped, LifeUnchanged
    <2>7. Lifecycle!AuthorizeRetry(a, id)
      BY <2>5, <2>6 DEF Lifecycle!AuthorizeRetry
    <2> QED
      BY <1>1, <2>7 DEF LifeStep, Lifecycle!Next
  <1>3. CASE CloseAssignment(id, seat)
    <2> DEFINE n == v.ctx.num
               phase == attempts[a][n].phase
    <2>1. /\ RequireAttemptContext(a, v.ctx) /\ phase \in {"failed", "aborted"}
          /\ assignments' = [assignments EXCEPT ![a] = Closed(a, CloseReason(phase), n, id)]
          /\ assignments[a].state # "closed"
          /\ UNCHANGED attempts
      BY <1>3 DEF CloseAssignment, CanClose
    <2>2. n \in Numbers /\ n = assignments[a].active
      BY <1>1, <2>1, AttemptContextFacts
    <2>3. CloseReason(phase) = phase
      BY <2>1 DEF CloseReason
    <2>4. Lifecycle!CloseFor(a, phase, id)
      BY <1>1, <2>1, <2>2, <2>3, CloseStep
    <2>5. /\ LifeMap[a].active = n /\ n # 0 /\ TriesMap[a][n].phase = phase
          /\ UNCHANGED TriesMap
      <3>1. LifeMap[a].active = n /\ TriesMap[a][n].phase = phase
        BY <1>1, <2>2, Mapped
      <3>2. n # 0
        BY <2>2 DEF Numbers
      <3>3. UNCHANGED TriesMap
        BY <2>1, LifeUnchanged
      <3> QED
        BY <3>1, <3>2, <3>3
    <2>6. Lifecycle!GiveUp(a, id)
      BY <2>1, <2>4, <2>5 DEF Lifecycle!GiveUp
    <2> QED
      BY <1>1, <2>6 DEF LifeStep, Lifecycle!Next
  <1> QED
    BY <1>2, <1>3

LEMMA DispatchLifeStep ==
  ASSUME TypeOK, NEW id \in Actions, NEW seat \in Seats, Dispatch(id, seat)
  PROVE  LifeStep
  <1>1. PICK a \in AssignmentIds, sd \in SendIds, msg \in MessageIds, t \in Tasks,
             r \in Revisions, worker \in Sessions :
           \/ AssignAndDispatch(id, seat, a, sd, msg, t, r, worker)
           \/ \E proj \in Projects :
                  AssignProjectAndDispatch(id, seat, a, sd, msg, proj, t, r, worker)
    BY DEF Dispatch
  <1>2. Assign(seat, a, sd, msg, t, r, worker) /\ UNCHANGED attempts
    BY <1>1 DEF AssignAndDispatch, AssignProjectAndDispatch
  <1> DEFINE new == [state |-> "awaiting_ack", proj |-> revisions[t][r].proj, task |-> t,
                     trev |-> r, assignee |-> worker, rev |-> 1, active |-> 0,
                     retry |-> None, reason |-> "none", closer |-> None, last |-> 0]
  <1>3. assignments[a].state = "absent" /\ assignments' = [assignments EXCEPT ![a] = new]
    BY <1>2 DEF Assign
  <1>4. AssignmentView(new) = Lifecycle!New("awaiting_ack")
    BY DEF AssignmentView, Lifecycle!New
  <1> HIDE DEF new
  <1>5. LifeMap' = [LifeMap EXCEPT ![a] = Lifecycle!New("awaiting_ack")]
    BY <1>3, <1>4, LifeUpdate
  <1>6. LifeMap[a].state = "absent" /\ UNCHANGED TriesMap
    BY <1>2, <1>3, Mapped, LifeUnchanged
  <1>7. Lifecycle!Assign(a)
    BY <1>5, <1>6 DEF Lifecycle!Assign
  <1> QED
    BY <1>7 DEF LifeStep, Lifecycle!Next

LEMMA NextLifeStep ==
  ASSUME TypeOK, Linked, OneLiveAttempt, [Next]_vars
  PROVE  LifeStep
  <1>1. CASE UNCHANGED vars
    BY <1>1, LifeStutter DEF vars
  <1>2. ASSUME NEW seat \in Seats, NEW a \in AssignmentIds, SeatedQuery(seat, a)
        PROVE  LifeStep
    BY <1>2, LifeStutter DEF SeatedQuery, store
  <1>3. ASSUME NEW id \in Actions, NEW seat \in Seats, SeatAction(id, seat)
        PROVE  LifeStep
    <2>1. CASE Publish(id, seat)
      BY <2>1, LifeStutter DEF Publish, CreateRevision, CreateProjectRevision
    <2>2. CASE Dispatch(id, seat)
      BY <2>2, DispatchLifeStep
    <2>3. CASE \E sd \in SendIds, msg \in MessageIds : RetryDelivery(id, seat, sd, msg)
      BY <2>3, LifeStutter DEF RetryDelivery
    <2> QED
      BY <1>3, <2>1, <2>2, <2>3, ReviewLifeStep, CancelLifeStep, CoordinatorLifeStep
         DEF SeatAction
  <1>4. ASSUME NEW id \in Actions, NEW session \in Sessions, WorkerAction(id, session)
        PROVE  LifeStep
    <2>1. CASE \E op \in WorkerOps, a \in AssignmentIds :
                  PrepareWorkerAction(id, session, op, a)
      BY <2>1, LifeStutter DEF PrepareWorkerAction
    <2>2. CASE RefreshWorkerAction(id, session)
      BY <2>2, LifeStutter DEF RefreshWorkerAction
    <2> QED
      BY <1>4, <2>1, <2>2, WorkerLifeStep DEF WorkerAction
  <1>5. ASSUME NEW id \in Actions, SystemAction(id)
        PROVE  LifeStep
    <2>1. CASE \E sd \in SendIds, kind \in CommKinds : RecordCommunicationEvent(id, sd, kind)
      BY <2>1, LifeStutter DEF RecordCommunicationEvent
    <2>2. CASE \E x \in notes, fact \in FactKinds : RecordCompletionNotificationFact(id, x, fact)
      BY <2>2, LifeStutter DEF RecordCompletionNotificationFact
    <2>3. CASE \E x \in followups, fact \in FactKinds : RecordWorkerFollowupFact(id, x, fact)
      BY <2>3, LifeStutter DEF RecordWorkerFollowupFact
    <2> QED
      BY <1>5, <2>1, <2>2, <2>3 DEF SystemAction
  <1> QED
    BY <1>1, <1>2, <1>3, <1>4, <1>5 DEF Next

-----------------------------------------------------------------------------
(* The lifecycle's own invariants. *)

Sound(x, ts) == Lifecycle!OneLive(x, ts) /\ Lifecycle!Agrees(x, ts)

\* The mapping hides nothing the invariants look at.
LEMMA SoundMapped ==
  ASSUME TypeOK, NEW a \in AssignmentIds
  PROVE  Sound(LifeMap[a], TriesMap[a]) <=> Sound(assignments[a], attempts[a])
  <1> DEFINE x == assignments[a]
             y == LifeMap[a]
  <1>1. /\ y.state = x.state /\ y.active = x.active /\ y.reason = x.reason
        /\ y.closer = x.closer /\ y.last = x.last
    <2>1. y = AssignmentView(x)
      BY Mapped
    <2> HIDE DEF y, x
    <2> QED
      BY <2>1 DEF AssignmentView
  <1>2. \A n \in Numbers : /\ TriesMap[a][n].phase = attempts[a][n].phase
                           /\ TriesMap[a][n].term = attempts[a][n].term
    BY Mapped
  <1>3. x.active \in 0 .. MaxAttempt
    BY DEF TypeOK, AssignmentRecord
  <1>4. x.active # 0 => x.active \in Numbers
    BY <1>3 DEF Numbers
  <1> HIDE DEF x, y
  <1>5. Lifecycle!OneLive(y, TriesMap[a]) <=> Lifecycle!OneLive(x, attempts[a])
    BY <1>1, <1>2, <1>4 DEF Lifecycle!OneLive, Lifecycle!Numbers, Numbers
  <1>6. Lifecycle!Agrees(y, TriesMap[a]) <=> Lifecycle!Agrees(x, attempts[a])
    BY <1>1, <1>2, <1>4 DEF Lifecycle!Agrees
  <1> QED
    BY <1>5, <1>6 DEF Sound, x, y

\* The steps of the lifecycle keep one assignment sound.  ts and us are the
\* attempts before and after, and only attempt n is written.
LEMMA SoundStart ==
  ASSUME NEW x, NEW ts, NEW y, NEW us, NEW n \in Numbers, Sound(x, ts),
         x.active \in 0 .. MaxAttempt,
         \/ x.state = "awaiting_ack" /\ n = 1
         \/ x.state = "retry_pending" /\ n = x.active + 1,
         y.state = "active", y.active = n,
         \A m \in Numbers : us[m].phase = IF m = n THEN "running" ELSE ts[m].phase
  PROVE  Sound(y, us)
  <1>1. Lifecycle!OneLive(y, us)
    BY DEF Sound, Lifecycle!OneLive, Lifecycle!Numbers, Lifecycle!Live, Numbers
  <1>2. Lifecycle!Agrees(y, us)
    BY DEF Lifecycle!Agrees
  <1> QED
    BY <1>1, <1>2 DEF Sound

LEMMA SoundProgress ==
  ASSUME NEW x, NEW ts, NEW us, NEW n \in Numbers, Sound(x, ts),
         x.active \in 0 .. MaxAttempt, x.active = n, ts[n].phase \in Lifecycle!Live,
         NEW phase \in Lifecycle!Live,
         \A m \in Numbers : us[m].phase = IF m = n THEN phase ELSE ts[m].phase
  PROVE  Sound(x, us)
  <1>1. Lifecycle!OneLive(x, us)
    BY DEF Sound, Lifecycle!OneLive, Lifecycle!Numbers, Lifecycle!Live, Numbers
  <1>2. x.state = "active"
    BY DEF Sound, Lifecycle!OneLive, Numbers
  <1>3. Lifecycle!Agrees(x, us)
    BY <1>2 DEF Lifecycle!Agrees
  <1> QED
    BY <1>1, <1>3 DEF Sound

LEMMA SoundLose ==
  ASSUME NEW x, NEW ts, NEW y, NEW us, NEW n \in Numbers, Sound(x, ts),
         x.active \in 0 .. MaxAttempt, x.active = n, ts[n].phase \in Lifecycle!Live,
         NEW phase \in {"failed", "aborted"}, y.state = "retry_pending", y.active = n,
         \A m \in Numbers : us[m].phase = IF m = n THEN phase ELSE ts[m].phase
  PROVE  Sound(y, us)
  <1>1. Lifecycle!OneLive(y, us)
    BY DEF Sound, Lifecycle!OneLive, Lifecycle!Numbers, Lifecycle!Live, Numbers
  <1>2. Lifecycle!Agrees(y, us)
    BY DEF Lifecycle!Agrees
  <1> QED
    BY <1>1, <1>2 DEF Sound

\* Closing: the attempts stay, or the live one ends.
LEMMA SoundCloseKeeping ==
  ASSUME NEW x, NEW ts, NEW y, Sound(x, ts), x.active \in 0 .. MaxAttempt,
         x.state \notin {"absent", "closed"}, y.state = "closed", y.active = x.active,
         y.last = x.active,
         \/ y.reason = "declined" /\ x.active = 0
         \/ y.reason = "cancelled" /\ (x.active # 0 => ts[x.active].phase \in {"failed", "aborted"})
         \/ /\ y.reason \in {"failed", "aborted"} /\ x.active # 0
            /\ ts[x.active].phase = y.reason
  PROVE  Sound(y, ts)
  <1>1. x.active # 0 => ts[x.active].phase \notin Lifecycle!Live
    BY DEF Lifecycle!Live
  <1>2. Lifecycle!OneLive(y, ts)
    BY <1>1 DEF Sound, Lifecycle!OneLive
  <1>3. Lifecycle!Agrees(y, ts)
    BY DEF Lifecycle!Agrees
  <1> QED
    BY <1>2, <1>3 DEF Sound

LEMMA SoundCloseEnding ==
  ASSUME NEW x, NEW ts, NEW y, NEW us, NEW n \in Numbers, Sound(x, ts),
         x.active \in 0 .. MaxAttempt, x.active = n,
         y.state = "closed", y.active = n, y.last = n, y.reason \in {"completed", "cancelled"},
         us[n].term = y.closer,
         \A m \in Numbers : us[m].phase = IF m = n THEN y.reason ELSE ts[m].phase
  PROVE  Sound(y, us)
  <1>1. Lifecycle!OneLive(y, us)
    BY DEF Sound, Lifecycle!OneLive, Lifecycle!Numbers, Lifecycle!Live, Numbers
  <1>2. Lifecycle!Agrees(y, us)
    BY DEF Lifecycle!Agrees, Numbers
  <1> QED
    BY <1>1, <1>2 DEF Sound

\* A write to attempt n of assignment a, read back.
Written(a, n, t) == TriesMap' = [TriesMap EXCEPT ![a][n] = t]

LEMMA TriesAfter ==
  ASSUME NEW a \in AssignmentIds, NEW n \in Numbers, NEW t, Written(a, n, t)
  PROVE  /\ TriesMap'[a][n] = t
         /\ \A m \in Numbers : TriesMap'[a][m] = IF m = n THEN t ELSE TriesMap[a][m]
         /\ \A b \in AssignmentIds : b # a => TriesMap'[b] = TriesMap[b]
  <1>1. TriesMap[a] = [m \in Numbers |-> AttemptView(attempts[a][m])]
    BY DEF TriesMap
  <1>2. TriesMap = [b \in AssignmentIds |-> TriesMap[b]]
    BY DEF TriesMap
  <1>3. TriesMap'[a] = [TriesMap[a] EXCEPT ![n] = t]
    BY <1>2 DEF Written
  <1>4. \A m \in Numbers : TriesMap'[a][m] = IF m = n THEN t ELSE TriesMap[a][m]
    BY <1>1, <1>3
  <1> QED
    BY <1>2, <1>4 DEF Written

LEMMA LifeAfter ==
  ASSUME NEW a \in AssignmentIds, NEW x, LifeMap' = [LifeMap EXCEPT ![a] = x]
  PROVE  /\ LifeMap'[a] = x
         /\ \A b \in AssignmentIds : b # a => LifeMap'[b] = LifeMap[b]
  BY DEF LifeMap

LEMMA SoundStep ==
  ASSUME TypeOK, LifeStep, \A b \in AssignmentIds : Sound(LifeMap[b], TriesMap[b]),
         NEW b \in AssignmentIds
  PROVE  Sound(LifeMap'[b], TriesMap'[b])
  <1> DEFINE x == LifeMap[b]
             ts == TriesMap[b]
             y == LifeMap'[b]
             us == TriesMap'[b]
  <1>1. Sound(x, ts)
    OBVIOUS
  <1>2. x.active \in 0 .. MaxAttempt
    BY Mapped DEF TypeOK, AssignmentRecord
  <1>3. x.active # 0 => x.active \in Numbers
    BY <1>2 DEF Numbers
  <1>4. SUFFICES ASSUME Lifecycle!Next PROVE Sound(y, us)
    BY <1>1 DEF LifeStep, Lifecycle!vars
  <1>5. PICK a \in AssignmentIds :
           \/ Lifecycle!Assign(a)
           \/ \E n \in Lifecycle!Numbers : Lifecycle!Start(a, n)
           \/ \E phase \in Lifecycle!Live : Lifecycle!Progress(a, phase)
           \/ \E id \in Actions :
                 \/ \E phase \in {"failed", "aborted"} : Lifecycle!Lose(a, phase, id)
                 \/ Lifecycle!AuthorizeRetry(a, id)
                 \/ Lifecycle!Decline(a, id)
                 \/ Lifecycle!Complete(a, id)
                 \/ Lifecycle!Cancel(a, id)
                 \/ Lifecycle!GiveUp(a, id)
    BY <1>4 DEF Lifecycle!Next
  <1>6. LifeMap[a].active # 0 => LifeMap[a].active \in Numbers
    BY Mapped DEF TypeOK, AssignmentRecord, Numbers
  <1>7. ASSUME Lifecycle!Assign(a) PROVE Sound(y, us)
    <2>1. LifeMap' = [LifeMap EXCEPT ![a] = Lifecycle!New("awaiting_ack")] /\ UNCHANGED TriesMap
      BY <1>7 DEF Lifecycle!Assign
    <2>2. CASE b = a
      <3>1. y = Lifecycle!New("awaiting_ack") /\ us = ts /\ x.state = "absent"
        BY <1>7, <2>1, <2>2, LifeAfter DEF Lifecycle!Assign
      <3>2. y.state = "awaiting_ack" /\ y.active = 0
        BY <3>1 DEF Lifecycle!New
      <3> HIDE DEF x, y, ts, us
      <3>3. Lifecycle!OneLive(y, us)
        BY <1>1, <3>1, <3>2 DEF Sound, Lifecycle!OneLive
      <3>4. Lifecycle!Agrees(y, us)
        BY <3>2 DEF Lifecycle!Agrees
      <3> QED
        BY <3>3, <3>4 DEF Sound
    <2> QED
      BY <1>1, <2>1, <2>2, LifeAfter
  <1>8. ASSUME NEW n \in Numbers, Lifecycle!Start(a, n) PROVE Sound(y, us)
    <2> DEFINE t == [phase |-> "running", term |-> None]
    <2>1. /\ LifeMap' = [LifeMap EXCEPT ![a] = Lifecycle!Becomes(@, "active", n, None)]
          /\ Written(a, n, t)
      BY <1>8 DEF Lifecycle!Start, Written
    <2>2. CASE b = a
      <3>1. y = Lifecycle!Becomes(x, "active", n, None)
        BY <2>1, <2>2, LifeAfter
      <3>2. y.state = "active" /\ y.active = n
        BY <3>1 DEF Lifecycle!Becomes
      <3>3. \A m \in Numbers : us[m] = IF m = n THEN t ELSE ts[m]
        <4> HIDE DEF t
        <4>1. \A m \in Numbers : TriesMap'[a][m] = IF m = n THEN t ELSE TriesMap[a][m]
          BY <2>1, TriesAfter
        <4> QED
          BY <2>2, <4>1
      <3>4. \A m \in Numbers : us[m].phase = IF m = n THEN "running" ELSE ts[m].phase
        BY <3>3
      <3>5. \/ x.state = "awaiting_ack" /\ n = 1
            \/ x.state = "retry_pending" /\ n = x.active + 1
        BY <1>8, <2>2 DEF Lifecycle!Start
      <3> HIDE DEF x, y, ts, us
      <3> QED
        BY <1>1, <1>2, <3>2, <3>4, <3>5, SoundStart
    <2> QED
      BY <1>1, <2>1, <2>2, LifeAfter, TriesAfter
  <1>9. ASSUME NEW phase \in Lifecycle!Live, Lifecycle!Progress(a, phase) PROVE Sound(y, us)
    <2> DEFINE n == LifeMap[a].active
               t == [phase |-> phase, term |-> TriesMap[a][n].term]
    <2>1. /\ n \in Numbers /\ TriesMap[a][n].phase \in Lifecycle!Live
          /\ Written(a, n, t) /\ UNCHANGED LifeMap
      BY <1>6, <1>9 DEF Lifecycle!Progress, Lifecycle!Moves, Lifecycle!Live, Written
    <2>2. CASE b = a
      <3>1. \A m \in Numbers : us[m] = IF m = n THEN t ELSE ts[m]
        <4> HIDE DEF t
        <4>1. \A m \in Numbers : TriesMap'[a][m] = IF m = n THEN t ELSE TriesMap[a][m]
          BY <2>1, TriesAfter
        <4> QED
          BY <2>2, <4>1
      <3>2. \A m \in Numbers : us[m].phase = IF m = n THEN phase ELSE ts[m].phase
        BY <3>1
      <3>3. y = x /\ x.active = n /\ ts[n].phase \in Lifecycle!Live
        BY <2>1, <2>2
      <3> HIDE DEF x, y, ts, us, n
      <3> QED
        BY <1>1, <1>2, <2>1, <3>2, <3>3, SoundProgress
    <2> QED
      BY <1>1, <2>1, <2>2, TriesAfter
  <1>10. ASSUME NEW phase \in {"failed", "aborted"}, NEW id \in Actions,
                Lifecycle!Lose(a, phase, id)
         PROVE  Sound(y, us)
    <2> DEFINE n == LifeMap[a].active
               t == [phase |-> phase, term |-> id]
    <2>1. /\ n \in Numbers /\ TriesMap[a][n].phase \in Lifecycle!Live
          /\ Written(a, n, t)
          /\ LifeMap' = [LifeMap EXCEPT ![a] =
                           Lifecycle!Becomes(@, "retry_pending", @.active, None)]
      BY <1>6, <1>10 DEF Lifecycle!Lose, Lifecycle!Live, Written
    <2>2. CASE b = a
      <3>1. \A m \in Numbers : us[m] = IF m = n THEN t ELSE ts[m]
        <4> HIDE DEF t
        <4>1. \A m \in Numbers : TriesMap'[a][m] = IF m = n THEN t ELSE TriesMap[a][m]
          BY <2>1, TriesAfter
        <4> QED
          BY <2>2, <4>1
      <3>2. \A m \in Numbers : us[m].phase = IF m = n THEN phase ELSE ts[m].phase
        BY <3>1
      <3>3. y = Lifecycle!Becomes(x, "retry_pending", n, None)
        BY <2>1, <2>2, LifeAfter
      <3>4. y.state = "retry_pending" /\ y.active = n
        BY <3>3 DEF Lifecycle!Becomes
      <3>5. x.active = n /\ ts[n].phase \in Lifecycle!Live
        BY <2>1, <2>2
      <3> HIDE DEF x, y, ts, us, n
      <3> QED
        BY <1>1, <1>2, <2>1, <3>2, <3>4, <3>5, SoundLose
    <2> QED
      BY <1>1, <2>1, <2>2, LifeAfter, TriesAfter
  <1>11. ASSUME NEW id \in Actions, Lifecycle!AuthorizeRetry(a, id) PROVE Sound(y, us)
    <2>1. /\ LifeMap[a].state = "retry_pending" /\ UNCHANGED TriesMap
          /\ LifeMap' = [LifeMap EXCEPT ![a] =
                           Lifecycle!Becomes(@, "retry_pending", @.active, id)]
      BY <1>11 DEF Lifecycle!AuthorizeRetry
    <2>2. CASE b = a
      <3>1. y = Lifecycle!Becomes(x, "retry_pending", x.active, id) /\ us = ts
        BY <2>1, <2>2, LifeAfter
      <3>2. y.state = x.state /\ x.state = "retry_pending" /\ y.active = x.active
        BY <2>1, <2>2, <3>1 DEF Lifecycle!Becomes
      <3> HIDE DEF x, y, ts, us
      <3>3. Lifecycle!OneLive(y, us) /\ Lifecycle!Agrees(y, us)
        BY <1>1, <3>1, <3>2 DEF Sound, Lifecycle!OneLive, Lifecycle!Agrees
      <3> QED
        BY <3>3 DEF Sound
    <2> QED
      BY <1>1, <2>1, <2>2, LifeAfter
  <1>12. ASSUME NEW reason, NEW id, Lifecycle!CloseFor(a, reason, id)
         PROVE  /\ b = a => /\ x.state \notin {"absent", "closed"}
                            /\ y.state = "closed" /\ y.active = x.active /\ y.last = x.active
                            /\ y.reason = reason /\ y.closer = id
                /\ b # a => y = x
    <2> DEFINE new == [state |-> "closed", active |-> LifeMap[a].active, retry |-> None,
                       reason |-> reason, closer |-> id, last |-> LifeMap[a].active]
    <2>1. LifeMap[a].state \notin {"absent", "closed"} /\ LifeMap' = [LifeMap EXCEPT ![a] = new]
      BY <1>12 DEF Lifecycle!CloseFor
    <2>2. LifeMap'[a] = new /\ (b # a => y = x)
      <3> HIDE DEF new
      <3> QED
        BY <2>1, LifeAfter
    <2> QED
      BY <2>1, <2>2
  <1>13. ASSUME NEW id \in Actions, Lifecycle!Decline(a, id) PROVE Sound(y, us)
    <2>1. /\ Lifecycle!CloseFor(a, "declined", id) /\ us = ts
          /\ b = a => x.state = "awaiting_ack"
      BY <1>13 DEF Lifecycle!Decline
    <2>2. x.state = "awaiting_ack" => x.active = 0
      BY <1>1 DEF Sound, Lifecycle!OneLive
    <2>3. CASE b = a
      <3>1. /\ x.state \notin {"absent", "closed"} /\ y.state = "closed" /\ y.active = x.active
            /\ y.last = x.active /\ y.reason = "declined"
        BY <1>12, <2>1, <2>3
      <3> HIDE DEF x, y, ts, us
      <3> QED
        BY <1>1, <1>2, <2>1, <2>2, <2>3, <3>1, SoundCloseKeeping
    <2> QED
      BY <1>1, <1>12, <2>1, <2>3
  <1>14. ASSUME NEW id \in Actions, NEW reason \in {"completed", "cancelled"},
                Lifecycle!CloseFor(a, reason, id), LifeMap[a].active # 0,
                TriesMap' = [TriesMap EXCEPT ![a][LifeMap[a].active] =
                                [phase |-> reason, term |-> id]]
         PROVE  Sound(y, us)
    <2> DEFINE n == LifeMap[a].active
               t == [phase |-> reason, term |-> id]
    <2>1. n \in Numbers /\ Written(a, n, t)
      BY <1>6, <1>14 DEF Written
    <2>2. CASE b = a
      <3>1. \A m \in Numbers : us[m] = IF m = n THEN t ELSE ts[m]
        <4> HIDE DEF t
        <4>1. \A m \in Numbers : TriesMap'[a][m] = IF m = n THEN t ELSE TriesMap[a][m]
          BY <2>1, TriesAfter
        <4> QED
          BY <2>2, <4>1
      <3>2. /\ \A m \in Numbers : us[m].phase = IF m = n THEN reason ELSE ts[m].phase
            /\ us[n].term = id
        BY <2>1, <3>1
      <3>3. /\ y.state = "closed" /\ y.active = n /\ y.last = n /\ y.reason = reason
            /\ y.closer = id /\ x.active = n
        BY <1>12, <1>14, <2>2
      <3> HIDE DEF x, y, ts, us, n
      <3> QED
        BY <1>1, <1>2, <2>1, <3>2, <3>3, SoundCloseEnding
    <2> QED
      BY <1>1, <1>12, <1>14, <2>1, <2>2, TriesAfter
  <1>15. ASSUME NEW id \in Actions, Lifecycle!Complete(a, id) PROVE Sound(y, us)
    BY <1>14, <1>15 DEF Lifecycle!Complete
  <1>16. ASSUME NEW id \in Actions, Lifecycle!Cancel(a, id) PROVE Sound(y, us)
    <2> DEFINE n == LifeMap[a].active
    <2>1. Lifecycle!CloseFor(a, "cancelled", id)
      BY <1>16 DEF Lifecycle!Cancel
    <2>2. CASE n # 0 /\ TriesMap[a][n].phase \in Lifecycle!Live
      BY <1>14, <1>16, <2>1, <2>2 DEF Lifecycle!Cancel
    <2>3. CASE ~ (n # 0 /\ TriesMap[a][n].phase \in Lifecycle!Live)
      <3>1. us = ts
        BY <1>16, <2>3 DEF Lifecycle!Cancel
      <3>2. CASE b = a
        <4>1. /\ x.state \notin {"absent", "closed"} /\ y.state = "closed"
              /\ y.active = x.active /\ y.last = x.active /\ y.reason = "cancelled"
          BY <1>12, <2>1, <3>2
        <4>2. LifeMap[b] = AssignmentView(assignments[b])
          BY Mapped
        <4>3. x.state \in {"awaiting_ack", "active", "retry_pending"}
          BY <4>1, <4>2 DEF TypeOK, AssignmentRecord, AssignmentStates, AssignmentView
        <4>4. ~ (x.active # 0 /\ ts[x.active].phase \in Lifecycle!Live)
          BY <2>3, <3>2
        <4> HIDE DEF x, y, ts, us
        <4>5. x.active # 0 => ts[x.active].phase \in {"failed", "aborted"}
          BY <1>1, <4>3, <4>4 DEF Sound, Lifecycle!OneLive
        <4> QED
          BY <1>1, <1>2, <3>1, <4>1, <4>5, SoundCloseKeeping
      <3> QED
        BY <1>1, <1>12, <2>1, <3>1, <3>2
    <2> QED
      BY <2>2, <2>3
  <1>17. ASSUME NEW id \in Actions, Lifecycle!GiveUp(a, id) PROVE Sound(y, us)
    <2> DEFINE phase == TriesMap[a][LifeMap[a].active].phase
    <2>1. /\ LifeMap[a].active # 0 /\ phase \in {"failed", "aborted"} /\ us = ts
          /\ Lifecycle!CloseFor(a, phase, id)
      BY <1>17 DEF Lifecycle!GiveUp
    <2>2. CASE b = a
      <3>1. /\ x.state \notin {"absent", "closed"} /\ y.state = "closed" /\ y.active = x.active
            /\ y.last = x.active /\ y.reason = phase /\ x.active # 0
            /\ ts[x.active].phase = phase
        BY <1>12, <2>1, <2>2
      <3> HIDE DEF x, y, ts, us, phase
      <3> QED
        BY <1>1, <1>2, <2>1, <3>1, SoundCloseKeeping
    <2> QED
      BY <1>1, <1>12, <2>1, <2>2
  <1> QED
    BY <1>5, <1>7, <1>8, <1>9, <1>10, <1>11, <1>13, <1>15, <1>16, <1>17
       DEF Lifecycle!Numbers, Numbers

-----------------------------------------------------------------------------
(* The theorems. *)

IInv == TypeOK /\ Linked /\ OneLiveAttempt /\ ClosureAgrees

LEMMA IInvSound ==
  ASSUME TypeOK
  PROVE  OneLiveAttempt /\ ClosureAgrees
           <=> \A a \in AssignmentIds : Sound(LifeMap[a], TriesMap[a])
  <1>1. OneLiveAttempt /\ ClosureAgrees
          <=> \A a \in AssignmentIds : Sound(assignments[a], attempts[a])
    BY DEF OneLiveAttempt, ClosureAgrees, Sound
  <1> QED
    BY <1>1, SoundMapped

LEMMA IInvInit == Init => IInv
  <1> SUFFICES ASSUME Init PROVE IInv
    OBVIOUS
  <1>1. TypeOK /\ Linked
    BY InitType
  <1>2. ASSUME NEW a \in AssignmentIds
        PROVE  Sound(assignments[a], attempts[a])
    <2>1. assignments[a] = NoAssignment /\ attempts[a] = [n \in Numbers |-> NoAttempt]
      BY DEF Init
    <2>2. /\ assignments[a].state = "absent" /\ assignments[a].active = 0
          /\ \A n \in Numbers : attempts[a][n].phase = "absent"
      BY <2>1 DEF NoAssignment, NoAttempt
    <2>3. Lifecycle!OneLive(assignments[a], attempts[a])
      BY <2>2 DEF Lifecycle!OneLive, Lifecycle!Numbers, Numbers
    <2>4. Lifecycle!Agrees(assignments[a], attempts[a])
      BY <2>2 DEF Lifecycle!Agrees
    <2> QED
      BY <2>3, <2>4 DEF Sound
  <1> QED
    BY <1>1, <1>2 DEF IInv, OneLiveAttempt, ClosureAgrees, Sound

LEMMA IInvStep == IInv /\ [Next]_vars => IInv'
  <1> SUFFICES ASSUME IInv, [Next]_vars PROVE IInv'
    OBVIOUS
  <1>1. TypeOK' /\ Linked'
    BY TypeStep DEF IInv
  <1>2. LifeStep
    BY NextLifeStep DEF IInv
  <1>3. \A a \in AssignmentIds : Sound(LifeMap[a], TriesMap[a])
    BY IInvSound DEF IInv
  <1>4. \A a \in AssignmentIds : Sound(LifeMap'[a], TriesMap'[a])
    BY <1>2, <1>3, SoundStep DEF IInv
  <1>5. TypeOK' => (OneLiveAttempt /\ ClosureAgrees
                      <=> \A a \in AssignmentIds : Sound(LifeMap[a], TriesMap[a]))'
    BY IInvSound, PTL
  <1>6. (\A a \in AssignmentIds : Sound(LifeMap[a], TriesMap[a]))'
    BY <1>4 DEF Sound, Lifecycle!OneLive, Lifecycle!Agrees
  <1> QED
    BY <1>1, <1>5, <1>6 DEF IInv

THEOREM Invariance == Spec => []IInv
  BY IInvInit, IInvStep, PTL DEF Spec

\* In every reachable state of the provider an assignment has at most one live
\* attempt, and has one exactly while it is active.
THEOREM LiveAttempts == Spec => []OneLiveAttempt
  <1>1. IInv => OneLiveAttempt
    BY DEF IInv
  <1> QED
    BY <1>1, Invariance, PTL

\* In every reachable state the recorded closure reason agrees with how the last
\* attempt ended.
THEOREM Closures == Spec => []ClosureAgrees
  <1>1. IInv => ClosureAgrees
    BY DEF IInv
  <1> QED
    BY <1>1, Invariance, PTL

\* Every behaviour of the provider is, assignment by assignment, a behaviour of
\* the lifecycle.
THEOREM Refinement == Spec => ImplementsLifecycle
  <1>1. Init => Lifecycle!Init
    <2> SUFFICES ASSUME Init PROVE Lifecycle!Init
      OBVIOUS
    <2>1. LifeMap = [a \in AssignmentIds |-> Lifecycle!New("absent")]
      BY DEF Init, LifeMap, AssignmentView, NoAssignment, Lifecycle!New
    <2>2. TriesMap = [a \in AssignmentIds |-> [n \in Lifecycle!Numbers |-> Lifecycle!NotTried]]
      BY DEF Init, TriesMap, AttemptView, NoAttempt, Lifecycle!NotTried, Lifecycle!Numbers, Numbers
    <2> QED
      BY <2>1, <2>2 DEF Lifecycle!Init
  <1>2. IInv /\ [Next]_vars => [Lifecycle!Next]_(Lifecycle!vars)
    BY NextLifeStep DEF IInv, LifeStep
  <1> QED
    BY <1>1, <1>2, Invariance, PTL DEF Spec, ImplementsLifecycle, Lifecycle!Spec

-----------------------------------------------------------------------------
(* Nothing happens to a closed assignment. *)

\* Everything an operation may write about work belongs to assignment a.
OnlyTouches(a) ==
    /\ \/ UNCHANGED assignments
       \/ \E x : assignments' = [assignments EXCEPT ![a] = x]
    /\ \/ UNCHANGED attempts
       \/ \E n \in Numbers : \E t : attempts' = [attempts EXCEPT ![a][n] = t]

ClosedKept ==
    \A a \in AssignmentIds : assignments[a].state = "closed" =>
       /\ assignments'[a] = assignments[a]
       /\ attempts'[a] = attempts[a]

NoNewSends == \A a \in AssignmentIds : assignments[a].state = "closed" =>
                 \A s \in SendIds : sends'[s].asg = a => sends[s].asg = a

LEMMA TouchesOpen ==
  ASSUME TypeOK, NEW a \in AssignmentIds, assignments[a].state # "closed", OnlyTouches(a)
  PROVE  ClosedKept
  <1> SUFFICES ASSUME NEW b \in AssignmentIds, assignments[b].state = "closed"
               PROVE  assignments'[b] = assignments[b] /\ attempts'[b] = attempts[b]
    BY DEF ClosedKept
  <1>1. b # a
    OBVIOUS
  <1>2. assignments'[b] = assignments[b]
    BY <1>1 DEF OnlyTouches, TypeOK
  <1>3. attempts'[b] = attempts[b]
    BY <1>1 DEF OnlyTouches, TypeOK
  <1> QED
    BY <1>2, <1>3

\* The attempt in progress belongs to an assignment that is not closed.
LEMMA LiveIsOpen ==
  ASSUME OneLiveAttempt, NEW a \in AssignmentIds, NEW n \in Numbers,
         n = assignments[a].active, attempts[a][n].phase \in LivePhases
  PROVE  assignments[a].state # "closed"
  BY DEF OneLiveAttempt, Lifecycle!OneLive, Lifecycle!Live, LivePhases, Numbers

LEMMA WorkerKeepsClosed ==
  ASSUME IInv, NEW id \in Actions, NEW session \in Sessions,
         \/ Start(id, session) \/ Decline(id, session) \/ ReportStatus(id, session)
         \/ Block(id, session) \/ Resume(id, session) \/ Submit(id, session)
         \/ AbortAttempt(id, session)
  PROVE  ClosedKept /\ UNCHANGED sends
  <1> DEFINE a == prepared[id].asg
             n == prepared[id].ctx.num
             t == BoundAttempt(id)
  <1>1. PICK op \in WorkerOps : Execute(id, session, op)
    BY DEF Start, Decline, ReportStatus, Block, Resume, Submit, AbortAttempt, WorkerOps
  <1>2. UNCHANGED sends /\ a \in AssignmentIds
    BY <1>1, ExecuteFacts DEF IInv
  <1>3. CASE Start(id, session)
    <2>1. assignments[a].state # "closed" /\ OnlyTouches(a)
      BY <1>3 DEF Start, OnlyTouches
    <2> QED
      BY <1>2, <2>1, TouchesOpen DEF IInv
  <1>4. CASE Decline(id, session)
    <2>1. assignments[a].state # "closed" /\ OnlyTouches(a)
      BY <1>4 DEF Decline, OnlyTouches
    <2> QED
      BY <1>2, <2>1, TouchesOpen DEF IInv
  <1>5. ASSUME NEW o \in BoundOps, Execute(id, session, o), t.phase \in LivePhases,
               \E new : BoundTo(id, new),
               \/ UNCHANGED assignments
               \/ assignments' = [assignments EXCEPT ![a] = RetryPending(a)]
        PROVE  ClosedKept
    <2>1. n \in Numbers /\ n = assignments[a].active
      BY <1>5, ExecuteFacts DEF IInv, BoundOps
    <2>2. assignments[a].state # "closed"
      BY <1>2, <1>5, <2>1, LiveIsOpen DEF IInv, BoundAttempt
    <2>3. OnlyTouches(a)
      BY <1>5, <2>1 DEF OnlyTouches, BoundTo
    <2> QED
      BY <1>2, <2>2, <2>3, TouchesOpen DEF IInv
  <1>6. /\ {"report_status", "block", "resume", "submit", "abort_attempt"} \subseteq BoundOps
        /\ {"running", "blocked"} \subseteq LivePhases
    BY DEF BoundOps, WorkerOps, LivePhases
  <1>7. CASE ReportStatus(id, session)
    BY <1>2, <1>5, <1>6, <1>7 DEF ReportStatus
  <1>8. CASE Block(id, session)
    BY <1>2, <1>5, <1>6, <1>8 DEF Block
  <1>9. CASE Resume(id, session)
    BY <1>2, <1>5, <1>6, <1>9 DEF Resume
  <1>10. CASE Submit(id, session)
    BY <1>2, <1>5, <1>6, <1>10 DEF Submit
  <1>11. CASE AbortAttempt(id, session)
    BY <1>2, <1>5, <1>6, <1>11 DEF AbortAttempt
  <1> QED
    BY <1>2, <1>3, <1>4, <1>7, <1>8, <1>9, <1>10, <1>11

LEMMA SeatKeepsClosed ==
  ASSUME IInv, NEW id \in Actions, NEW seat \in Seats, SeatAction(id, seat)
  PROVE  ClosedKept /\ NoNewSends
  <1> DEFINE a == views[seat].asg
             n == views[seat].ctx.num
  <1>0. /\ UNCHANGED <<assignments, attempts>> => ClosedKept
        /\ UNCHANGED sends => NoNewSends
    BY DEF ClosedKept, NoNewSends
  <1>1. CASE Publish(id, seat)
    BY <1>0, <1>1 DEF Publish, CreateRevision, CreateProjectRevision
  <1>2. CASE Dispatch(id, seat)
    <2>1. PICK b \in AssignmentIds, sd \in SendIds, msg \in MessageIds, t \in Tasks,
               r \in Revisions, worker \in Sessions :
             \/ AssignAndDispatch(id, seat, b, sd, msg, t, r, worker)
             \/ \E proj \in Projects :
                    AssignProjectAndDispatch(id, seat, b, sd, msg, proj, t, r, worker)
      BY <1>2 DEF Dispatch
    <2>2. Assign(seat, b, sd, msg, t, r, worker) /\ UNCHANGED attempts
      BY <2>1 DEF AssignAndDispatch, AssignProjectAndDispatch
    <2>3. assignments[b].state # "closed" /\ OnlyTouches(b)
      BY <2>2 DEF Assign, OnlyTouches
    <2>4. NoNewSends
      BY <2>2 DEF Assign, NoNewSends, IInv, TypeOK
    <2> QED
      BY <2>3, <2>4, TouchesOpen DEF IInv
  <1>3. CASE \E sd \in SendIds, msg \in MessageIds : RetryDelivery(id, seat, sd, msg)
    <2>1. PICK sd \in SendIds, msg \in MessageIds : RetryDelivery(id, seat, sd, msg)
      BY <1>3
    <2>2. PICK ord \in 1 .. MaxLocal :
             sends' = [sends EXCEPT ![sd] = [asg |-> a, ord |-> ord, msg |-> msg, rev |-> 1]]
      BY <2>1 DEF RetryDelivery
    <2>3. assignments[a].state # "closed" /\ UNCHANGED <<assignments, attempts>>
      BY <2>1 DEF RetryDelivery
    <2>4. NoNewSends
      BY <2>2, <2>3 DEF NoNewSends, IInv, TypeOK
    <2> QED
      BY <1>0, <2>3, <2>4
  <1>4. CASE RequestChanges(id, seat) \/ AcceptResult(id, seat) \/ FailResult(id, seat)
    <2>1. PICK op \in TerminalOps : Review(id, seat, op)
      BY <1>4 DEF RequestChanges, AcceptResult, FailResult, TerminalOps
    <2>2. /\ a \in AssignmentIds /\ n \in Numbers /\ n = assignments[a].active
          /\ attempts[a][n].phase = "review_ready" /\ UNCHANGED sends
      BY <2>1, ReviewFacts DEF IInv
    <2>3. assignments[a].state # "closed"
      BY <2>2, LiveIsOpen DEF IInv, LivePhases
    <2>4. OnlyTouches(a)
      BY <1>4, <2>2 DEF RequestChanges, AcceptResult, FailResult, OnlyTouches
    <2> QED
      BY <1>0, <2>2, <2>3, <2>4, TouchesOpen DEF IInv
  <1>5. CASE TerminalCancel(id, seat) \/ CancelAssignment(id, seat)
    <2>1. a # None /\ CancelWith(id, a, views[seat].ctx)
      BY <1>5 DEF TerminalCancel, CancelAssignment
    <2>2. a \in AssignmentIds
      BY <2>1, ViewFacts DEF IInv
    <2>3. assignments[a].active = 0 \/ assignments[a].active \in Numbers
      BY <2>2 DEF IInv, TypeOK, AssignmentRecord, Numbers
    <2>4. assignments[a].state # "closed" /\ UNCHANGED sends
      BY <2>1 DEF CancelWith, CanClose
    <2>5. OnlyTouches(a)
      BY <2>1, <2>3 DEF CancelWith, OnlyTouches
    <2> QED
      BY <1>0, <2>2, <2>4, <2>5, TouchesOpen DEF IInv
  <1>6. CASE AuthorizeAttemptRetry(id, seat)
    <2>1. a \in AssignmentIds
      BY <1>6, ViewFacts DEF IInv, AuthorizeAttemptRetry
    <2>2. assignments[a].state # "closed" /\ UNCHANGED <<attempts, sends>>
      BY <1>6 DEF AuthorizeAttemptRetry
    <2>3. assignments' = [assignments EXCEPT ![a] =
                            [assignments[a] EXCEPT !.rev = @ + 1, !.retry = id]]
      BY <1>6, <2>1 DEF AuthorizeAttemptRetry, IInv, TypeOK
    <2>4. OnlyTouches(a)
      BY <2>2, <2>3 DEF OnlyTouches
    <2> QED
      BY <1>0, <2>1, <2>2, <2>4, TouchesOpen DEF IInv
  <1>7. CASE CloseAssignment(id, seat)
    <2>1. a \in AssignmentIds
      BY <1>7, ViewFacts DEF IInv, CloseAssignment
    <2>2. assignments[a].state # "closed" /\ UNCHANGED sends /\ OnlyTouches(a)
      BY <1>7 DEF CloseAssignment, CanClose, OnlyTouches
    <2> QED
      BY <1>0, <2>1, <2>2, TouchesOpen DEF IInv
  <1> QED
    BY <1>1, <1>2, <1>3, <1>4, <1>5, <1>6, <1>7 DEF SeatAction

\* No request, however late and whoever sends it, changes a closed assignment or
\* one of its attempts, or starts another delivery of it.
THEOREM ClosedFinal == Spec => ClosedIsFinal
  <1> DEFINE Final == \A a \in AssignmentIds : assignments[a].state = "closed" =>
                        /\ assignments'[a] = assignments[a]
                        /\ attempts'[a] = attempts[a]
                        /\ \A s \in SendIds : sends'[s].asg = a => sends[s].asg = a
  <1>1. ASSUME IInv, [Next]_vars PROVE ClosedKept /\ NoNewSends
    <2>0. /\ UNCHANGED <<assignments, attempts>> => ClosedKept
          /\ UNCHANGED sends => NoNewSends
      BY DEF ClosedKept, NoNewSends
    <2>1. CASE UNCHANGED vars
      BY <2>0, <2>1 DEF vars
    <2>2. ASSUME NEW seat \in Seats, NEW a \in AssignmentIds, SeatedQuery(seat, a)
          PROVE  ClosedKept /\ NoNewSends
      BY <2>0, <2>2 DEF SeatedQuery, store
    <2>3. ASSUME NEW id \in Actions, NEW session \in Sessions, WorkerAction(id, session)
          PROVE  ClosedKept /\ NoNewSends
      <3>1. CASE \/ \E op \in WorkerOps, a \in AssignmentIds :
                       PrepareWorkerAction(id, session, op, a)
                 \/ RefreshWorkerAction(id, session)
        BY <2>0, <3>1 DEF PrepareWorkerAction, RefreshWorkerAction
      <3> QED
        BY <1>1, <2>0, <2>3, <3>1, WorkerKeepsClosed DEF WorkerAction
    <2>4. ASSUME NEW id \in Actions, SystemAction(id)
          PROVE  ClosedKept /\ NoNewSends
      <3>1. CASE \E sd \in SendIds, kind \in CommKinds : RecordCommunicationEvent(id, sd, kind)
        <4>1. PICK sd \in SendIds, kind \in CommKinds : RecordCommunicationEvent(id, sd, kind)
          BY <3>1
        <4>2. /\ UNCHANGED <<assignments, attempts>>
              /\ sends' = [sends EXCEPT ![sd].rev = @ + 1]
          BY <4>1 DEF RecordCommunicationEvent
        <4>3. sends' = [sends EXCEPT ![sd] = [sends[sd] EXCEPT !.rev = @ + 1]]
          BY <1>1, <4>2 DEF IInv, TypeOK
        <4>4. sends[sd] \in SendRecord
          BY <1>1 DEF IInv, TypeOK
        <4>5. [sends[sd] EXCEPT !.rev = @ + 1].asg = sends[sd].asg
          BY <4>4 DEF SendRecord
        <4>6. NoNewSends
          BY <1>1, <4>3, <4>5 DEF NoNewSends, IInv, TypeOK
        <4> QED
          BY <2>0, <4>2, <4>6
      <3>2. CASE \/ \E x \in notes, fact \in FactKinds :
                       RecordCompletionNotificationFact(id, x, fact)
                 \/ \E x \in followups, fact \in FactKinds :
                       RecordWorkerFollowupFact(id, x, fact)
        BY <2>0, <3>2 DEF RecordCompletionNotificationFact, RecordWorkerFollowupFact
      <3> QED
        BY <2>4, <3>1, <3>2 DEF SystemAction
    <2> QED
      BY <1>1, <2>1, <2>2, <2>3, <2>4, SeatKeepsClosed DEF Next
  <1>2. IInv /\ [Next]_vars => [Final]_vars
    BY <1>1 DEF ClosedKept, NoNewSends
  <1> QED
    BY <1>2, Invariance, PTL DEF Spec, ClosedIsFinal

-----------------------------------------------------------------------------
(* What the provider's tables say about each other: receipts, evidence,     *)
(* notifications, preparations and what the seats have read.                *)

(* What an operation on one assignment does, table by table. *)

USE DEF Numbers

EndOps == {"accept_result", "fail_result", "abort_attempt", "cancel", "cancel_assignment"}
EndOf(op) == CASE op = "accept_result" -> "completed"
               [] op = "fail_result" -> "failed"
               [] op = "abort_attempt" -> "aborted"
               [] OTHER -> "cancelled"
CancelOps == {"cancel", "cancel_assignment"}
MovingOps == BoundOps \cup {"accept_result", "request_changes", "fail_result"}
QuietOps == {"report_status", "block", "resume", "submit", "request_changes"}
ClosingOps == {"decline", "accept_result", "cancel", "cancel_assignment", "close_assignment"}
ActOps == WorkerOps \cup TerminalOps
          \cup {"cancel_assignment", "authorize_attempt_retry", "close_assignment"}

\* The live attempt t becomes u when op commits under id.
Advances(t, u, op, id) ==
    /\ t.phase \in LivePhases
    /\ u.rev = t.rev + 1
    /\ u.tok = t.tok
    /\ u.statuses = IF op = "report_status" THEN t.statuses \cup {id} ELSE t.statuses
    /\ u.results = IF op = "submit" THEN t.results \cup {id} ELSE t.results
    /\ IF op \in EndOps THEN u.phase = EndOf(op) /\ u.term = id
                        ELSE u.phase \in LivePhases /\ u.term = t.term

\* Attempt n of assignment a, and no other, is now u.
OneAttempt(a, n, u) ==
    \A b \in AssignmentIds, m \in Numbers :
       attempts'[b][m] = IF b = a /\ m = n THEN u ELSE attempts[b][m]

Touches(id, op, a, n) ==
    /\ n \in Numbers
    /\ n = assignments[a].active
    /\ \E u : Advances(attempts[a][n], u, op, id) /\ OneAttempt(a, n, u)

Begins(id, a) ==
    LET n == assignments[a].active + 1 IN
    /\ n \in Numbers
    /\ attempts[a][n].phase = "absent"
    /\ OneAttempt(a, n, [phase |-> "running", tok |-> id, rev |-> 1, statuses |-> {},
                         results |-> {}, term |-> None])

AttemptPart(id, op, a, b) ==
    \/ op \in MovingOps \cup CancelOps /\ Touches(id, op, a, b.num)
    \/ op = "start" /\ Begins(id, a)
    \/ /\ op \in CancelOps \cup {"decline", "authorize_attempt_retry", "close_assignment"}
       /\ UNCHANGED attempts

\* Assignment x becomes y when op commits under id.
Rewrites(x, y, op, id) ==
    /\ y.rev = x.rev + 1
    /\ y.proj = x.proj /\ y.task = x.task /\ y.trev = x.trev /\ y.assignee = x.assignee
    /\ op = "start" =>
         /\ x.state = "awaiting_ack" \/ (x.state = "retry_pending" /\ x.retry # None)
         /\ y.state = "active" /\ y.active = x.active + 1
         /\ y.retry = None /\ y.reason = x.reason
    /\ op \in {"abort_attempt", "fail_result"} =>
         /\ y.state = "retry_pending" /\ y.active = x.active
         /\ y.retry = None /\ y.reason = x.reason
    /\ op = "authorize_attempt_retry" =>
         /\ x.state = "retry_pending" /\ x.retry = None
         /\ y.state = "retry_pending" /\ y.active = x.active
         /\ y.retry = id /\ y.reason = x.reason
    /\ op \in ClosingOps =>
         /\ x.state # "closed"
         /\ y.state = "closed" /\ y.active = x.active
         /\ y.retry = None /\ y.reason # "none"

OneAssignment(a, y) ==
    \A b \in AssignmentIds : assignments'[b] = IF b = a THEN y ELSE assignments[b]

AssignmentPart(id, op, a) ==
    IF op \in QuietOps
    THEN UNCHANGED assignments
    ELSE \E y : Rewrites(assignments[a], y, op, id) /\ OneAssignment(a, y)

NotePart(id, op, a, b) ==
    IF op \in AnnouncedOps
    THEN Schedule(a, b.num, id, Announcement(op),
                  IF op = "submit" THEN RevisionOf(a).auth ELSE CoordinatorSeat(a))
    ELSE UNCHANGED notes

FollowupPart(id, op, a, b) ==
    IF op = "request_changes" THEN ScheduleFollowup(a, b.num, id) ELSE UNCHANGED followups

PreparedPart(id, op) ==
    IF op \in WorkerOps
    THEN prepared[id].op = op /\ prepared' = [prepared EXCEPT ![id] = NoPrepared]
    ELSE UNCHANGED prepared

Acts(id, op, a, b) ==
    /\ op \in ActOps
    /\ a \in AssignmentIds
    /\ Scoped(a)
    /\ b \in Binding
    /\ \E who : Commit(id, op, who, a, b)
    /\ b.num # 0 => b.num = assignments[a].active /\ attempts[a][b.num].tok = b.tok
    /\ AttemptPart(id, op, a, b)
    /\ AssignmentPart(id, op, a)
    /\ NotePart(id, op, a, b)
    /\ FollowupPart(id, op, a, b)
    /\ PreparedPart(id, op)
    /\ UNCHANGED <<schema, workflows, revisions, sends, views>>

-----------------------------------------------------------------------------
(* Writes, read back field by field. *)

LEMMA OpSets ==
  /\ MovingOps \cup CancelOps \subseteq ActOps
  /\ QuietOps \cup ClosingOps \cup EndOps \cup BoundOps \cup WorkerOps \cup TerminalOps \subseteq ActOps
  /\ BoundOps = {"report_status", "block", "resume", "submit", "abort_attempt"}
  BY DEF MovingOps, CancelOps, ActOps, QuietOps, ClosingOps, EndOps, BoundOps, WorkerOps,
         TerminalOps

LEMMA OneAttemptWritten ==
  ASSUME TypeOK, NEW a \in AssignmentIds, NEW n \in Numbers, NEW u,
         attempts' = [attempts EXCEPT ![a][n] = u]
  PROVE  OneAttempt(a, n, u)
  <1> SUFFICES ASSUME NEW b \in AssignmentIds, NEW m \in Numbers
               PROVE  attempts'[b][m] = IF b = a /\ m = n THEN u ELSE attempts[b][m]
    BY DEF OneAttempt
  <1>1. attempts[b] \in [Numbers -> AttemptRecord] /\ attempts[a] \in [Numbers -> AttemptRecord]
    BY DEF TypeOK
  <1>2. attempts'[b] = IF b = a THEN [attempts[a] EXCEPT ![n] = u] ELSE attempts[b]
    BY DEF TypeOK
  <1> QED
    BY <1>1, <1>2

LEMMA OneAssignmentWritten ==
  ASSUME TypeOK, NEW a \in AssignmentIds, NEW y, assignments' = [assignments EXCEPT ![a] = y]
  PROVE  OneAssignment(a, y)
  BY DEF OneAssignment, TypeOK

LEMMA AdvancesInPhase ==
  ASSUME NEW t \in AttemptRecord, t.phase \in LivePhases, NEW phase \in LivePhases,
         NEW op, op \notin EndOps, op \notin {"report_status", "submit"}, NEW id
  PROVE  Advances(t, InPhase(t, phase), op, id)
  BY DEF Advances, InPhase, AttemptRecord

LEMMA AdvancesEnded ==
  ASSUME NEW t \in AttemptRecord, t.phase \in LivePhases, NEW op \in EndOps, NEW id
  PROVE  Advances(t, EndedBy(t, EndOf(op), id), op, id)
  BY DEF Advances, EndedBy, AttemptRecord, EndOps

LEMMA AdvancesStatus ==
  ASSUME NEW t \in AttemptRecord, t.phase \in LivePhases, NEW id
  PROVE  Advances(t, [t EXCEPT !.rev = @ + 1, !.statuses = @ \cup {id}], "report_status", id)
  BY DEF Advances, AttemptRecord, EndOps

LEMMA AdvancesSubmit ==
  ASSUME NEW t \in AttemptRecord, t.phase \in LivePhases, NEW id
  PROVE  Advances(t, [InPhase(t, "review_ready") EXCEPT !.results = @ \cup {id}], "submit", id)
  <1> DEFINE r == InPhase(t, "review_ready")
             u == [r EXCEPT !.results = @ \cup {id}]
  <1>1. /\ DOMAIN r = {"phase", "tok", "rev", "statuses", "results", "term"}
        /\ r.phase = "review_ready" /\ r.tok = t.tok /\ r.rev = t.rev + 1 /\ r.term = t.term
        /\ r.statuses = t.statuses /\ r.results = t.results
    BY DEF InPhase, AttemptRecord
  <1> HIDE DEF r
  <1>2. /\ u.phase = "review_ready" /\ u.tok = t.tok /\ u.rev = t.rev + 1 /\ u.term = t.term
        /\ u.statuses = t.statuses /\ u.results = t.results \cup {id}
    BY <1>1
  <1> QED
    BY <1>2 DEF Advances, EndOps, LivePhases, r

LEMMA RewritesRetryPending ==
  ASSUME TypeOK, NEW a \in AssignmentIds, NEW id, NEW op \in {"abort_attempt", "fail_result"}
  PROVE  Rewrites(assignments[a], RetryPending(a), op, id)
  <1>1. assignments[a] \in AssignmentRecord
    BY DEF TypeOK
  <1> QED
    BY <1>1 DEF RetryPending, Rewrites, AssignmentRecord, ClosingOps

LEMMA RewritesWritten ==
  ASSUME TypeOK, NEW a \in AssignmentIds, NEW id, NEW n, NEW reason, reason # "none"
  PROVE  /\ assignments[a].state # "closed" =>
              \A op \in ClosingOps : Rewrites(assignments[a], Closed(a, reason, n, id), op, id)
         /\ /\ n = assignments[a].active + 1
            /\ \/ assignments[a].state = "awaiting_ack"
               \/ assignments[a].state = "retry_pending" /\ assignments[a].retry # None
            => Rewrites(assignments[a], Started(a, n), "start", id)
  <1>1. assignments[a] \in AssignmentRecord
    BY DEF TypeOK
  <1>3. assignments[a].state # "closed" =>
              \A op \in ClosingOps : Rewrites(assignments[a], Closed(a, reason, n, id), op, id)
    BY <1>1 DEF Closed, Rewrites, AssignmentRecord, ClosingOps
  <1>4. /\ n = assignments[a].active + 1
        /\ \/ assignments[a].state = "awaiting_ack"
           \/ assignments[a].state = "retry_pending" /\ assignments[a].retry # None
        => Rewrites(assignments[a], Started(a, n), "start", id)
    BY <1>1 DEF Started, Rewrites, AssignmentRecord, ClosingOps
  <1> QED
    BY <1>3, <1>4

-----------------------------------------------------------------------------
(* Every operation on an assignment acts on it in this way. *)

\* A prepared action is bound to the attempt its context names.
PreparedBound ==
    \A i \in Actions : prepared[i].op # "absent" => BindingOf(prepared[i].ctx) = prepared[i].bind

LEMMA Executes ==
  ASSUME IInv, PreparedBound, NEW id \in Actions, NEW session \in Sessions, NEW op \in WorkerOps,
         Execute(id, session, op), NEW a, a = prepared[id].asg, NEW b, b = prepared[id].bind
  PROVE  /\ op \in ActOps /\ a \in AssignmentIds /\ Scoped(a) /\ b \in Binding
         /\ \E who : Commit(id, op, who, a, b)
         /\ b.num = prepared[id].ctx.num
         /\ b.num # 0 => b.num = assignments[a].active /\ attempts[a][b.num].tok = b.tok
         /\ op \in BoundOps => /\ b.num \in Numbers /\ b.num = assignments[a].active
                               /\ attempts[a][b.num] \in AttemptRecord
                               /\ BoundAttempt(id) = attempts[a][b.num]
         /\ op \notin BoundOps => b.num = 0
         /\ PreparedPart(id, op)
         /\ UNCHANGED <<schema, workflows, revisions, sends, followups, views>>
  <1>1. /\ a \in AssignmentIds /\ prepared[id].ctx \in Context
        /\ op \in BoundOps => /\ prepared[id].ctx.num \in Numbers
                              /\ prepared[id].ctx.num = assignments[a].active
                              /\ BoundAttempt(id) \in AttemptRecord
        /\ UNCHANGED <<schema, workflows, revisions, sends, followups, views>>
    BY ExecuteFacts DEF IInv
  <1>2. /\ Commit(id, op, session, a, b) /\ Scoped(a) /\ prepared[id].op = op
        /\ IF op \in BoundOps THEN RequireAttemptContext(a, prepared[id].ctx)
                              ELSE prepared[id].ctx.num = 0
        /\ prepared' = [prepared EXCEPT ![id] = NoPrepared]
    BY DEF Execute
  <1>3. op # "absent"
    BY DEF WorkerOps
  <1>4. b.num = prepared[id].ctx.num /\ b.tok = prepared[id].ctx.tok
    <2>1. BindingOf(prepared[id].ctx) = b
      BY <1>2, <1>3 DEF PreparedBound
    <2> QED
      BY <2>1 DEF BindingOf
  <1>5. b \in Binding
    <2>1. prepared[id] \in PreparedRecord
      BY DEF IInv, TypeOK
    <2> QED
      BY <2>1 DEF PreparedRecord
  <1>6. b.num # 0 => b.num = assignments[a].active /\ attempts[a][b.num].tok = b.tok
    BY <1>2, <1>4 DEF RequireAttemptContext
  <1>7. BoundAttempt(id) = attempts[a][b.num]
    BY <1>4 DEF BoundAttempt
  <1>8. op \in ActOps /\ PreparedPart(id, op)
    BY <1>2 DEF ActOps, PreparedPart
  <1> QED
    BY <1>1, <1>2, <1>4, <1>5, <1>6, <1>7, <1>8

\* The operations on the attempt an action is bound to.
LEMMA ExecutesBound ==
  ASSUME IInv, PreparedBound, NEW id \in Actions, NEW session \in Sessions, NEW op \in BoundOps,
         Execute(id, session, op), NEW a, a = prepared[id].asg, NEW b, b = prepared[id].bind,
         NEW u, BoundTo(id, u), Advances(attempts[a][b.num], u, op, id),
         AssignmentPart(id, op, a), NotePart(id, op, a, b)
  PROVE  Acts(id, op, a, b)
  <1>0. op \in WorkerOps /\ op \in MovingOps /\ op # "request_changes"
    BY DEF BoundOps, MovingOps, WorkerOps
  <1>1. /\ op \in ActOps /\ a \in AssignmentIds /\ Scoped(a) /\ b \in Binding
        /\ \E who : Commit(id, op, who, a, b)
        /\ b.num = prepared[id].ctx.num
        /\ b.num # 0 => b.num = assignments[a].active /\ attempts[a][b.num].tok = b.tok
        /\ b.num \in Numbers /\ b.num = assignments[a].active
        /\ PreparedPart(id, op)
        /\ UNCHANGED <<schema, workflows, revisions, sends, followups, views>>
    BY <1>0, Executes
  <1>2. attempts' = [attempts EXCEPT ![a][b.num] = u]
    BY <1>1 DEF BoundTo
  <1>3. OneAttempt(a, b.num, u)
    BY <1>1, <1>2, OneAttemptWritten DEF IInv
  <1>4. AttemptPart(id, op, a, b)
    BY <1>0, <1>1, <1>3 DEF AttemptPart, Touches
  <1>5. FollowupPart(id, op, a, b)
    BY <1>0, <1>1 DEF FollowupPart
  <1> QED
    BY <1>1, <1>4, <1>5 DEF Acts

LEMMA WorkerActs ==
  ASSUME IInv, PreparedBound, NEW id \in Actions, NEW session \in Sessions,
         \/ Start(id, session) \/ Decline(id, session) \/ ReportStatus(id, session)
         \/ Block(id, session) \/ Resume(id, session) \/ Submit(id, session)
         \/ AbortAttempt(id, session)
  PROVE  \E op \in ActOps, a \in AssignmentIds, b \in Binding : Acts(id, op, a, b)
  <1>0. PICK a, b : a = prepared[id].asg /\ b = prepared[id].bind
    OBVIOUS
  <1>a. BoundOps = {"report_status", "block", "resume", "submit", "abort_attempt"}
    BY DEF BoundOps, WorkerOps
  <1>b. {"start", "decline"} \cup BoundOps \subseteq WorkerOps
    BY DEF BoundOps, WorkerOps
  <1>c. \A op : Acts(id, op, a, b) => op \in ActOps /\ a \in AssignmentIds /\ b \in Binding
    BY DEF Acts
  <1>d. \A op \in BoundOps : Execute(id, session, op) =>
           /\ b.num = prepared[id].ctx.num
           /\ attempts[a][b.num] \in AttemptRecord
           /\ BoundAttempt(id) = attempts[a][b.num]
           /\ a \in AssignmentIds
    BY <1>0, <1>b, Executes
  <1>1. CASE Start(id, session)
    <2> DEFINE m == IF assignments[a].state = "awaiting_ack" THEN 1
                                                              ELSE assignments[a].active + 1
               new == [phase |-> "running", tok |-> id, rev |-> 1, statuses |-> {},
                       results |-> {}, term |-> None]
    <2>1. /\ Execute(id, session, "start") /\ m \in Numbers
          /\ \/ assignments[a].state = "awaiting_ack"
             \/ assignments[a].state = "retry_pending" /\ assignments[a].retry # None
          /\ attempts' = [attempts EXCEPT ![a][m] = new]
          /\ assignments' = [assignments EXCEPT ![a] = Started(a, m)]
          /\ UNCHANGED notes
      BY <1>0, <1>1 DEF Start
    <2>2. /\ "start" \in ActOps /\ a \in AssignmentIds /\ Scoped(a) /\ b \in Binding
          /\ \E who : Commit(id, "start", who, a, b)
          /\ b.num # 0 => b.num = assignments[a].active /\ attempts[a][b.num].tok = b.tok
          /\ PreparedPart(id, "start")
          /\ UNCHANGED <<schema, workflows, revisions, sends, followups, views>>
      BY <1>0, <1>b, <2>1, Executes
    <2>3. /\ assignments[a].active \in 0 .. MaxAttempt
          /\ assignments[a].state = "awaiting_ack" => assignments[a].active = 0
          /\ \A n \in Numbers : attempts[a][n].phase # "absent" <=> n <= assignments[a].active
      BY <2>2 DEF IInv, TypeOK, AssignmentRecord, OneLiveAttempt, Lifecycle!OneLive,
                  Lifecycle!Numbers
    <2>4. m = assignments[a].active + 1 /\ attempts[a][m].phase = "absent"
      BY <2>1, <2>3
    <2> HIDE DEF m
    <2>5. AttemptPart(id, "start", a, b)
      <3>1. OneAttempt(a, m, new)
        <4> HIDE DEF new
        <4> QED
          BY <2>1, <2>2, OneAttemptWritten DEF IInv
      <3> QED
        BY <2>1, <2>4, <3>1 DEF AttemptPart, Begins
    <2>6. AssignmentPart(id, "start", a)
      <3>1. Rewrites(assignments[a], Started(a, m), "start", id)
        BY <2>1, <2>2, <2>4, RewritesWritten DEF IInv
      <3>2. OneAssignment(a, Started(a, m))
        BY <2>1, <2>2, OneAssignmentWritten DEF IInv
      <3> QED
        BY <3>1, <3>2 DEF AssignmentPart, QuietOps
    <2>7. NotePart(id, "start", a, b) /\ FollowupPart(id, "start", a, b)
      BY <2>1, <2>2 DEF NotePart, FollowupPart, AnnouncedOps
    <2> QED
      BY <1>c, <2>2, <2>5, <2>6, <2>7 DEF Acts
  <1>2. CASE Decline(id, session)
    <2>1. /\ Execute(id, session, "decline") /\ assignments[a].state = "awaiting_ack"
          /\ assignments' = [assignments EXCEPT ![a] = Closed(a, "declined", 0, id)]
          /\ ScheduleForCoordinator(a, 0, id, "declined")
          /\ UNCHANGED attempts
      BY <1>0, <1>2 DEF Decline
    <2>2. /\ "decline" \in ActOps /\ a \in AssignmentIds /\ Scoped(a) /\ b \in Binding
          /\ \E who : Commit(id, "decline", who, a, b)
          /\ b.num = 0
          /\ PreparedPart(id, "decline")
          /\ UNCHANGED <<schema, workflows, revisions, sends, followups, views>>
      BY <1>0, <1>a, <1>b, <2>1, Executes
    <2>3. AttemptPart(id, "decline", a, b)
      BY <2>1 DEF AttemptPart
    <2>4. AssignmentPart(id, "decline", a)
      <3>1. Rewrites(assignments[a], Closed(a, "declined", 0, id), "decline", id)
        BY <2>1, <2>2, RewritesWritten DEF IInv, ClosingOps
      <3>2. OneAssignment(a, Closed(a, "declined", 0, id))
        BY <2>1, <2>2, OneAssignmentWritten DEF IInv
      <3> QED
        BY <3>1, <3>2 DEF AssignmentPart, QuietOps
    <2>5. NotePart(id, "decline", a, b)
      BY <2>1, <2>2 DEF NotePart, AnnouncedOps, Announcement, ScheduleForCoordinator
    <2>6. FollowupPart(id, "decline", a, b)
      BY <2>2 DEF FollowupPart
    <2> QED
      BY <1>c, <2>2, <2>3, <2>4, <2>5, <2>6 DEF Acts
  <1>3. CASE ReportStatus(id, session)
    <2> DEFINE t == attempts[a][b.num]
               u == [t EXCEPT !.rev = @ + 1, !.statuses = @ \cup {id}]
    <2>1. Execute(id, session, "report_status")
      BY <1>3 DEF ReportStatus
    <2>2. BoundAttempt(id) = t /\ t \in AttemptRecord
      BY <1>a, <1>d, <2>1
    <2>3. /\ t.phase \in LivePhases /\ BoundTo(id, u)
          /\ AssignmentPart(id, "report_status", a) /\ NotePart(id, "report_status", a, b)
      BY <1>3, <2>2 DEF ReportStatus, LivePhases, AssignmentPart, QuietOps, NotePart, AnnouncedOps
    <2>4. Advances(t, u, "report_status", id)
      BY <2>2, <2>3, AdvancesStatus
    <2> HIDE DEF u
    <2> QED
      BY <1>0, <1>a, <1>c, <2>1, <2>3, <2>4, ExecutesBound
  <1>4. CASE Block(id, session)
    <2>1. Execute(id, session, "block")
      BY <1>4 DEF Block
    <2>2. BoundAttempt(id) = attempts[a][b.num] /\ attempts[a][b.num] \in AttemptRecord
          /\ b.num = prepared[id].ctx.num
      BY <1>a, <1>d, <2>1
    <2> DEFINE t == attempts[a][b.num]
    <2>3. /\ t.phase \in LivePhases /\ BoundTo(id, InPhase(t, "blocked"))
          /\ AssignmentPart(id, "block", a) /\ NotePart(id, "block", a, b)
      BY <1>0, <1>4, <2>2 DEF Block, LivePhases, AssignmentPart, QuietOps, NotePart, AnnouncedOps,
         Announcement, ScheduleForCoordinator
    <2>4. Advances(t, InPhase(t, "blocked"), "block", id)
      BY <2>2, <2>3, AdvancesInPhase DEF EndOps, LivePhases
    <2> QED
      BY <1>0, <1>a, <1>c, <2>1, <2>3, <2>4, ExecutesBound, ZenonT(60)
  <1>5. CASE Resume(id, session)
    <2>1. Execute(id, session, "resume")
      BY <1>5 DEF Resume
    <2>2. BoundAttempt(id) = attempts[a][b.num] /\ attempts[a][b.num] \in AttemptRecord
      BY <1>a, <1>d, <2>1
    <2> DEFINE t == attempts[a][b.num]
    <2>3. /\ t.phase \in LivePhases /\ BoundTo(id, InPhase(t, "running"))
          /\ AssignmentPart(id, "resume", a) /\ NotePart(id, "resume", a, b)
      BY <1>0, <1>5, <2>2 DEF Resume, LivePhases, AssignmentPart, QuietOps, NotePart, AnnouncedOps
    <2>4. Advances(t, InPhase(t, "running"), "resume", id)
      BY <2>2, <2>3, AdvancesInPhase DEF EndOps, LivePhases
    <2> QED
      BY <1>0, <1>a, <1>c, <2>1, <2>3, <2>4, ExecutesBound, ZenonT(60)
  <1>6. CASE Submit(id, session)
    <2>1. Execute(id, session, "submit")
      BY <1>6 DEF Submit
    <2>2. BoundAttempt(id) = attempts[a][b.num] /\ attempts[a][b.num] \in AttemptRecord
          /\ b.num = prepared[id].ctx.num
      BY <1>a, <1>d, <2>1
    <2> DEFINE t == attempts[a][b.num]
               u == [InPhase(t, "review_ready") EXCEPT !.results = @ \cup {id}]
    <2>3. /\ t.phase \in LivePhases /\ BoundTo(id, u)
          /\ AssignmentPart(id, "submit", a) /\ NotePart(id, "submit", a, b)
      BY <1>0, <1>6, <2>2 DEF Submit, LivePhases, AssignmentPart, QuietOps, NotePart, AnnouncedOps,
         Announcement
    <2>4. Advances(t, u, "submit", id)
      BY <2>2, <2>3, AdvancesSubmit
    <2> HIDE DEF u
    <2> QED
      BY <1>0, <1>a, <1>c, <2>1, <2>3, <2>4, ExecutesBound
  <1>7. CASE AbortAttempt(id, session)
    <2>1. Execute(id, session, "abort_attempt")
      BY <1>7 DEF AbortAttempt
    <2>2. BoundAttempt(id) = attempts[a][b.num] /\ attempts[a][b.num] \in AttemptRecord
          /\ b.num = prepared[id].ctx.num /\ a \in AssignmentIds
      BY <1>a, <1>d, <2>1
    <2> DEFINE t == attempts[a][b.num]
    <2>3. /\ t.phase \in LivePhases /\ BoundTo(id, EndedBy(t, "aborted", id))
          /\ assignments' = [assignments EXCEPT ![a] = RetryPending(a)]
          /\ ScheduleForCoordinator(a, b.num, id, "attempt_aborted")
      BY <1>0, <1>7, <2>2 DEF AbortAttempt
    <2>4. AssignmentPart(id, "abort_attempt", a)
      <3>1. Rewrites(assignments[a], RetryPending(a), "abort_attempt", id)
        BY <2>2, RewritesRetryPending DEF IInv
      <3>2. OneAssignment(a, RetryPending(a))
        BY <2>2, <2>3, OneAssignmentWritten DEF IInv
      <3> QED
        BY <3>1, <3>2 DEF AssignmentPart, QuietOps
    <2>5. NotePart(id, "abort_attempt", a, b)
      BY <2>3 DEF NotePart, AnnouncedOps, Announcement, ScheduleForCoordinator
    <2>6. Advances(t, EndedBy(t, "aborted", id), "abort_attempt", id)
      <3>1. "abort_attempt" \in EndOps /\ EndOf("abort_attempt") = "aborted"
        BY DEF EndOps, EndOf
      <3> QED
        BY <2>2, <2>3, <3>1, AdvancesEnded
    <2> QED
      BY <1>0, <1>a, <1>c, <2>1, <2>3, <2>4, <2>5, <2>6, ExecutesBound
  <1> QED
    BY <1>1, <1>2, <1>3, <1>4, <1>5, <1>6, <1>7

\* What a seat's decision on the attempt it has read is bound to.
LEMMA SeatBinding ==
  ASSUME IInv, NEW seat \in Seats, views[seat].asg # None, NEW a, a = views[seat].asg,
         NEW b, b = BindingOf(views[seat].ctx)
  PROVE  /\ a \in AssignmentIds /\ b \in Binding /\ views[seat].ctx \in Context
         /\ b.num = views[seat].ctx.num /\ b.tok = views[seat].ctx.tok
         /\ RequireAttemptContext(a, views[seat].ctx) =>
              /\ b.num \in Numbers /\ b.num = assignments[a].active
              /\ attempts[a][b.num].tok = b.tok
              /\ attempts[a][b.num] \in AttemptRecord
  <1>1. a \in AssignmentIds /\ b \in Binding /\ views[seat].ctx \in Context
    BY ViewFacts DEF IInv
  <1>2. b.num = views[seat].ctx.num /\ b.tok = views[seat].ctx.tok
    BY DEF BindingOf
  <1>3. RequireAttemptContext(a, views[seat].ctx) =>
              /\ b.num \in Numbers /\ b.num = assignments[a].active
              /\ attempts[a][b.num] \in AttemptRecord
    BY <1>1, <1>2, AttemptContextFacts DEF IInv
  <1> QED
    BY <1>1, <1>2, <1>3 DEF RequireAttemptContext

LEMMA ReviewActs ==
  ASSUME IInv, NEW id \in Actions, NEW seat \in Seats,
         RequestChanges(id, seat) \/ AcceptResult(id, seat) \/ FailResult(id, seat)
  PROVE  \E op \in ActOps, a \in AssignmentIds, b \in Binding : Acts(id, op, a, b)
  <1>0. PICK a, b, n : a = views[seat].asg /\ b = BindingOf(views[seat].ctx) /\ n = b.num
    OBVIOUS
  <1> DEFINE t == attempts[a][n]
  <1>1. ASSUME NEW op \in {"request_changes", "accept_result", "fail_result"},
               Review(id, seat, op), NEW u, attempts' = [attempts EXCEPT ![a][n] = u],
               Advances(t, u, op, id),
               AssignmentPart(id, op, a), NotePart(id, op, a, b), FollowupPart(id, op, a, b)
        PROVE  op \in ActOps /\ a \in AssignmentIds /\ b \in Binding /\ Acts(id, op, a, b)
    <2>1. /\ Commit(id, op, seat, a, b) /\ a # None /\ Scoped(a)
          /\ RequireAttemptContext(a, views[seat].ctx)
          /\ UNCHANGED <<schema, workflows, revisions, sends, prepared, views>>
      BY <1>0, <1>1 DEF Review
    <2>2. /\ a \in AssignmentIds /\ b \in Binding
          /\ n \in Numbers /\ n = assignments[a].active /\ attempts[a][n].tok = b.tok
      BY <1>0, <2>1, SeatBinding
    <2>3. OneAttempt(a, n, u)
      BY <1>1, <2>2, OneAttemptWritten DEF IInv
    <2>4. op \in MovingOps /\ op \in ActOps /\ op \notin WorkerOps
      BY DEF MovingOps, ActOps, TerminalOps, WorkerOps
    <2>5. AttemptPart(id, op, a, b)
      BY <1>0, <1>1, <2>2, <2>3, <2>4 DEF AttemptPart, Touches
    <2>6. PreparedPart(id, op)
      BY <2>1, <2>4 DEF PreparedPart
    <2>7. \E who : Commit(id, op, who, a, b)
      BY <2>1
    <2> QED
      BY <1>0, <1>1, <2>1, <2>2, <2>4, <2>5, <2>6, <2>7 DEF Acts
  <1>2. \A op \in {"request_changes", "accept_result", "fail_result"} : Review(id, seat, op) =>
           /\ a \in AssignmentIds /\ n = views[seat].ctx.num /\ n \in Numbers
           /\ t \in AttemptRecord /\ t.phase \in LivePhases
    <2> TAKE op \in {"request_changes", "accept_result", "fail_result"}
    <2> HAVE Review(id, seat, op)
    <2>1. /\ a # None /\ RequireAttemptContext(a, views[seat].ctx)
          /\ attempts[a][views[seat].ctx.num].phase = "review_ready"
      BY <1>0 DEF Review
    <2> QED
      BY <1>0, <2>1, SeatBinding DEF LivePhases
  <1>3. CASE RequestChanges(id, seat)
    <2>1. Review(id, seat, "request_changes")
      BY <1>3 DEF RequestChanges
    <2>2. /\ a \in AssignmentIds /\ n = views[seat].ctx.num /\ n \in Numbers
          /\ t \in AttemptRecord /\ t.phase \in LivePhases
      BY <1>2, <2>1
    <2>3. /\ attempts' = [attempts EXCEPT ![a][n] = InPhase(t, "running")]
          /\ ScheduleFollowup(a, n, id) /\ UNCHANGED <<assignments, notes>>
      BY <1>0, <1>3, <2>2 DEF RequestChanges
    <2>4. Advances(t, InPhase(t, "running"), "request_changes", id)
      BY <2>2, AdvancesInPhase DEF EndOps, LivePhases
    <2>5. /\ AssignmentPart(id, "request_changes", a) /\ NotePart(id, "request_changes", a, b)
          /\ FollowupPart(id, "request_changes", a, b)
      BY <1>0, <2>3 DEF AssignmentPart, QuietOps, NotePart, AnnouncedOps, FollowupPart
    <2> QED
      BY <1>1, <2>1, <2>3, <2>4, <2>5
  <1>4. CASE AcceptResult(id, seat)
    <2>1. Review(id, seat, "accept_result")
      BY <1>4 DEF AcceptResult
    <2>2. /\ a \in AssignmentIds /\ n = views[seat].ctx.num /\ n \in Numbers
          /\ t \in AttemptRecord /\ t.phase \in LivePhases
      BY <1>2, <2>1
    <2>3. /\ attempts' = [attempts EXCEPT ![a][n] = EndedBy(t, "completed", id)]
          /\ assignments[a].state # "closed"
          /\ assignments' = [assignments EXCEPT ![a] = Closed(a, "completed", n, id)]
          /\ ScheduleForCoordinator(a, n, id, "terminal_closure") /\ UNCHANGED followups
      BY <1>0, <1>4, <2>2 DEF AcceptResult, CanClose
    <2>4. Advances(t, EndedBy(t, "completed", id), "accept_result", id)
      <3>1. "accept_result" \in EndOps /\ EndOf("accept_result") = "completed"
        BY DEF EndOps, EndOf
      <3> QED
        BY <2>2, <3>1, AdvancesEnded
    <2>5. AssignmentPart(id, "accept_result", a)
      <3>1. Rewrites(assignments[a], Closed(a, "completed", n, id), "accept_result", id)
        BY <2>2, <2>3, RewritesWritten DEF IInv, ClosingOps
      <3>2. OneAssignment(a, Closed(a, "completed", n, id))
        BY <2>2, <2>3, OneAssignmentWritten DEF IInv
      <3> QED
        BY <3>1, <3>2 DEF AssignmentPart, QuietOps
    <2>6. NotePart(id, "accept_result", a, b) /\ FollowupPart(id, "accept_result", a, b)
      BY <1>0, <2>3 DEF NotePart, AnnouncedOps, Announcement, ScheduleForCoordinator, FollowupPart
    <2> QED
      BY <1>1, <2>1, <2>3, <2>4, <2>5, <2>6
  <1>5. CASE FailResult(id, seat)
    <2>1. Review(id, seat, "fail_result")
      BY <1>5 DEF FailResult
    <2>2. /\ a \in AssignmentIds /\ n = views[seat].ctx.num /\ n \in Numbers
          /\ t \in AttemptRecord /\ t.phase \in LivePhases
      BY <1>2, <2>1
    <2>3. /\ attempts' = [attempts EXCEPT ![a][n] = EndedBy(t, "failed", id)]
          /\ assignments' = [assignments EXCEPT ![a] = RetryPending(a)]
          /\ ScheduleForCoordinator(a, n, id, "owner_action_required") /\ UNCHANGED followups
      BY <1>0, <1>5, <2>2 DEF FailResult
    <2>4. Advances(t, EndedBy(t, "failed", id), "fail_result", id)
      <3>1. "fail_result" \in EndOps /\ EndOf("fail_result") = "failed"
        BY DEF EndOps, EndOf
      <3> QED
        BY <2>2, <3>1, AdvancesEnded
    <2>5. AssignmentPart(id, "fail_result", a)
      <3>1. Rewrites(assignments[a], RetryPending(a), "fail_result", id)
        BY <2>2, RewritesRetryPending DEF IInv
      <3>2. OneAssignment(a, RetryPending(a))
        BY <2>2, <2>3, OneAssignmentWritten DEF IInv
      <3> QED
        BY <3>1, <3>2 DEF AssignmentPart, QuietOps
    <2>6. NotePart(id, "fail_result", a, b) /\ FollowupPart(id, "fail_result", a, b)
      BY <1>0, <2>3 DEF NotePart, AnnouncedOps, Announcement, ScheduleForCoordinator, FollowupPart
    <2> QED
      BY <1>1, <2>1, <2>3, <2>4, <2>5, <2>6
  <1> QED
    BY <1>3, <1>4, <1>5

LEMMA CancelActs ==
  ASSUME IInv, NEW id \in Actions, NEW seat \in Seats,
         TerminalCancel(id, seat) \/ CancelAssignment(id, seat)
  PROVE  \E op \in ActOps, a \in AssignmentIds, b \in Binding : Acts(id, op, a, b)
  <1>0. PICK a, b, n : a = views[seat].asg /\ b = BindingOf(views[seat].ctx)
                       /\ n = assignments[a].active
    OBVIOUS
  <1> DEFINE t == attempts[a][n]
  <1>1. /\ a # None /\ CancelWith(id, a, views[seat].ctx)
        /\ \E op \in CancelOps : Commit(id, op, seat, a, b)
    BY <1>0 DEF TerminalCancel, CancelAssignment, CancelOps
  <1>2. PICK op \in CancelOps : Commit(id, op, seat, a, b)
    BY <1>1
  <1>3. /\ a \in AssignmentIds /\ b \in Binding /\ views[seat].ctx \in Context
        /\ b.num = views[seat].ctx.num
        /\ RequireAttemptContext(a, views[seat].ctx) =>
              /\ b.num \in Numbers /\ b.num = n /\ attempts[a][b.num].tok = b.tok
              /\ t \in AttemptRecord
    BY <1>0, <1>1, SeatBinding
  <1>4. IF n = 0 THEN b.num = 0 ELSE RequireAttemptContext(a, views[seat].ctx)
    BY <1>0, <1>1, <1>3 DEF CancelWith, RequireCancelContext
  <1>5. b.num = n /\ (b.num # 0 => attempts[a][b.num].tok = b.tok)
    BY <1>3, <1>4
  <1>6. op \in ActOps /\ op \notin WorkerOps /\ op \in ClosingOps /\ op \in EndOps
        /\ op \notin QuietOps /\ op \in AnnouncedOps /\ op # "submit" /\ op # "request_changes"
        /\ EndOf(op) = "cancelled" /\ Announcement(op) = "terminal_closure"
    BY DEF CancelOps, ActOps, TerminalOps, WorkerOps, ClosingOps, EndOps, QuietOps, AnnouncedOps,
           EndOf, Announcement
  <1>7. AttemptPart(id, op, a, b)
    <2>1. CASE n # 0 /\ t.phase \notin EndPhases
      <3>1. t \in AttemptRecord /\ n \in Numbers
        BY <1>3, <1>4, <2>1
      <3>2. t.phase # "absent"
        BY <1>0, <1>3, <3>1 DEF IInv, OneLiveAttempt, Lifecycle!OneLive, Lifecycle!Numbers
      <3>3. t.phase \in LivePhases
        BY <2>1, <3>1, <3>2 DEF AttemptRecord, Phases
      <3>4. attempts' = [attempts EXCEPT ![a][n] = EndedBy(t, "cancelled", id)]
        BY <1>0, <1>1, <2>1 DEF CancelWith
      <3>5. OneAttempt(a, n, EndedBy(t, "cancelled", id))
        BY <1>3, <3>1, <3>4, OneAttemptWritten DEF IInv
      <3>6. Advances(t, EndedBy(t, "cancelled", id), op, id)
        BY <1>6, <3>1, <3>3, AdvancesEnded
      <3> QED
        BY <1>0, <1>5, <3>1, <3>5, <3>6 DEF AttemptPart, Touches
    <2>2. CASE ~(n # 0 /\ t.phase \notin EndPhases)
      <3>1. UNCHANGED attempts
        BY <1>0, <1>1, <2>2 DEF CancelWith
      <3> QED
        BY <3>1 DEF AttemptPart
    <2> QED
      BY <2>1, <2>2
  <1>8. AssignmentPart(id, op, a)
    <2>1. /\ assignments[a].state # "closed"
          /\ assignments' = [assignments EXCEPT ![a] = Closed(a, "cancelled", n, id)]
      BY <1>0, <1>1 DEF CancelWith, CanClose
    <2>2. Rewrites(assignments[a], Closed(a, "cancelled", n, id), op, id)
      BY <1>3, <1>6, <2>1, RewritesWritten DEF IInv
    <2>3. OneAssignment(a, Closed(a, "cancelled", n, id))
      BY <1>3, <2>1, OneAssignmentWritten DEF IInv
    <2> QED
      BY <1>6, <2>2, <2>3 DEF AssignmentPart
  <1>9. NotePart(id, op, a, b) /\ FollowupPart(id, op, a, b) /\ PreparedPart(id, op)
    BY <1>0, <1>1, <1>3, <1>6
       DEF CancelWith, NotePart, ScheduleForCoordinator, FollowupPart, PreparedPart
  <1>10. Scoped(a) /\ UNCHANGED <<schema, workflows, revisions, sends, views>>
    BY <1>1 DEF CancelWith
  <1>11. \E who : Commit(id, op, who, a, b)
    BY <1>2
  <1>12. Acts(id, op, a, b)
    BY <1>0, <1>3, <1>5, <1>6, <1>7, <1>8, <1>9, <1>10, <1>11 DEF Acts
  <1> QED
    BY <1>3, <1>6, <1>12

LEMMA AuthorizeActs ==
  ASSUME IInv, NEW id \in Actions, NEW seat \in Seats, AuthorizeAttemptRetry(id, seat)
  PROVE  \E op \in ActOps, a \in AssignmentIds, b \in Binding : Acts(id, op, a, b)
  <1> DEFINE op == "authorize_attempt_retry"
  <1>0. PICK a, b : a = views[seat].asg /\ b = NoBinding
    OBVIOUS
  <1>1. /\ a # None /\ Scoped(a) /\ Commit(id, op, seat, a, b)
        /\ assignments[a].state = "retry_pending" /\ assignments[a].retry = None
        /\ assignments' = [assignments EXCEPT ![a].rev = @ + 1, ![a].retry = id]
        /\ UNCHANGED <<schema, workflows, revisions, attempts, sends, notes, followups,
                       prepared, views>>
    BY <1>0 DEF AuthorizeAttemptRetry
  <1>2. a \in AssignmentIds
    BY <1>0, <1>1, ViewFacts DEF IInv
  <1> DEFINE y == [assignments[a] EXCEPT !.rev = @ + 1, !.retry = id]
  <1>3. assignments' = [assignments EXCEPT ![a] = y]
    BY <1>1, <1>2 DEF IInv, TypeOK
  <1>4. OneAssignment(a, y)
    <2> HIDE DEF y
    <2> QED
      BY <1>2, <1>3, OneAssignmentWritten DEF IInv
  <1>5. Rewrites(assignments[a], y, op, id)
    <2>1. assignments[a] \in AssignmentRecord
      BY <1>2 DEF IInv, TypeOK
    <2> QED
      BY <1>1, <2>1 DEF Rewrites, AssignmentRecord, ClosingOps
  <1>6. AssignmentPart(id, op, a)
    <2> HIDE DEF y
    <2> QED
      BY <1>4, <1>5 DEF AssignmentPart, QuietOps
  <1>7. b \in Binding /\ b.num = 0
    BY <1>0 DEF NoBinding, Binding
  <1>8. /\ AttemptPart(id, op, a, b) /\ NotePart(id, op, a, b) /\ FollowupPart(id, op, a, b)
        /\ PreparedPart(id, op) /\ op \in ActOps
    BY <1>1 DEF AttemptPart, NotePart, AnnouncedOps, FollowupPart, PreparedPart, WorkerOps, ActOps
  <1>9. \E who : Commit(id, op, who, a, b)
    BY <1>1
  <1>10. Acts(id, op, a, b)
    BY <1>1, <1>2, <1>6, <1>7, <1>8, <1>9 DEF Acts
  <1> QED
    BY <1>2, <1>7, <1>8, <1>10

LEMMA CloseActs ==
  ASSUME IInv, NEW id \in Actions, NEW seat \in Seats, CloseAssignment(id, seat)
  PROVE  \E op \in ActOps, a \in AssignmentIds, b \in Binding : Acts(id, op, a, b)
  <1> DEFINE op == "close_assignment"
  <1>0. PICK a, b, n, reason :
             /\ a = views[seat].asg /\ b = BindingOf(views[seat].ctx) /\ n = views[seat].ctx.num
             /\ reason = CloseReason(attempts[a][n].phase)
    OBVIOUS
  <1>1. /\ a # None /\ Scoped(a) /\ Commit(id, op, seat, a, b)
        /\ RequireAttemptContext(a, views[seat].ctx)
        /\ assignments[a].state # "closed"
        /\ assignments' = [assignments EXCEPT ![a] = Closed(a, reason, n, id)]
        /\ ScheduleForCoordinator(a, n, id, "terminal_closure")
        /\ UNCHANGED <<schema, workflows, revisions, attempts, sends, followups, prepared, views>>
    BY <1>0 DEF CloseAssignment, CanClose
  <1>2. /\ a \in AssignmentIds /\ b \in Binding /\ b.num = n
        /\ b.num = assignments[a].active /\ attempts[a][b.num].tok = b.tok
    <2>1. views[seat].asg # None /\ a = views[seat].asg /\ b = BindingOf(views[seat].ctx)
      BY <1>0, <1>1
    <2>2. /\ a \in AssignmentIds /\ b \in Binding /\ b.num = views[seat].ctx.num
          /\ RequireAttemptContext(a, views[seat].ctx) =>
               b.num = assignments[a].active /\ attempts[a][b.num].tok = b.tok
      BY <2>1, SeatBinding
    <2> QED
      BY <1>0, <1>1, <2>2
  <1>3. reason # "none"
    BY <1>0 DEF CloseReason
  <1>4. AssignmentPart(id, op, a)
    <2>1. Rewrites(assignments[a], Closed(a, reason, n, id), op, id)
      BY <1>1, <1>2, <1>3, RewritesWritten DEF IInv, ClosingOps
    <2>2. OneAssignment(a, Closed(a, reason, n, id))
      BY <1>1, <1>2, OneAssignmentWritten DEF IInv
    <2> QED
      BY <2>1, <2>2 DEF AssignmentPart, QuietOps
  <1>5. /\ AttemptPart(id, op, a, b) /\ FollowupPart(id, op, a, b)
        /\ PreparedPart(id, op) /\ op \in ActOps
    BY <1>1 DEF AttemptPart, FollowupPart, PreparedPart, WorkerOps, ActOps
  <1>6. NotePart(id, op, a, b)
    BY <1>1, <1>2 DEF NotePart, AnnouncedOps, Announcement, ScheduleForCoordinator
  <1>7. \E who : Commit(id, op, who, a, b)
    BY <1>1
  <1>8. Acts(id, op, a, b)
    BY <1>1, <1>2, <1>4, <1>5, <1>6, <1>7 DEF Acts
  <1> QED
    BY <1>2, <1>5, <1>8

-----------------------------------------------------------------------------
(* What a step never takes back. *)

\* An assignment keeps what it is about, and its revision tells its versions apart.
AssignmentsGrow ==
    \A a \in AssignmentIds : assignments[a].state # "absent" =>
       /\ assignments'[a].state # "absent"
       /\ assignments'[a].proj = assignments[a].proj
       /\ assignments'[a].task = assignments[a].task
       /\ assignments'[a].trev = assignments[a].trev
       /\ assignments'[a].assignee = assignments[a].assignee
       /\ assignments'[a] = assignments[a] \/ assignments'[a].rev > assignments[a].rev

\* The same for an attempt and its token.
AttemptsGrow ==
    \A a \in AssignmentIds, n \in Numbers : attempts[a][n].phase # "absent" =>
       /\ attempts'[a][n].phase # "absent"
       /\ attempts'[a][n].tok = attempts[a][n].tok
       /\ attempts'[a][n] = attempts[a][n] \/ attempts'[a][n].rev > attempts[a][n].rev

PublishedStay ==
    /\ \A t \in Tasks, r \in Revisions :
          revisions[t][r].wf # None => revisions'[t][r] = revisions[t][r]
    /\ \A w \in Workflows : workflows[w].rev > 0 =>
          /\ workflows'[w].rev > 0
          /\ workflows'[w].seat = workflows[w].seat
          /\ workflows'[w].proj = workflows[w].proj

ReceiptsStay == \A i \in Actions : receipts[i].op # "absent" => receipts'[i] = receipts[i]

LEMMA ReceiptsAfter ==
  ASSUME TypeOK, NEW id \in Actions, NEW op, NEW who, NEW on, NEW b, Commit(id, op, who, on, b)
  PROVE  /\ receipts[id].op = "absent"
         /\ prepared[id].op \in {"absent", op}
         /\ receipts'[id].op = op /\ receipts'[id].on = on /\ receipts'[id].bind = b
         /\ \A i \in Actions : i # id => receipts'[i] = receipts[i]
         /\ ReceiptsStay
  <1>1. receipts' = [receipts EXCEPT ![id] = [op |-> op, who |-> who, on |-> on, bind |-> b]]
    BY DEF Commit
  <1>2. receipts'[id] = [op |-> op, who |-> who, on |-> on, bind |-> b]
    BY <1>1 DEF TypeOK
  <1>3. \A i \in Actions : i # id => receipts'[i] = receipts[i]
    BY <1>1 DEF TypeOK
  <1>4. receipts[id].op = "absent" /\ prepared[id].op \in {"absent", op}
    BY DEF Commit
  <1>5. receipts'[id].op = op /\ receipts'[id].on = on /\ receipts'[id].bind = b
    BY <1>2
  <1> QED
    BY <1>3, <1>4, <1>5 DEF ReceiptsStay

LEMMA ActsGrow ==
  ASSUME IInv, NEW id \in Actions, NEW op, NEW a, NEW b, Acts(id, op, a, b)
  PROVE  AssignmentsGrow /\ AttemptsGrow /\ PublishedStay /\ ReceiptsStay
  <1>0. op \in ActOps /\ a \in AssignmentIds /\ assignments[a].state # "absent"
    BY DEF Acts, Scoped
  <1>1. AssignmentsGrow
    <2>1. CASE op \in QuietOps
      BY <2>1 DEF Acts, AssignmentPart, AssignmentsGrow
    <2>2. CASE op \notin QuietOps
      <3>1. PICK y : Rewrites(assignments[a], y, op, id) /\ OneAssignment(a, y)
        BY <2>2 DEF Acts, AssignmentPart
      <3>2. y.state # "absent"
        BY <1>0, <2>2, <3>1 DEF Rewrites, QuietOps, ActOps, WorkerOps, TerminalOps, ClosingOps
      <3>3. assignments[a].rev \in Local
        BY <1>0 DEF IInv, TypeOK, AssignmentRecord
      <3>4. /\ y.proj = assignments[a].proj /\ y.task = assignments[a].task
            /\ y.trev = assignments[a].trev /\ y.assignee = assignments[a].assignee
            /\ y.rev > assignments[a].rev
        BY <3>1, <3>3 DEF Rewrites
      <3> QED
        BY <3>1, <3>2, <3>4 DEF OneAssignment, AssignmentsGrow
    <2> QED
      BY <2>1, <2>2
  <1>2. AttemptsGrow
    <2>1. CASE UNCHANGED attempts
      BY <2>1 DEF AttemptsGrow
    <2>2. CASE Touches(id, op, a, b.num)
      <3>1. PICK u : Advances(attempts[a][b.num], u, op, id) /\ OneAttempt(a, b.num, u)
        BY <2>2 DEF Touches
      <3>2. attempts[a][b.num].rev \in Local
        <4>1. b.num \in Numbers
          BY <2>2 DEF Touches
        <4>2. attempts[a][b.num] \in AttemptRecord
          BY <1>0, <4>1 DEF IInv, TypeOK
        <4> QED
          BY <4>2 DEF AttemptRecord
      <3>3. /\ u.phase # "absent" /\ u.tok = attempts[a][b.num].tok
            /\ u.rev > attempts[a][b.num].rev
        BY <3>1, <3>2 DEF Advances, EndOf, LivePhases
      <3> QED
        BY <3>1, <3>3 DEF OneAttempt, AttemptsGrow
    <2>3. CASE Begins(id, a)
      BY <2>3 DEF Begins, OneAttempt, AttemptsGrow
    <2> QED
      BY <2>1, <2>2, <2>3 DEF Acts, AttemptPart
  <1>3. PublishedStay
    BY DEF Acts, PublishedStay
  <1>4. ReceiptsStay
    BY ReceiptsAfter DEF Acts, IInv
  <1> QED
    BY <1>1, <1>2, <1>3, <1>4

-----------------------------------------------------------------------------
(* The kinds of steps. *)

\* Operations that decide nothing about an attempt.
PlainOps == {"create_revision", "create_project_revision", "assign_and_dispatch",
             "assign_project_and_dispatch", "retry_delivery", "record_communication_event",
             "record_completion_notification_fact", "record_worker_followup_fact"}

\* The two ways to publish, and the two ways to assign, differ in the project.
Publishes(id, seat, w, t, r, proj, auth) ==
    /\ \E op \in PlainOps : Commit(id, op, seat, w, NoBinding)
    /\ TouchWorkflow(w, seat, proj)
    /\ PublishRevision(t, r, w, proj, auth)
    /\ IF proj = None THEN schema = "V2" /\ schema' = "V2" ELSE schema' = "V3"
    /\ UNCHANGED <<assignments, attempts, sends, notes, followups, prepared, views>>

Dispatches(id, seat, a, sd, msg, t, r, worker) ==
    /\ \E op \in PlainOps : Commit(id, op, seat, a, NoBinding)
    /\ Assign(seat, a, sd, msg, t, r, worker)
    /\ IF revisions[t][r].proj = None THEN schema = "V2" /\ schema' = "V2" ELSE schema' = "V3"
    /\ UNCHANGED <<workflows, revisions, attempts, notes, followups, prepared, views>>

ActStep == \E id \in Actions, op \in ActOps, a \in AssignmentIds, b \in Binding :
              Acts(id, op, a, b)
QueryStep == \E seat \in Seats, a \in AssignmentIds : SeatedQuery(seat, a)
PrepareStep == \E id \in Actions, session \in Sessions, op \in WorkerOps, a \in AssignmentIds :
                  PrepareWorkerAction(id, session, op, a)
RefreshStep == \E id \in Actions, session \in Sessions : RefreshWorkerAction(id, session)
PublishStep == \E id \in Actions, seat \in Seats, w \in Workflows, t \in Tasks, r \in Revisions,
                  proj \in Scope, auth \in Seats : Publishes(id, seat, w, t, r, proj, auth)
DispatchStep == \E id \in Actions, seat \in Seats, a \in AssignmentIds, sd \in SendIds,
                   msg \in MessageIds, t \in Tasks, r \in Revisions, worker \in Sessions :
                   Dispatches(id, seat, a, sd, msg, t, r, worker)
DeliveryStep == \E id \in Actions, seat \in Seats, sd \in SendIds, msg \in MessageIds :
                   RetryDelivery(id, seat, sd, msg)
EventStep == \E id \in Actions, sd \in SendIds, kind \in CommKinds :
                RecordCommunicationEvent(id, sd, kind)
NoteStep == \E id \in Actions, x \in notes, fact \in FactKinds :
               RecordCompletionNotificationFact(id, x, fact)
FollowupStep == \E id \in Actions, x \in followups, fact \in FactKinds :
                   RecordWorkerFollowupFact(id, x, fact)

LEMMA StepKinds ==
  ASSUME IInv, PreparedBound, [Next]_vars
  PROVE  \/ ActStep \/ QueryStep \/ PrepareStep \/ RefreshStep \/ PublishStep \/ DispatchStep
         \/ DeliveryStep \/ EventStep \/ NoteStep \/ FollowupStep \/ UNCHANGED vars
  <1>1. ASSUME NEW id \in Actions, NEW seat \in Seats, Publish(id, seat)
        PROVE  PublishStep
    <2>1. PICK w \in Workflows, t \in Tasks, r \in Revisions, auth \in Seats :
             \/ CreateRevision(id, seat, w, t, r, auth)
             \/ \E proj \in Projects : CreateProjectRevision(id, seat, proj, w, t, r, auth)
      BY <1>1 DEF Publish
    <2>2. CASE CreateRevision(id, seat, w, t, r, auth)
      <3>1. Publishes(id, seat, w, t, r, None, auth)
        BY <2>2 DEF CreateRevision, Publishes, PlainOps
      <3> QED
        BY <3>1 DEF PublishStep
    <2>3. ASSUME NEW proj \in Projects, CreateProjectRevision(id, seat, proj, w, t, r, auth)
          PROVE  PublishStep
      <3>1. Publishes(id, seat, w, t, r, proj, auth)
        BY <2>3 DEF CreateProjectRevision, Publishes, PlainOps
      <3> QED
        BY <3>1 DEF PublishStep
    <2> QED
      BY <2>1, <2>2, <2>3
  <1>2. ASSUME NEW id \in Actions, NEW seat \in Seats, Dispatch(id, seat)
        PROVE  DispatchStep
    <2>1. PICK a \in AssignmentIds, sd \in SendIds, msg \in MessageIds, t \in Tasks,
               r \in Revisions, worker \in Sessions :
             \/ AssignAndDispatch(id, seat, a, sd, msg, t, r, worker)
             \/ \E proj \in Projects :
                    AssignProjectAndDispatch(id, seat, a, sd, msg, proj, t, r, worker)
      BY <1>2 DEF Dispatch
    <2>2. Dispatches(id, seat, a, sd, msg, t, r, worker)
      BY <2>1 DEF AssignAndDispatch, AssignProjectAndDispatch, Dispatches, PlainOps
    <2> QED
      BY <2>2 DEF DispatchStep
  <1>3. ASSUME NEW id \in Actions, NEW seat \in Seats, SeatAction(id, seat)
        PROVE  PublishStep \/ DispatchStep \/ DeliveryStep \/ ActStep
    BY <1>1, <1>2, <1>3, ReviewActs, CancelActs, AuthorizeActs, CloseActs
       DEF SeatAction, DeliveryStep, ActStep
  <1>4. ASSUME NEW id \in Actions, NEW session \in Sessions, WorkerAction(id, session)
        PROVE  PrepareStep \/ RefreshStep \/ ActStep
    BY <1>4, WorkerActs DEF WorkerAction, PrepareStep, RefreshStep, ActStep
  <1>5. ASSUME NEW id \in Actions, SystemAction(id)
        PROVE  EventStep \/ NoteStep \/ FollowupStep
    BY <1>5 DEF SystemAction, EventStep, NoteStep, FollowupStep
  <1> QED
    BY <1>3, <1>4, <1>5 DEF Next, QueryStep

\* No receipt of this step decides anything about an attempt, or takes the id of
\* a preparation.
NothingDecided ==
    \A i \in Actions :
       \/ receipts'[i] = receipts[i]
       \/ /\ receipts[i].op = "absent" /\ receipts'[i].op \in PlainOps
          /\ prepared[i].op = "absent"

LEMMA PlainCommit ==
  ASSUME TypeOK, NEW id \in Actions, NEW op \in PlainOps, NEW who, NEW on, NEW b,
         Commit(id, op, who, on, b)
  PROVE  NothingDecided
  <1>1. prepared[id].op \in WorkerOps \cup {"absent"}
    BY DEF TypeOK, PreparedRecord
  <1>2. op \notin WorkerOps
    BY DEF PlainOps, WorkerOps
  <1> QED
    BY <1>1, <1>2, ReceiptsAfter DEF NothingDecided

LEMMA PlainSteps ==
  ASSUME IInv,
         \/ QueryStep \/ PrepareStep \/ RefreshStep \/ PublishStep \/ DispatchStep
         \/ DeliveryStep \/ EventStep \/ NoteStep \/ FollowupStep \/ UNCHANGED vars
  PROVE  UNCHANGED attempts /\ NothingDecided
  <1>0. UNCHANGED receipts => NothingDecided
    BY DEF NothingDecided
  <1>1. CASE QueryStep
    BY <1>0, <1>1 DEF QueryStep, SeatedQuery, store
  <1>2. CASE PrepareStep
    BY <1>0, <1>2 DEF PrepareStep, PrepareWorkerAction
  <1>3. CASE RefreshStep
    BY <1>0, <1>3 DEF RefreshStep, RefreshWorkerAction
  <1>4. CASE PublishStep
    BY <1>4, PlainCommit DEF PublishStep, Publishes, IInv
  <1>5. CASE DispatchStep
    BY <1>5, PlainCommit DEF DispatchStep, Dispatches, IInv
  <1>6. CASE DeliveryStep
    BY <1>6, PlainCommit DEF DeliveryStep, RetryDelivery, IInv, PlainOps
  <1>7. CASE EventStep
    BY <1>7, PlainCommit DEF EventStep, RecordCommunicationEvent, IInv, PlainOps
  <1>8. CASE NoteStep
    BY <1>8, PlainCommit DEF NoteStep, RecordCompletionNotificationFact, IInv, PlainOps
  <1>9. CASE FollowupStep
    BY <1>9, PlainCommit DEF FollowupStep, RecordWorkerFollowupFact, IInv, PlainOps
  <1>10. CASE UNCHANGED vars
    BY <1>0, <1>10 DEF vars
  <1> QED
    BY <1>1, <1>2, <1>3, <1>4, <1>5, <1>6, <1>7, <1>8, <1>9, <1>10

\* Assignments and the published work stand still except in these two.
LEMMA StillSteps ==
  /\ QueryStep \/ PrepareStep \/ RefreshStep \/ PublishStep
       \/ DeliveryStep \/ EventStep \/ NoteStep \/ FollowupStep \/ UNCHANGED vars
       => UNCHANGED assignments
  /\ QueryStep \/ PrepareStep \/ RefreshStep \/ DispatchStep
       \/ DeliveryStep \/ EventStep \/ NoteStep \/ FollowupStep \/ UNCHANGED vars
       => UNCHANGED <<workflows, revisions>>
  <1> USE DEF QueryStep, SeatedQuery, store, PrepareStep, PrepareWorkerAction, RefreshStep,
              RefreshWorkerAction, PublishStep, Publishes, DispatchStep, Dispatches,
              DeliveryStep, RetryDelivery, EventStep, RecordCommunicationEvent, NoteStep,
              RecordCompletionNotificationFact, FollowupStep, RecordWorkerFollowupFact, vars
  <1>1. QueryStep \/ PrepareStep \/ RefreshStep \/ PublishStep
       \/ DeliveryStep \/ EventStep \/ NoteStep \/ FollowupStep \/ UNCHANGED vars
       => UNCHANGED assignments
    OBVIOUS
  <1>2. QueryStep \/ PrepareStep \/ RefreshStep \/ DispatchStep
       \/ DeliveryStep \/ EventStep \/ NoteStep \/ FollowupStep \/ UNCHANGED vars
       => UNCHANGED <<workflows, revisions>>
    OBVIOUS
  <1> QED
    BY <1>1, <1>2

\* What publishing writes.
Published(seat, w, t, r, proj, auth) ==
    /\ workflows[w].rev > 0 => workflows[w].proj = proj /\ workflows[w].seat = seat
    /\ \A v \in Workflows : v # w => workflows'[v] = workflows[v]
    /\ workflows'[w].rev > 0 /\ workflows'[w].seat = seat /\ workflows'[w].proj = proj
    /\ revisions[t][r].wf = None
    /\ revisions'[t][r] = [wf |-> w, proj |-> proj, auth |-> auth]
    /\ \A s \in Tasks, q \in Revisions :
          (s = t /\ q = r) \/ revisions'[s][q] = revisions[s][q]
    /\ IF proj = None THEN schema = "V2" /\ schema' = "V2" ELSE schema' = "V3"

LEMMA PublishedAfter ==
  ASSUME TypeOK, PublishStep
  PROVE  \E seat \in Seats, w \in Workflows, t \in Tasks, r \in Revisions, proj \in Scope,
            auth \in Seats : Published(seat, w, t, r, proj, auth)
  <1>0. PICK id \in Actions, seat \in Seats, w \in Workflows, t \in Tasks, r \in Revisions,
             proj \in Scope, auth \in Seats : Publishes(id, seat, w, t, r, proj, auth)
    BY DEF PublishStep
  <1>1. /\ workflows[w].rev > 0 => workflows[w].proj = proj /\ workflows[w].seat = seat
        /\ workflows' = [workflows EXCEPT ![w] =
                            [rev |-> workflows[w].rev + 1, seat |-> seat, proj |-> proj]]
        /\ \A q \in Revisions : revisions[t][q].wf # None => q < r
        /\ revisions' = [revisions EXCEPT ![t][r] = [wf |-> w, proj |-> proj, auth |-> auth]]
    BY <1>0 DEF Publishes, TouchWorkflow, PublishRevision
  <1>2. workflows[w].rev \in Local
    BY DEF TypeOK, WorkflowRecord
  <1>3. workflows'[w] = [rev |-> workflows[w].rev + 1, seat |-> seat, proj |-> proj]
    BY <1>1 DEF TypeOK
  <1>4. \A v \in Workflows : v # w => workflows'[v] = workflows[v]
    BY <1>1 DEF TypeOK
  <1>5. workflows'[w].rev > 0 /\ workflows'[w].seat = seat /\ workflows'[w].proj = proj
    BY <1>2, <1>3
  <1>6. revisions[t][r].wf = None
    BY <1>1
  <1>7. /\ revisions'[t][r] = [wf |-> w, proj |-> proj, auth |-> auth]
        /\ \A s \in Tasks, q \in Revisions :
              (s = t /\ q = r) \/ revisions'[s][q] = revisions[s][q]
    <2>1. \A s \in Tasks : revisions[s] \in [Revisions -> RevisionRecord]
      BY DEF TypeOK
    <2>2. \A s \in Tasks : revisions'[s] = IF s = t
                          THEN [revisions[t] EXCEPT ![r] = [wf |-> w, proj |-> proj, auth |-> auth]]
                          ELSE revisions[s]
      BY <1>1 DEF TypeOK
    <2> QED
      BY <2>1, <2>2
  <1>8. IF proj = None THEN schema = "V2" /\ schema' = "V2" ELSE schema' = "V3"
    BY <1>0 DEF Publishes
  <1>9. Published(seat, w, t, r, proj, auth)
    BY <1>1, <1>4, <1>5, <1>6, <1>7, <1>8 DEF Published
  <1> QED
    BY <1>9

\* What assigning writes.
Assigned(a, sd, msg, t, r, worker) ==
    /\ assignments[a].state = "absent"
    /\ \A b \in AssignmentIds : b # a => assignments'[b] = assignments[b]
    /\ LET y == assignments'[a] IN
       /\ y.state = "awaiting_ack" /\ y.proj = revisions[t][r].proj /\ y.task = t
       /\ y.trev = r /\ y.assignee = worker /\ y.rev = 1 /\ y.active = 0
       /\ y.retry = None /\ y.reason = "none"
    /\ revisions[t][r].wf # None
    /\ sends[sd].asg = None
    /\ \A s \in SendIds : s # sd => sends'[s] = sends[s]
    /\ sends'[sd] = [asg |-> a, ord |-> 1, msg |-> msg, rev |-> 1]
    /\ IF revisions[t][r].proj = None THEN schema = "V2" /\ schema' = "V2" ELSE schema' = "V3"

LEMMA AssignedAfter ==
  ASSUME TypeOK, DispatchStep
  PROVE  \E a \in AssignmentIds, sd \in SendIds, msg \in MessageIds, t \in Tasks, r \in Revisions,
            worker \in Sessions : Assigned(a, sd, msg, t, r, worker)
  <1>0. PICK id \in Actions, seat \in Seats, a \in AssignmentIds, sd \in SendIds,
             msg \in MessageIds, t \in Tasks, r \in Revisions, worker \in Sessions :
             Dispatches(id, seat, a, sd, msg, t, r, worker)
    BY DEF DispatchStep
  <1> DEFINE y == [state |-> "awaiting_ack", proj |-> revisions[t][r].proj, task |-> t, trev |-> r,
                   assignee |-> worker, rev |-> 1, active |-> 0, retry |-> None,
                   reason |-> "none", closer |-> None, last |-> 0]
  <1>1. /\ assignments[a].state = "absent" /\ sends[sd].asg = None
        /\ revisions[t][r].wf # None
        /\ assignments' = [assignments EXCEPT ![a] = y]
        /\ sends' = [sends EXCEPT ![sd] = [asg |-> a, ord |-> 1, msg |-> msg, rev |-> 1]]
    BY <1>0 DEF Dispatches, Assign
  <1>2. assignments'[a] = y /\ \A b \in AssignmentIds : b # a => assignments'[b] = assignments[b]
    <2> HIDE DEF y
    <2> QED
      BY <1>1 DEF TypeOK
  <1>3. /\ \A s \in SendIds : s # sd => sends'[s] = sends[s]
        /\ sends'[sd] = [asg |-> a, ord |-> 1, msg |-> msg, rev |-> 1]
    BY <1>1 DEF TypeOK
  <1>4. /\ y.state = "awaiting_ack" /\ y.proj = revisions[t][r].proj /\ y.task = t
        /\ y.trev = r /\ y.assignee = worker /\ y.rev = 1 /\ y.active = 0
        /\ y.retry = None /\ y.reason = "none"
    OBVIOUS
  <1>5. IF revisions[t][r].proj = None THEN schema = "V2" /\ schema' = "V2" ELSE schema' = "V3"
    BY <1>0 DEF Dispatches
  <1> HIDE DEF y
  <1>6. Assigned(a, sd, msg, t, r, worker)
    BY <1>1, <1>2, <1>3, <1>4, <1>5 DEF Assigned
  <1> QED
    BY <1>6

\* What has been published, assigned, begun and committed stays so.
LEMMA Grows ==
  ASSUME IInv, PreparedBound, [Next]_vars
  PROVE  AssignmentsGrow /\ AttemptsGrow /\ PublishedStay /\ ReceiptsStay
  <1>1. CASE ActStep
    BY <1>1, ActsGrow DEF ActStep
  <1>2. CASE \/ QueryStep \/ PrepareStep \/ RefreshStep \/ PublishStep \/ DispatchStep
             \/ DeliveryStep \/ EventStep \/ NoteStep \/ FollowupStep \/ UNCHANGED vars
    <2>1. AttemptsGrow /\ ReceiptsStay
      BY <1>2, PlainSteps DEF AttemptsGrow, ReceiptsStay, NothingDecided
    <2>2. AssignmentsGrow
      <3>1. UNCHANGED assignments => AssignmentsGrow
        BY DEF AssignmentsGrow
      <3>2. CASE DispatchStep
        <4>1. PICK a \in AssignmentIds, sd \in SendIds, msg \in MessageIds, t \in Tasks,
                   r \in Revisions, worker \in Sessions : Assigned(a, sd, msg, t, r, worker)
          BY <3>2, AssignedAfter DEF IInv
        <4> QED
          BY <4>1 DEF Assigned, AssignmentsGrow
      <3> QED
        BY <1>2, <3>1, <3>2, StillSteps
    <2>3. PublishedStay
      <3>1. UNCHANGED <<workflows, revisions>> => PublishedStay
        BY DEF PublishedStay
      <3>2. CASE PublishStep
        <4>1. PICK seat \in Seats, w \in Workflows, t \in Tasks, r \in Revisions, proj \in Scope,
                   auth \in Seats : Published(seat, w, t, r, proj, auth)
          BY <3>2, PublishedAfter DEF IInv
        <4> QED
          BY <4>1 DEF PublishedStay, Published
      <3> QED
        BY <1>2, <3>1, <3>2, StillSteps
    <2> QED
      BY <2>1, <2>2, <2>3
  <1> QED
    BY <1>1, <1>2, StepKinds

\* So an assignment keeps the revision it was made from, and its addressees.
LEMMA AddresseesStay ==
  ASSUME IInv, AssignmentsGrow, PublishedStay, NEW a \in AssignmentIds,
         assignments[a].state # "absent"
  PROVE  /\ RevisionOf(a)' = RevisionOf(a)
         /\ CoordinatorSeat(a)' = CoordinatorSeat(a)
  <1>1. /\ assignments[a].task \in Tasks /\ assignments[a].trev \in Revisions
        /\ RevisionOf(a).wf \in Workflows
    BY AssignedRefs DEF IInv
  <1>2. RevisionOf(a).wf # None /\ workflows[RevisionOf(a).wf].rev > 0
    BY <1>1 DEF IInv, Linked, RevisionOf
  <1>3. /\ assignments'[a].task = assignments[a].task
        /\ assignments'[a].trev = assignments[a].trev
    BY DEF AssignmentsGrow
  <1>4. RevisionOf(a)' = RevisionOf(a)
    BY <1>1, <1>2, <1>3 DEF PublishedStay, RevisionOf
  <1>5. workflows'[RevisionOf(a).wf].seat = workflows[RevisionOf(a).wf].seat
    BY <1>1, <1>2 DEF PublishedStay
  <1> QED
    BY <1>4, <1>5 DEF CoordinatorSeat

-----------------------------------------------------------------------------
(* What seats have read and what Workers have prepared. *)

\* An assignment that exists has a revision, is closed for a reason, and holds a
\* retry authorization only while it waits for the retry.
AssignmentFacts ==
    \A a \in AssignmentIds :
       /\ assignments[a].state # "absent" => assignments[a].rev > 0
       /\ (assignments[a].state = "closed") = (assignments[a].reason # "none")
       /\ assignments[a].state # "retry_pending" => assignments[a].retry = None

\* An attempt that exists has a revision and a token, the others have none, and
\* an attempt has ended exactly if it names what ended it.
AttemptFacts ==
    \A a \in AssignmentIds, n \in Numbers :
       IF attempts[a][n].phase = "absent"
       THEN attempts[a][n].tok = None
       ELSE /\ attempts[a][n].rev > 0
            /\ attempts[a][n].tok \in Actions
            /\ (attempts[a][n].term # None) = (attempts[a][n].phase \in EndPhases)

\* Attempt t is a later version of what view v is about.
Read(t, v) ==
    /\ t.phase # "absent"
    /\ t.tok = v.ctx.tok
    /\ v.ctx.trev <= t.rev
    /\ v.ctx.trev = t.rev => t.phase = v.phase /\ t.results = v.results

ViewsTrue ==
    \A s \in Seats : views[s].asg # None /\ views[s].ctx.num # 0 =>
       Read(attempts[views[s].asg][views[s].ctx.num], views[s])

\* The phases in which a bound action is legal, and the assignments that can be
\* answered by an unbound one.
MayRun(op) ==
    CASE op = "report_status" -> {"running", "blocked"}
      [] op \in {"block", "submit"} -> {"running"}
      [] op = "resume" -> {"blocked"}
      [] OTHER -> LivePhases
MayAnswer(op, x) ==
    \/ x.state = "awaiting_ack"
    \/ op = "start" /\ x.state = "retry_pending" /\ x.retry # None

\* Preparation p is about this assignment or an earlier version of it.
Prepares(p, x, ts) ==
    /\ 0 < p.ctx.arev /\ p.ctx.arev <= x.rev
    /\ x.assignee = p.session
    /\ BindingOf(p.ctx) = p.bind
    /\ IF p.op \in BoundOps
       THEN /\ p.ctx.num # 0
            /\ ts[p.ctx.num].phase # "absent"
            /\ ts[p.ctx.num].tok = p.ctx.tok
            /\ 0 < p.ctx.trev /\ p.ctx.trev <= ts[p.ctx.num].rev
            /\ p.ctx.trev = ts[p.ctx.num].rev => ts[p.ctx.num].phase \in MayRun(p.op)
       ELSE /\ p.ctx.num = 0
            /\ p.ctx.arev = x.rev => MayAnswer(p.op, x)

PreparedTrue ==
    \A i \in Actions : prepared[i].op # "absent" =>
       /\ receipts[i].op = "absent"
       /\ Prepares(prepared[i], assignments[prepared[i].asg], attempts[prepared[i].asg])

LEMMA PreparedTrueBound == PreparedTrue => PreparedBound
  BY DEF PreparedTrue, PreparedBound, Prepares

LEMMA AssignmentFactsStep ==
  ASSUME IInv, PreparedBound, AssignmentFacts, [Next]_vars
  PROVE  AssignmentFacts'
  <1>1. ASSUME NEW id \in Actions, NEW op \in ActOps, NEW a \in AssignmentIds, NEW b \in Binding,
               Acts(id, op, a, b)
        PROVE  AssignmentFacts'
    <2>1. CASE op \in QuietOps
      BY <1>1, <2>1 DEF Acts, AssignmentPart, AssignmentFacts
    <2>2. CASE op \notin QuietOps
      <3>1. PICK y : Rewrites(assignments[a], y, op, id) /\ OneAssignment(a, y)
        BY <1>1, <2>2 DEF Acts, AssignmentPart
      <3>2. assignments[a].rev \in Nat
        BY DEF IInv, TypeOK, AssignmentRecord
      <3>3. assignments[a].state # "absent"
        BY <1>1 DEF Acts, Scoped
      <3>4. op \in {"abort_attempt", "fail_result"} => assignments[a].state # "closed"
        <4>1. op \in {"abort_attempt", "fail_result"} => Touches(id, op, a, b.num)
          BY <1>1 DEF Acts, AttemptPart, CancelOps
        <4>2. Touches(id, op, a, b.num) => /\ b.num \in Numbers /\ b.num = assignments[a].active
                                           /\ attempts[a][b.num].phase \in LivePhases
          BY DEF Touches, Advances
        <4> QED
          BY <4>1, <4>2, LiveIsOpen DEF IInv
      <3>5. /\ y.rev > 0
            /\ (y.state = "closed") = (y.reason # "none")
            /\ y.state # "retry_pending" => y.retry = None
        BY <2>2, <3>1, <3>2, <3>3, <3>4
           DEF Rewrites, AssignmentFacts, QuietOps, ActOps, WorkerOps, TerminalOps, ClosingOps
      <3> QED
        BY <3>1, <3>5 DEF OneAssignment, AssignmentFacts
    <2> QED
      BY <2>1, <2>2
  <1>2. CASE DispatchStep
    <2>1. PICK a \in AssignmentIds, sd \in SendIds, msg \in MessageIds, t \in Tasks,
               r \in Revisions, worker \in Sessions : Assigned(a, sd, msg, t, r, worker)
      BY <1>2, AssignedAfter DEF IInv
    <2> QED
      BY <2>1 DEF Assigned, AssignmentFacts
  <1>3. CASE UNCHANGED assignments
    BY <1>3 DEF AssignmentFacts
  <1> QED
    BY <1>1, <1>2, <1>3, StepKinds, StillSteps DEF ActStep

LEMMA AttemptFactsStep ==
  ASSUME IInv, PreparedBound, AttemptFacts, [Next]_vars
  PROVE  AttemptFacts'
  <1>1. ASSUME NEW id \in Actions, NEW op \in ActOps, NEW a \in AssignmentIds, NEW b \in Binding,
               Acts(id, op, a, b)
        PROVE  AttemptFacts'
    <2>1. CASE UNCHANGED attempts
      BY <2>1 DEF AttemptFacts
    <2>2. CASE Touches(id, op, a, b.num)
      <3>1. PICK u : Advances(attempts[a][b.num], u, op, id) /\ OneAttempt(a, b.num, u)
        BY <2>2 DEF Touches
      <3>2. b.num \in Numbers
        BY <2>2 DEF Touches
      <3>3. attempts[a][b.num] \in AttemptRecord
        BY <3>2 DEF IInv, TypeOK
      <3>4. attempts[a][b.num].rev \in Nat
        BY <3>3 DEF AttemptRecord
      <3>5. /\ attempts[a][b.num].phase # "absent"
            /\ attempts[a][b.num].phase \notin EndPhases
        BY <3>1 DEF Advances, LivePhases, EndPhases
      <3>6. attempts[a][b.num].tok \in Actions /\ attempts[a][b.num].term = None
        BY <3>2, <3>5 DEF AttemptFacts
      <3>7. /\ u.phase # "absent" /\ u.rev > 0 /\ u.tok \in Actions
        BY <3>1, <3>4, <3>6 DEF Advances, EndOf, LivePhases
      <3>8. (u.term # None) = (u.phase \in EndPhases)
        BY <3>1, <3>6 DEF Advances, EndOf, LivePhases, EndPhases
      <3> QED
        BY <3>1, <3>7, <3>8 DEF OneAttempt, AttemptFacts
    <2>3. CASE Begins(id, a)
      <3> DEFINE u == [phase |-> "running", tok |-> id, rev |-> 1, statuses |-> {},
                         results |-> {}, term |-> None]
      <3>1. PICK n \in Numbers : OneAttempt(a, n, u)
        BY <2>3 DEF Begins
      <3>2. /\ u.phase # "absent" /\ u.rev > 0 /\ u.tok \in Actions
            /\ (u.term # None) = (u.phase \in EndPhases)
        BY DEF EndPhases
      <3> HIDE DEF u
      <3> QED
        BY <3>1, <3>2 DEF OneAttempt, AttemptFacts
    <2> QED
      BY <1>1, <2>1, <2>2, <2>3 DEF Acts, AttemptPart
  <1>2. CASE UNCHANGED attempts
    BY <1>2 DEF AttemptFacts
  <1> QED
    BY <1>1, <1>2, StepKinds, PlainSteps DEF ActStep

LEMMA ViewTypes ==
  ASSUME TypeOK, NEW s \in Seats, views[s].asg # None, views[s].ctx.num # 0
  PROVE  views[s].asg \in AssignmentIds /\ views[s].ctx.num \in Numbers /\ views[s].ctx.trev \in Nat
  <1>1. views[s] \in ViewRecord
    BY DEF TypeOK
  <1>2. views[s].asg \in AssignmentIds /\ views[s].ctx \in Context
    BY <1>1 DEF ViewRecord
  <1> QED
    BY <1>2 DEF Context

LEMMA ViewsTrueStep ==
  ASSUME IInv, PreparedBound, ViewsTrue, [Next]_vars
  PROVE  ViewsTrue'
  <1> SUFFICES ASSUME NEW s \in Seats, views'[s].asg # None, views'[s].ctx.num # 0
               PROVE  Read(attempts'[views'[s].asg][views'[s].ctx.num], views'[s])
    BY DEF ViewsTrue
  <1>1. CASE views'[s] = views[s]
    <2>1. PICK v, t, u : /\ v = views[s] /\ t = attempts[v.asg][v.ctx.num]
                         /\ u = attempts'[v.asg][v.ctx.num]
      OBVIOUS
    <2>2. v.asg \in AssignmentIds /\ v.ctx.num \in Numbers /\ v.ctx.trev \in Nat
      BY <1>1, <2>1, ViewTypes DEF IInv
    <2>3. Read(t, v)
      BY <1>1, <2>1 DEF ViewsTrue
    <2>4. t \in AttemptRecord
      BY <2>1, <2>2 DEF IInv, TypeOK
    <2>5. u.phase # "absent" /\ u.tok = t.tok /\ (u = t \/ u.rev > t.rev)
      BY <2>1, <2>2, <2>3, Grows DEF AttemptsGrow, Read
    <2>6. u \in AttemptRecord
      <3>1. TypeOK'
        BY TypeStep DEF IInv
      <3> QED
        BY <2>1, <2>2, <3>1 DEF TypeOK
    <2>7. t.rev \in Nat /\ u.rev \in Nat
      BY <2>4, <2>6 DEF AttemptRecord
    <2>8. Read(u, v)
      BY <2>2, <2>3, <2>5, <2>7 DEF Read
    <2> QED
      BY <1>1, <2>1, <2>8
  <1>2. CASE views'[s] # views[s]
    <2>1. QueryStep
      <3>1. ~ActStep
        BY <1>2 DEF ActStep, Acts
      <3> QED
        BY <1>2, <3>1, StepKinds
           DEF PrepareStep, PrepareWorkerAction, RefreshStep, RefreshWorkerAction, PublishStep,
               Publishes, DispatchStep, Dispatches, DeliveryStep, RetryDelivery, EventStep,
               RecordCommunicationEvent, NoteStep, RecordCompletionNotificationFact,
               FollowupStep, RecordWorkerFollowupFact, vars
    <2>2. PICK seat \in Seats, a \in AssignmentIds : SeatedQuery(seat, a)
      BY <2>1 DEF QueryStep
    <2>3. PICK n : n = assignments[a].active
      OBVIOUS
    <2>4. PICK t : t = attempts[a][n]
      OBVIOUS
    <2> DEFINE ctx == MechanicalContext(a)
               new == [asg |-> a, ctx |-> ctx,
                       phase |-> IF ctx.num = 0 THEN "absent" ELSE attempts[a][ctx.num].phase,
                       results |-> IF ctx.num = 0 THEN {} ELSE attempts[a][ctx.num].results]
    <2>5. views' = [views EXCEPT ![seat] = new] /\ UNCHANGED attempts
      BY <2>2 DEF SeatedQuery, store
    <2>6. views'[s] = new
      <3> HIDE DEF new
      <3> QED
        BY <1>2, <2>5 DEF IInv, TypeOK
    <2>7. ctx.num = n /\ (n # 0 => ctx.tok = t.tok /\ ctx.trev = t.rev)
      BY <2>3, <2>4 DEF MechanicalContext
    <2>8. new.asg = a /\ new.ctx = ctx /\ n # 0
          /\ (n # 0 => new.phase = t.phase /\ new.results = t.results)
      BY <2>4, <2>6, <2>7
    <2>9. n \in Numbers
      BY <2>3, <2>8 DEF IInv, TypeOK, AssignmentRecord
    <2>10. t.phase # "absent"
      BY <2>3, <2>4, <2>9 DEF IInv, OneLiveAttempt, Lifecycle!OneLive, Lifecycle!Numbers
    <2>11. t \in AttemptRecord
      BY <2>4, <2>9 DEF IInv, TypeOK
    <2>12. t.rev \in Nat
      BY <2>11 DEF AttemptRecord
    <2> HIDE DEF new, ctx
    <2>13. Read(t, new)
      BY <2>7, <2>8, <2>10, <2>12 DEF Read
    <2> QED
      BY <2>4, <2>5, <2>6, <2>7, <2>8, <2>13
  <1> QED
    BY <1>1, <1>2

-----------------------------------------------------------------------------
(* Preparations. *)

\* The attempts us are later versions of the attempts ts.
AllLater(ts, us) ==
    \A n \in Numbers : ts[n].phase # "absent" =>
       /\ us[n].phase # "absent" /\ us[n].tok = ts[n].tok
       /\ us[n] = ts[n] \/ us[n].rev > ts[n].rev

\* A preparation stays one of an earlier version.
LEMMA PreparesStays ==
  ASSUME NEW p \in PreparedRecord, NEW x \in AssignmentRecord, NEW y \in AssignmentRecord,
         NEW ts \in [Numbers -> AttemptRecord], NEW us \in [Numbers -> AttemptRecord],
         Prepares(p, x, ts), y.assignee = x.assignee, y = x \/ y.rev > x.rev,
         AllLater(ts, us)
  PROVE  Prepares(p, y, us)
  <1>1. p.ctx \in Context
    BY DEF PreparedRecord
  <1>2. /\ p.ctx.arev \in Nat /\ p.ctx.num \in 0 .. MaxAttempt /\ p.ctx.trev \in Nat
    BY <1>1 DEF Context
  <1>3. x.rev \in Nat /\ y.rev \in Nat
    BY DEF AssignmentRecord
  <1>4. p.ctx.arev <= y.rev /\ (p.ctx.arev = y.rev => y = x)
    BY <1>2, <1>3 DEF Prepares
  <1>5. CASE p.op \in BoundOps
    <2>1. PICK n \in Numbers : n = p.ctx.num
      BY <1>2, <1>5 DEF Prepares
    <2>2. ts[n] \in AttemptRecord /\ us[n] \in AttemptRecord
      OBVIOUS
    <2>3. ts[n].rev \in Nat /\ us[n].rev \in Nat
      BY <2>2 DEF AttemptRecord
    <2>4. us[n].phase # "absent" /\ us[n].tok = ts[n].tok /\ (us[n] = ts[n] \/ us[n].rev > ts[n].rev)
      BY <1>5, <2>1 DEF Prepares, AllLater
    <2> QED
      BY <1>2, <1>4, <1>5, <2>1, <2>3, <2>4 DEF Prepares
  <1>6. CASE p.op \notin BoundOps
    BY <1>4, <1>6 DEF Prepares
  <1> QED
    BY <1>5, <1>6

\* The context of a legal action is one of this version.
LEMMA PreparesFresh ==
  ASSUME IInv, AssignmentFacts, AttemptFacts, NEW a \in AssignmentIds, NEW session,
         NEW op \in WorkerOps, CanPrepare(session, op, a), NEW p, p.op = op, p.session = session,
         p.ctx = WorkerContext(op, a), p.bind = BindingOf(p.ctx)
  PROVE  Prepares(p, assignments[a], attempts[a])
  <1>1. PICK n : n = assignments[a].active
    OBVIOUS
  <1>2. /\ assignments[a].state # "absent" /\ assignments[a].assignee = session
        /\ op \in BoundOps => n # 0
        /\ Legal(op, a)
    BY <1>1 DEF CanPrepare, Scoped
  <1>3. assignments[a].rev > 0 /\ assignments[a].rev \in Nat /\ n \in 0 .. MaxAttempt
    BY <1>1, <1>2 DEF AssignmentFacts, IInv, TypeOK, AssignmentRecord
  <1>4. CASE op \in BoundOps
    <2>1. n \in Numbers
      BY <1>2, <1>3, <1>4
    <2>2. PICK t : t = attempts[a][n]
      OBVIOUS
    <2>3. t.phase # "absent" /\ t.rev > 0
      BY <1>1, <2>1, <2>2
         DEF IInv, OneLiveAttempt, Lifecycle!OneLive, Lifecycle!Numbers, AttemptFacts
    <2>4. t.rev \in Nat
      BY <2>1, <2>2 DEF IInv, TypeOK, AttemptRecord
    <2>5. p.ctx.arev = assignments[a].rev /\ p.ctx.num = n /\ p.ctx.tok = t.tok /\ p.ctx.trev = t.rev
      BY <1>1, <1>2, <1>4, <2>2 DEF WorkerContext, MechanicalContext
    <2>6. t.phase \in MayRun(op)
      BY <1>1, <1>2, <1>4, <2>2 DEF Legal, MayRun, BoundOps, WorkerOps
    <2> QED
      BY <1>2, <1>3, <1>4, <2>1, <2>2, <2>3, <2>4, <2>5, <2>6 DEF Prepares
  <1>5. CASE op \notin BoundOps
    <2>1. p.ctx.arev = assignments[a].rev /\ p.ctx.num = 0
      BY <1>5 DEF WorkerContext
    <2>2. op \in {"start", "decline"}
      BY <1>5 DEF BoundOps, WorkerOps
    <2>3. MayAnswer(op, assignments[a])
      BY <1>2, <2>2 DEF Legal, MayAnswer
    <2> QED
      BY <1>2, <1>3, <1>5, <2>1, <2>3 DEF Prepares
  <1> QED
    BY <1>4, <1>5

\* An executed or refused preparation aside, a step keeps the table or adds one line.
PreparedKept ==
    \A i \in Actions : prepared'[i].op # "absent" =>
       prepared'[i] = prepared[i] /\ receipts'[i] = receipts[i]

LEMMA PreparedKinds ==
  ASSUME IInv, PreparedBound, [Next]_vars
  PROVE  PreparedKept \/ PrepareStep \/ RefreshStep
  <1>0. \A i \in Actions : prepared[i].op \in WorkerOps \cup {"absent"}
    BY DEF IInv, TypeOK, PreparedRecord
  <1>1. ASSUME NEW id \in Actions, NEW op \in ActOps, NEW a \in AssignmentIds, NEW b \in Binding,
               Acts(id, op, a, b)
        PROVE  PreparedKept
    <2>1. /\ prepared[id].op \in {"absent", op}
          /\ \A i \in Actions : i # id => receipts'[i] = receipts[i]
      BY <1>1, ReceiptsAfter DEF Acts, IInv
    <2>2. CASE op \in WorkerOps
      <3>1. prepared' = [prepared EXCEPT ![id] = NoPrepared]
        BY <1>1, <2>2 DEF Acts, PreparedPart
      <3>2. prepared'[id] = NoPrepared /\ \A i \in Actions : i # id => prepared'[i] = prepared[i]
        BY <3>1 DEF IInv, TypeOK
      <3>3. prepared'[id].op = "absent"
        BY <3>2 DEF NoPrepared
      <3> QED
        BY <2>1, <3>2, <3>3 DEF PreparedKept
    <2>3. CASE op \notin WorkerOps
      <3>1. UNCHANGED prepared
        BY <1>1, <2>3 DEF Acts, PreparedPart
      <3>2. prepared[id].op = "absent"
        BY <1>0, <2>1, <2>3
      <3> QED
        BY <2>1, <3>1, <3>2 DEF PreparedKept
    <2> QED
      BY <2>2, <2>3
  <1>2. CASE \/ QueryStep \/ PublishStep \/ DispatchStep
             \/ DeliveryStep \/ EventStep \/ NoteStep \/ FollowupStep \/ UNCHANGED vars
    <2>1. NothingDecided
      BY <1>2, PlainSteps
    <2>2. UNCHANGED prepared
      BY <1>2
         DEF QueryStep, SeatedQuery, store, PublishStep, Publishes, DispatchStep, Dispatches,
             DeliveryStep, RetryDelivery, EventStep, RecordCommunicationEvent, NoteStep,
             RecordCompletionNotificationFact, FollowupStep, RecordWorkerFollowupFact, vars
    <2> QED
      BY <2>1, <2>2 DEF NothingDecided, PreparedKept
  <1> QED
    BY <1>1, <1>2, StepKinds DEF ActStep

LEMMA KeptPreparation ==
  ASSUME IInv, PreparedBound, PreparedTrue, [Next]_vars, NEW i \in Actions,
         prepared[i].op # "absent"
  PROVE  Prepares(prepared[i], assignments'[prepared[i].asg], attempts'[prepared[i].asg])
  <1>1. PICK a : a = prepared[i].asg
    OBVIOUS
  <1>2. prepared[i] \in PreparedRecord
    BY DEF IInv, TypeOK
  <1>3. a \in AssignmentIds /\ assignments[a].state # "absent"
    BY <1>1, <1>2 DEF IInv, Linked, PreparedRecord
  <1>4. TypeOK'
    BY TypeStep DEF IInv
  <1>5. PICK x, y, ts, us : /\ x = assignments[a] /\ y = assignments'[a]
                            /\ ts = attempts[a] /\ us = attempts'[a]
    OBVIOUS
  <1>6. /\ x \in AssignmentRecord /\ ts \in [Numbers -> AttemptRecord]
        /\ y \in AssignmentRecord /\ us \in [Numbers -> AttemptRecord]
    BY <1>3, <1>4, <1>5 DEF IInv, TypeOK
  <1>7. y.assignee = x.assignee /\ (y = x \/ y.rev > x.rev)
    BY <1>3, <1>5, Grows DEF AssignmentsGrow
  <1>8. AllLater(ts, us)
    BY <1>3, <1>5, Grows DEF AttemptsGrow, AllLater
  <1>9. Prepares(prepared[i], x, ts)
    BY <1>1, <1>5 DEF PreparedTrue
  <1>10. Prepares(prepared[i], y, us)
    BY <1>2, <1>6, <1>7, <1>8, <1>9, PreparesStays
  <1> QED
    BY <1>1, <1>5, <1>10

LEMMA PreparedTrueStep ==
  ASSUME IInv, AssignmentFacts, AttemptFacts, PreparedTrue, [Next]_vars
  PROVE  PreparedTrue'
  <1>0. PreparedBound
    BY PreparedTrueBound
  <1>1. CASE PreparedKept
    <2> SUFFICES ASSUME NEW i \in Actions, prepared'[i].op # "absent"
                 PROVE  /\ receipts'[i].op = "absent"
                        /\ Prepares(prepared'[i], assignments'[prepared'[i].asg],
                                    attempts'[prepared'[i].asg])
      BY DEF PreparedTrue
    <2>1. prepared'[i] = prepared[i] /\ receipts'[i] = receipts[i]
      BY <1>1 DEF PreparedKept
    <2>2. receipts[i].op = "absent"
      BY <2>1 DEF PreparedTrue
    <2> QED
      BY <1>0, <2>1, <2>2, KeptPreparation
  <1>2. ASSUME NEW id \in Actions, NEW p, prepared' = [prepared EXCEPT ![id] = p],
               receipts[id].op = "absent", p.asg \in AssignmentIds,
               Prepares(p, assignments[p.asg], attempts[p.asg]),
               UNCHANGED <<assignments, attempts, receipts>>
        PROVE  PreparedTrue'
    <2> SUFFICES ASSUME NEW i \in Actions, prepared'[i].op # "absent"
                 PROVE  /\ receipts'[i].op = "absent"
                        /\ Prepares(prepared'[i], assignments'[prepared'[i].asg],
                                    attempts'[prepared'[i].asg])
      BY DEF PreparedTrue
    <2>1. prepared'[i] = IF i = id THEN p ELSE prepared[i]
      BY <1>2 DEF IInv, TypeOK
    <2>2. CASE i = id
      BY <1>2, <2>1, <2>2
    <2>3. CASE i # id
      BY <1>2, <2>1, <2>3 DEF PreparedTrue
    <2> QED
      BY <2>2, <2>3
  <1>3. CASE PrepareStep
    <2>1. PICK id \in Actions, session \in Sessions, op \in WorkerOps, a \in AssignmentIds :
             PrepareWorkerAction(id, session, op, a)
      BY <1>3 DEF PrepareStep
    <2> DEFINE p == [op |-> op, session |-> session, asg |-> a, ctx |-> WorkerContext(op, a),
                     bind |-> BindingOf(WorkerContext(op, a))]
    <2>2. /\ receipts[id].op = "absent" /\ CanPrepare(session, op, a)
          /\ prepared' = [prepared EXCEPT ![id] = p]
          /\ UNCHANGED <<assignments, attempts, receipts>>
      BY <2>1 DEF PrepareWorkerAction
    <2>3. /\ p.op = op /\ p.session = session /\ p.asg = a /\ p.ctx = WorkerContext(op, a)
          /\ p.bind = BindingOf(p.ctx)
      OBVIOUS
    <2> HIDE DEF p
    <2>4. Prepares(p, assignments[a], attempts[a])
      BY <2>2, <2>3, PreparesFresh
    <2> QED
      BY <1>2, <2>2, <2>3, <2>4
  <1>4. CASE RefreshStep
    <2>1. PICK id \in Actions, session \in Sessions : RefreshWorkerAction(id, session)
      BY <1>4 DEF RefreshStep
    <2>2. PICK q, op, a : q = prepared[id] /\ op = q.op /\ a = q.asg
      OBVIOUS
    <2> DEFINE p == [q EXCEPT !.ctx = WorkerContext(op, a)]
    <2>3. /\ receipts[id].op = "absent" /\ op # "absent" /\ q.session = session
          /\ CanPrepare(session, op, a) /\ BindingOf(WorkerContext(op, a)) = q.bind
          /\ prepared' = [prepared EXCEPT ![id].ctx = WorkerContext(op, a)]
          /\ UNCHANGED <<assignments, attempts, receipts>>
      BY <2>1, <2>2 DEF RefreshWorkerAction
    <2>4. q \in PreparedRecord
      BY <2>2 DEF IInv, TypeOK
    <2>5. prepared' = [prepared EXCEPT ![id] = p]
      BY <2>2, <2>3 DEF IInv, TypeOK
    <2>6. a \in AssignmentIds /\ op \in WorkerOps
      BY <2>2, <2>3, <2>4 DEF IInv, Linked, PreparedRecord
    <2>7. /\ p.op = op /\ p.session = session /\ p.asg = a /\ p.ctx = WorkerContext(op, a)
          /\ p.bind = BindingOf(p.ctx)
      BY <2>2, <2>3, <2>4 DEF PreparedRecord
    <2> HIDE DEF p
    <2>8. Prepares(p, assignments[a], attempts[a])
      BY <2>3, <2>6, <2>7, PreparesFresh
    <2> QED
      BY <1>2, <2>3, <2>5, <2>6, <2>7, <2>8
  <1> QED
    BY <1>0, <1>1, <1>3, <1>4, PreparedKinds

\* The table of preparations stays below its ceiling.
PreparedFew == IsFiniteSet(PreparedIds) /\ Cardinality(PreparedIds) <= MaxPrepared

LEMMA PreparedFewStep ==
  ASSUME IInv, PreparedBound, PreparedFew, [Next]_vars
  PROVE  PreparedFew'
  <1>0. IsFiniteSet(PreparedIds) /\ Cardinality(PreparedIds) \in Nat
    BY FS_CardinalityType DEF PreparedFew
  <1>1. ASSUME PreparedIds' \subseteq PreparedIds
        PROVE  PreparedFew'
    <2>1. /\ IsFiniteSet(PreparedIds') /\ Cardinality(PreparedIds') <= Cardinality(PreparedIds)
      BY <1>0, <1>1, FS_Subset
    <2>2. Cardinality(PreparedIds') \in Nat
      BY <2>1, FS_CardinalityType
    <2> QED
      BY <1>0, <2>1, <2>2 DEF PreparedFew
  <1>2. CASE PreparedKept
    <2>1. PreparedIds' \subseteq PreparedIds
      BY <1>2 DEF PreparedKept, PreparedIds
    <2> QED
      BY <1>1, <2>1
  <1>3. CASE PrepareStep
    <2>1. PICK id \in Actions, session \in Sessions, op \in WorkerOps, a \in AssignmentIds :
             PrepareWorkerAction(id, session, op, a)
      BY <1>3 DEF PrepareStep
    <2> DEFINE p == [op |-> op, session |-> session, asg |-> a, ctx |-> WorkerContext(op, a),
                     bind |-> BindingOf(WorkerContext(op, a))]
    <2>2. /\ prepared[id].op = "absent" /\ Cardinality(PreparedIds) < MaxPrepared
          /\ prepared' = [prepared EXCEPT ![id] = p]
      BY <2>1 DEF PrepareWorkerAction
    <2>3. p.op # "absent"
      BY DEF WorkerOps
    <2> HIDE DEF p
    <2>4. PreparedIds' = PreparedIds \cup {id} /\ id \notin PreparedIds
      BY <2>2, <2>3 DEF PreparedIds, IInv, TypeOK
    <2>5. /\ IsFiniteSet(PreparedIds \cup {id})
          /\ Cardinality(PreparedIds \cup {id}) = Cardinality(PreparedIds) + 1
      BY <1>0, <2>4, FS_AddElement
    <2> QED
      BY <1>0, <2>2, <2>4, <2>5 DEF PreparedFew
  <1>4. CASE RefreshStep
    <2>1. PICK id \in Actions, session \in Sessions : RefreshWorkerAction(id, session)
      BY <1>4 DEF RefreshStep
    <2>2. PreparedIds' \subseteq PreparedIds
      BY <2>1 DEF RefreshWorkerAction, PreparedIds, IInv, TypeOK
    <2> QED
      BY <1>1, <2>2
  <1> QED
    BY <1>2, <1>3, <1>4, PreparedKinds

\* What a seat decides on, and what a Worker executes, is what was read.
LEMMA ReadDecided ==
  ASSUME IInv, ViewsTrue, PreparedTrue
  PROVE  DecisionOnWhatWasRead
  <1>1. ASSUME NEW s \in Seats, views[s].asg # None,
               RequireAttemptContext(views[s].asg, views[s].ctx)
        PROVE  /\ attempts[views[s].asg][views[s].ctx.num].phase = views[s].phase
               /\ attempts[views[s].asg][views[s].ctx.num].results = views[s].results
    BY <1>1 DEF RequireAttemptContext, ViewsTrue, Read
  <1>2. ASSUME NEW i \in PreparedIds,
               prepared[i].ctx = WorkerContext(prepared[i].op, prepared[i].asg)
        PROVE  Legal(prepared[i].op, prepared[i].asg)
    <2>1. PICK p, op, a, n : p = prepared[i] /\ op = p.op /\ a = p.asg /\ n = assignments[a].active
      OBVIOUS
    <2>2. i \in Actions /\ op # "absent"
      BY <2>1 DEF PreparedIds
    <2>3. op \in WorkerOps
      BY <2>1, <2>2 DEF IInv, TypeOK, PreparedRecord
    <2>4. Prepares(p, assignments[a], attempts[a])
      BY <2>1, <2>2 DEF PreparedTrue
    <2>5. CASE op \in BoundOps
      <3>1. p.ctx = MechanicalContext(a)
        BY <1>2, <2>1, <2>5 DEF WorkerContext
      <3>2. p.ctx.num = n /\ (n # 0 => p.ctx.trev = attempts[a][n].rev)
        <4>1. CASE n = 0
          <5>1. MechanicalContext(a) = [arev |-> assignments[a].rev, num |-> 0, tok |-> None, trev |-> 0]
            BY <2>1, <4>1 DEF MechanicalContext
          <5> QED BY <3>1, <4>1, <5>1, SMTT(30)
        <4>2. CASE n # 0
          <5>1. MechanicalContext(a) = [arev |-> assignments[a].rev, num |-> n, tok |-> attempts[a][n].tok,
                                        trev |-> attempts[a][n].rev]
            BY <2>1, <4>2 DEF MechanicalContext
          <5> QED BY <3>1, <5>1, SMTT(30)
        <4> QED BY <4>1, <4>2
      <3>3. n # 0 /\ attempts[a][n].phase \in MayRun(op)
        BY <2>1, <2>4, <2>5, <3>2 DEF Prepares
      <3> QED
        BY <2>1, <2>5, <3>3 DEF Legal, MayRun, BoundOps, WorkerOps
    <2>6. CASE op \notin BoundOps
      <3>1. p.ctx.arev = assignments[a].rev
        BY <1>2, <2>1, <2>6 DEF WorkerContext
      <3>2. MayAnswer(op, assignments[a])
        BY <2>1, <2>4, <2>6, <3>1 DEF Prepares
      <3>3. op \in {"start", "decline"}
        BY <2>3, <2>6 DEF BoundOps
      <3> QED
        BY <2>1, <3>2, <3>3 DEF Legal, MayAnswer
    <2> QED
      BY <2>5, <2>6
  <1> QED
    BY <1>1, <1>2 DEF DecisionOnWhatWasRead

-----------------------------------------------------------------------------
(* Projects. *)

\* A revision is in its workflow's project, an assignment in its revision's, and
\* a V2 store has no project at all.
ProjectsAgree ==
    /\ \A t \in Tasks, r \in Revisions : revisions[t][r].wf # None =>
          /\ workflows[revisions[t][r].wf].proj = revisions[t][r].proj
          /\ schema = "V2" => revisions[t][r].proj = None
    /\ \A w \in Workflows : schema = "V2" => workflows[w].proj = None
    /\ \A a \in AssignmentIds : assignments[a].state # "absent" =>
          RevisionOf(a).proj = assignments[a].proj

\* The steps that neither publish nor dispatch leave the schema alone.
LEMMA SchemaStays ==
  ASSUME \/ ActStep \/ QueryStep \/ PrepareStep \/ RefreshStep \/ DeliveryStep \/ EventStep
         \/ NoteStep \/ FollowupStep \/ UNCHANGED vars
  PROVE  UNCHANGED <<schema, workflows, revisions>>
  BY ZenonT(60) DEF ActStep, Acts, QueryStep, SeatedQuery, store, PrepareStep, PrepareWorkerAction,
         RefreshStep, RefreshWorkerAction, DeliveryStep, RetryDelivery, EventStep,
         RecordCommunicationEvent, NoteStep, RecordCompletionNotificationFact, FollowupStep,
         RecordWorkerFollowupFact, vars

LEMMA ProjectsAgreeStep ==
  ASSUME IInv, PreparedBound, ProjectsAgree, [Next]_vars
  PROVE  ProjectsAgree'
  <1>1. AssignmentsGrow /\ PublishedStay
    BY Grows
  <1>2. ASSUME NEW a \in AssignmentIds, assignments[a].state # "absent"
        PROVE  RevisionOf(a)'.proj = assignments'[a].proj
    <2>1. RevisionOf(a)' = RevisionOf(a)
      BY <1>1, <1>2, AddresseesStay
    <2> QED
      BY <1>1, <1>2, <2>1 DEF AssignmentsGrow, ProjectsAgree
  <1>3. CASE DispatchStep
    <2>1. PICK a \in AssignmentIds, sd \in SendIds, msg \in MessageIds, t \in Tasks,
               r \in Revisions, worker \in Sessions : Assigned(a, sd, msg, t, r, worker)
      BY <1>3, AssignedAfter DEF IInv
    <2>2. UNCHANGED <<workflows, revisions>>
      BY <1>3, StillSteps
    <2>3. schema' = "V2" => schema = "V2"
      BY <2>1 DEF Assigned
    <2>4. RevisionOf(a)'.proj = assignments'[a].proj
      BY <2>1, <2>2 DEF Assigned, RevisionOf
    <2>5. \A b \in AssignmentIds : b # a => assignments'[b] = assignments[b]
      BY <2>1 DEF Assigned
    <2> QED
      BY <1>2, <2>2, <2>3, <2>4, <2>5 DEF ProjectsAgree
  <1>4. CASE PublishStep
    <2>1. PICK seat \in Seats, w \in Workflows, t \in Tasks, r \in Revisions, proj \in Scope,
               auth \in Seats : Published(seat, w, t, r, proj, auth)
      BY <1>4, PublishedAfter DEF IInv
    <2>2. UNCHANGED assignments
      BY <1>4, StillSteps
    <2>3. schema' = "V2" => schema = "V2" /\ proj = None
      BY <2>1 DEF Published
    <2>4. \A v \in Workflows : schema' = "V2" => workflows'[v].proj = None
      BY <2>1, <2>3 DEF Published, ProjectsAgree
    <2>5. ASSUME NEW s \in Tasks, NEW q \in Revisions, revisions'[s][q].wf # None
          PROVE  /\ workflows'[revisions'[s][q].wf].proj = revisions'[s][q].proj
                 /\ schema' = "V2" => revisions'[s][q].proj = None
      <3>1. CASE s = t /\ q = r
        BY <2>1, <2>3, <3>1 DEF Published
      <3>2. CASE ~(s = t /\ q = r)
        <4>1. revisions'[s][q] = revisions[s][q]
          BY <2>1, <3>2 DEF Published
        <4>2. revisions[s][q].wf \in Workflows /\ workflows[revisions[s][q].wf].rev > 0
          BY <2>5, <4>1 DEF IInv, TypeOK, Linked, RevisionRecord
        <4> QED
          BY <1>1, <2>3, <2>5, <4>1, <4>2 DEF PublishedStay, ProjectsAgree
      <3> QED
        BY <3>1, <3>2
    <2> QED
      BY <1>2, <2>2, <2>4, <2>5 DEF ProjectsAgree
  <1>5. CASE \/ ActStep \/ QueryStep \/ PrepareStep \/ RefreshStep \/ DeliveryStep \/ EventStep
             \/ NoteStep \/ FollowupStep \/ UNCHANGED vars
    <2>1. UNCHANGED <<schema, workflows, revisions>>
      BY <1>5, SchemaStays
    <2>2. \A a \in AssignmentIds : assignments'[a].state # "absent" => assignments[a].state # "absent"
      <3>1. CASE ActStep
        <4>1. PICK id \in Actions, op \in ActOps, a \in AssignmentIds, b \in Binding :
                 Acts(id, op, a, b)
          BY <3>1 DEF ActStep
        <4>2. assignments[a].state # "absent"
          BY <4>1 DEF Acts, Scoped
        <4>3. \A c \in AssignmentIds : c # a => assignments'[c] = assignments[c]
          BY <4>1 DEF Acts, AssignmentPart, OneAssignment
        <4> QED
          BY <4>2, <4>3
      <3>2. CASE ~ActStep
        BY <1>5, <3>2, StillSteps
      <3> QED
        BY <3>1, <3>2
    <2> QED
      BY <1>2, <2>1, <2>2 DEF ProjectsAgree
  <1> QED
    BY <1>3, <1>4, <1>5, StepKinds

-----------------------------------------------------------------------------
(* Send attempts. *)

\* A send attempt is one of an assignment that exists, numbered from 1.
SendsTrue ==
    \A s \in SendIds : sends[s].asg # None =>
       /\ assignments[sends[s].asg].state # "absent"
       /\ sends[s].rev > 0
       /\ sends[s].ord > 0

LEMMA SendsTrueStep ==
  ASSUME IInv, PreparedBound, SendsTrue, [Next]_vars
  PROVE  SendsTrue'
  <1>1. AssignmentsGrow
    BY Grows
  <1>2. ASSUME NEW sd \in SendIds, \A s \in SendIds : s # sd => sends'[s] = sends[s],
               sends'[sd].asg \in AssignmentIds, assignments'[sends'[sd].asg].state # "absent",
               sends'[sd].rev > 0, sends'[sd].ord > 0
        PROVE  SendsTrue'
    <2> SUFFICES ASSUME NEW s \in SendIds, sends'[s].asg # None
                 PROVE  /\ assignments'[sends'[s].asg].state # "absent"
                        /\ sends'[s].rev > 0 /\ sends'[s].ord > 0
      BY DEF SendsTrue
    <2>1. CASE s = sd
      BY <1>2, <2>1
    <2>2. CASE s # sd
      <3>1. sends'[s] = sends[s]
        BY <1>2, <2>2
      <3>2. sends[s].asg \in AssignmentIds
        BY <3>1 DEF IInv, TypeOK, SendRecord
      <3> QED
        BY <1>1, <3>1, <3>2 DEF SendsTrue, AssignmentsGrow
    <2> QED
      BY <2>1, <2>2
  <1>3. CASE UNCHANGED sends
    <2>1. \A s \in SendIds : sends[s].asg # None => sends[s].asg \in AssignmentIds
      BY DEF IInv, TypeOK, SendRecord
    <2> QED
      BY <1>1, <1>3, <2>1 DEF SendsTrue, AssignmentsGrow
  <1>4. CASE DispatchStep
    <2>1. PICK a \in AssignmentIds, sd \in SendIds, msg \in MessageIds, t \in Tasks,
               r \in Revisions, worker \in Sessions : Assigned(a, sd, msg, t, r, worker)
      BY <1>4, AssignedAfter DEF IInv
    <2>2. /\ \A s \in SendIds : s # sd => sends'[s] = sends[s]
          /\ sends'[sd].asg = a /\ sends'[sd].rev = 1 /\ sends'[sd].ord = 1
          /\ assignments'[a].state = "awaiting_ack"
      BY <2>1 DEF Assigned
    <2> QED
      BY <1>2, <2>2
  <1>5. CASE DeliveryStep
    <2>1. PICK id \in Actions, seat \in Seats, sd \in SendIds, msg \in MessageIds :
             RetryDelivery(id, seat, sd, msg)
      BY <1>5 DEF DeliveryStep
    <2>2. PICK a : a = views[seat].asg
      OBVIOUS
    <2>3. /\ a # None /\ Scoped(a) /\ UNCHANGED assignments
          /\ \E ord \in 1 .. MaxLocal :
                sends' = [sends EXCEPT ![sd] = [asg |-> a, ord |-> ord, msg |-> msg, rev |-> 1]]
      BY <2>1, <2>2 DEF RetryDelivery
    <2>4. PICK ord \in 1 .. MaxLocal :
             sends' = [sends EXCEPT ![sd] = [asg |-> a, ord |-> ord, msg |-> msg, rev |-> 1]]
      BY <2>3
    <2>5. a \in AssignmentIds
      BY <2>2, <2>3, ViewFacts DEF IInv
    <2>6. /\ \A s \in SendIds : s # sd => sends'[s] = sends[s]
          /\ sends'[sd].asg = a /\ sends'[sd].rev = 1 /\ sends'[sd].ord = ord
      BY <2>4 DEF IInv, TypeOK
    <2> QED
      BY <1>2, <2>3, <2>5, <2>6 DEF Scoped
  <1>6. CASE EventStep
    <2>1. PICK id \in Actions, sd \in SendIds, kind \in CommKinds :
             RecordCommunicationEvent(id, sd, kind)
      BY <1>6 DEF EventStep
    <2>2. PICK x : x = sends[sd]
      OBVIOUS
    <2>3. /\ x.asg # None /\ UNCHANGED assignments
          /\ sends' = [sends EXCEPT ![sd].rev = @ + 1]
      BY <2>1, <2>2 DEF RecordCommunicationEvent
    <2>4. x \in SendRecord
      BY <2>2 DEF IInv, TypeOK
    <2>5. sends'[sd] = [x EXCEPT !.rev = @ + 1] /\ \A s \in SendIds : s # sd => sends'[s] = sends[s]
      BY <2>2, <2>3 DEF IInv, TypeOK
    <2>6. sends'[sd].asg = x.asg /\ sends'[sd].ord = x.ord /\ sends'[sd].rev = x.rev + 1
      BY <2>4, <2>5 DEF SendRecord
    <2>7. x.asg \in AssignmentIds /\ x.rev \in Nat
      BY <2>3, <2>4 DEF SendRecord
    <2>8. assignments[x.asg].state # "absent" /\ x.rev > 0 /\ x.ord > 0
      BY <2>2, <2>3 DEF SendsTrue
    <2> QED
      BY <1>2, <2>3, <2>5, <2>6, <2>7, <2>8
  <1>7. CASE \/ ActStep \/ QueryStep \/ PrepareStep \/ RefreshStep \/ PublishStep
             \/ NoteStep \/ FollowupStep \/ UNCHANGED vars
    <2>1. UNCHANGED sends
      BY <1>7 DEF ActStep, Acts, QueryStep, SeatedQuery, store, PrepareStep, PrepareWorkerAction,
           RefreshStep, RefreshWorkerAction, PublishStep, Publishes, NoteStep,
           RecordCompletionNotificationFact, FollowupStep, RecordWorkerFollowupFact, vars
    <2> QED
      BY <1>3, <2>1
  <1> QED
    BY <1>4, <1>5, <1>6, <1>7, StepKinds

-----------------------------------------------------------------------------
(* The outbox. *)

ToldOps == AnnouncedOps \cup {"record_communication_event"}

\* Notification x announces a transition that was committed, to whom it concerns.
NoteTrue(x) ==
    /\ x.rev > 0
    /\ assignments[x.asg].state # "absent"
    /\ receipts[x.action].op \in ToldOps
    /\ receipts[x.action].on = x.asg
    /\ x.kind = Announcement(receipts[x.action].op)
    /\ x.target = IF x.kind = "review_ready" THEN RevisionOf(x.asg).auth
                                             ELSE CoordinatorSeat(x.asg)

\* Notification x is the one of committed action i.
Tells(x, i) ==
    /\ x.action = i
    /\ x.asg = receipts[i].on
    /\ x.num = receipts[i].bind.num

NotesTrue ==
    /\ \A x \in notes : NoteTrue(x)
    /\ \A x, y \in notes : x.action = y.action => x = y
    /\ \A i \in Actions : receipts[i].op \in AnnouncedOps => \E x \in notes : Tells(x, i)

LEMMA NoteTrueStays ==
  ASSUME IInv, PreparedBound, [Next]_vars, NEW x \in NoteRecord, NoteTrue(x)
  PROVE  NoteTrue(x)'
  <1>1. x.asg \in AssignmentIds /\ x.action \in Actions
    BY DEF NoteRecord
  <1>2. AssignmentsGrow /\ PublishedStay /\ ReceiptsStay
    BY Grows
  <1>3. assignments[x.asg].state # "absent" /\ receipts[x.action].op # "absent"
    BY DEF NoteTrue, ToldOps, AnnouncedOps
  <1>4. RevisionOf(x.asg)' = RevisionOf(x.asg) /\ CoordinatorSeat(x.asg)' = CoordinatorSeat(x.asg)
    BY <1>1, <1>2, <1>3, AddresseesStay
  <1>5. receipts'[x.action] = receipts[x.action] /\ assignments'[x.asg].state # "absent"
    BY <1>1, <1>2, <1>3 DEF ReceiptsStay, AssignmentsGrow
  <1> QED
    BY <1>4, <1>5 DEF NoteTrue

\* The three things a step can do to the notifications.
NotesKept ==
    /\ UNCHANGED notes
    /\ \A i \in Actions : receipts'[i].op \in AnnouncedOps => receipts'[i] = receipts[i]
NoteAdded(id, new) ==
    /\ receipts[id].op = "absent"
    /\ \A i \in Actions : i # id => receipts'[i] = receipts[i]
    /\ notes' = notes \cup {new}
    /\ new.action = id
    /\ NoteTrue(new)'
    /\ receipts'[id].op \in AnnouncedOps => Tells(new, id)'
NoteRevised(x, y) ==
    /\ notes' = (notes \ {x}) \cup {y}
    /\ x \in notes
    /\ y.asg = x.asg /\ y.num = x.num /\ y.action = x.action /\ y.kind = x.kind
    /\ y.target = x.target /\ y.rev > 0
    /\ \A i \in Actions : receipts'[i].op \in AnnouncedOps => receipts'[i] = receipts[i]

LEMMA ScheduledTrue ==
  ASSUME IInv, PreparedBound, [Next]_vars, NEW id \in Actions, NEW op \in ToldOps, NEW who,
         NEW a \in AssignmentIds, NEW b, Commit(id, op, who, a, b), assignments[a].state # "absent",
         NEW num, op \in AnnouncedOps => num = b.num,
         Schedule(a, num, id, Announcement(op),
                  IF op = "submit" THEN RevisionOf(a).auth ELSE CoordinatorSeat(a))
  PROVE  \E new : NoteAdded(id, new)
  <1>0. PICK target : target = IF op = "submit" THEN RevisionOf(a).auth ELSE CoordinatorSeat(a)
    OBVIOUS
  <1>1. PICK new : /\ new = [asg |-> a, num |-> num, action |-> id, kind |-> Announcement(op),
                             target |-> target, rev |-> 1, facts |-> {}]
                   /\ notes' = notes \cup {new}
    BY <1>0 DEF Schedule
  <1>2. /\ new.asg = a /\ new.num = num /\ new.action = id /\ new.kind = Announcement(op)
        /\ new.target = target /\ new.rev = 1
    BY <1>1
  <1>3. /\ receipts[id].op = "absent"
        /\ receipts'[id].op = op /\ receipts'[id].on = a /\ receipts'[id].bind = b
        /\ \A i \in Actions : i # id => receipts'[i] = receipts[i]
    BY ReceiptsAfter DEF IInv
  <1>4. AssignmentsGrow /\ PublishedStay
    BY Grows
  <1>5. RevisionOf(a)' = RevisionOf(a) /\ CoordinatorSeat(a)' = CoordinatorSeat(a)
    BY <1>4, AddresseesStay
  <1>6. (Announcement(op) = "review_ready") = (op = "submit")
    BY DEF ToldOps, AnnouncedOps, Announcement
  <1>7. new.target = IF new.kind = "review_ready" THEN RevisionOf(new.asg)'.auth
                                                  ELSE CoordinatorSeat(new.asg)'
    BY <1>0, <1>2, <1>5, <1>6
  <1>8. NoteTrue(new)'
    BY <1>2, <1>3, <1>4, <1>7 DEF NoteTrue, AssignmentsGrow
  <1>9. receipts'[id].op \in AnnouncedOps => Tells(new, id)'
    BY <1>2, <1>3 DEF Tells
  <1> QED
    BY <1>1, <1>2, <1>3, <1>8, <1>9 DEF NoteAdded

LEMMA NotePlain ==
  NothingDecided => \A i \in Actions : receipts'[i].op \in AnnouncedOps => receipts'[i] = receipts[i]
  BY DEF NothingDecided, PlainOps, AnnouncedOps

LEMMA NoteSteps ==
  ASSUME IInv, PreparedBound, NotesTrue, [Next]_vars
  PROVE  \/ NotesKept
         \/ \E id \in Actions : \E new : NoteAdded(id, new)
         \/ \E x, y : NoteRevised(x, y)
  <1>1. ASSUME NEW id \in Actions, NEW op \in ActOps, NEW a \in AssignmentIds, NEW b \in Binding,
               Acts(id, op, a, b)
        PROVE  NotesKept \/ \E new : NoteAdded(id, new)
    <2>1. PICK who : Commit(id, op, who, a, b)
      BY <1>1 DEF Acts
    <2>2. CASE op \in AnnouncedOps
      <3>1. Schedule(a, b.num, id, Announcement(op),
                     IF op = "submit" THEN RevisionOf(a).auth ELSE CoordinatorSeat(a))
        BY <1>1, <2>2 DEF Acts, NotePart
      <3>2. assignments[a].state # "absent" /\ op \in ToldOps
        BY <1>1, <2>2 DEF Acts, Scoped, ToldOps
      <3> QED
        BY <2>1, <3>1, <3>2, ScheduledTrue
    <2>3. CASE op \notin AnnouncedOps
      <3>1. UNCHANGED notes
        BY <1>1, <2>3 DEF Acts, NotePart
      <3>2. receipts'[id].op = op /\ \A i \in Actions : i # id => receipts'[i] = receipts[i]
        BY <2>1, ReceiptsAfter DEF IInv
      <3> QED
        BY <2>3, <3>1, <3>2 DEF NotesKept
    <2> QED
      BY <2>2, <2>3
  <1>2. CASE EventStep
    <2>1. PICK id \in Actions, sd \in SendIds, kind \in CommKinds :
             RecordCommunicationEvent(id, sd, kind)
      BY <1>2 DEF EventStep
    <2>2. PICK a, op : a = sends[sd].asg /\ op = "record_communication_event"
      OBVIOUS
    <2>3. /\ Commit(id, op, "system", a, NoBinding) /\ a # None /\ Scoped(a)
          /\ IF kind = "retries_exhausted"
             THEN ScheduleForCoordinator(a, assignments[a].active, id, "retries_exhausted")
             ELSE UNCHANGED notes
      BY <2>1, <2>2 DEF RecordCommunicationEvent
    <2>4. a \in AssignmentIds
      BY <2>2, <2>3 DEF IInv, TypeOK, SendRecord
    <2>5. op \in ToldOps /\ op \notin AnnouncedOps /\ op # "submit"
          /\ Announcement(op) = "retries_exhausted"
      BY <2>2 DEF ToldOps, AnnouncedOps, Announcement
    <2>6. CASE kind = "retries_exhausted"
      <3>1. Schedule(a, assignments[a].active, id, Announcement(op),
                     IF op = "submit" THEN RevisionOf(a).auth ELSE CoordinatorSeat(a))
        BY <2>3, <2>5, <2>6 DEF ScheduleForCoordinator
      <3>2. assignments[a].state # "absent"
        BY <2>3 DEF Scoped
      <3>3. PICK num : num = assignments[a].active
        OBVIOUS
      <3> QED
        BY <2>3, <2>4, <2>5, <3>1, <3>2, <3>3, ScheduledTrue
    <2>7. CASE kind # "retries_exhausted"
      <3>1. NothingDecided
        BY <1>2, PlainSteps
      <3> QED
        BY <2>3, <2>7, <3>1, NotePlain DEF NotesKept
    <2> QED
      BY <2>6, <2>7
  <1>3. CASE NoteStep
    <2>1. PICK id \in Actions, x \in notes, fact \in FactKinds :
             RecordCompletionNotificationFact(id, x, fact)
      BY <1>3 DEF NoteStep
    <2>2. PICK y : y = WithFact(x, fact)
      OBVIOUS
    <2>3. notes' = (notes \ {x}) \cup {y}
      BY <2>1, <2>2 DEF RecordCompletionNotificationFact
    <2>4. x \in NoteRecord
      BY DEF IInv, TypeOK
    <2>5. /\ y.asg = x.asg /\ y.num = x.num /\ y.action = x.action /\ y.kind = x.kind
          /\ y.target = x.target /\ y.rev > 0
      BY <2>2, <2>4 DEF WithFact, NoteRecord
    <2>6. NothingDecided
      BY <1>3, PlainSteps
    <2> QED
      BY <2>3, <2>5, <2>6, NotePlain DEF NoteRevised
  <1>4. CASE \/ QueryStep \/ PrepareStep \/ RefreshStep \/ PublishStep \/ DispatchStep
             \/ DeliveryStep \/ FollowupStep \/ UNCHANGED vars
    <2>1. NothingDecided
      BY <1>4, PlainSteps
    <2>2. UNCHANGED notes
      BY <1>4 DEF QueryStep, SeatedQuery, store, PrepareStep, PrepareWorkerAction, RefreshStep,
           RefreshWorkerAction, PublishStep, Publishes, DispatchStep, Dispatches, DeliveryStep,
           RetryDelivery, FollowupStep, RecordWorkerFollowupFact, vars
    <2> QED
      BY <2>1, <2>2, NotePlain DEF NotesKept
  <1> QED
    BY <1>1, <1>2, <1>3, <1>4, StepKinds DEF ActStep

LEMMA NotesTrueStep ==
  ASSUME IInv, PreparedBound, NotesTrue, [Next]_vars
  PROVE  NotesTrue'
  <1>0. \A x \in notes : x \in NoteRecord /\ NoteTrue(x)'
    <2> SUFFICES ASSUME NEW x \in notes PROVE x \in NoteRecord /\ NoteTrue(x)'
      OBVIOUS
    <2>1. x \in NoteRecord
      BY DEF IInv, TypeOK
    <2> QED
      BY <2>1, NoteTrueStays DEF NotesTrue
  <1>1. CASE NotesKept
    <2>1. \A x \in notes' : NoteTrue(x)'
      BY <1>0, <1>1 DEF NotesKept
    <2>2. \A i \in Actions : receipts'[i].op \in AnnouncedOps => \E x \in notes' : Tells(x, i)'
      BY <1>1 DEF NotesKept, NotesTrue, Tells
    <2> QED
      BY <1>1, <2>1, <2>2 DEF NotesKept, NotesTrue
  <1>2. ASSUME NEW id \in Actions, NEW new, NoteAdded(id, new)
        PROVE  NotesTrue'
    <2>1. \A x \in notes' : NoteTrue(x)'
      BY <1>0, <1>2 DEF NoteAdded
    <2>2. \A x \in notes : x.action # id
      BY <1>2 DEF NoteAdded, NotesTrue, NoteTrue, ToldOps, AnnouncedOps
    <2>3. \A x, y \in notes' : x.action = y.action => x = y
      BY <1>2, <2>2 DEF NoteAdded, NotesTrue
    <2>4. ASSUME NEW i \in Actions, receipts'[i].op \in AnnouncedOps
          PROVE  \E x \in notes' : Tells(x, i)'
      <3>1. CASE i = id
        BY <1>2, <2>4, <3>1 DEF NoteAdded
      <3>2. CASE i # id
        BY <1>2, <2>4, <3>2 DEF NoteAdded, NotesTrue, Tells
      <3> QED
        BY <3>1, <3>2
    <2> QED
      BY <2>1, <2>3, <2>4 DEF NotesTrue
  <1>3. ASSUME NEW x, NEW y, NoteRevised(x, y)
        PROVE  NotesTrue'
    <2>1. NoteTrue(y)'
      BY <1>0, <1>3 DEF NoteRevised, NoteTrue
    <2>2. \A z \in notes' : NoteTrue(z)'
      BY <1>0, <1>3, <2>1 DEF NoteRevised
    <2>3. \A z \in notes' : z = y \/ (z \in notes /\ z # x)
      BY <1>3 DEF NoteRevised
    <2>4. \A z \in notes' : z.action = y.action => z = y
      BY <1>3, <2>3 DEF NoteRevised, NotesTrue
    <2>5. \A v, z \in notes' : v.action = z.action => v = z
      BY <2>3, <2>4 DEF NotesTrue
    <2>6. ASSUME NEW i \in Actions, receipts'[i].op \in AnnouncedOps
          PROVE  \E z \in notes' : Tells(z, i)'
      <3>1. receipts'[i] = receipts[i]
        BY <1>3, <2>6 DEF NoteRevised
      <3>2. PICK z \in notes : Tells(z, i)
        BY <2>6, <3>1 DEF NotesTrue
      <3>3. CASE z = x
        BY <1>3, <3>1, <3>2, <3>3 DEF NoteRevised, Tells
      <3>4. CASE z # x
        BY <1>3, <3>1, <3>2, <3>4 DEF NoteRevised, Tells
      <3> QED
        BY <3>3, <3>4
    <2> QED
      BY <2>2, <2>5, <2>6 DEF NotesTrue
  <1> QED
    BY <1>1, <1>2, <1>3, NoteSteps

\* Follow-up x tells the assignee about a request for changes to an attempt.
FollowupTrue(x) ==
    /\ x.rev > 0
    /\ assignments[x.asg].state # "absent"
    /\ assignments[x.asg].assignee = x.target
    /\ attempts[x.asg][x.num].phase # "absent"
    /\ receipts[x.action].op = "request_changes"
    /\ receipts[x.action].on = x.asg

FollowupsTrue ==
    /\ \A x \in followups : FollowupTrue(x)
    /\ \A x, y \in followups : x.action = y.action => x = y
    /\ \A i \in Actions : receipts[i].op = "request_changes" => \E x \in followups : Tells(x, i)

FollowupsKept ==
    /\ UNCHANGED followups
    /\ \A i \in Actions : receipts'[i].op = "request_changes" => receipts'[i] = receipts[i]
FollowupAdded(id, new) ==
    /\ receipts[id].op = "absent"
    /\ \A i \in Actions : i # id => receipts'[i] = receipts[i]
    /\ followups' = followups \cup {new}
    /\ new.action = id
    /\ FollowupTrue(new)'
    /\ Tells(new, id)'
FollowupRevised(x, y) ==
    /\ followups' = (followups \ {x}) \cup {y}
    /\ x \in followups
    /\ y.asg = x.asg /\ y.num = x.num /\ y.action = x.action /\ y.target = x.target /\ y.rev > 0
    /\ \A i \in Actions : receipts'[i].op = "request_changes" => receipts'[i] = receipts[i]

LEMMA FollowupTrueStays ==
  ASSUME IInv, PreparedBound, [Next]_vars, NEW x \in FollowupRecord, FollowupTrue(x)
  PROVE  FollowupTrue(x)'
  <1>1. x.asg \in AssignmentIds /\ x.action \in Actions /\ x.num \in Numbers
    BY DEF FollowupRecord
  <1>2. AssignmentsGrow /\ AttemptsGrow /\ ReceiptsStay
    BY Grows
  <1> QED
    BY <1>1, <1>2 DEF FollowupTrue, AssignmentsGrow, AttemptsGrow, ReceiptsStay

LEMMA FollowupPlain ==
  NothingDecided =>
     \A i \in Actions : receipts'[i].op = "request_changes" => receipts'[i] = receipts[i]
  BY DEF NothingDecided, PlainOps

LEMMA FollowupSteps ==
  ASSUME IInv, PreparedBound, FollowupsTrue, [Next]_vars
  PROVE  \/ FollowupsKept
         \/ \E id \in Actions : \E new : FollowupAdded(id, new)
         \/ \E x, y : FollowupRevised(x, y)
  <1>1. ASSUME NEW id \in Actions, NEW op \in ActOps, NEW a \in AssignmentIds, NEW b \in Binding,
               Acts(id, op, a, b)
        PROVE  FollowupsKept \/ \E new : FollowupAdded(id, new)
    <2>1. PICK who : Commit(id, op, who, a, b)
      BY <1>1 DEF Acts
    <2>2. /\ receipts[id].op = "absent"
          /\ receipts'[id].op = op /\ receipts'[id].on = a /\ receipts'[id].bind = b
          /\ \A i \in Actions : i # id => receipts'[i] = receipts[i]
      BY <2>1, ReceiptsAfter DEF IInv
    <2>3. CASE op = "request_changes"
      <3>1. PICK new : /\ new = [asg |-> a, num |-> b.num, action |-> id,
                                 target |-> assignments[a].assignee, rev |-> 1, facts |-> {}]
                       /\ followups' = followups \cup {new}
        BY <1>1, <2>3 DEF Acts, FollowupPart, ScheduleFollowup
      <3>2. /\ new.asg = a /\ new.num = b.num /\ new.action = id
            /\ new.target = assignments[a].assignee /\ new.rev = 1
        BY <3>1
      <3>3. Touches(id, op, a, b.num)
        BY <1>1, <2>3 DEF Acts, AttemptPart, CancelOps
      <3>4. b.num \in Numbers /\ attempts[a][b.num].phase # "absent"
        BY <3>3 DEF Touches, Advances, LivePhases
      <3>5. AssignmentsGrow /\ AttemptsGrow
        BY Grows
      <3>6. assignments[a].state # "absent"
        BY <1>1 DEF Acts, Scoped
      <3>7. FollowupTrue(new)'
        BY <2>2, <2>3, <3>2, <3>4, <3>5, <3>6 DEF FollowupTrue, AssignmentsGrow, AttemptsGrow
      <3>8. Tells(new, id)'
        BY <2>2, <3>2 DEF Tells
      <3> QED
        BY <2>2, <3>1, <3>2, <3>7, <3>8 DEF FollowupAdded
    <2>4. CASE op # "request_changes"
      <3>1. UNCHANGED followups
        BY <1>1, <2>4 DEF Acts, FollowupPart
      <3> QED
        BY <2>2, <2>4, <3>1 DEF FollowupsKept
    <2> QED
      BY <2>3, <2>4
  <1>2. CASE FollowupStep
    <2>1. PICK id \in Actions, x \in followups, fact \in FactKinds :
             RecordWorkerFollowupFact(id, x, fact)
      BY <1>2 DEF FollowupStep
    <2>2. PICK y : y = WithFact(x, fact)
      OBVIOUS
    <2>3. followups' = (followups \ {x}) \cup {y}
      BY <2>1, <2>2 DEF RecordWorkerFollowupFact
    <2>4. x \in FollowupRecord
      BY DEF IInv, TypeOK
    <2>5. /\ y.asg = x.asg /\ y.num = x.num /\ y.action = x.action /\ y.target = x.target
          /\ y.rev > 0
      BY <2>2, <2>4 DEF WithFact, FollowupRecord
    <2>6. NothingDecided
      BY <1>2, PlainSteps
    <2> QED
      BY <2>3, <2>5, <2>6, FollowupPlain DEF FollowupRevised
  <1>3. CASE \/ QueryStep \/ PrepareStep \/ RefreshStep \/ PublishStep \/ DispatchStep
             \/ DeliveryStep \/ EventStep \/ NoteStep \/ UNCHANGED vars
    <2>1. NothingDecided
      BY <1>3, PlainSteps
    <2>2. UNCHANGED followups
      BY <1>3 DEF QueryStep, SeatedQuery, store, PrepareStep, PrepareWorkerAction, RefreshStep,
           RefreshWorkerAction, PublishStep, Publishes, DispatchStep, Dispatches, DeliveryStep,
           RetryDelivery, EventStep, RecordCommunicationEvent, NoteStep,
           RecordCompletionNotificationFact, vars
    <2> QED
      BY <2>1, <2>2, FollowupPlain DEF FollowupsKept
  <1> QED
    BY <1>1, <1>2, <1>3, StepKinds DEF ActStep

LEMMA FollowupsTrueStep ==
  ASSUME IInv, PreparedBound, FollowupsTrue, [Next]_vars
  PROVE  FollowupsTrue'
  <1>0. \A x \in followups : x \in FollowupRecord /\ FollowupTrue(x)'
    <2> SUFFICES ASSUME NEW x \in followups PROVE x \in FollowupRecord /\ FollowupTrue(x)'
      OBVIOUS
    <2>1. x \in FollowupRecord
      BY DEF IInv, TypeOK
    <2> QED
      BY <2>1, FollowupTrueStays DEF FollowupsTrue
  <1>1. CASE FollowupsKept
    <2>1. \A x \in followups' : FollowupTrue(x)'
      BY <1>0, <1>1 DEF FollowupsKept
    <2>2. \A i \in Actions : receipts'[i].op = "request_changes" =>
             \E x \in followups' : Tells(x, i)'
      BY <1>1 DEF FollowupsKept, FollowupsTrue, Tells
    <2> QED
      BY <1>1, <2>1, <2>2 DEF FollowupsKept, FollowupsTrue
  <1>2. ASSUME NEW id \in Actions, NEW new, FollowupAdded(id, new)
        PROVE  FollowupsTrue'
    <2>1. \A x \in followups' : FollowupTrue(x)'
      BY <1>0, <1>2 DEF FollowupAdded
    <2>2. \A x \in followups : x.action # id
      BY <1>2 DEF FollowupAdded, FollowupsTrue, FollowupTrue
    <2>3. \A x, y \in followups' : x.action = y.action => x = y
      BY <1>2, <2>2 DEF FollowupAdded, FollowupsTrue
    <2>4. ASSUME NEW i \in Actions, receipts'[i].op = "request_changes"
          PROVE  \E x \in followups' : Tells(x, i)'
      <3>1. CASE i = id
        BY <1>2, <2>4, <3>1 DEF FollowupAdded
      <3>2. CASE i # id
        BY <1>2, <2>4, <3>2 DEF FollowupAdded, FollowupsTrue, Tells
      <3> QED
        BY <3>1, <3>2
    <2> QED
      BY <2>1, <2>3, <2>4 DEF FollowupsTrue
  <1>3. ASSUME NEW x, NEW y, FollowupRevised(x, y)
        PROVE  FollowupsTrue'
    <2>1. FollowupTrue(y)'
      BY <1>0, <1>3 DEF FollowupRevised, FollowupTrue
    <2>2. \A z \in followups' : FollowupTrue(z)'
      BY <1>0, <1>3, <2>1 DEF FollowupRevised
    <2>3. \A z \in followups' : z = y \/ (z \in followups /\ z # x)
      BY <1>3 DEF FollowupRevised
    <2>4. \A z \in followups' : z.action = y.action => z = y
      BY <1>3, <2>3 DEF FollowupRevised, FollowupsTrue
    <2>5. \A v, z \in followups' : v.action = z.action => v = z
      BY <2>3, <2>4 DEF FollowupsTrue
    <2>6. ASSUME NEW i \in Actions, receipts'[i].op = "request_changes"
          PROVE  \E z \in followups' : Tells(z, i)'
      <3>1. receipts'[i] = receipts[i]
        BY <1>3, <2>6 DEF FollowupRevised
      <3>2. PICK z \in followups : Tells(z, i)
        BY <2>6, <3>1 DEF FollowupsTrue
      <3>3. CASE z = x
        BY <1>3, <3>1, <3>2, <3>3 DEF FollowupRevised, Tells
      <3>4. CASE z # x
        BY <1>3, <3>1, <3>2, <3>4 DEF FollowupRevised, Tells
      <3> QED
        BY <3>3, <3>4
    <2> QED
      BY <2>2, <2>5, <2>6 DEF FollowupsTrue
  <1> QED
    BY <1>1, <1>2, <1>3, FollowupSteps

-----------------------------------------------------------------------------
(* Evidence. *)

\* Committed action i is one of ops, on attempt n of assignment a with token tok.
DoneOn(i, ops, a, n, tok) ==
    /\ receipts[i].op \in ops
    /\ receipts[i].on = a
    /\ receipts[i].bind = [num |-> n, tok |-> tok]

\* A committed action on an attempt is bound to an attempt that exists.
ReceiptsBound ==
    \A i \in Actions : receipts[i].op \in MovingOps =>
       /\ receipts[i].on \in AssignmentIds
       /\ receipts[i].bind.num \in Numbers
       /\ attempts[receipts[i].on][receipts[i].bind.num].phase # "absent"
       /\ attempts[receipts[i].on][receipts[i].bind.num].tok = receipts[i].bind.tok

\* The operations that end an attempt in this phase.
EndersOf(phase) ==
    CASE phase = "completed" -> {"accept_result"}
      [] phase = "failed" -> {"fail_result"}
      [] phase = "aborted" -> {"abort_attempt"}
      [] phase = "cancelled" -> CancelOps
      [] OTHER -> {}

\* What attempt t, the n-th of assignment a, holds is what was committed on it.
Evidenced(t, a, n) ==
    /\ receipts[t.tok].op = "start" /\ receipts[t.tok].on = a
    /\ \A i \in Actions : (i \in t.statuses) <=> DoneOn(i, {"report_status"}, a, n, t.tok)
    /\ \A i \in Actions : (i \in t.results) <=> DoneOn(i, {"submit"}, a, n, t.tok)
    /\ t.term # None => DoneOn(t.term, EndersOf(t.phase), a, n, t.tok)

AttemptsEvidenced ==
    \A a \in AssignmentIds, n \in Numbers :
       attempts[a][n].phase # "absent" => Evidenced(attempts[a][n], a, n)

LEMMA ReceiptsBoundStep ==
  ASSUME IInv, PreparedBound, ReceiptsBound, [Next]_vars
  PROVE  ReceiptsBound'
  <1>1. AttemptsGrow
    BY Grows
  <1> SUFFICES ASSUME NEW i \in Actions, receipts'[i].op \in MovingOps
               PROVE  /\ receipts'[i].on \in AssignmentIds
                      /\ receipts'[i].bind.num \in Numbers
                      /\ attempts'[receipts'[i].on][receipts'[i].bind.num].phase # "absent"
                      /\ attempts'[receipts'[i].on][receipts'[i].bind.num].tok
                           = receipts'[i].bind.tok
    BY DEF ReceiptsBound
  <1>2. CASE receipts'[i] = receipts[i]
    BY <1>1, <1>2 DEF ReceiptsBound, AttemptsGrow
  <1>3. CASE receipts'[i] # receipts[i]
    <2>1. ActStep
      <3>1. ~NothingDecided
        BY <1>3 DEF NothingDecided, PlainOps, MovingOps, BoundOps, WorkerOps
      <3> QED
        BY <3>1, PlainSteps, StepKinds
    <2>2. PICK id \in Actions, op \in ActOps, a \in AssignmentIds, b \in Binding :
             Acts(id, op, a, b)
      BY <2>1 DEF ActStep
    <2>3. PICK who : Commit(id, op, who, a, b)
      BY <2>2 DEF Acts
    <2>4. i = id /\ receipts'[i].op = op /\ receipts'[i].on = a /\ receipts'[i].bind = b
      BY <1>3, <2>3, ReceiptsAfter DEF IInv
    <2>5. Touches(id, op, a, b.num)
      BY <2>2, <2>4 DEF Acts, AttemptPart, MovingOps, BoundOps, WorkerOps, CancelOps
    <2>6. b.num \in Numbers /\ attempts[a][b.num].phase # "absent"
      BY <2>5 DEF Touches, Advances, LivePhases
    <2>7. attempts[a][b.num].tok = b.tok
      BY <2>2, <2>6 DEF Acts
    <2> QED
      BY <1>1, <2>4, <2>6, <2>7 DEF AttemptsGrow
  <1> QED
    BY <1>2, <1>3

\* New receipts that are about something else leave the evidence of an attempt alone.
LEMMA EvidenceKept ==
  ASSUME NEW t \in AttemptRecord, NEW a, NEW n, t.tok \in Actions, Evidenced(t, a, n),
         \A i \in Actions :
            \/ receipts'[i] = receipts[i]
            \/ /\ receipts[i].op = "absent"
               /\ ~DoneOn(i, {"report_status"}, a, n, t.tok)'
               /\ ~DoneOn(i, {"submit"}, a, n, t.tok)'
  PROVE  Evidenced(t, a, n)'
  <1>1. receipts'[t.tok] = receipts[t.tok]
    BY DEF Evidenced
  <1>2. \A i \in Actions : (i \in t.statuses) <=> DoneOn(i, {"report_status"}, a, n, t.tok)'
    BY DEF Evidenced, DoneOn
  <1>3. \A i \in Actions : (i \in t.results) <=> DoneOn(i, {"submit"}, a, n, t.tok)'
    BY DEF Evidenced, DoneOn
  <1>4. ASSUME t.term # None
        PROVE  DoneOn(t.term, EndersOf(t.phase), a, n, t.tok)'
    <2>1. t.term \in Actions
      BY <1>4 DEF AttemptRecord
    <2>2. DoneOn(t.term, EndersOf(t.phase), a, n, t.tok)
      BY <1>4 DEF Evidenced
    <2>3. receipts[t.term].op # "absent"
      BY <2>2 DEF DoneOn, EndersOf, CancelOps
    <2>4. receipts'[t.term] = receipts[t.term]
      BY <2>1, <2>3
    <2> QED
      BY <2>2, <2>4 DEF DoneOn, EndersOf
  <1> QED
    BY <1>1, <1>2, <1>3, <1>4 DEF Evidenced

\* An action commits its own evidence on the attempt it moves.
LEMMA EvidenceAdded ==
  ASSUME NEW t \in AttemptRecord, NEW u, NEW a, NEW n, NEW op \in MovingOps \cup CancelOps,
         NEW id \in Actions, t.tok \in Actions, Evidenced(t, a, n), Advances(t, u, op, id),
         receipts[id].op = "absent", receipts'[id].op = op, receipts'[id].on = a,
         receipts'[id].bind = [num |-> n, tok |-> t.tok],
         \A i \in Actions : i # id => receipts'[i] = receipts[i],
         (t.term # None) = (t.phase \in EndPhases)
  PROVE  Evidenced(u, a, n)'
  <1>1. u.tok = t.tok /\ receipts'[u.tok].op = "start" /\ receipts'[u.tok].on = a
    BY DEF Advances, Evidenced
  <1>2. /\ u.statuses = IF op = "report_status" THEN t.statuses \cup {id} ELSE t.statuses
        /\ u.results = IF op = "submit" THEN t.results \cup {id} ELSE t.results
    BY DEF Advances
  <1>3. /\ \A ops : DoneOn(id, ops, a, n, t.tok)' <=> op \in ops
        /\ \A ops : \A i \in Actions : i # id =>
              (DoneOn(i, ops, a, n, t.tok)' <=> DoneOn(i, ops, a, n, t.tok))
    BY DEF DoneOn
  <1>3a. id \notin t.statuses /\ id \notin t.results
    BY DEF DoneOn, Evidenced
  <1>4. \A i \in Actions : (i \in u.statuses) <=> DoneOn(i, {"report_status"}, a, n, t.tok)'
    <2> SUFFICES ASSUME NEW i \in Actions
                 PROVE  (i \in u.statuses) <=> DoneOn(i, {"report_status"}, a, n, t.tok)'
      OBVIOUS
    <2>1. (i \in t.statuses) <=> DoneOn(i, {"report_status"}, a, n, t.tok)
      BY DEF Evidenced
    <2>2. CASE i = id
      BY <1>2, <1>3, <1>3a, <2>2
    <2>3. CASE i # id
      BY <1>2, <1>3, <2>1, <2>3
    <2> QED
      BY <2>2, <2>3
  <1>5. \A i \in Actions : (i \in u.results) <=> DoneOn(i, {"submit"}, a, n, t.tok)'
    <2> SUFFICES ASSUME NEW i \in Actions
                 PROVE  (i \in u.results) <=> DoneOn(i, {"submit"}, a, n, t.tok)'
      OBVIOUS
    <2>1. (i \in t.results) <=> DoneOn(i, {"submit"}, a, n, t.tok)
      BY DEF Evidenced
    <2>2. CASE i = id
      BY <1>2, <1>3, <1>3a, <2>2
    <2>3. CASE i # id
      BY <1>2, <1>3, <2>1, <2>3
    <2> QED
      BY <2>2, <2>3
  <1>6. ASSUME u.term # None
        PROVE  DoneOn(u.term, EndersOf(u.phase), a, n, t.tok)'
    <2>1. op \in EndOps /\ u.term = id /\ u.phase = EndOf(op)
      BY <1>6 DEF Advances, LivePhases, EndPhases
    <2>2. op \in EndersOf(u.phase)
      BY <2>1 DEF EndOps, EndOf, EndersOf, CancelOps
    <2> QED
      BY <1>3, <2>1, <2>2
  <1> QED
    BY <1>1, <1>4, <1>5, <1>6 DEF Evidenced

LEMMA AttemptsEvidencedStep ==
  ASSUME IInv, PreparedBound, AttemptFacts, ReceiptsBound, AttemptsEvidenced, [Next]_vars
  PROVE  AttemptsEvidenced'
  <1> SUFFICES ASSUME NEW c \in AssignmentIds, NEW m \in Numbers, attempts'[c][m].phase # "absent"
               PROVE  Evidenced(attempts[c][m], c, m)'
    BY DEF AttemptsEvidenced
  <1>0. PICK t, u : t = attempts[c][m] /\ u = attempts'[c][m]
    OBVIOUS
  <1> SUFFICES Evidenced(u, c, m)'
    BY <1>0 DEF Evidenced
  <1>1. t \in AttemptRecord
    BY <1>0 DEF IInv, TypeOK
  <1>2. t.phase # "absent" =>
           /\ Evidenced(t, c, m) /\ t.tok \in Actions
           /\ (t.term # None) = (t.phase \in EndPhases)
    BY <1>0 DEF AttemptsEvidenced, AttemptFacts
  <1>3. ASSUME NEW id \in Actions, NEW op \in ActOps, NEW a \in AssignmentIds, NEW b \in Binding,
               Acts(id, op, a, b)
        PROVE  Evidenced(u, c, m)'
    <2>1. PICK who : Commit(id, op, who, a, b)
      BY <1>3 DEF Acts
    <2>2. /\ receipts[id].op = "absent"
          /\ receipts'[id].op = op /\ receipts'[id].on = a /\ receipts'[id].bind = b
          /\ \A i \in Actions : i # id => receipts'[i] = receipts[i]
      BY <2>1, ReceiptsAfter DEF IInv
    <2>3. ASSUME u = t,
                 \/ op \notin {"report_status", "submit"}
                 \/ c # a
                 \/ m # b.num
          PROVE  Evidenced(u, c, m)'
      <3>1. t.phase # "absent"
        BY <1>0, <2>3
      <3>2. /\ ~DoneOn(id, {"report_status"}, c, m, t.tok)'
            /\ ~DoneOn(id, {"submit"}, c, m, t.tok)'
        BY <2>2, <2>3 DEF DoneOn
      <3>3. \A i \in Actions :
               \/ receipts'[i] = receipts[i]
               \/ /\ receipts[i].op = "absent"
                  /\ ~DoneOn(i, {"report_status"}, c, m, t.tok)'
                  /\ ~DoneOn(i, {"submit"}, c, m, t.tok)'
        BY <2>2, <3>2
      <3>4. Evidenced(t, c, m)'
        BY <1>1, <1>2, <3>1, <3>3, EvidenceKept
      <3> QED
        BY <2>3, <3>4
    <2>4. CASE op \in MovingOps \cup CancelOps /\ Touches(id, op, a, b.num)
      <3>1. PICK v : Advances(attempts[a][b.num], v, op, id) /\ OneAttempt(a, b.num, v)
        BY <2>4 DEF Touches
      <3>2. b.num \in Numbers
        BY <2>4 DEF Touches
      <3>3. CASE c = a /\ m = b.num
        <4>1. u = v /\ Advances(t, u, op, id)
          BY <1>0, <3>1, <3>3 DEF OneAttempt
        <4>2. t.phase # "absent"
          BY <4>1 DEF Advances, LivePhases
        <4>3. b.num # 0
          BY <3>2
        <4>4. b.tok = t.tok
          BY <1>0, <1>3, <3>3, <4>3 DEF Acts
        <4>5. b = [num |-> m, tok |-> t.tok]
          BY <3>3, <4>4 DEF Binding
        <4> QED
          BY <1>1, <1>2, <2>2, <2>4, <3>3, <4>1, <4>2, <4>5, EvidenceAdded
      <3>4. CASE ~(c = a /\ m = b.num)
        <4>1. u = t
          BY <1>0, <3>1, <3>4 DEF OneAttempt
        <4> QED
          BY <2>3, <3>4, <4>1
      <3> QED
        BY <3>3, <3>4
    <2>5. CASE op = "start" /\ Begins(id, a)
      <3>1. PICK n, new : /\ n = assignments[a].active + 1
                          /\ new = [phase |-> "running", tok |-> id, rev |-> 1, statuses |-> {},
                                    results |-> {}, term |-> None]
        OBVIOUS
      <3>2. n \in Numbers /\ attempts[a][n].phase = "absent" /\ OneAttempt(a, n, new)
        BY <2>5, <3>1 DEF Begins
      <3>3. CASE c = a /\ m = n
        <4>1. u = new
          BY <1>0, <3>2, <3>3 DEF OneAttempt
        <4>2. u.tok = id /\ u.statuses = {} /\ u.results = {} /\ u.term = None
          BY <3>1, <4>1
        <4>3. ASSUME NEW i \in Actions, NEW o \in {"report_status", "submit"}
              PROVE  ~DoneOn(i, {o}, c, m, id)'
          <5>1. SUFFICES ASSUME DoneOn(i, {o}, c, m, id)' PROVE FALSE
            OBVIOUS
          <5>2. receipts'[i].op = o /\ receipts'[i].on = c
                /\ receipts'[i].bind = [num |-> m, tok |-> id]
            BY <5>1 DEF DoneOn
          <5>3. receipts'[i] = receipts[i]
            BY <2>2, <2>5, <5>2
          <5>4. receipts[i].op \in MovingOps /\ receipts[i].on = c /\ receipts[i].bind.num = m
            BY <5>2, <5>3 DEF MovingOps, BoundOps, WorkerOps
          <5>5. attempts[c][m].phase # "absent"
            BY <5>4 DEF ReceiptsBound
          <5> QED
            BY <3>2, <3>3, <5>5
        <4>4. receipts'[u.tok].op = "start" /\ receipts'[u.tok].on = c
          BY <2>2, <2>5, <3>3, <4>2
        <4>5. \A i \in Actions : ~DoneOn(i, {"report_status"}, c, m, u.tok)'
                                /\ ~DoneOn(i, {"submit"}, c, m, u.tok)'
          BY <4>2, <4>3
        <4> QED
          BY <4>2, <4>4, <4>5 DEF Evidenced
      <3>4. CASE ~(c = a /\ m = n)
        <4>1. u = t
          BY <1>0, <3>2, <3>4 DEF OneAttempt
        <4> QED
          BY <2>3, <2>5, <4>1
      <3> QED
        BY <3>3, <3>4
    <2>6. CASE /\ op \in CancelOps \cup {"decline", "authorize_attempt_retry", "close_assignment"}
               /\ UNCHANGED attempts
      <3>1. u = t /\ op \notin {"report_status", "submit"}
        BY <1>0, <2>6 DEF CancelOps
      <3> QED
        BY <2>3, <3>1
    <2> QED
      BY <1>3, <2>4, <2>5, <2>6 DEF Acts, AttemptPart
  <1>4. CASE UNCHANGED attempts /\ NothingDecided
    <2>1. u = t /\ t.phase # "absent"
      BY <1>0, <1>4
    <2>2. \A i \in Actions :
             \/ receipts'[i] = receipts[i]
             \/ /\ receipts[i].op = "absent"
                /\ ~DoneOn(i, {"report_status"}, c, m, t.tok)'
                /\ ~DoneOn(i, {"submit"}, c, m, t.tok)'
      BY <1>4 DEF NothingDecided, PlainOps, DoneOn
    <2>3. Evidenced(t, c, m)'
      BY <1>1, <1>2, <2>1, <2>2, EvidenceKept
    <2> QED
      BY <2>1, <2>3
  <1> QED
    BY <1>3, <1>4, StepKinds, PlainSteps DEF ActStep

-----------------------------------------------------------------------------
(* Retries. *)

Granted(a) == CommittedOn(a, {"authorize_attempt_retry"})

\* g authorizations are what assignment x has used, and at most one more.
GrantsFit(g, x) ==
    LET used == IF x.active = 0 THEN 0 ELSE x.active - 1 IN
    IF x.state = "closed"
    THEN g \in {used, used + 1}
    ELSE g = IF x.retry = None THEN used ELSE used + 1

RetriesCounted ==
    \A a \in AssignmentIds :
       /\ IsFiniteSet(Granted(a))
       /\ GrantsFit(Cardinality(Granted(a)), assignments[a])

LEMMA RetriesCountedStep ==
  ASSUME IInv, PreparedBound, AssignmentFacts, RetriesCounted, [Next]_vars
  PROVE  RetriesCounted'
  <1> SUFFICES ASSUME NEW a \in AssignmentIds
               PROVE  /\ IsFiniteSet(Granted(a)')
                      /\ GrantsFit(Cardinality(Granted(a)'), assignments'[a])
    BY DEF RetriesCounted, GrantsFit
  <1>0. PICK x, y, g : x = assignments[a] /\ y = assignments'[a] /\ g = Cardinality(Granted(a))
    OBVIOUS
  <1>1. IsFiniteSet(Granted(a)) /\ GrantsFit(g, x)
    BY <1>0 DEF RetriesCounted
  <1>2. g \in Nat /\ x.active \in 0 .. MaxAttempt
    <2>1. x \in AssignmentRecord
      BY <1>0 DEF IInv, TypeOK
    <2> QED
      BY <1>0, <1>1, <2>1, FS_CardinalityType DEF AssignmentRecord
  <1>3. ASSUME Granted(a)' = Granted(a), GrantsFit(g, y)
        PROVE  /\ IsFiniteSet(Granted(a)')
               /\ GrantsFit(Cardinality(Granted(a)'), assignments'[a])
    BY <1>0, <1>1, <1>3
  <1>4. ASSUME \A i \in Actions :
                 \/ receipts'[i] = receipts[i]
                 \/ /\ receipts[i].op = "absent"
                    /\ receipts'[i].op # "authorize_attempt_retry" \/ receipts'[i].on # a
        PROVE  Granted(a)' = Granted(a)
    BY <1>4 DEF Granted, CommittedOn, Committed
  <1>5. ASSUME NEW id \in Actions, NEW op \in ActOps, NEW c \in AssignmentIds, NEW b \in Binding,
               Acts(id, op, c, b)
        PROVE  /\ IsFiniteSet(Granted(a)')
               /\ GrantsFit(Cardinality(Granted(a)'), assignments'[a])
    <2>1. PICK who : Commit(id, op, who, c, b)
      BY <1>5 DEF Acts
    <2>2. /\ receipts[id].op = "absent"
          /\ receipts'[id].op = op /\ receipts'[id].on = c
          /\ \A i \in Actions : i # id => receipts'[i] = receipts[i]
      BY <2>1, ReceiptsAfter DEF IInv
    <2>3. CASE c # a
      <3>1. y = x
        BY <1>0, <1>5, <2>3 DEF Acts, AssignmentPart, OneAssignment
      <3>2. Granted(a)' = Granted(a)
        BY <1>4, <2>2, <2>3
      <3> QED
        BY <1>1, <1>3, <3>1, <3>2
    <2>4. CASE c = a /\ op \in QuietOps
      <3>1. y = x
        BY <1>0, <1>5, <2>4 DEF Acts, AssignmentPart
      <3>2. Granted(a)' = Granted(a)
        BY <1>4, <2>2, <2>4 DEF QuietOps
      <3> QED
        BY <1>1, <1>3, <3>1, <3>2
    <2>5. CASE c = a /\ op \notin QuietOps
      <3>1. Rewrites(x, y, op, id)
        BY <1>0, <1>5, <2>5 DEF Acts, AssignmentPart, OneAssignment
      <3>2. CASE op = "authorize_attempt_retry"
        <4>1. Granted(a)' = Granted(a) \cup {id} /\ id \notin Granted(a)
          BY <2>2, <2>5, <3>2 DEF Granted, CommittedOn, Committed
        <4>2. IsFiniteSet(Granted(a)') /\ Cardinality(Granted(a)') = g + 1
          BY <1>0, <1>1, <4>1, FS_AddElement
        <4>3. x.state = "retry_pending" /\ x.retry = None /\ y.state = "retry_pending"
              /\ y.active = x.active /\ y.retry # None
          BY <3>1, <3>2 DEF Rewrites
        <4>4. GrantsFit(g + 1, y)
          BY <1>1, <1>2, <4>3 DEF GrantsFit
        <4> QED
          BY <1>0, <4>2, <4>4
      <3>3. CASE op # "authorize_attempt_retry"
        <4>1. Granted(a)' = Granted(a)
          BY <1>4, <2>2, <3>3
        <4>2. CASE op = "start"
          <5>1. /\ x.state = "awaiting_ack" \/ (x.state = "retry_pending" /\ x.retry # None)
                /\ y.state = "active" /\ y.active = x.active + 1 /\ y.retry = None
            BY <3>1, <4>2 DEF Rewrites
          <5>2. /\ x.state = "awaiting_ack" => x.active = 0 /\ x.retry = None
                /\ x.state = "retry_pending" => x.active # 0
            BY <1>0 DEF IInv, OneLiveAttempt, Lifecycle!OneLive, AssignmentFacts
          <5>3. GrantsFit(g, y)
            BY <1>1, <1>2, <5>1, <5>2 DEF GrantsFit
          <5> QED
            BY <1>3, <4>1, <5>3
        <4>3. CASE op \in {"abort_attempt", "fail_result"}
          <5>1. Touches(id, op, a, b.num)
            BY <1>5, <2>5, <4>3 DEF Acts, AttemptPart, CancelOps
          <5>2. x.active # 0 /\ attempts[a][x.active].phase \in LivePhases
            BY <1>0, <5>1 DEF Touches, Advances
          <5>3. x.state = "active"
            BY <1>0, <5>2 DEF IInv, OneLiveAttempt, Lifecycle!OneLive, Lifecycle!Live, LivePhases
          <5>4. x.retry = None
            BY <1>0, <5>3 DEF AssignmentFacts
          <5>5. y.state = "retry_pending" /\ y.active = x.active /\ y.retry = None
            BY <3>1, <4>3 DEF Rewrites
          <5>6. GrantsFit(g, y)
            BY <1>1, <1>2, <5>3, <5>4, <5>5 DEF GrantsFit
          <5> QED
            BY <1>3, <4>1, <5>6
        <4>4. CASE op \in ClosingOps
          <5>1. x.state # "closed" /\ y.state = "closed" /\ y.active = x.active
            BY <3>1, <4>4 DEF Rewrites
          <5>2. GrantsFit(g, y)
            BY <1>1, <1>2, <5>1 DEF GrantsFit
          <5> QED
            BY <1>3, <4>1, <5>2
        <4> QED
          BY <2>5, <3>3, <4>2, <4>3, <4>4
             DEF QuietOps, ClosingOps, ActOps, WorkerOps, TerminalOps
      <3> QED
        BY <3>2, <3>3
    <2> QED
      BY <2>3, <2>4, <2>5
  <1>6. ASSUME \/ QueryStep \/ PrepareStep \/ RefreshStep \/ PublishStep \/ DispatchStep
               \/ DeliveryStep \/ EventStep \/ NoteStep \/ FollowupStep \/ UNCHANGED vars
        PROVE  /\ IsFiniteSet(Granted(a)')
               /\ GrantsFit(Cardinality(Granted(a)'), assignments'[a])
    <2>1. Granted(a)' = Granted(a)
      <3>1. NothingDecided
        BY <1>6, PlainSteps
      <3> QED
        BY <1>4, <3>1 DEF NothingDecided, PlainOps
    <2>2. CASE y = x
      BY <1>1, <1>3, <2>1, <2>2
    <2>3. CASE y # x
      <3>1. DispatchStep
        BY <1>0, <1>6, <2>3, StillSteps
      <3>2. PICK c \in AssignmentIds, sd \in SendIds, msg \in MessageIds, t \in Tasks,
                 r \in Revisions, worker \in Sessions : Assigned(c, sd, msg, t, r, worker)
        BY <3>1, AssignedAfter DEF IInv
      <3>3. x.state = "absent" /\ y.state = "awaiting_ack" /\ y.active = 0 /\ y.retry = None
        BY <1>0, <2>3, <3>2 DEF Assigned
      <3>4. x.active = 0 /\ x.retry = None
        BY <1>0, <3>3 DEF IInv, OneLiveAttempt, Lifecycle!OneLive, AssignmentFacts
      <3>5. GrantsFit(g, y)
        BY <1>1, <3>3, <3>4 DEF GrantsFit
      <3> QED
        BY <1>3, <2>1, <3>5
    <2> QED
      BY <2>2, <2>3
  <1> QED
    BY <1>5, <1>6, StepKinds DEF ActStep

-----------------------------------------------------------------------------
(* Legacy work. *)

\* No table changes what it says about assignment a.
StillAbout(a) ==
    /\ assignments'[a] = assignments[a]
    /\ attempts'[a] = attempts[a]
    /\ {x \in notes' : x.asg = a} = {x \in notes : x.asg = a}
    /\ {x \in followups' : x.asg = a} = {x \in followups : x.asg = a}
    /\ \A s \in SendIds : sends[s].asg = a \/ sends'[s].asg = a => sends'[s] = sends[s]
    /\ \A i \in Actions : prepared'[i].asg = a => prepared'[i] = prepared[i]

\* A step that acts on another assignment says nothing about this one.
LEMMA ActsElsewhere ==
  ASSUME IInv, [Next]_vars, NEW id \in Actions, NEW op \in ActOps, NEW c \in AssignmentIds,
         NEW b \in Binding, Acts(id, op, c, b), NEW a \in AssignmentIds, a # c
  PROVE  StillAbout(a)
  <1>1. assignments'[a] = assignments[a]
    BY DEF Acts, AssignmentPart, OneAssignment
  <1>2. attempts'[a] = attempts[a]
    <2>1. \A m \in Numbers : attempts'[a][m] = attempts[a][m]
      BY DEF Acts, AttemptPart, Touches, Begins, OneAttempt
    <2>2. TypeOK'
      BY TypeStep DEF IInv
    <2>3. /\ attempts[a] \in [Numbers -> AttemptRecord]
          /\ attempts'[a] \in [Numbers -> AttemptRecord]
      BY <2>2 DEF IInv, TypeOK
    <2> QED
      BY <2>1, <2>3
  <1>3. {x \in notes' : x.asg = a} = {x \in notes : x.asg = a}
    <2>1. UNCHANGED notes \/ \E new : new.asg = c /\ notes' = notes \cup {new}
      BY DEF Acts, NotePart, Schedule
    <2> QED
      BY <2>1
  <1>4. {x \in followups' : x.asg = a} = {x \in followups : x.asg = a}
    <2>1. UNCHANGED followups \/ \E new : new.asg = c /\ followups' = followups \cup {new}
      BY DEF Acts, FollowupPart, ScheduleFollowup
    <2> QED
      BY <2>1
  <1>5. UNCHANGED sends
    BY DEF Acts
  <1>6. \A i \in Actions : prepared'[i].asg = a => prepared'[i] = prepared[i]
    <2>1. \A i \in Actions : prepared'[i] = prepared[i] \/ prepared'[i] = NoPrepared
      BY DEF Acts, PreparedPart, IInv, TypeOK
    <2>2. NoPrepared.asg # a
      BY DEF NoPrepared
    <2> QED
      BY <2>1, <2>2
  <1> QED
    BY <1>1, <1>2, <1>3, <1>4, <1>5, <1>6 DEF StillAbout

\* In a V3 store no step touches an assignment outside every project.
LEMMA LegacyStill ==
  ASSUME IInv, PreparedBound, [Next]_vars, schema = "V3", NEW a \in AssignmentIds,
         assignments[a].state # "absent", assignments[a].proj = None
  PROVE  StillAbout(a)
  <1>0. \A c : Scoped(c) => c # a
    BY DEF Scoped
  <1>1. CASE ActStep
    <2>1. PICK id \in Actions, op \in ActOps, c \in AssignmentIds, b \in Binding :
             Acts(id, op, c, b)
      BY <1>1 DEF ActStep
    <2>2. a # c
      BY <1>0, <2>1 DEF Acts
    <2> QED
      BY <2>1, <2>2, ActsElsewhere
  <1>2. CASE QueryStep \/ UNCHANGED vars
    BY <1>2 DEF QueryStep, SeatedQuery, store, vars, StillAbout
  <1>3. CASE PrepareStep
    <2>1. PICK id \in Actions, session \in Sessions, op \in WorkerOps, c \in AssignmentIds :
             PrepareWorkerAction(id, session, op, c)
      BY <1>3 DEF PrepareStep
    <2> DEFINE p == [op |-> op, session |-> session, asg |-> c, ctx |-> WorkerContext(op, c),
                     bind |-> BindingOf(WorkerContext(op, c))]
    <2>2. /\ Scoped(c) /\ prepared' = [prepared EXCEPT ![id] = p]
          /\ UNCHANGED <<assignments, attempts, sends, notes, followups>>
      BY <2>1 DEF PrepareWorkerAction, CanPrepare
    <2>3. p.asg # a
      BY <1>0, <2>2
    <2> HIDE DEF p
    <2>4. \A i \in Actions : prepared'[i].asg = a => prepared'[i] = prepared[i]
      BY <2>2, <2>3 DEF IInv, TypeOK
    <2> QED
      BY <2>2, <2>4 DEF StillAbout
  <1>4. CASE RefreshStep
    <2>1. PICK id \in Actions, session \in Sessions : RefreshWorkerAction(id, session)
      BY <1>4 DEF RefreshStep
    <2>2. PICK q, ctx : q = prepared[id] /\ ctx = WorkerContext(q.op, q.asg)
      OBVIOUS
    <2>3. /\ Scoped(q.asg) /\ prepared' = [prepared EXCEPT ![id].ctx = ctx]
          /\ UNCHANGED <<assignments, attempts, sends, notes, followups>>
      BY <2>1, <2>2 DEF RefreshWorkerAction, CanPrepare
    <2>4. q \in PreparedRecord
      BY <2>2 DEF IInv, TypeOK
    <2>5. PICK p : p = [q EXCEPT !.ctx = ctx]
      OBVIOUS
    <2>6. p.asg = q.asg
      BY <2>4, <2>5 DEF PreparedRecord
    <2>7. prepared' = [prepared EXCEPT ![id] = p]
      BY <2>2, <2>3, <2>5 DEF IInv, TypeOK
    <2>8. p.asg # a
      BY <1>0, <2>3, <2>6
    <2>9. \A i \in Actions : prepared'[i].asg = a => prepared'[i] = prepared[i]
      BY <2>7, <2>8 DEF IInv, TypeOK
    <2> QED
      BY <2>3, <2>9 DEF StillAbout
  <1>5. CASE PublishStep
    BY <1>5 DEF PublishStep, Publishes, StillAbout
  <1>6. CASE DispatchStep
    <2>1. PICK c \in AssignmentIds, sd \in SendIds, msg \in MessageIds, t \in Tasks,
               r \in Revisions, worker \in Sessions : Assigned(c, sd, msg, t, r, worker)
      BY <1>6, AssignedAfter DEF IInv
    <2>2. /\ a # c /\ assignments'[a] = assignments[a]
          /\ \A s \in SendIds : s # sd => sends'[s] = sends[s]
          /\ sends[sd].asg = None /\ sends'[sd].asg = c
      BY <2>1 DEF Assigned
    <2>3. UNCHANGED <<attempts, notes, followups, prepared>>
      BY <1>6 DEF DispatchStep, Dispatches
    <2> QED
      BY <2>2, <2>3 DEF StillAbout
  <1>7. CASE DeliveryStep
    <2>1. PICK id \in Actions, seat \in Seats, sd \in SendIds, msg \in MessageIds :
             RetryDelivery(id, seat, sd, msg)
      BY <1>7 DEF DeliveryStep
    <2>2. PICK c : c = views[seat].asg
      OBVIOUS
    <2>3. /\ Scoped(c) /\ sends[sd].asg = None
          /\ \E x : x.asg = c /\ sends' = [sends EXCEPT ![sd] = x]
          /\ UNCHANGED <<assignments, attempts, notes, followups, prepared>>
      BY <2>1, <2>2 DEF RetryDelivery
    <2>4. PICK x : x.asg = c /\ sends' = [sends EXCEPT ![sd] = x]
      BY <2>3
    <2>5. c # a
      BY <1>0, <2>3
    <2>6. sends'[sd] = x /\ \A s \in SendIds : s # sd => sends'[s] = sends[s]
      BY <2>4 DEF IInv, TypeOK
    <2> QED
      BY <2>3, <2>4, <2>5, <2>6 DEF StillAbout
  <1>8. CASE EventStep
    <2>1. PICK id \in Actions, sd \in SendIds, kind \in CommKinds :
             RecordCommunicationEvent(id, sd, kind)
      BY <1>8 DEF EventStep
    <2>2. PICK x, c : x = sends[sd] /\ c = x.asg
      OBVIOUS
    <2>3. /\ Scoped(c) /\ sends' = [sends EXCEPT ![sd].rev = @ + 1]
          /\ UNCHANGED <<assignments, attempts, followups, prepared>>
          /\ UNCHANGED notes \/ \E new : new.asg = c /\ notes' = notes \cup {new}
      BY <2>1, <2>2 DEF RecordCommunicationEvent, ScheduleForCoordinator, Schedule
    <2>4. c # a
      BY <1>0, <2>3
    <2>5. x \in SendRecord
      BY <2>2 DEF IInv, TypeOK
    <2>6. PICK y : y = [x EXCEPT !.rev = @ + 1]
      OBVIOUS
    <2>7. y.asg = c
      BY <2>2, <2>5, <2>6 DEF SendRecord
    <2>8. sends'[sd] = y /\ \A s \in SendIds : s # sd => sends'[s] = sends[s]
      BY <2>2, <2>3, <2>6 DEF IInv, TypeOK
    <2>9. {n \in notes' : n.asg = a} = {n \in notes : n.asg = a}
      BY <2>3, <2>4
    <2> QED
      BY <2>2, <2>3, <2>4, <2>7, <2>8, <2>9 DEF StillAbout
  <1>9. CASE NoteStep
    <2>1. PICK id \in Actions, x \in notes, fact \in FactKinds :
             RecordCompletionNotificationFact(id, x, fact)
      BY <1>9 DEF NoteStep
    <2>2. PICK y : y = WithFact(x, fact)
      OBVIOUS
    <2>3. /\ Scoped(x.asg) /\ notes' = (notes \ {x}) \cup {y}
          /\ UNCHANGED <<assignments, attempts, sends, followups, prepared>>
      BY <2>1, <2>2 DEF RecordCompletionNotificationFact
    <2>4. x \in NoteRecord
      BY DEF IInv, TypeOK
    <2>5. x.asg # a /\ y.asg = x.asg
      BY <1>0, <2>2, <2>3, <2>4 DEF WithFact, NoteRecord
    <2>6. {n \in notes' : n.asg = a} = {n \in notes : n.asg = a}
      BY <2>3, <2>5
    <2> QED
      BY <2>3, <2>6 DEF StillAbout
  <1>10. CASE FollowupStep
    <2>1. PICK id \in Actions, x \in followups, fact \in FactKinds :
             RecordWorkerFollowupFact(id, x, fact)
      BY <1>10 DEF FollowupStep
    <2>2. PICK y : y = WithFact(x, fact)
      OBVIOUS
    <2>3. /\ Scoped(x.asg) /\ followups' = (followups \ {x}) \cup {y}
          /\ UNCHANGED <<assignments, attempts, sends, notes, prepared>>
      BY <2>1, <2>2 DEF RecordWorkerFollowupFact
    <2>4. x \in FollowupRecord
      BY DEF IInv, TypeOK
    <2>5. x.asg # a /\ y.asg = x.asg
      BY <1>0, <2>2, <2>3, <2>4 DEF WithFact, FollowupRecord
    <2>6. {n \in followups' : n.asg = a} = {n \in followups : n.asg = a}
      BY <2>3, <2>5
    <2> QED
      BY <2>3, <2>6 DEF StillAbout
  <1> QED
    BY <1>1, <1>2, <1>3, <1>4, <1>5, <1>6, <1>7, <1>8, <1>9, <1>10, StepKinds

\* A V3 store stays one, and no assignment outside every project appears in it.
LEMMA NoNewLegacy ==
  ASSUME IInv, PreparedBound, [Next]_vars, schema = "V3"
  PROVE  /\ schema' = "V3"
         /\ \A a \in AssignmentIds :
               assignments'[a].state # "absent" /\ assignments'[a].proj = None =>
                  assignments[a].state # "absent" /\ assignments[a].proj = None
  <1>1. AssignmentsGrow
    BY Grows
  <1>2. CASE DispatchStep
    <2>1. PICK c \in AssignmentIds, sd \in SendIds, msg \in MessageIds, t \in Tasks,
               r \in Revisions, worker \in Sessions : Assigned(c, sd, msg, t, r, worker)
      BY <1>2, AssignedAfter DEF IInv
    <2> QED
      BY <2>1 DEF Assigned
  <1>3. CASE PublishStep
    BY <1>3 DEF PublishStep, Publishes
  <1>4. CASE ActStep
    <2>1. PICK id \in Actions, op \in ActOps, c \in AssignmentIds, b \in Binding :
             Acts(id, op, c, b)
      BY <1>4 DEF ActStep
    <2>2. /\ UNCHANGED schema /\ assignments[c].state # "absent"
          /\ \A a \in AssignmentIds : a # c => assignments'[a] = assignments[a]
      BY <2>1 DEF Acts, Scoped, AssignmentPart, OneAssignment
    <2> QED
      BY <1>1, <2>2 DEF AssignmentsGrow
  <1>5. CASE \/ QueryStep \/ PrepareStep \/ RefreshStep \/ DeliveryStep \/ EventStep
             \/ NoteStep \/ FollowupStep \/ UNCHANGED vars
    BY <1>5, SchemaStays, StillSteps
  <1> QED
    BY <1>2, <1>3, <1>4, <1>5, StepKinds

-----------------------------------------------------------------------------
(* The invariant, and the theorems. *)

RInv ==
    /\ IInv /\ PreparedTrue /\ AssignmentFacts /\ AttemptFacts /\ ViewsTrue /\ PreparedFew
    /\ ProjectsAgree /\ SendsTrue /\ NotesTrue /\ FollowupsTrue
    /\ ReceiptsBound /\ AttemptsEvidenced /\ RetriesCounted

LEMMA RInvInit == Init => RInv
  <1> SUFFICES ASSUME Init PROVE RInv
    OBVIOUS
  <1>1. IInv
    BY IInvInit
  <1>2. /\ \A i \in Actions : prepared[i].op = "absent" /\ receipts[i].op = "absent"
        /\ \A s \in Seats : views[s].asg = None
        /\ \A s \in SendIds : sends[s].asg = None
    BY DEF Init, NoPrepared, NoReceipt, NoView, NoSend
  <1>3. /\ \A a \in AssignmentIds :
              /\ assignments[a].state = "absent" /\ assignments[a].reason = "none"
              /\ assignments[a].retry = None /\ assignments[a].active = 0
        /\ \A a \in AssignmentIds, n \in Numbers :
              attempts[a][n].phase = "absent" /\ attempts[a][n].tok = None
    BY DEF Init, NoAssignment, NoAttempt
  <1>4. /\ schema = "V2" /\ notes = {} /\ followups = {}
        /\ \A w \in Workflows : workflows[w].proj = None
        /\ \A t \in Tasks, r \in Revisions : revisions[t][r].wf = None
    BY DEF Init, NoWorkflow, NoRevision
  <1>5. PreparedTrue /\ ViewsTrue /\ SendsTrue
    BY <1>2 DEF PreparedTrue, ViewsTrue, SendsTrue
  <1>6. AssignmentFacts /\ AttemptFacts /\ AttemptsEvidenced
    BY <1>3 DEF AssignmentFacts, AttemptFacts, AttemptsEvidenced
  <1>7. PreparedFew
    <2>1. PreparedIds = {}
      BY <1>2 DEF PreparedIds
    <2>2. IsFiniteSet(PreparedIds) /\ Cardinality(PreparedIds) = 0
      BY <2>1, FS_EmptySet
    <2> QED
      BY <2>2 DEF PreparedFew
  <1>8. ProjectsAgree
    BY <1>3, <1>4 DEF ProjectsAgree
  <1>9. NotesTrue /\ FollowupsTrue /\ ReceiptsBound
    BY <1>2, <1>4
       DEF NotesTrue, FollowupsTrue, ReceiptsBound, AnnouncedOps, MovingOps, BoundOps, WorkerOps
  <1>10. RetriesCounted
    <2> SUFFICES ASSUME NEW a \in AssignmentIds
                 PROVE  /\ IsFiniteSet(Granted(a))
                        /\ GrantsFit(Cardinality(Granted(a)), assignments[a])
      BY DEF RetriesCounted
    <2>1. Granted(a) = {}
      BY <1>2 DEF Granted, CommittedOn, Committed
    <2>2. IsFiniteSet(Granted(a)) /\ Cardinality(Granted(a)) = 0
      BY <2>1, FS_EmptySet
    <2> QED
      BY <1>3, <2>2 DEF GrantsFit
  <1> QED
    BY <1>1, <1>5, <1>6, <1>7, <1>8, <1>9, <1>10 DEF RInv

LEMMA RInvStep == RInv /\ [Next]_vars => RInv'
  <1> SUFFICES ASSUME RInv, [Next]_vars PROVE RInv'
    OBVIOUS
  <1>1. /\ IInv /\ PreparedTrue /\ AssignmentFacts /\ AttemptFacts /\ ViewsTrue /\ PreparedFew
        /\ ProjectsAgree /\ SendsTrue /\ NotesTrue /\ FollowupsTrue
        /\ ReceiptsBound /\ AttemptsEvidenced /\ RetriesCounted
    BY DEF RInv
  <1>2. PreparedBound
    BY <1>1, PreparedTrueBound
  <1>3. IInv'
    BY <1>1, IInvStep
  <1>4. PreparedTrue' /\ PreparedFew' /\ ViewsTrue'
    BY <1>1, <1>2, PreparedTrueStep, PreparedFewStep, ViewsTrueStep
  <1>5. AssignmentFacts' /\ AttemptFacts' /\ ProjectsAgree' /\ SendsTrue'
    BY <1>1, <1>2, AssignmentFactsStep, AttemptFactsStep, ProjectsAgreeStep, SendsTrueStep
  <1>6. NotesTrue' /\ FollowupsTrue'
    BY <1>1, <1>2, NotesTrueStep, FollowupsTrueStep
  <1>7. ReceiptsBound' /\ AttemptsEvidenced' /\ RetriesCounted'
    BY <1>1, <1>2, ReceiptsBoundStep, AttemptsEvidencedStep, RetriesCountedStep
  <1> QED
    BY <1>3, <1>4, <1>5, <1>6, <1>7 DEF RInv

\* The tables of the provider agree in every reachable state: this is the
\* inductive strengthening of the four invariants below.
THEOREM TablesAgree == Spec => []RInv
  BY RInvInit, RInvStep, PTL DEF Spec

\* A seat's decision that passes the context check is a decision about the phase
\* and the results it read, and a prepared Worker action whose expected revisions
\* still match is still legal (execute_terminal_action, execute_worker_action).
THEOREM DecidedOnWhatWasRead == Spec => []DecisionOnWhatWasRead
  <1>1. RInv => DecisionOnWhatWasRead
    BY ReadDecided DEF RInv
  <1> QED
    BY <1>1, TablesAgree, PTL

LEMMA StateValid == RInv => ValidateState
  <1> SUFFICES ASSUME RInv PROVE ValidateState
    OBVIOUS
  <1>1. \A t \in Tasks, r \in Revisions : revisions[t][r].wf # None =>
           /\ workflows[revisions[t][r].wf].rev > 0
           /\ workflows[revisions[t][r].wf].proj = revisions[t][r].proj
           /\ schema = "V2" => revisions[t][r].proj = None
    BY DEF RInv, IInv, Linked, ProjectsAgree
  <1>2. \A w \in Workflows : schema = "V2" => workflows[w].proj = None
    BY DEF RInv, ProjectsAgree
  <1>3. ASSUME NEW a \in AssignmentIds, assignments[a].state # "absent"
        PROVE  /\ assignments[a].rev > 0
               /\ RevisionOf(a).wf # None
               /\ RevisionOf(a).proj = assignments[a].proj
               /\ (assignments[a].state = "closed") = (assignments[a].reason # "none")
               /\ assignments[a].active # 0 => attempts[a][assignments[a].active].phase # "absent"
    <2>1. assignments[a].active \in 0 .. MaxAttempt
      BY DEF RInv, IInv, TypeOK, AssignmentRecord
    <2>2. \A n \in Numbers : attempts[a][n].phase # "absent" <=> n <= assignments[a].active
      BY DEF RInv, IInv, OneLiveAttempt, Lifecycle!OneLive, Lifecycle!Numbers
    <2>3. assignments[a].active # 0 => attempts[a][assignments[a].active].phase # "absent"
      BY <2>1, <2>2
    <2> QED
      BY <1>3, <2>3 DEF RInv, IInv, Linked, ProjectsAgree, AssignmentFacts
  <1>4. ASSUME NEW a \in AssignmentIds, NEW n \in Numbers, attempts[a][n].phase # "absent"
        PROVE  attempts[a][n].rev > 0 /\ assignments[a].state # "absent"
    <2>1. n <= assignments[a].active
      BY <1>4 DEF RInv, IInv, OneLiveAttempt, Lifecycle!OneLive, Lifecycle!Numbers
    <2>2. assignments[a].state = "absent" => assignments[a].active = 0
      BY DEF RInv, IInv, OneLiveAttempt, Lifecycle!OneLive
    <2> QED
      BY <1>4, <2>1, <2>2 DEF RInv, AttemptFacts
  <1>5. \A s \in SendIds :
          sends[s].asg # None => /\ assignments[sends[s].asg].state # "absent"
                                 /\ sends[s].rev > 0
                                 /\ sends[s].ord > 0
    BY DEF RInv, SendsTrue
  <1>6. \A x \in notes : x.rev > 0 /\ assignments[x.asg].state # "absent"
    BY DEF RInv, NotesTrue, NoteTrue
  <1>7. \A x \in followups :
          /\ x.rev > 0
          /\ assignments[x.asg].state # "absent"
          /\ assignments[x.asg].assignee = x.target
          /\ attempts[x.asg][x.num].phase # "absent"
    BY DEF RInv, FollowupsTrue, FollowupTrue
  <1>8. Cardinality(PreparedIds) <= MaxPrepared
    BY DEF RInv, PreparedFew
  <1>9. ASSUME NEW i \in PreparedIds
        PROVE  /\ receipts[i].op = "absent"
               /\ prepared[i].ctx.arev > 0
               /\ assignments[prepared[i].asg].state # "absent"
               /\ assignments[prepared[i].asg].assignee = prepared[i].session
               /\ BindingOf(prepared[i].ctx) = prepared[i].bind
               /\ prepared[i].bind.num # 0 =>
                    /\ prepared[i].ctx.trev > 0
                    /\ attempts[prepared[i].asg][prepared[i].bind.num].phase # "absent"
                    /\ attempts[prepared[i].asg][prepared[i].bind.num].tok = prepared[i].bind.tok
    <2>1. i \in Actions /\ prepared[i].op # "absent"
      BY DEF PreparedIds
    <2>2. PICK p, a : p = prepared[i] /\ a = p.asg
      OBVIOUS
    <2>3. receipts[i].op = "absent" /\ Prepares(p, assignments[a], attempts[a])
      BY <2>1, <2>2 DEF RInv, PreparedTrue
    <2>4. assignments[a].state # "absent"
      BY <2>1, <2>2 DEF RInv, IInv, Linked
    <2>5. p \in PreparedRecord
      BY <2>1, <2>2 DEF RInv, IInv, TypeOK
    <2>6. p.ctx \in Context
      BY <2>5 DEF PreparedRecord
    <2>7. p.ctx.arev \in Nat /\ p.ctx.trev \in Nat
      BY <2>6 DEF Context
    <2>8. p.bind.num = p.ctx.num /\ p.bind.tok = p.ctx.tok
      <3>1. BindingOf(p.ctx) = p.bind
        BY <2>3 DEF Prepares
      <3> QED
        BY <3>1 DEF BindingOf
    <2>9. /\ p.ctx.arev > 0 /\ assignments[a].assignee = p.session /\ BindingOf(p.ctx) = p.bind
          /\ p.bind.num # 0 => /\ p.ctx.trev > 0
                               /\ attempts[a][p.bind.num].phase # "absent"
                               /\ attempts[a][p.bind.num].tok = p.bind.tok
      BY <2>3, <2>7, <2>8 DEF Prepares
    <2> QED
      BY <2>2, <2>3, <2>4, <2>9
  <1> QED
    BY <1>1, <1>2, <1>3, <1>4, <1>5, <1>6, <1>7, <1>8, <1>9 DEF ValidateState

\* Every reachable state passes validate_state, the check that each commit runs on
\* what it is about to write and each recovery on what it has read.
THEOREM AlwaysValid == Spec => []ValidateState
  BY StateValid, TablesAgree, PTL

LEMMA EvidenceMatches == RInv => EvidenceMatchesReceipts
  <1> SUFFICES ASSUME RInv PROVE EvidenceMatchesReceipts
    OBVIOUS
  <1>1. RetryPerAuthorization
    BY DEF RInv, RetriesCounted, GrantsFit, Granted, RetryPerAuthorization
  <1>2. ASSUME NEW a \in AssignmentIds, NEW n \in Numbers, attempts[a][n].phase # "absent"
        PROVE  LET t == attempts[a][n]
                   Bound(ops) == {i \in CommittedOn(a, ops) :
                                    receipts[i].bind = [num |-> n, tok |-> t.tok]}
               IN  /\ t.tok \in CommittedOn(a, {"start"})
                   /\ t.statuses = Bound({"report_status"})
                   /\ t.results = Bound({"submit"})
                   /\ (t.term # None) = (t.phase \in EndPhases)
                   /\ t.term # None =>
                        t.term \in Bound(CASE t.phase = "completed" -> {"accept_result"}
                                           [] t.phase = "failed" -> {"fail_result"}
                                           [] t.phase = "aborted" -> {"abort_attempt"}
                                           [] t.phase = "cancelled" -> {"cancel", "cancel_assignment"}
                                           [] OTHER -> {})
    <2>0. PICK t : t = attempts[a][n]
      OBVIOUS
    <2> DEFINE Bound(ops) == {i \in CommittedOn(a, ops) :
                                receipts[i].bind = [num |-> n, tok |-> t.tok]}
    <2>1. t \in AttemptRecord
      BY <2>0 DEF RInv, IInv, TypeOK
    <2>2. t.tok \in Actions /\ (t.term # None) = (t.phase \in EndPhases) /\ Evidenced(t, a, n)
      BY <1>2, <2>0 DEF RInv, AttemptFacts, AttemptsEvidenced
    <2>3. \A ops : Bound(ops) = {i \in Actions : DoneOn(i, ops, a, n, t.tok)}
      BY DEF CommittedOn, Committed, DoneOn
    <2> HIDE DEF Bound
    <2>4. t.tok \in CommittedOn(a, {"start"})
      BY <2>2 DEF Evidenced, CommittedOn, Committed
    <2>5. t.statuses \subseteq Actions /\ t.results \subseteq Actions
          /\ t.term \in Actions \cup {None}
      BY <2>1 DEF AttemptRecord
    <2>6. t.statuses = Bound({"report_status"}) /\ t.results = Bound({"submit"})
      BY <2>2, <2>3, <2>5 DEF Evidenced
    <2>7. t.term # None => t.term \in Bound(EndersOf(t.phase))
      BY <2>2, <2>3, <2>5 DEF Evidenced
    <2>8. EndersOf(t.phase) = CASE t.phase = "completed" -> {"accept_result"}
                                [] t.phase = "failed" -> {"fail_result"}
                                [] t.phase = "aborted" -> {"abort_attempt"}
                                [] t.phase = "cancelled" -> {"cancel", "cancel_assignment"}
                                [] OTHER -> {}
      BY DEF EndersOf, CancelOps
    <2>9. t.term # None =>
             t.term \in Bound(CASE t.phase = "completed" -> {"accept_result"}
                                [] t.phase = "failed" -> {"fail_result"}
                                [] t.phase = "aborted" -> {"abort_attempt"}
                                [] t.phase = "cancelled" -> {"cancel", "cancel_assignment"}
                                [] OTHER -> {})
      BY <2>7, <2>8
    <2> QED
      BY <2>0, <2>2, <2>4, <2>6, <2>9 DEF Bound
  <1>3. ASSUME NEW i \in Committed(BoundOps \cup (TerminalOps \ {"cancel"}))
        PROVE  /\ receipts[i].bind.num # 0
               /\ attempts[receipts[i].on][receipts[i].bind.num].tok = receipts[i].bind.tok
    <2>1. i \in Actions /\ receipts[i].op \in MovingOps
      BY DEF Committed, MovingOps, TerminalOps
    <2> QED
      BY <2>1 DEF RInv, ReceiptsBound
  <1> QED
    BY <1>1, <1>2, <1>3 DEF EvidenceMatchesReceipts

\* In every reachable state the evidence of an attempt and the receipts bound to it
\* are the same actions, and retries and their authorizations add up, however the
\* Workers' envelopes and the seats' decisions were delayed or repeated.
THEOREM ExactEvidence == Spec => []EvidenceMatchesReceipts
  BY EvidenceMatches, TablesAgree, PTL

LEMMA OutboxMatches == RInv => OutboxMatchesReceipts
  <1> SUFFICES ASSUME RInv PROVE OutboxMatchesReceipts
    OBVIOUS
  <1>1. \A i \in Committed(AnnouncedOps) :
          \E x \in notes : x.action = i /\ x.asg = receipts[i].on /\ x.num = receipts[i].bind.num
    BY DEF RInv, NotesTrue, Tells, Committed
  <1>2. ASSUME NEW x \in notes
        PROVE  /\ x.action \in CommittedOn(x.asg, AnnouncedOps \cup {"record_communication_event"})
               /\ x.kind = Announcement(receipts[x.action].op)
               /\ x.target = IF x.kind = "review_ready" THEN RevisionOf(x.asg).auth
                                                        ELSE CoordinatorSeat(x.asg)
               /\ \A y \in notes : x.action = y.action => x = y
    <2>1. x \in NoteRecord
      BY DEF RInv, IInv, TypeOK
    <2>2. x.action \in Actions
      BY <2>1 DEF NoteRecord
    <2>3. NoteTrue(x)
      BY DEF RInv, NotesTrue
    <2>4. \A y \in notes : x.action = y.action => x = y
      BY DEF RInv, NotesTrue
    <2> QED
      BY <2>2, <2>3, <2>4 DEF NoteTrue, ToldOps, CommittedOn, Committed
  <1>3. \A i \in Committed({"request_changes"}) :
          \E x \in followups : x.action = i /\ x.num = receipts[i].bind.num
    BY DEF RInv, FollowupsTrue, Tells, Committed
  <1>4. ASSUME NEW x \in followups
        PROVE  /\ x.action \in CommittedOn(x.asg, {"request_changes"})
               /\ \A y \in followups : x.action = y.action => x = y
    <2>1. x \in FollowupRecord
      BY DEF RInv, IInv, TypeOK
    <2>2. x.action \in Actions
      BY <2>1 DEF FollowupRecord
    <2>3. FollowupTrue(x)
      BY DEF RInv, FollowupsTrue
    <2>4. \A y \in followups : x.action = y.action => x = y
      BY DEF RInv, FollowupsTrue
    <2> QED
      BY <2>2, <2>3, <2>4 DEF FollowupTrue, CommittedOn, Committed
  <1> QED
    BY <1>1, <1>2, <1>3, <1>4 DEF OutboxMatchesReceipts

\* In every reachable state the outbox is complete and has no ghosts: each committed
\* transition has exactly one notification, to the seat or the Worker that must act.
THEOREM OutboxExact == Spec => []OutboxMatchesReceipts
  BY OutboxMatches, TablesAgree, PTL

\* Once the store is V3 no step creates or changes legacy work, in any table
\* (require_scoped_mutation_after_v3).
THEOREM LegacyFrozen == Spec => LegacyFrozenAfterV3
  <1> DEFINE Frozen ==
        schema = "V3" =>
          /\ schema' = "V3"
          /\ \A a \in AssignmentIds :
               LET was == assignments[a].state # "absent" /\ assignments[a].proj = None
                   is == assignments'[a].state # "absent" /\ assignments'[a].proj = None
               IN  /\ is => was
                   /\ was => /\ assignments'[a] = assignments[a]
                             /\ attempts'[a] = attempts[a]
                             /\ {x \in notes' : x.asg = a} = {x \in notes : x.asg = a}
                             /\ {x \in followups' : x.asg = a} = {x \in followups : x.asg = a}
                             /\ \A s \in SendIds :
                                  sends[s].asg = a \/ sends'[s].asg = a => sends'[s] = sends[s]
                             /\ \A i \in Actions :
                                  prepared'[i].asg = a => prepared'[i] = prepared[i]
  <1>1. ASSUME RInv, [Next]_vars PROVE Frozen
    <2>1. IInv /\ PreparedBound
      BY <1>1, PreparedTrueBound DEF RInv
    <2>2. ASSUME schema = "V3"
          PROVE  /\ schema' = "V3"
                 /\ \A a \in AssignmentIds :
                      assignments'[a].state # "absent" /\ assignments'[a].proj = None =>
                         assignments[a].state # "absent" /\ assignments[a].proj = None
      BY <1>1, <2>1, <2>2, NoNewLegacy
    <2>3. ASSUME schema = "V3", NEW a \in AssignmentIds, assignments[a].state # "absent",
                 assignments[a].proj = None
          PROVE  StillAbout(a)
      BY <1>1, <2>1, <2>3, LegacyStill
    <2> QED
      BY <2>2, <2>3 DEF StillAbout
  <1>2. RInv /\ [Next]_vars => [Frozen]_vars
    BY <1>1
  <1> QED
    BY <1>2, TablesAgree, PTL DEF Spec, LegacyFrozenAfterV3

=============================================================================
