---------------------------- MODULE TaskProvider ----------------------------
(***************************************************************************)
(* The production Task Service provider, src/src/task_service/provider.rs: *)
(* the semantic state machine behind TaskServiceProvider.  Every public    *)
(* mutation takes the process lock and the store lock, recovers the        *)
(* durable snapshot, probes the receipt table, applies its change and      *)
(* commits state, outbox entry and receipt in one journal record.  A call  *)
(* that returns an error writes nothing, so a call is one atomic action    *)
(* here and a refused call is a stutter.  How the one record reaches disk  *)
(* is the subject of module ProviderJournal.                               *)
(*                                                                         *)
(* Maps are total functions; an absent entry is a record whose kind field  *)
(* (state, phase, op, rev) says so.  Timestamps, texts, contract bytes and *)
(* hashes are left out.  A SHA-256 digest is represented by the values it  *)
(* covers: an attempt token, the digest of (assignment, number, start      *)
(* action), is the action that started the attempt.                        *)
(***************************************************************************)
EXTENDS Naturals, FiniteSets

CONSTANTS
    Actions,        \* ActionId: caller-chosen idempotency keys
    AssignmentIds, SendIds, MessageIds, Tasks, Workflows,
    Revisions,      \* task revision numbers a coordinator may publish
    Projects,       \* ProjectId
    Seats,          \* logical seats: workflow coordinators, completion authorities
    Sessions,       \* durable Cutex sessions: the Workers
    None,           \* Option::None
    MaxLocal,       \* MAX_JSON_SAFE_INTEGER, the ceiling of every local revision
    MaxAttempt,     \* MAX_JSON_SAFE_INTEGER, the ceiling of attempt numbers
    MaxPrepared     \* MAX_PREPARED_WORKER_ACTIONS

ASSUME BoundsAssumption ==
    /\ MaxLocal \in Nat \ {0}
    /\ MaxAttempt \in Nat \ {0}
    /\ MaxPrepared \in Nat
    /\ Revisions \subseteq Nat

ASSUME NoneAssumption ==
    None \notin Actions \cup AssignmentIds \cup Tasks \cup Workflows \cup Projects
                \cup Seats \cup Sessions

VARIABLES
    schema,         \* ProviderStoreSchema: "V2" until the first project-scoped write
    workflows, revisions, assignments, attempts, sends,
    notes,          \* completion_notifications
    followups,      \* worker_followup_notifications
    receipts, prepared,
    views           \* what each seat last read through the seated query

store == <<schema, workflows, revisions, assignments, attempts, sends, notes,
           followups, receipts, prepared>>
vars == <<schema, workflows, revisions, assignments, attempts, sends, notes,
          followups, receipts, prepared, views>>

-----------------------------------------------------------------------------
(* The shapes of the stored records. *)

WorkerOps == {"start", "decline", "report_status", "block", "resume", "submit",
              "abort_attempt"}
BoundOps == WorkerOps \ {"start", "decline"}     \* requires_attempt_binding
TerminalOps == {"accept_result", "request_changes", "fail_result", "cancel"}
OtherOps == {"create_revision", "create_project_revision", "assign_and_dispatch",
             "assign_project_and_dispatch", "retry_delivery",
             "cancel_assignment", "authorize_attempt_retry", "close_assignment",
             "record_communication_event", "record_completion_notification_fact",
             "record_worker_followup_fact"}
Ops == WorkerOps \cup TerminalOps \cup OtherOps

AssignmentStates == {"absent", "awaiting_ack", "active", "retry_pending", "closed"}
LivePhases == {"running", "blocked", "review_ready"}
EndPhases == {"completed", "failed", "cancelled", "aborted"}
Phases == {"absent"} \cup LivePhases \cup EndPhases
ClosureReasons == {"none", "completed", "failed", "cancelled", "aborted", "declined"}
NoteKinds == {"review_ready", "blocked", "declined", "attempt_aborted",
              "retries_exhausted", "owner_action_required", "terminal_closure"}
FactKinds == {"queued", "delivered", "uncertain"}
CommKinds == {"send_prepared", "bus_queued", "context_inserted", "send_uncertain",
              "send_retry_scheduled", "retries_exhausted", "status_request_sent"}

Local == 0 .. MaxLocal
Numbers == 1 .. MaxAttempt
Scope == Projects \cup {None}

\* DurableAttemptBinding; number 0 is "no binding".
Binding == [num : 0 .. MaxAttempt, tok : Actions \cup {None}]
NoBinding == [num |-> 0, tok |-> None]

\* WorkerMechanicalContext: the binding plus the two expected revisions.
Context == [arev : Local, num : 0 .. MaxAttempt, tok : Actions \cup {None}, trev : Local]
NoContext == [arev |-> 0, num |-> 0, tok |-> None, trev |-> 0]

NoWorkflow == [rev |-> 0, seat |-> None, proj |-> None]
NoRevision == [wf |-> None, proj |-> None, auth |-> None]
NoAssignment == [state |-> "absent", proj |-> None, task |-> None, trev |-> 0,
                 assignee |-> None, rev |-> 0, active |-> 0, retry |-> None,
                 reason |-> "none", closer |-> None, last |-> 0]
NoAttempt == [phase |-> "absent", tok |-> None, rev |-> 0, statuses |-> {},
              results |-> {}, term |-> None]
NoSend == [asg |-> None, ord |-> 0, msg |-> None, rev |-> 0]
NoReceipt == [op |-> "absent", who |-> None, on |-> None, bind |-> NoBinding]
NoPrepared == [op |-> "absent", session |-> None, asg |-> None, bind |-> NoBinding,
               ctx |-> NoContext]
NoView == [asg |-> None, ctx |-> NoContext, phase |-> "absent", results |-> {}]

\* TaskServiceSnapshot::empty, and seats that have read nothing yet.
Init ==
    /\ schema = "V2"
    /\ workflows = [w \in Workflows |-> NoWorkflow]
    /\ revisions = [t \in Tasks |-> [r \in Revisions |-> NoRevision]]
    /\ assignments = [a \in AssignmentIds |-> NoAssignment]
    /\ attempts = [a \in AssignmentIds |-> [n \in Numbers |-> NoAttempt]]
    /\ sends = [s \in SendIds |-> NoSend]
    /\ notes = {}
    /\ followups = {}
    /\ receipts = [i \in Actions |-> NoReceipt]
    /\ prepared = [i \in Actions |-> NoPrepared]
    /\ views = [s \in Seats |-> NoView]

-----------------------------------------------------------------------------
(* Guards shared by the operations. *)

\* Mutant of Scoped: the V3 fence is forgotten.
ScopedWithoutFence(a) == assignments[a].state # "absent"

\* require_scoped_mutation_after_v3: the assignment exists, and once the store
\* is V3 an unscoped legacy assignment is immutable.
Scoped(a) ==
    /\ assignments[a].state # "absent"
    /\ schema = "V3" => assignments[a].proj # None

\* task_revision
RevisionOf(a) == revisions[assignments[a].task][assignments[a].trev]

\* authorize_workflow_coordinator (nothing in the provider ever leaves the Open guard)
CoordinatesWorkflow(seat, w) == workflows[w].rev > 0 /\ workflows[w].seat = seat

\* authorize_assignment_coordinator
Coordinates(seat, a) == CoordinatesWorkflow(seat, RevisionOf(a).wf)

\* authorize_terminal
HasAuthority(seat, a) == RevisionOf(a).auth = seat

\* next_local: a revision at the ceiling refuses the whole call.
CanBump(rev) == rev < MaxLocal

\* worker_mechanical_context
MechanicalContext(a) ==
    LET n == assignments[a].active IN
    IF n = 0
    THEN [arev |-> assignments[a].rev, num |-> 0, tok |-> None, trev |-> 0]
    ELSE [arev |-> assignments[a].rev, num |-> n, tok |-> attempts[a][n].tok,
          trev |-> attempts[a][n].rev]

BindingOf(ctx) == [num |-> ctx.num, tok |-> ctx.tok]

\* require_assignment_revision
RequireAssignmentRevision(a, ctx) == ctx.arev = assignments[a].rev

\* require_worker_attempt_context
RequireAttemptContext(a, ctx) ==
    /\ ctx.num # 0
    /\ ctx.num = assignments[a].active
    /\ attempts[a][ctx.num].tok = ctx.tok
    /\ attempts[a][ctx.num].rev = ctx.trev

\* require_cancel_context
RequireCancelContext(a, ctx) ==
    /\ IF assignments[a].active = 0
       THEN ctx.num = 0
       ELSE RequireAttemptContext(a, ctx)
    /\ RequireAssignmentRevision(a, ctx)

-----------------------------------------------------------------------------
(* What every operation does to finish. *)

\* mutate: an action id that already has a receipt replays it (or conflicts) and
\* changes nothing; otherwise the receipt is committed with the change.  The
\* closing validate_state refuses an id that is both committed and prepared;
\* only executing a prepared action removes the preparation.
Commit(id, op, who, on, bind) ==
    /\ receipts[id].op = "absent"
    /\ prepared[id].op \in {"absent", op}
    /\ receipts' = [receipts EXCEPT ![id] =
                        [op |-> op, who |-> who, on |-> on, bind |-> bind]]

\* The fields notification_id is a digest of.  (Task and revision are functions
\* of the assignment.)
NoteKey(x) == <<x.asg, x.num, x.action, x.kind>>

\* schedule_completion_notification*: the outbox entry is part of the same state
\* change as the transition it announces.
Schedule(a, num, id, kind, target) ==
    LET new == [asg |-> a, num |-> num, action |-> id, kind |-> kind,
                target |-> target, rev |-> 1, facts |-> {}]
    IN  /\ \A x \in notes : NoteKey(x) # NoteKey(new)
        /\ notes' = notes \cup {new}

\* Mutant of ScheduleForCoordinator: the outbox entry is left for later.
ScheduleNothing(a, num, id, kind) == UNCHANGED notes

CoordinatorSeat(a) == workflows[RevisionOf(a).wf].seat
ScheduleForCoordinator(a, num, id, kind) ==
    Schedule(a, num, id, kind, CoordinatorSeat(a))

\* schedule_worker_followup_notification
ScheduleFollowup(a, num, id) ==
    LET new == [asg |-> a, num |-> num, action |-> id,
                target |-> assignments[a].assignee, rev |-> 1, facts |-> {}]
    IN  /\ \A x \in followups : <<x.asg, x.num, x.action>> # <<a, num, id>>
        /\ followups' = followups \cup {new}

\* close_assignment_internal
Closed(a, reason, num, id) ==
    [assignments[a] EXCEPT !.state = "closed", !.rev = @ + 1, !.retry = None,
                           !.reason = reason, !.last = num, !.closer = id]
CanClose(a) == assignments[a].state # "closed" /\ CanBump(assignments[a].rev)

\* The attempt leaves its live phases and its assignment waits for a retry.
RetryPending(a) ==
    [assignments[a] EXCEPT !.state = "retry_pending", !.rev = @ + 1, !.retry = None]

\* Mutant of InPhase: the phase moves, the revision does not.
InPhaseSameRevision(t, phase) == [t EXCEPT !.phase = phase]

\* An attempt moves to a phase under a new local revision.
InPhase(t, phase) == [t EXCEPT !.phase = phase, !.rev = @ + 1]
EndedBy(t, phase, id) == [t EXCEPT !.phase = phase, !.rev = @ + 1, !.term = id]
-----------------------------------------------------------------------------
(* Coordinator: publishing work. *)

\* Mutant of TouchWorkflow: the workflow's project is not compared.
TouchAnyWorkflow(w, seat, proj) ==
    LET wf == workflows[w] IN
    /\ wf.rev > 0 => wf.seat = seat /\ CanBump(wf.rev)
    /\ workflows' = [workflows EXCEPT ![w] =
                        [rev |-> wf.rev + 1, seat |-> seat, proj |-> proj]]

\* The workflow half of create_revision and create_project_revision: the first
\* revision creates the workflow for the caller's seat, a later one needs that
\* seat and the current workflow revision, which it advances.
TouchWorkflow(w, seat, proj) ==
    LET wf == workflows[w] IN
    /\ wf.rev > 0 => wf.proj = proj /\ wf.seat = seat /\ CanBump(wf.rev)
    /\ workflows' = [workflows EXCEPT ![w] =
                        [rev |-> wf.rev + 1, seat |-> seat, proj |-> proj]]

\* A task's revisions are published in strictly increasing order.
PublishRevision(t, r, w, proj, auth) ==
    /\ \A q \in Revisions : revisions[t][q].wf # None => q < r
    /\ revisions' = [revisions EXCEPT ![t][r] = [wf |-> w, proj |-> proj, auth |-> auth]]

CreateRevision(id, seat, w, t, r, auth) ==
    /\ Commit(id, "create_revision", seat, w, NoBinding)
    /\ schema = "V2"
    /\ TouchWorkflow(w, seat, None)
    /\ PublishRevision(t, r, w, None, auth)
    /\ UNCHANGED <<schema, assignments, attempts, sends, notes, followups, prepared, views>>

CreateProjectRevision(id, seat, proj, w, t, r, auth) ==
    /\ Commit(id, "create_project_revision", seat, w, NoBinding)
    /\ TouchWorkflow(w, seat, proj)
    /\ \A q \in Revisions : revisions[t][q].wf # None => revisions[t][q].proj = proj
    /\ PublishRevision(t, r, w, proj, auth)
    /\ schema' = "V3"
    /\ UNCHANGED <<assignments, attempts, sends, notes, followups, prepared, views>>

\* Assignment and first send attempt of assign_and_dispatch and
\* assign_project_and_dispatch.  The message id is not compared with the ids
\* of other send attempts here.
Assign(seat, a, sd, msg, t, r, worker) ==
    LET revision == revisions[t][r] IN
    /\ assignments[a].state = "absent"
    /\ sends[sd].asg = None
    /\ revision.wf # None
    /\ CoordinatesWorkflow(seat, revision.wf)
    /\ assignments' = [assignments EXCEPT ![a] =
            [state |-> "awaiting_ack", proj |-> revision.proj, task |-> t, trev |-> r,
             assignee |-> worker, rev |-> 1, active |-> 0, retry |-> None,
             reason |-> "none", closer |-> None, last |-> 0]]
    /\ sends' = [sends EXCEPT ![sd] = [asg |-> a, ord |-> 1, msg |-> msg, rev |-> 1]]

AssignAndDispatch(id, seat, a, sd, msg, t, r, worker) ==
    /\ Commit(id, "assign_and_dispatch", seat, a, NoBinding)
    /\ schema = "V2"
    /\ revisions[t][r].proj = None
    /\ Assign(seat, a, sd, msg, t, r, worker)
    /\ UNCHANGED <<schema, workflows, revisions, attempts, notes, followups, prepared, views>>

AssignProjectAndDispatch(id, seat, a, sd, msg, proj, t, r, worker) ==
    /\ Commit(id, "assign_project_and_dispatch", seat, a, NoBinding)
    /\ revisions[t][r].proj = proj
    /\ workflows[revisions[t][r].wf].proj = proj
    /\ Assign(seat, a, sd, msg, t, r, worker)
    /\ schema' = "V3"
    /\ UNCHANGED <<workflows, revisions, attempts, notes, followups, prepared, views>>

\* The seated query: the coordinator's and the authority's source of the
\* revisions and handles their next request carries.  By then it may be stale.
SeatedQuery(seat, a) ==
    LET ctx == MechanicalContext(a) IN
    /\ assignments[a].state # "absent"
    /\ views' = [views EXCEPT ![seat] =
            [asg |-> a, ctx |-> ctx,
             phase |-> IF ctx.num = 0 THEN "absent" ELSE attempts[a][ctx.num].phase,
             results |-> IF ctx.num = 0 THEN {} ELSE attempts[a][ctx.num].results]]
    /\ UNCHANGED store

\* retry_delivery: a further send attempt; only this call checks that the
\* message id is new.
RetryDelivery(id, seat, sd, msg) ==
    LET a == views[seat].asg
        mine == {s \in SendIds : sends[s].asg = a}
    IN  /\ Commit(id, "retry_delivery", seat, a, NoBinding)
        /\ a # None
        /\ Scoped(a)
        /\ RequireAssignmentRevision(a, views[seat].ctx)
        /\ assignments[a].state # "closed"
        /\ Coordinates(seat, a)
        /\ sends[sd].asg = None
        /\ \A s \in SendIds : sends[s].asg # None => sends[s].msg # msg
        /\ \E ord \in 1 .. MaxLocal :
              /\ \A s \in mine : sends[s].ord < ord
              /\ \/ ord = 1
                 \/ \E s \in mine : sends[s].ord = ord - 1
              /\ sends' = [sends EXCEPT ![sd] = [asg |-> a, ord |-> ord, msg |-> msg, rev |-> 1]]
        /\ UNCHANGED <<schema, workflows, revisions, assignments, attempts, notes,
                       followups, prepared, views>>

-----------------------------------------------------------------------------
(* System: what delivery learned. *)

RecordCommunicationEvent(id, sd, kind) ==
    LET a == sends[sd].asg IN
    /\ Commit(id, "record_communication_event", "system", a, NoBinding)
    /\ a # None
    /\ Scoped(a)
    /\ CanBump(sends[sd].rev)
    /\ sends' = [sends EXCEPT ![sd].rev = @ + 1]
    /\ IF kind = "retries_exhausted"
       THEN ScheduleForCoordinator(a, assignments[a].active, id, "retries_exhausted")
       ELSE UNCHANGED notes
    /\ UNCHANGED <<schema, workflows, revisions, assignments, attempts, followups,
                   prepared, views>>

WithFact(x, fact) == [x EXCEPT !.rev = @ + 1, !.facts = @ \cup {fact}]

RecordCompletionNotificationFact(id, x, fact) ==
    /\ Commit(id, "record_completion_notification_fact", "system", x.asg, NoBinding)
    /\ Scoped(x.asg)
    /\ CanBump(x.rev)
    /\ notes' = (notes \ {x}) \cup {WithFact(x, fact)}
    /\ UNCHANGED <<schema, workflows, revisions, assignments, attempts, sends,
                   followups, prepared, views>>

RecordWorkerFollowupFact(id, x, fact) ==
    /\ Commit(id, "record_worker_followup_fact", "system", x.asg, NoBinding)
    /\ Scoped(x.asg)
    /\ CanBump(x.rev)
    /\ followups' = (followups \ {x}) \cup {WithFact(x, fact)}
    /\ UNCHANGED <<schema, workflows, revisions, assignments, attempts, sends, notes,
                   prepared, views>>

-----------------------------------------------------------------------------
(* Worker: two-phase actions.  prepare_worker_action durably records what the *)
(* Worker wants to do and the attempt it is about; execute_worker_action runs *)
(* the prepared action, at any later time and as often as it is delivered.    *)

\* validate_worker_action_legal
Legal(op, a) ==
    LET asg == assignments[a]
        phase == IF asg.active = 0 THEN "absent" ELSE attempts[a][asg.active].phase
    IN  CASE op = "start" -> \/ asg.state = "awaiting_ack"
                             \/ asg.state = "retry_pending" /\ asg.retry # None
          [] op = "decline" -> asg.state = "awaiting_ack"
          [] op = "report_status" -> phase \in {"running", "blocked"}
          [] op \in {"block", "submit"} -> phase = "running"
          [] op = "resume" -> phase = "blocked"
          [] op = "abort_attempt" -> phase \in LivePhases

\* prepare_worker_context: the context the action will run under.
WorkerContext(op, a) ==
    IF op \in BoundOps
    THEN MechanicalContext(a)
    ELSE [arev |-> assignments[a].rev, num |-> 0, tok |-> None, trev |-> 0]

CanPrepare(session, op, a) ==
    /\ Scoped(a)
    /\ assignments[a].assignee = session
    /\ op \in BoundOps => assignments[a].active # 0
    /\ Legal(op, a)

PreparedIds == {i \in Actions : prepared[i].op # "absent"}

PrepareWorkerAction(id, session, op, a) ==
    /\ receipts[id].op = "absent"
    /\ prepared[id].op = "absent"
    /\ CanPrepare(session, op, a)
    /\ Cardinality(PreparedIds) < MaxPrepared
    /\ prepared' = [prepared EXCEPT ![id] =
            [op |-> op, session |-> session, asg |-> a, ctx |-> WorkerContext(op, a),
             bind |-> BindingOf(WorkerContext(op, a))]]
    /\ UNCHANGED <<schema, workflows, revisions, assignments, attempts, sends, notes,
                   followups, receipts, views>>

\* Mutant of RefreshWorkerAction: the context follows the current attempt while
\* the binding stays.
RefreshFollowsAttempt(id, session) ==
    LET p == prepared[id] IN
    /\ receipts[id].op = "absent"
    /\ p.op # "absent"
    /\ p.session = session
    /\ CanPrepare(session, p.op, p.asg)
    /\ prepared' = [prepared EXCEPT ![id].ctx = WorkerContext(p.op, p.asg)]
    /\ UNCHANGED <<schema, workflows, revisions, assignments, attempts, sends, notes,
                   followups, receipts, views>>

\* Preparing the same semantic action again may only move the expected
\* revisions; its attempt is the one it was first prepared for.
RefreshWorkerAction(id, session) ==
    LET p == prepared[id] IN
    /\ receipts[id].op = "absent"
    /\ p.op # "absent"
    /\ p.session = session
    /\ CanPrepare(session, p.op, p.asg)
    /\ BindingOf(WorkerContext(p.op, p.asg)) = p.bind
    /\ prepared' = [prepared EXCEPT ![id].ctx = WorkerContext(p.op, p.asg)]
    /\ UNCHANGED <<schema, workflows, revisions, assignments, attempts, sends, notes,
                   followups, receipts, views>>

\* The common part of execute_worker_action.  The envelope must carry the
\* content, the binding and the context of the durable preparation, so it is
\* identified with the preparation; the lookup before the lock only finds that
\* same binding, which never changes (PreparationKeepsItsAttempt).
Execute(id, session, op) ==
    LET p == prepared[id] IN
    /\ Commit(id, op, session, p.asg, p.bind)
    /\ p.op = op
    /\ Scoped(p.asg)
    /\ p.session = session
    /\ assignments[p.asg].assignee = session
    /\ RequireAssignmentRevision(p.asg, p.ctx)
    /\ IF op \in BoundOps
       THEN RequireAttemptContext(p.asg, p.ctx)
       ELSE p.ctx.num = 0
    /\ prepared' = [prepared EXCEPT ![id] = NoPrepared]
    /\ UNCHANGED <<schema, workflows, revisions, sends, followups, views>>

\* The assignment after start_attempt.
Started(a, n) ==
    [assignments[a] EXCEPT !.state = "active", !.rev = @ + 1, !.active = n, !.retry = None]

\* start_attempt
Start(id, session) ==
    LET a == prepared[id].asg
        asg == assignments[a]
        n == IF asg.state = "awaiting_ack" THEN 1 ELSE asg.active + 1
    IN  /\ Execute(id, session, "start")
        /\ \/ asg.state = "awaiting_ack"
           \/ asg.state = "retry_pending" /\ asg.retry # None
        /\ n \in Numbers
        /\ CanBump(asg.rev)
        /\ attempts' = [attempts EXCEPT ![a][n] =
                [phase |-> "running", tok |-> id, rev |-> 1, statuses |-> {},
                 results |-> {}, term |-> None]]
        /\ assignments' = [assignments EXCEPT ![a] = Started(a, n)]
        /\ UNCHANGED notes

\* decline_assignment
Decline(id, session) ==
    LET a == prepared[id].asg IN
    /\ Execute(id, session, "decline")
    /\ assignments[a].state = "awaiting_ack"
    /\ CanClose(a)
    /\ assignments' = [assignments EXCEPT ![a] = Closed(a, "declined", 0, id)]
    /\ ScheduleForCoordinator(a, 0, id, "declined")
    /\ UNCHANGED attempts

\* bound_attempt_mut: the attempt a bound action runs on is the one its context
\* names; BoundTo replaces it.
BoundAttempt(id) == attempts[prepared[id].asg][prepared[id].ctx.num]
BoundTo(id, t) ==
    /\ CanBump(BoundAttempt(id).rev)
    /\ attempts' = [attempts EXCEPT ![prepared[id].asg][prepared[id].ctx.num] = t]

ReportStatus(id, session) ==
    LET t == BoundAttempt(id) IN
    /\ Execute(id, session, "report_status")
    /\ t.phase \in {"running", "blocked"}
    /\ BoundTo(id, [t EXCEPT !.rev = @ + 1, !.statuses = @ \cup {id}])
    /\ UNCHANGED <<assignments, notes>>

Block(id, session) ==
    LET t == BoundAttempt(id) IN
    /\ Execute(id, session, "block")
    /\ t.phase = "running"
    /\ BoundTo(id, InPhase(t, "blocked"))
    /\ ScheduleForCoordinator(prepared[id].asg, prepared[id].ctx.num, id, "blocked")
    /\ UNCHANGED assignments

Resume(id, session) ==
    LET t == BoundAttempt(id) IN
    /\ Execute(id, session, "resume")
    /\ t.phase = "blocked"
    /\ BoundTo(id, InPhase(t, "running"))
    /\ UNCHANGED <<assignments, notes>>

Submit(id, session) ==
    LET t == BoundAttempt(id)
        a == prepared[id].asg
    IN  /\ Execute(id, session, "submit")
        /\ t.phase = "running"
        /\ BoundTo(id, [InPhase(t, "review_ready") EXCEPT !.results = @ \cup {id}])
        /\ Schedule(a, prepared[id].ctx.num, id, "review_ready", RevisionOf(a).auth)
        /\ UNCHANGED assignments

AbortAttempt(id, session) ==
    LET t == BoundAttempt(id)
        a == prepared[id].asg
    IN  /\ Execute(id, session, "abort_attempt")
        /\ t.phase \in LivePhases
        /\ BoundTo(id, EndedBy(t, "aborted", id))
        /\ CanBump(assignments[a].rev)
        /\ assignments' = [assignments EXCEPT ![a] = RetryPending(a)]
        /\ ScheduleForCoordinator(a, prepared[id].ctx.num, id, "attempt_aborted")

-----------------------------------------------------------------------------
(* Completion authority: execute_terminal_action.  The request carries the   *)
(* context the seat read earlier.                                            *)

\* What the three review decisions share: authority over an attempt that is
\* still, revision for revision, the one the seat read.
Review(id, seat, op) ==
    LET v == views[seat] IN
    /\ Commit(id, op, seat, v.asg, BindingOf(v.ctx))
    /\ v.asg # None
    /\ Scoped(v.asg)
    /\ HasAuthority(seat, v.asg)
    /\ RequireAttemptContext(v.asg, v.ctx)
    /\ RequireAssignmentRevision(v.asg, v.ctx)
    /\ attempts[v.asg][v.ctx.num].phase = "review_ready"
    /\ CanBump(attempts[v.asg][v.ctx.num].rev)
    /\ UNCHANGED <<schema, workflows, revisions, sends, prepared, views>>

RequestChanges(id, seat) ==
    LET a == views[seat].asg
        n == views[seat].ctx.num
    IN  /\ Review(id, seat, "request_changes")
        /\ attempts' = [attempts EXCEPT ![a][n] = InPhase(@, "running")]
        /\ ScheduleFollowup(a, n, id)
        /\ UNCHANGED <<assignments, notes>>

AcceptResult(id, seat) ==
    LET a == views[seat].asg
        n == views[seat].ctx.num
    IN  /\ Review(id, seat, "accept_result")
        /\ attempts' = [attempts EXCEPT ![a][n] = EndedBy(@, "completed", id)]
        /\ CanClose(a)
        /\ assignments' = [assignments EXCEPT ![a] = Closed(a, "completed", n, id)]
        /\ ScheduleForCoordinator(a, n, id, "terminal_closure")
        /\ UNCHANGED followups

FailResult(id, seat) ==
    LET a == views[seat].asg
        n == views[seat].ctx.num
    IN  /\ Review(id, seat, "fail_result")
        /\ attempts' = [attempts EXCEPT ![a][n] = EndedBy(@, "failed", id)]
        /\ CanBump(assignments[a].rev)
        /\ assignments' = [assignments EXCEPT ![a] = RetryPending(a)]
        /\ ScheduleForCoordinator(a, n, id, "owner_action_required")
        /\ UNCHANGED followups

\* Mutant of CancelWith: an attempt that already ended is cancelled again.
CancelEndedAttempt(id, a, ctx) ==
    LET n == assignments[a].active IN
    /\ Scoped(a)
    /\ RequireCancelContext(a, ctx)
    /\ CanClose(a)
    /\ n # 0 => CanBump(attempts[a][n].rev)
    /\ attempts' = IF n # 0
                   THEN [attempts EXCEPT ![a][n] = EndedBy(@, "cancelled", id)]
                   ELSE attempts
    /\ assignments' = [assignments EXCEPT ![a] = Closed(a, "cancelled", n, id)]
    /\ ScheduleForCoordinator(a, ctx.num, id, "terminal_closure")
    /\ UNCHANGED <<schema, workflows, revisions, sends, followups, prepared, views>>

\* cancel_assignment_internal and the notification both callers schedule: a live
\* attempt is cancelled, one that already ended keeps its phase.
CancelWith(id, a, ctx) ==
    LET n == assignments[a].active
        live == n # 0 /\ attempts[a][n].phase \notin EndPhases
    IN  /\ Scoped(a)
        /\ RequireCancelContext(a, ctx)
        /\ CanClose(a)
        /\ live => CanBump(attempts[a][n].rev)
        /\ attempts' = IF live
                       THEN [attempts EXCEPT ![a][n] = EndedBy(@, "cancelled", id)]
                       ELSE attempts
        /\ assignments' = [assignments EXCEPT ![a] = Closed(a, "cancelled", n, id)]
        /\ ScheduleForCoordinator(a, ctx.num, id, "terminal_closure")
        /\ UNCHANGED <<schema, workflows, revisions, sends, followups, prepared, views>>

TerminalCancel(id, seat) ==
    LET v == views[seat] IN
    /\ Commit(id, "cancel", seat, v.asg, BindingOf(v.ctx))
    /\ v.asg # None
    /\ HasAuthority(seat, v.asg)
    /\ CancelWith(id, v.asg, v.ctx)

CancelAssignment(id, seat) ==
    LET v == views[seat] IN
    /\ Commit(id, "cancel_assignment", seat, v.asg, BindingOf(v.ctx))
    /\ v.asg # None
    /\ Coordinates(seat, v.asg)
    /\ CancelWith(id, v.asg, v.ctx)

-----------------------------------------------------------------------------
(* Coordinator: after a failed or aborted attempt. *)

AuthorizeAttemptRetry(id, seat) ==
    LET a == views[seat].asg IN
    /\ Commit(id, "authorize_attempt_retry", seat, a, NoBinding)
    /\ a # None
    /\ Scoped(a)
    /\ Coordinates(seat, a)
    /\ RequireAssignmentRevision(a, views[seat].ctx)
    /\ assignments[a].state = "retry_pending"
    /\ assignments[a].retry = None
    /\ CanBump(assignments[a].rev)
    /\ assignments' = [assignments EXCEPT ![a].rev = @ + 1, ![a].retry = id]
    /\ UNCHANGED <<schema, workflows, revisions, attempts, sends, notes, followups,
                   prepared, views>>

\* The reason close_assignment records, by the phase it finds.
CloseReason(phase) == IF phase = "failed" THEN "failed" ELSE "aborted"

CloseAssignment(id, seat) ==
    LET v == views[seat]
        a == v.asg
    IN  /\ Commit(id, "close_assignment", seat, a, BindingOf(v.ctx))
        /\ a # None
        /\ Scoped(a)
        /\ Coordinates(seat, a)
        /\ RequireAttemptContext(a, v.ctx)
        /\ RequireAssignmentRevision(a, v.ctx)
        /\ attempts[a][v.ctx.num].phase \in {"failed", "aborted"}
        /\ CanClose(a)
        /\ assignments' = [assignments EXCEPT ![a] =
                              Closed(a, CloseReason(attempts[a][v.ctx.num].phase), v.ctx.num, id)]
        /\ ScheduleForCoordinator(a, v.ctx.num, id, "terminal_closure")
        /\ UNCHANGED <<schema, workflows, revisions, attempts, sends, followups,
                       prepared, views>>

-----------------------------------------------------------------------------
Publish(id, seat) ==
    \E w \in Workflows, t \in Tasks, r \in Revisions, auth \in Seats :
        \/ CreateRevision(id, seat, w, t, r, auth)
        \/ \E proj \in Projects : CreateProjectRevision(id, seat, proj, w, t, r, auth)

Dispatch(id, seat) ==
    \E a \in AssignmentIds, sd \in SendIds, msg \in MessageIds, t \in Tasks,
       r \in Revisions, worker \in Sessions :
        \/ AssignAndDispatch(id, seat, a, sd, msg, t, r, worker)
        \/ \E proj \in Projects :
               AssignProjectAndDispatch(id, seat, a, sd, msg, proj, t, r, worker)

SeatAction(id, seat) ==
    \/ Publish(id, seat)
    \/ Dispatch(id, seat)
    \/ \E sd \in SendIds, msg \in MessageIds : RetryDelivery(id, seat, sd, msg)
    \/ RequestChanges(id, seat)
    \/ AcceptResult(id, seat)
    \/ FailResult(id, seat)
    \/ TerminalCancel(id, seat)
    \/ CancelAssignment(id, seat)
    \/ AuthorizeAttemptRetry(id, seat)
    \/ CloseAssignment(id, seat)

WorkerAction(id, session) ==
    \/ \E op \in WorkerOps, a \in AssignmentIds : PrepareWorkerAction(id, session, op, a)
    \/ RefreshWorkerAction(id, session)
    \/ Start(id, session)
    \/ Decline(id, session)
    \/ ReportStatus(id, session)
    \/ Block(id, session)
    \/ Resume(id, session)
    \/ Submit(id, session)
    \/ AbortAttempt(id, session)

SystemAction(id) ==
    \/ \E sd \in SendIds, kind \in CommKinds : RecordCommunicationEvent(id, sd, kind)
    \/ \E x \in notes, fact \in FactKinds : RecordCompletionNotificationFact(id, x, fact)
    \/ \E x \in followups, fact \in FactKinds : RecordWorkerFollowupFact(id, x, fact)

Next ==
    \/ \E seat \in Seats, a \in AssignmentIds : SeatedQuery(seat, a)
    \/ \E id \in Actions :
          \/ \E seat \in Seats : SeatAction(id, seat)
          \/ \E session \in Sessions : WorkerAction(id, session)
          \/ SystemAction(id)

Spec == Init /\ [][Next]_vars

-----------------------------------------------------------------------------
(* Properties. *)

Committed(ops) == {i \in Actions : receipts[i].op \in ops}
CommittedOn(a, ops) == {i \in Committed(ops) : receipts[i].on = a}

\* The types of the stored records.
WorkflowRecord == [rev : Local, seat : Seats \cup {None}, proj : Scope]
RevisionRecord == [wf : Workflows \cup {None}, proj : Scope, auth : Seats \cup {None}]
AssignmentRecord ==
    [state : AssignmentStates, proj : Scope, task : Tasks \cup {None},
     trev : Revisions \cup {0}, assignee : Sessions \cup {None}, rev : Local,
     active : 0 .. MaxAttempt, retry : Actions \cup {None}, reason : ClosureReasons,
     closer : Actions \cup {None}, last : 0 .. MaxAttempt]
AttemptRecord ==
    [phase : Phases, tok : Actions \cup {None}, rev : Local, statuses : SUBSET Actions,
     results : SUBSET Actions, term : Actions \cup {None}]
SendRecord == [asg : AssignmentIds \cup {None}, ord : Local,
               msg : MessageIds \cup {None}, rev : Local]
NoteRecord == [asg : AssignmentIds, num : 0 .. MaxAttempt, action : Actions,
               kind : NoteKinds, target : Seats, rev : Local, facts : SUBSET FactKinds]
FollowupRecord == [asg : AssignmentIds, num : Numbers, action : Actions,
                   target : Sessions, rev : Local, facts : SUBSET FactKinds]
ReceiptRecord ==
    [op : Ops \cup {"absent"}, who : Seats \cup Sessions \cup {"system", None},
     on : AssignmentIds \cup Workflows \cup {None}, bind : Binding]
PreparedRecord ==
    [op : WorkerOps \cup {"absent"}, session : Sessions \cup {None},
     asg : AssignmentIds \cup {None}, bind : Binding, ctx : Context]
ViewRecord == [asg : AssignmentIds \cup {None}, ctx : Context, phase : Phases,
               results : SUBSET Actions]

\* Every stored record has the shape its Rust type gives it, with every revision
\* and attempt number below its ceiling.
TypeOK ==
    /\ schema \in {"V2", "V3"}
    /\ workflows \in [Workflows -> WorkflowRecord]
    /\ revisions \in [Tasks -> [Revisions -> RevisionRecord]]
    /\ assignments \in [AssignmentIds -> AssignmentRecord]
    /\ attempts \in [AssignmentIds -> [Numbers -> AttemptRecord]]
    /\ sends \in [SendIds -> SendRecord]
    /\ notes \subseteq NoteRecord
    /\ followups \subseteq FollowupRecord
    /\ receipts \in [Actions -> ReceiptRecord]
    /\ prepared \in [Actions -> PreparedRecord]
    /\ views \in [Seats -> ViewRecord]

\* Every reference resolves: what a record names exists.
Linked ==
    /\ \A w \in Workflows : workflows[w].rev > 0 => workflows[w].seat # None
    /\ \A t \in Tasks, r \in Revisions : revisions[t][r].wf # None =>
         /\ revisions[t][r].auth # None
         /\ workflows[revisions[t][r].wf].rev > 0
    /\ \A a \in AssignmentIds : assignments[a].state # "absent" =>
         /\ assignments[a].task # None
         /\ assignments[a].trev \in Revisions
         /\ assignments[a].assignee # None
         /\ RevisionOf(a).wf # None
    /\ \A i \in Actions : prepared[i].op # "absent" =>
         /\ prepared[i].asg # None
         /\ assignments[prepared[i].asg].state # "absent"
    /\ \A s \in Seats : views[s].asg # None => assignments[views[s].asg].state # "absent"

\* validate_state, the check every commit runs on the state it is about to write
\* and every recovery runs on the state it has read.  Commit models only the
\* conjunct a caller can trip (an id both prepared and committed); that the rest
\* holds of every reachable state says no accepted request is ever lost to it
\* and no store the provider wrote is later refused as invalid.
ValidateState ==
    /\ \A t \in Tasks, r \in Revisions :
          LET x == revisions[t][r] IN
          x.wf # None => /\ workflows[x.wf].rev > 0
                         /\ workflows[x.wf].proj = x.proj
                         /\ schema = "V2" => x.proj = None
    /\ \A w \in Workflows : schema = "V2" => workflows[w].proj = None
    /\ \A a \in AssignmentIds :
          LET x == assignments[a] IN
          x.state # "absent" =>
            /\ x.rev > 0
            /\ RevisionOf(a).wf # None
            /\ RevisionOf(a).proj = x.proj
            /\ (x.state = "closed") = (x.reason # "none")
            /\ x.active # 0 => attempts[a][x.active].phase # "absent"
    /\ \A a \in AssignmentIds, n \in Numbers :
          attempts[a][n].phase # "absent" =>
            /\ attempts[a][n].rev > 0
            /\ assignments[a].state # "absent"
    /\ \A s \in SendIds :
          sends[s].asg # None => /\ assignments[sends[s].asg].state # "absent"
                                 /\ sends[s].rev > 0
                                 /\ sends[s].ord > 0
    /\ \A x \in notes : x.rev > 0 /\ assignments[x.asg].state # "absent"
    /\ \A x \in followups :
          /\ x.rev > 0
          /\ assignments[x.asg].state # "absent"
          /\ assignments[x.asg].assignee = x.target
          /\ attempts[x.asg][x.num].phase # "absent"
    /\ Cardinality(PreparedIds) <= MaxPrepared
    /\ \A i \in PreparedIds :
          LET p == prepared[i] IN
          /\ receipts[i].op = "absent"
          /\ p.ctx.arev > 0
          /\ assignments[p.asg].state # "absent"
          /\ assignments[p.asg].assignee = p.session
          /\ BindingOf(p.ctx) = p.bind
          /\ p.bind.num # 0 => /\ p.ctx.trev > 0
                               /\ attempts[p.asg][p.bind.num].phase # "absent"
                               /\ attempts[p.asg][p.bind.num].tok = p.bind.tok

\* What AssignmentLifecycle sees of an assignment and of an attempt.
AssignmentView(x) == [state |-> x.state, active |-> x.active, retry |-> x.retry,
                      reason |-> x.reason, closer |-> x.closer, last |-> x.last]
AttemptView(t) == [phase |-> t.phase, term |-> t.term]
LifeMap == [a \in AssignmentIds |-> AssignmentView(assignments[a])]
TriesMap == [a \in AssignmentIds |-> [n \in Numbers |-> AttemptView(attempts[a][n])]]

Lifecycle == INSTANCE AssignmentLifecycle WITH life <- LifeMap, tries <- TriesMap

\* The provider implements the lifecycle: whatever Workers, coordinators,
\* authorities and delivery do with however stale information, an assignment and
\* its attempts only ever take the lifecycle's steps.
ImplementsLifecycle == Lifecycle!Spec

\* An assignment and its attempts tell one story: attempts are numbered without
\* gaps up to the active one, only the active one can be live, it is live exactly
\* while the assignment is active, and a retry waits only behind an attempt that
\* failed or was aborted.
OneLiveAttempt == \A a \in AssignmentIds : Lifecycle!OneLive(assignments[a], attempts[a])

\* Why an assignment was closed agrees with how its last attempt ended, whoever
\* raced whom: a cancellation may find the attempt already failed or aborted, but
\* never completed, and a completion closes with the decision that completed it.
ClosureAgrees == \A a \in AssignmentIds : Lifecycle!Agrees(assignments[a], attempts[a])

\* One authorization buys one attempt: at most one start uses a retry
\* authorization and no attempt after the first starts without one.
RetryPerAuthorization ==
    \A a \in AssignmentIds :
      LET x == assignments[a]
          granted == Cardinality(CommittedOn(a, {"authorize_attempt_retry"}))
          used == IF x.active = 0 THEN 0 ELSE x.active - 1
      IN  IF x.state = "closed"
          THEN granted \in {used, used + 1}
          ELSE granted = IF x.retry = None THEN used ELSE used + 1

\* Exactly once, on the right attempt: the evidence an attempt holds and the
\* receipts bound to that attempt are the same actions, and the attempts and
\* the retries authorized for them add up.  A delayed or repeated envelope can
\* neither act twice nor land on a later attempt.
EvidenceMatchesReceipts ==
    /\ RetryPerAuthorization
    /\ \A a \in AssignmentIds, n \in Numbers :
         LET t == attempts[a][n]
             Bound(ops) == {i \in CommittedOn(a, ops) :
                              receipts[i].bind = [num |-> n, tok |-> t.tok]}
         IN  t.phase # "absent" =>
               /\ t.tok \in CommittedOn(a, {"start"})
               /\ t.statuses = Bound({"report_status"})
               /\ t.results = Bound({"submit"})
               /\ (t.term # None) = (t.phase \in EndPhases)
               /\ t.term # None =>
                    t.term \in Bound(CASE t.phase = "completed" -> {"accept_result"}
                                       [] t.phase = "failed" -> {"fail_result"}
                                       [] t.phase = "aborted" -> {"abort_attempt"}
                                       [] t.phase = "cancelled" -> {"cancel", "cancel_assignment"}
                                       [] OTHER -> {})
    /\ \A i \in Committed(BoundOps \cup (TerminalOps \ {"cancel"})) :
         LET b == receipts[i].bind IN
         b.num # 0 /\ attempts[receipts[i].on][b.num].tok = b.tok

AnnouncedOps == {"submit", "block", "decline", "abort_attempt", "accept_result",
                 "fail_result", "cancel", "cancel_assignment", "close_assignment"}
Announcement(op) ==
    CASE op = "submit" -> "review_ready"
      [] op = "block" -> "blocked"
      [] op = "decline" -> "declined"
      [] op = "abort_attempt" -> "attempt_aborted"
      [] op = "fail_result" -> "owner_action_required"
      [] op = "record_communication_event" -> "retries_exhausted"
      [] OTHER -> "terminal_closure"

\* The outbox is complete and has no ghosts: a committed transition has exactly
\* one notification, of its kind, about its attempt and addressed to the seat that
\* must act on it (one follow-up to the assignee for request_changes), and no
\* notification exists without its committed transition.
OutboxMatchesReceipts ==
    /\ \A i \in Committed(AnnouncedOps) :
         \E x \in notes : /\ x.action = i
                          /\ x.asg = receipts[i].on
                          /\ x.num = receipts[i].bind.num
    /\ \A x \in notes :
         /\ x.action \in CommittedOn(x.asg, AnnouncedOps \cup {"record_communication_event"})
         /\ x.kind = Announcement(receipts[x.action].op)
         /\ x.target = IF x.kind = "review_ready" THEN RevisionOf(x.asg).auth
                                                  ELSE CoordinatorSeat(x.asg)
         /\ \A y \in notes : x.action = y.action => x = y
    /\ \A i \in Committed({"request_changes"}) :
         \E x \in followups : x.action = i /\ x.num = receipts[i].bind.num
    /\ \A x \in followups :
         /\ x.action \in CommittedOn(x.asg, {"request_changes"})
         /\ \A y \in followups : x.action = y.action => x = y

\* A handle identifies content (no ABA): if the attempt still has the number,
\* token and revision a seat read, it also still has the phase and the results
\* the seat read, so a decision that passes the check is a decision about what
\* was reviewed.  The same for Workers: a prepared action whose expected
\* revisions still match is still legal, so execute never refuses it on the
\* state of the attempt.
DecisionOnWhatWasRead ==
    /\ \A s \in Seats :
         LET v == views[s] IN
         v.asg # None /\ RequireAttemptContext(v.asg, v.ctx) =>
           /\ attempts[v.asg][v.ctx.num].phase = v.phase
           /\ attempts[v.asg][v.ctx.num].results = v.results
    /\ \A i \in PreparedIds :
         LET p == prepared[i] IN
         p.ctx = WorkerContext(p.op, p.asg) => Legal(p.op, p.asg)

\* A closed assignment is final: neither it nor its attempts change again, and no
\* further delivery of it is attempted.
ClosedIsFinal ==
    [][\A a \in AssignmentIds : assignments[a].state = "closed" =>
         /\ assignments'[a] = assignments[a]
         /\ attempts'[a] = attempts[a]
         /\ \A s \in SendIds : sends'[s].asg = a => sends[s].asg = a]_vars

\* V3 activation freezes legacy work for good: no unscoped assignment appears or
\* changes any more, in any of its aggregates.
LegacyFrozenAfterV3 ==
    [][schema = "V3" =>
         /\ schema' = "V3"
         /\ \A a \in AssignmentIds :
              LET was == assignments[a].state # "absent" /\ assignments[a].proj = None
                  is == assignments'[a].state # "absent" /\ assignments'[a].proj = None
              IN  /\ is => was
                  /\ was => /\ assignments'[a] = assignments[a]
                            /\ attempts'[a] = attempts[a]
                            /\ {x \in notes' : x.asg = a} = {x \in notes : x.asg = a}
                            /\ {x \in followups' : x.asg = a} = {x \in followups : x.asg = a}
                            /\ \A s \in SendIds :
                                 sends[s].asg = a \/ sends'[s].asg = a => sends'[s] = sends[s]
                            /\ \A i \in Actions :
                                 prepared'[i].asg = a => prepared'[i] = prepared[i]]_vars
=============================================================================

