--------------------------- MODULE ReleaseRotation ---------------------------
(***************************************************************************)
(* Release rotation (src/src/rotation/provider.rs): the replacement of the *)
(* occupant of the cutex-release seat by a fresh session, as a durable     *)
(* record that moves over eight boundaries, with the seat store that keeps *)
(* it (src/src/seat/mod.rs), the release template and the durable sessions *)
(* the external steps work on (src/src/cli_app/rotation.rs).              *)
(*                                                                         *)
(* Every request of the management API runs in a thread, a frame: it reads *)
(* the record, and between two locked accesses of the seat store any other *)
(* frame, an administrative bind, the operator or the end of the process   *)
(* may come.  Boundaries are numbered in their order, and the external     *)
(* step that may be pending at a boundary is determined by it.  A native   *)
(* thread has the name of the session that owns it.  A request whose       *)
(* checks fail, and a replay of an action that has a record, change        *)
(* nothing: only the calls that get past the checks are steps.             *)
(***************************************************************************)
EXTENDS Naturals, FiniteSets

CONSTANTS
    Sessions,       \* CutexSessionId
    Director,       \* the first occupant of cutex-director
    Predecessor,    \* the first occupant of cutex-release
    Rotations,      \* ActionId of rotation requests
    Frames,         \* threads of the management server
    MaxAdmin,       \* bound: administrative binds and template changes
    MaxRestarts,    \* bound: restarts while a frame runs
    MaxFaults,      \* bound: failing external steps and store writes
    None

ASSUME SessionsAssumption == /\ {Director, Predecessor} \subseteq Sessions
                             /\ Director # Predecessor
                             /\ None \notin Sessions \cup Rotations \cup Frames
ASSUME BoundsAssumption == {MaxAdmin, MaxRestarts, MaxFaults} \subseteq Nat

Seats == {"director", "release"}
SeatRevoked == 0
PredecessorOfflined == 1
PredecessorRetired == 2
SuccessorSessionCreated == 3
SuccessorThreadStarted == 4
SuccessorRuntimeOnline == 5
SuccessorBound == 6
DirectorMessageDelivered == 7

VARIABLES
    occ,        \* occupancies: seat -> occupant and epoch
    vacancy,    \* rotating_vacancies of cutex-release
    active,     \* active_release_rotation
    rot,        \* release_rotations: the ReleaseRotationRecord of every action
    template,   \* version of the current template
    sess,       \* CutexSessionRecord and runtime of every session
    got,        \* starting messages the Agent Bus took, per rotation
    frame,      \* the calls in progress
    admin, restarts, faults

store == <<occ, vacancy, active, rot>>
world == <<sess, got>>
spent == <<admin, restarts, faults>>
vars == <<store, template, world, frame, spent>>

Unbound == [who |-> None, epoch |-> 0]
NoVacancy == [a |-> None, pred |-> None, epoch |-> 0]
NoRotation == [st |-> "none", bd |-> SeatRevoked, pend |-> FALSE, reason |-> "none",
               dir |-> None, pred |-> None, epoch |-> 0, tmpl |-> 0,
               succ |-> None, thread |-> None, succEpoch |-> 0]
NoRequest == [pred |-> None, epoch |-> 0, tmpl |-> 0, dir |-> None]
Idle == [pc |-> "idle", a |-> None, rec |-> NoRotation, req |-> NoRequest,
         succ |-> None, thread |-> None]

\* The configuration a session was made with is the version of the template
\* it was made from; 0 for a session that does not bear the successor's name.
NewSession(v) == [st |-> "active", tmpl |-> v, thread |-> FALSE, claim |-> FALSE,
                  runtime |-> FALSE, online |-> FALSE]
Running0 == [st |-> "active", tmpl |-> 0, thread |-> TRUE, claim |-> FALSE,
             runtime |-> TRUE, online |-> TRUE]
Absent == [NewSession(0) EXCEPT !.st = "absent"]

Init ==
    /\ occ = [director |-> [who |-> Director, epoch |-> 1],
              release |-> [who |-> Predecessor, epoch |-> 1]]
    /\ vacancy = NoVacancy /\ active = None
    /\ rot = [a \in Rotations |-> NoRotation]
    /\ template = 1
    /\ sess = [s \in Sessions |-> IF s \in {Director, Predecessor} THEN Running0 ELSE Absent]
    /\ got = [a \in Rotations |-> 0]
    /\ frame = [f \in Frames |-> Idle]
    /\ admin = 0 /\ restarts = 0 /\ faults = 0

----------------------------------------------------------------------------
Answer(f) == frame' = [frame EXCEPT ![f] = Idle]
Go(f, pc, rec) == frame' = [frame EXCEPT ![f].pc = pc, ![f].rec = rec]

----------------------------------------------------------------------------
(* A Director's request.                                                   *)

TemplateIs(v) == template = v

\* The Agent Bus authenticates the Director and passes his request on; the
\* provider checks everything it can before the seat is touched.  The request
\* names the occupancy and the template the Director believes in.  The bus
\* gives its execution mutex back after five seconds without an answer, so
\* that the same request may be running twice.
RequestDirector(f, a, req) ==
    /\ frame[f] = Idle
    /\ rot[a] = NoRotation
    /\ occ.director.who = req.dir
    /\ active = None
    /\ occ.release = [who |-> req.pred, epoch |-> req.epoch]
    /\ TemplateIs(req.tmpl)
    /\ frame' = [frame EXCEPT ![f] = [Idle EXCEPT !.pc = "begin", !.a = a, !.req = req]]
    /\ UNCHANGED <<store, template, world, spent>>

\* with_current_template and begin_release_rotation: under both locks the
\* checks are repeated, the seat becomes vacant and the record is written.
\* The record of an equal request that came first is taken over.
Begin(f) ==
    LET c == frame[f]
        record == [NoRotation EXCEPT !.st = "running", !.dir = c.req.dir, !.pred = c.req.pred,
                                     !.epoch = c.req.epoch, !.tmpl = c.req.tmpl]
        fresh == /\ TemplateIs(c.req.tmpl)
                 /\ active = None
                 /\ occ.director.who = c.req.dir
                 /\ occ.release = [who |-> c.req.pred, epoch |-> c.req.epoch]
        known == /\ TemplateIs(c.req.tmpl)
                 /\ \A k \in DOMAIN c.req : c.req[k] = rot[c.a][k]
    IN  /\ c.pc = "begin"
        /\ UNCHANGED <<template, world, spent>>
        /\ \/ /\ rot[c.a] = NoRotation /\ fresh
              /\ occ' = [occ EXCEPT !.release = Unbound]
              /\ vacancy' = [a |-> c.a, pred |-> c.req.pred, epoch |-> c.req.epoch]
              /\ active' = c.a
              /\ rot' = [rot EXCEPT ![c.a] = record]
              /\ Go(f, "boundary", record)
           \/ /\ rot[c.a] # NoRotation /\ known
              /\ Go(f, "boundary", rot[c.a]) /\ UNCHANGED store
           \/ /\ ~ IF rot[c.a] = NoRotation THEN fresh ELSE known
              /\ Answer(f) /\ UNCHANGED store

----------------------------------------------------------------------------
(* The execution loop: mark the step pending, run it, confirm or block.    *)

Marked(r) == [r EXCEPT !.st = "running", !.reason = "none", !.pend = TRUE]
Blocked(r, why) == [r EXCEPT !.st = "blocked", !.pend = FALSE, !.reason = why]
Advanced(r, succ, thread) ==
    [r EXCEPT !.bd = @ + 1, !.pend = FALSE, !.st = "running", !.reason = "none",
              !.succ = IF succ # None THEN succ ELSE @,
              !.thread = IF thread # None THEN thread ELSE @]

SetRotation(a, r) == rot' = [rot EXCEPT ![a] = r] /\ UNCHANGED <<occ, vacancy, active>>

\* mark_release_rotation_pending
MarkPending(f) ==
    LET c == frame[f]
        r == rot[c.a]
        mine == /\ r.st # "complete" /\ r.st = c.rec.st /\ r.bd = c.rec.bd /\ ~r.pend
    IN  /\ c.pc = "boundary"
        /\ c.rec.bd \notin {SuccessorRuntimeOnline, DirectorMessageDelivered}
        /\ UNCHANGED <<template, world, spent>>
        /\ \/ mine /\ SetRotation(c.a, Marked(r)) /\ Go(f, "external", Marked(r))
           \/ ~mine /\ Answer(f) /\ UNCHANGED store

\* A frame that holds a record whose rotation is over answers with it.
Finished(f) ==
    /\ frame[f].pc = "boundary" /\ frame[f].rec.bd = DirectorMessageDelivered
    /\ Answer(f)
    /\ UNCHANGED <<store, template, world, spent>>

\* predecessor_thread_id could not be read: the record is blocked before the
\* step was marked, whatever another frame has done to it in the meantime.
ThreadUnreadable(f) ==
    LET c == frame[f]
    IN  /\ c.pc = "boundary" /\ c.rec.bd = SuccessorSessionCreated
        /\ faults < MaxFaults /\ faults' = faults + 1
        /\ frame' = [frame EXCEPT ![f].pc = "failed"]
        /\ UNCHANGED <<store, template, world, admin, restarts>>

Executing(f, step) == frame[f].pc = "external" /\ frame[f].rec.bd = step

\* An external step that took effect is reported as done, or its report is
\* lost (a timeout, an error in a later sub-step) and the caller sees a failure.
Reported(f, succ, thread) ==
    /\ UNCHANGED <<store, template, admin, restarts>>
    /\ \/ /\ frame' = [frame EXCEPT ![f].pc = "landed", ![f].succ = succ, ![f].thread = thread]
          /\ UNCHANGED faults
       \/ /\ faults < MaxFaults /\ faults' = faults + 1
          /\ frame' = [frame EXCEPT ![f].pc = "failed"]

OfflinePredecessor(f) ==
    LET p == frame[f].rec.pred
    IN  /\ Executing(f, SeatRevoked) /\ sess[p] # Absent
        /\ sess' = [sess EXCEPT ![p].runtime = FALSE, ![p].online = FALSE]
        /\ Reported(f, None, None) /\ UNCHANGED got

\* The retirement stops a runtime that is up again before it commits.
RetirePredecessor(f) ==
    LET p == frame[f].rec.pred
    IN  /\ Executing(f, PredecessorOfflined) /\ sess[p] # Absent
        /\ sess' = [sess EXCEPT ![p].runtime = FALSE, ![p].online = FALSE, ![p].st = "retired"]
        /\ Reported(f, None, None) /\ UNCHANGED got

NameIsTaken == \E s \in Sessions : sess[s].st = "active" /\ sess[s].tmpl # 0
CreateSuccessorSession(f, s) ==
    /\ Executing(f, PredecessorRetired)
    /\ ~NameIsTaken /\ sess[s] = Absent
    /\ sess' = [sess EXCEPT ![s] = NewSession(frame[f].rec.tmpl)]
    /\ Reported(f, s, None) /\ UNCHANGED got

\* thread/start persists an ownership claim first, then the thread with its
\* runtime in place of the claim.  A failure is rolled back to the clean
\* session, unless the clean-up of the child failed: then the claim stays.
ThreadIsClear(s) == sess[s].st = "active" /\ ~sess[s].thread /\ ~sess[s].claim /\ ~sess[s].runtime
ClaimThread(f) ==
    LET s == frame[f].rec.succ
    IN  /\ Executing(f, SuccessorSessionCreated) /\ ThreadIsClear(s)
        /\ sess' = [sess EXCEPT ![s].claim = TRUE]
        /\ frame' = [frame EXCEPT ![f].pc = "starting"]
        /\ UNCHANGED <<store, template, got, spent>>
StartSuccessorThread(f) ==
    LET s == frame[f].rec.succ
    IN  /\ frame[f].pc = "starting"
        /\ UNCHANGED <<store, template, got, admin, restarts>>
        /\ \/ /\ sess[s].claim /\ ~sess[s].thread
              /\ sess' = [sess EXCEPT ![s].claim = FALSE, ![s].thread = TRUE, ![s].runtime = TRUE]
              /\ frame' = [frame EXCEPT ![f].pc = "landed", ![f].thread = s]
              /\ UNCHANGED faults
           \/ /\ faults < MaxFaults /\ faults' = faults + 1
              /\ sess' \in {sess, [sess EXCEPT ![s].claim = FALSE]}
              /\ frame' = [frame EXCEPT ![f].pc = "failed"]

LaunchSuccessorRuntime(f) ==
    LET s == frame[f].rec.succ
    IN  /\ Executing(f, SuccessorThreadStarted) /\ sess[s].runtime
        /\ sess' = [sess EXCEPT ![s].online = TRUE]
        /\ Reported(f, None, None) /\ UNCHANGED got

CanDeliver(r) == sess[r.succ].thread /\ sess[r.succ].online /\ sess[r.dir].online
DeliverDirectorMessage(f) ==
    /\ Executing(f, SuccessorBound) /\ CanDeliver(frame[f].rec)
    /\ got' = [got EXCEPT ![frame[f].a] = @ + 1]
    /\ Reported(f, None, None) /\ UNCHANGED sess

\* A step that does nothing: it may not run in this state, or it broke down.
Possible(r) ==
    CASE r.bd = PredecessorRetired -> ~NameIsTaken
      [] r.bd = SuccessorSessionCreated -> ThreadIsClear(r.succ)
      [] r.bd = SuccessorThreadStarted -> sess[r.succ].runtime
      [] r.bd = SuccessorBound -> CanDeliver(r)
      [] OTHER -> sess[r.pred] # Absent
StepFails(f) ==
    LET cost == IF Possible(frame[f].rec) THEN 1 ELSE 0
    IN  /\ frame[f].pc = "external"
        /\ faults + cost <= MaxFaults /\ faults' = faults + cost
        /\ frame' = [frame EXCEPT ![f].pc = "failed"]
        /\ UNCHANGED <<store, template, world, admin, restarts>>

\* Mutant: a complete rotation keeps the fence.
KeepFence == UNCHANGED active
LiftFence == active' = None

\* finish_pending, and complete_release_rotation for the last boundary
Finish(f) ==
    LET c == frame[f]
        r == rot[c.a]
        next == Advanced(r, c.succ, c.thread)
        mine == r.st = "running" /\ r.bd = c.rec.bd /\ r.pend
    IN  /\ c.pc = "landed"
        /\ UNCHANGED <<template, world, spent>>
        /\ \/ /\ mine /\ r.bd # SuccessorBound
              /\ SetRotation(c.a, next)
              /\ frame' = [frame EXCEPT ![f] = [Idle EXCEPT !.pc = "boundary", !.a = c.a, !.rec = next]]
             
           \/ /\ mine /\ r.bd = SuccessorBound
              /\ rot' = [rot EXCEPT ![c.a] = [next EXCEPT !.st = "complete"]]
              /\ LiftFence /\ UNCHANGED <<occ, vacancy>>
              /\ Answer(f)
           \/ ~mine /\ Answer(f) /\ UNCHANGED store

\* blocked and blocked_external: block_release_rotation checks nothing but
\* that the rotation is not complete.
Block(f) ==
    LET c == frame[f]
    IN  /\ c.pc = "failed"
        /\ IF rot[c.a].st = "complete" THEN UNCHANGED store
           ELSE SetRotation(c.a, Blocked(rot[c.a], "external_step_failed"))
        /\ Answer(f)
        /\ UNCHANGED <<template, world, spent>>

NextEpoch(epoch) == epoch + 1

\* bind_release_rotation_successor.  A conflict is answered and leaves the
\* record as it is.
BindSuccessor(f) ==
    LET c == frame[f]
        r == rot[c.a]
        bound == [r EXCEPT !.bd = SuccessorBound, !.succEpoch = NextEpoch(vacancy.epoch)]
        mine == /\ r.bd = SuccessorRuntimeOnline /\ r.st = "running" /\ ~r.pend
                /\ r.succ = c.rec.succ
                /\ vacancy = [a |-> c.a, pred |-> r.pred, epoch |-> r.epoch]
                /\ occ.release = Unbound
                /\ occ.director.who # r.succ
        done == r.bd >= SuccessorBound /\ r.succ = c.rec.succ
    IN  /\ c.pc = "boundary" /\ c.rec.bd = SuccessorRuntimeOnline
        /\ UNCHANGED <<template, world, spent>>
        /\ \/ /\ mine
              /\ occ' = [occ EXCEPT !.release = [who |-> r.succ, epoch |-> NextEpoch(vacancy.epoch)]]
              /\ vacancy' = NoVacancy
              /\ rot' = [rot EXCEPT ![c.a] = bound]
              /\ UNCHANGED active
              /\ Go(f, "boundary", bound)
           \/ done /\ Go(f, "boundary", r) /\ UNCHANGED store
           \/ ~mine /\ ~done /\ Answer(f) /\ UNCHANGED store

\* A locked access whose read or write fails ends the call and leaves the
\* record as it was: it stays running, with no frame behind it.
StoreFails(f) ==
    /\ frame[f].pc \in {"begin", "boundary", "landed", "failed", "correct"}
    /\ faults < MaxFaults /\ faults' = faults + 1
    /\ Answer(f)
    /\ UNCHANGED <<store, template, world, admin, restarts>>

----------------------------------------------------------------------------
(* The continuation of a blocked rotation by the root.                     *)

\* verify_successor_session: clean, and made from the record's template.
IsCleanSuccessor(r, s) ==
    /\ s # r.pred /\ sess[s].st = "active" /\ sess[s].tmpl = r.tmpl
    /\ ~sess[s].thread /\ ~sess[s].runtime
\* Mutant: any thread id the operator names for the successor is believed.
BelieveThread(r, t) == t # r.pred /\ t = r.succ
\* verify_successor_thread, against the predecessor's thread as well.
IsSuccessorThread(r, t) ==
    /\ t # r.pred /\ t = r.succ
    /\ sess[r.succ].st = "active" /\ sess[r.succ].thread /\ sess[r.succ].runtime

Uncorrected(cs, ct) == cs = None /\ ct = None

\* retry_root reads the record, compares it with what the operator expects of
\* it (the record read here is what he saw), and verifies the correction.
RetryRoot(f, a, cs, ct) ==
    LET r == rot[a]
        explicit == \/ r.pend /\ r.bd \in {PredecessorRetired, SuccessorSessionCreated}
                    \/ ~r.pend /\ r.reason = "external_step_failed" /\ r.bd # SuccessorSessionCreated
                    \/ ~r.pend /\ r.reason = "external_step_failed" /\ ~Uncorrected(cs, ct)
        verified ==
            CASE explicit /\ r.bd = PredecessorRetired -> ct = None /\ cs # None /\ IsCleanSuccessor(r, cs)
              [] explicit /\ r.bd = SuccessorSessionCreated ->
                    cs = None /\ ct # None /\ IsSuccessorThread(r, ct)
              [] ~explicit /\ r.reason = "external_step_failed" -> IsCleanSuccessor(r, r.succ)
              [] OTHER -> Uncorrected(cs, ct)
    IN  /\ frame[f] = Idle /\ r.st = "blocked" /\ verified
        /\ frame' = [frame EXCEPT ![f] =
                [Idle EXCEPT !.pc = "correct", !.a = a, !.rec = r, !.succ = cs, !.thread = ct]]
        /\ UNCHANGED <<store, template, world, spent>>

\* resume_interrupted_release_rotation: the record is still the one that the
\* restart classified, at the same boundary.
Interrupted(r, seen) ==
    /\ r.st = "blocked" /\ r.bd = seen.bd /\ r.pend = seen.pend
    /\ r.reason = IF seen.pend THEN "restart_external_outcome_unknown"
                  ELSE "restart_between_boundaries"
\* resume_clean_synchronous_thread_start
CleanStart(r, seen) ==
    /\ r.st = "blocked" /\ r.bd = SuccessorSessionCreated /\ ~r.pend
    /\ r.reason = "external_step_failed" /\ r.succ = seen.succ
\* finish_pending_correction
Correctable(r, seen) == r.st = "blocked" /\ r.bd = seen.bd /\ r.pend = seen.pend

Resumed(r) == [r EXCEPT !.st = "running", !.pend = FALSE, !.reason = "none"]

\* Each is a compare-and-set on the record; at the other boundaries a failed
\* step is executed again with no write of its own.
Correct(f) ==
    LET c == frame[f]
        r == rot[c.a]
        seen == c.rec
        resume == Uncorrected(c.succ, c.thread) /\ seen.reason # "external_step_failed"
        clean == /\ Uncorrected(c.succ, c.thread) /\ seen.reason = "external_step_failed"
                 /\ seen.bd = SuccessorSessionCreated
        again == Uncorrected(c.succ, c.thread) /\ ~resume /\ ~clean
        mine == CASE resume -> Interrupted(r, seen)
                  [] clean -> CleanStart(r, seen)
                  [] OTHER -> Correctable(r, seen)
        next == IF resume \/ clean THEN Resumed(r) ELSE Advanced(r, c.succ, c.thread)
    IN  /\ c.pc = "correct"
        /\ UNCHANGED <<template, world, spent>>
        /\ \/ /\ again
              /\ frame' = [frame EXCEPT ![f].pc = "boundary"] /\ UNCHANGED store
           \/ /\ ~again /\ mine
              /\ SetRotation(c.a, next)
              /\ frame' = [frame EXCEPT ![f] = [Idle EXCEPT !.pc = "boundary", !.a = c.a, !.rec = next]]
           \/ ~again /\ ~mine /\ Answer(f) /\ UNCHANGED store

----------------------------------------------------------------------------
(* The process, the administrators and the operator.                       *)

\* Mutant: records found running at start-up are left as they are.
Unclassified(r) == r
\* The frames are lost with the process; before the next one serves, every
\* running record is classified (block_interrupted_release_rotations).
Classified(r) ==
    IF r.st # "running" THEN r
    ELSE [r EXCEPT !.st = "blocked",
                   !.reason = IF r.pend THEN "restart_external_outcome_unknown"
                              ELSE "restart_between_boundaries"]
Restart ==
    LET busy == \E f \in Frames : frame[f] # Idle
    IN  /\ restarts + (IF busy THEN 1 ELSE 0) <= MaxRestarts
        /\ restarts' = restarts + (IF busy THEN 1 ELSE 0)
        /\ busy \/ \E a \in Rotations : rot[a].st = "running"
        /\ frame' = [f \in Frames |-> Idle]
        /\ rot' = [a \in Rotations |-> Classified(rot[a])]
        /\ UNCHANGED <<occ, vacancy, active, template, world, admin, faults>>

\* SeatOccupancyStore::bind
Bind(seat, s) ==
    /\ admin < MaxAdmin /\ admin' = admin + 1
    /\ \A other \in Seats \ {seat} : occ[other].who # s
    /\ seat = "release" => vacancy = NoVacancy /\ active = None
    /\ occ' = [occ EXCEPT ![seat] =
            [who |-> s, epoch |-> occ[seat].epoch + 1]]
    /\ UNCHANGED <<vacancy, active, rot, template, world, frame, restarts, faults>>

\* ReleaseTemplateStore::configure
Configure ==
    /\ admin < MaxAdmin /\ admin' = admin + 1
    /\ template' = template + 1
    /\ UNCHANGED <<store, world, frame, restarts, faults>>

\* A runtime dies, and the operator starts it again.
RuntimeDies(s) ==
    /\ faults < MaxFaults /\ faults' = faults + 1
    /\ sess[s].runtime
    /\ sess' = [sess EXCEPT ![s].runtime = FALSE, ![s].online = FALSE]
    /\ UNCHANGED <<store, template, got, frame, admin, restarts>>
BringOnline(s) ==
    /\ sess[s].st = "active" /\ sess[s].thread /\ ~sess[s].online
    /\ sess' = [sess EXCEPT ![s].runtime = TRUE, ![s].online = TRUE]
    /\ UNCHANGED <<store, template, got, frame, spent>>
\* The operator replaces what a lost step has not made: the session, or the
\* thread of a session that has none (a left-over claim is cleared with it).
ProvideSession(a, s) ==
    /\ rot[a].st = "blocked" /\ rot[a].bd = PredecessorRetired
    /\ ~NameIsTaken /\ sess[s] = Absent
    /\ sess' = [sess EXCEPT ![s] = NewSession(rot[a].tmpl)]
    /\ UNCHANGED <<store, template, got, frame, spent>>
ProvideThread(a) ==
    LET s == rot[a].succ
    IN  /\ rot[a].st = "blocked" /\ rot[a].bd = SuccessorSessionCreated
        /\ sess[s].st = "active" /\ ~sess[s].thread
        /\ \A f \in Frames : ~(frame[f].pc = "starting" /\ frame[f].rec.succ = s)
        /\ sess' = [sess EXCEPT ![s].claim = FALSE, ![s].thread = TRUE, ![s].runtime = TRUE]
        /\ UNCHANGED <<store, template, got, frame, spent>>

Request == [pred : Sessions, epoch : 1 .. Cardinality(Rotations) + MaxAdmin + 1,
            tmpl : 1 .. MaxAdmin + 1, dir : Sessions]

Step(f) ==
    \/ Begin(f) \/ MarkPending(f) \/ Finished(f)
    \/ OfflinePredecessor(f) \/ RetirePredecessor(f)
    \/ \E s \in Sessions : CreateSuccessorSession(f, s)
    \/ ClaimThread(f) \/ StartSuccessorThread(f)
    \/ LaunchSuccessorRuntime(f) \/ DeliverDirectorMessage(f)
    \/ StepFails(f) \/ Finish(f) \/ Block(f) \/ BindSuccessor(f) \/ Correct(f)
Continue(a) == \E f \in Frames, cs, ct \in Sessions \cup {None} : RetryRoot(f, a, cs, ct)
Repair == \/ \E s \in Sessions : BringOnline(s)
          \/ \E a \in Rotations, s \in Sessions : ProvideSession(a, s)
          \/ \E a \in Rotations : ProvideThread(a)

Next ==
    \/ \E f \in Frames : Step(f) \/ ThreadUnreadable(f) \/ StoreFails(f)
    \/ \E f \in Frames, a \in Rotations, req \in Request : RequestDirector(f, a, req)
    \/ \E a \in Rotations : Continue(a)
    \/ Restart \/ Configure \/ Repair
    \/ \E s \in Sessions : RuntimeDies(s)
    \/ \E seat \in Seats, s \in Sessions : Bind(seat, s)

Spec == Init /\ [][Next]_vars

\* A thread runs until its call is answered; the operator continues what is
\* blocked, repairs the sessions and restarts a service that has a running
\* record and no thread behind it.
Orphan == \E a \in Rotations : rot[a].st = "running" /\ \A f \in Frames : frame[f] = Idle
FairSpec ==
    /\ Spec
    /\ \A f \in Frames : WF_vars(Step(f))
    /\ \A a \in Rotations : SF_vars(Continue(a))
    /\ SF_vars(Repair)
    /\ WF_vars(Orphan /\ Restart)

----------------------------------------------------------------------------
(* Properties.                                                             *)

\* The seat, the vacancy, the fence and the records tell one story through
\* every interleaving of frames, binds, crashes and corrections: a rotation
\* that has begun and is not complete owns the fence, and until its successor
\* is bound the seat is empty under a vacancy that names it (begin, bind and
\* complete_release_rotation in seat/mod.rs).
OneStory ==
    /\ \A a \in Rotations : (active = a) <=> (rot[a].st \in {"running", "blocked"})
    /\ (vacancy # NoVacancy) <=> (active # None /\ rot[active].bd < SuccessorBound)
    /\ (vacancy # NoVacancy) <=> (occ.release = Unbound)
    /\ vacancy # NoVacancy =>
            vacancy = [a |-> active, pred |-> rot[active].pred, epoch |-> rot[active].epoch]

\* A boundary the record claims has been passed in the world, whichever frame,
\* retry or correction wrote it: the predecessor is down for good before a
\* successor exists, the successor is a session of the record's template with
\* its own thread, and a complete rotation has handed the message over.
BoundariesAreTrue ==
    \A a \in Rotations :
        LET r == rot[a]
        IN  /\ r.bd >= PredecessorRetired => sess[r.pred].st = "retired" /\ ~sess[r.pred].runtime
            /\ r.bd >= SuccessorSessionCreated =>
                    r.succ # r.pred /\ sess[r.succ].st # "absent" /\ sess[r.succ].tmpl = r.tmpl
            /\ r.bd >= SuccessorThreadStarted => r.thread = r.succ /\ sess[r.succ].thread
            /\ r.st = "complete" => got[a] > 0

\* A rotation that has taken the seat finishes, if the operator keeps
\* continuing it, except in two cases.  An administrator has seated a session
\* that does not exist, or has made the successor the Director; or a second
\* frame of the same request, which could not read the predecessor's thread,
\* has blocked the record at SuccessorRuntimeOnline: bind then refuses the
\* record because it is not running, and no retry ever sets it running.
Misseated(a) ==
    /\ active = a
    /\ \/ sess[rot[a].pred] = Absent \/ sess[rot[a].dir].st # "active"
       \/ occ.director.who = rot[a].succ
Wedged(a) ==
    /\ rot[a].st = "blocked" /\ rot[a].bd = SuccessorRuntimeOnline
    /\ rot[a].reason = "external_step_failed"
RotationsFinish ==
    \A a \in Rotations : (active = a) ~> (rot[a].st = "complete" \/ Misseated(a) \/ Wedged(a))
=============================================================================
