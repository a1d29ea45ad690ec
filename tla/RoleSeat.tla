------------------------------- MODULE RoleSeat -------------------------------
(***************************************************************************)
(* The role-seat repository (src/src/role_revision/repository.rs and       *)
(* repository/persist.rs) under the operations of RoleSeatCore.  A         *)
(* mutation runs under an exclusive file lock: load and validate, compare  *)
(* the request with the table of those already answered, compare the store *)
(* revision, plan, validate the answer and the next store, write a         *)
(* temporary file, rename it over the store and sync the directory.  The   *)
(* rename is what others see; the sync is what a power failure respects.   *)
(* A caller who was not told the outcome keeps the request and asks again. *)
(***************************************************************************)
EXTENDS RoleSeatCore

CONSTANTS
    Initializations, Roots,     \* initialization ids, root revisions to choose from
    Incumbents,                 \* durable sessions a family may start with
    SessionRefs,                \* durable sessions: [id, durable]
    Transitions,                \* transition ids
    Handoffs,                   \* [task, sha, recipient, acceptance]
    Endings,                    \* how callers give a rotation up: "failed", "cancelled"
    MaxTime,                    \* bound: readings of the clock, in the order of their texts
    MaxRevision,                \* bound: store revisions considered
    MaxFaults                   \* bound: unknown outcomes, unanswered mutations, clock steps back

ASSUME SeatAssumption ==
    /\ Roots \subseteq 1..MaxNumber
    /\ Endings \subseteq {"failed", "cancelled"}
    /\ MaxTime \in Nat \ {0} /\ MaxFaults \in Nat /\ MaxRevision \in 1..MaxNumber

VARIABLES
    disk,       \* the stores from the one on the medium to the one last renamed into place
    writing,    \* the request whose store was renamed and is not yet synced
    held,       \* a request whose caller does not know the outcome
    confirmed,  \* the table entries of requests answered Committed
    bets,       \* those answered from a store that was not yet on the medium
    clock, faults

vars == <<disk, writing, held, confirmed, bets, clock, faults>>

store == Last(disk)
Times == 1..MaxTime

-----------------------------------------------------------------------------
(* The requests a caller can make of the store it has read. *)

Forged == Evidence("other", <<>>)
Receipts(kind, subjects) == {Evidence(kind, subjects), Forged}

Contexts == {TransitionContextFor(store.family, store.family.transitions[t]) :
                t \in DOMAIN store.family.transitions}

Recipients == {h.recipient : h \in Handoffs}

InitializeFamilyRequest(i, r, c, a) ==
    [op |-> "initialize", initialization |-> i, root |-> r, incumbent |-> c, approval |-> a,
     evidence |-> Evidence("rootInitialization", <<c.id>>)]

PrepareRotationRequest(source, t, h, a) ==
    [op |-> "prepare", initialization |-> store.family.root.initialization, transition |-> t,
     source |-> source, allocator |-> [observed |-> store.revision, next |-> store.family.next],
     approval |-> a, handoff |-> h]

\* SomeInitialize and the operators like it: some request of this kind for which P holds.
SomeInitialize(P(_)) ==
    \E i \in Initializations, r \in Roots, c \in Incumbents :
        \E a \in Receipts("humanApproval", <<c.id>>) : P(InitializeFamilyRequest(i, r, c, a))

SomePrepare(P(_)) ==
    LET source == CurrentAuthoritySnapshot(store.family) IN
    \E t \in Transitions, h \in Handoffs :
        \E a \in Receipts("humanApproval", <<h.task, source.session>>) :
            P(PrepareRotationRequest(source, t, h, a))

\* What a caller can offer for a phase, asked for directly or as a payload.
Payloads(ctx, identity, phase) ==
    LET subjects == RuntimeSubjects(ctx, identity)
    IN  CASE phase = "candidate" ->
              {[phase |-> phase, evidence |-> [session |-> c,
                    receipt |-> Evidence("candidateCreation", TransitionSubjects(ctx) \o <<c.id>>)]] : c \in SessionRefs}
          [] phase = "adoption" ->
              {[phase |-> phase, session |-> c,
                evidence |-> [identity |-> identity, receipt |-> Evidence("adoption", subjects)]] : c \in SessionRefs}
          [] phase = "delivery" ->
              {[phase |-> phase, evidence |-> [id |-> d, recipient |-> identity,
                    receipt |-> Evidence("initialDelivery", subjects \o <<d>>)]] : d \in Transitions}
          [] phase = "acknowledgement" ->
              {[phase |-> phase, evidence |-> [responder |-> identity, sha |-> ctx.handoff.sha,
                    receipt |-> Evidence("acknowledgement", subjects)]]}
          [] phase = "transfer" ->
              {[phase |-> phase, incumbent |-> i, session |-> c, recipient |-> identity,
                evidence |-> Evidence("transferVerification", subjects \o <<i.id>>)] :
                    i \in SessionRefs, c \in SessionRefs}
          [] phase = "completion" ->
              {[phase |-> phase, transition |-> ctx.transition, evidence |-> e] : e \in Receipts("completion", subjects)}

\* A payload asked for as an operation of its own.
AsRequest(ctx, identity, p) ==
    CASE p.phase = "candidate" ->
          [op |-> p.phase, ctx |-> ctx, successor |-> p.evidence.session, evidence |-> p.evidence.receipt]
      [] p.phase = "adoption" ->
          [op |-> p.phase, ctx |-> ctx, session |-> p.session, identity |-> identity, evidence |-> p.evidence.receipt]
      [] p.phase = "delivery" ->
          [op |-> p.phase, ctx |-> ctx, delivery |-> p.evidence.id, identity |-> identity,
           evidence |-> p.evidence.receipt]
      [] p.phase = "acknowledgement" ->
          [op |-> p.phase, ctx |-> ctx, identity |-> identity, sha |-> p.evidence.sha, evidence |-> p.evidence.receipt]
      [] p.phase = "transfer" ->
          [op |-> p.phase, ctx |-> ctx, incumbent |-> p.incumbent, session |-> p.session, identity |-> identity,
           epoch |-> ctx.predecessor.epoch, evidence |-> p.evidence]
      [] p.phase = "completion" ->
          [op |-> p.phase, ctx |-> ctx, identity |-> identity, evidence |-> p.evidence]

SomePhase(phase, P(_)) ==
    \E c \in Contexts, i \in Recipients :
        \E p \in Payloads(c, i, phase) : P(AsRequest(c, i, p))

\* Callers number the attempts of a rotation one after the other; an unknown
\* outcome may also be recorded under the largest number there is.
Attempts(ctx) == 1..(Len(store.family.transitions[ctx.transition].unknowns) + 1)
UnknownAttempts(ctx) == Attempts(ctx) \cup {MaxNumber}

TerminalRequest(c, o, phase, r, n) ==
    [op |-> o, ctx |-> c, identity |-> c.handoff.recipient, attempt |-> n, phase |-> phase, reason |-> r,
     evidence |-> Evidence(TerminalKind(o), RuntimeSubjects(c, c.handoff.recipient))]

SomeTerminal(P(_)) ==
    \E c \in Contexts, o \in {"failed", "cancelled"}, phase \in PhaseSet, r \in {"externalFailure", "humanCancelled"} :
        \E n \in Attempts(c) : P(TerminalRequest(c, o, phase, r, n))

RecordUnknownRequest(c, phase, n, p) ==
    [op |-> "recordUnknown", ctx |-> c, identity |-> c.handoff.recipient, attempt |-> n, phase |-> phase,
     payload |-> p, reason |-> "persistenceOutcomeUnknown",
     evidence |-> Evidence("unknownObservation", RuntimeSubjects(c, c.handoff.recipient))]

SomeUnknown(P(_)) ==
    \E c \in Contexts, phase \in PhaseSet \ {"prepare"} :
        \E n \in UnknownAttempts(c), p \in Payloads(c, c.handoff.recipient, phase) :
            P(RecordUnknownRequest(c, phase, n, p))

\* The outcomes a caller may claim for the open unknown of a transition.
Claims(ctx) ==
    LET t == store.family.transitions[ctx.transition]
        subjects == RuntimeSubjects(ctx, ctx.handoff.recipient)
    IN  {[kind |-> "succeeded", payload |-> t.unknowns[i].payload] : i \in DOMAIN t.unknowns}
        \cup {[kind |-> "failed", reason |-> "externalFailure", evidence |-> Evidence("failure", subjects)],
              [kind |-> "cancelled", reason |-> "humanCancelled", evidence |-> Evidence("cancellation", subjects)]}

ResolveUnknownRequest(c, n, o) ==
    [op |-> "resolveUnknown", ctx |-> c, identity |-> c.handoff.recipient, attempt |-> n, outcome |-> o,
     evidence |-> Evidence("unknownResolution", RuntimeSubjects(c, c.handoff.recipient))]

SomeResolution(P(_)) ==
    \E c \in Contexts :
        \E n \in UnknownAttempts(c), o \in Claims(c) : P(ResolveUnknownRequest(c, n, o))

SomeInput(P(_)) ==
    IF store.family = None THEN SomeInitialize(P)
    ELSE \/ SomePrepare(P) \/ SomeTerminal(P) \/ SomeUnknown(P) \/ SomeResolution(P)
         \/ \E phase \in PhaseSet \ {"prepare"} : SomePhase(phase, P)

\* Callers number their requests by the revision they have read, so two of them
\* may choose the same id.
Envelope(q) == [id |-> store.revision, expected |-> store.revision, request |-> q]

-----------------------------------------------------------------------------
(* mutate and get_request_result. *)

\* The digest covers the id, the expected revision and the request.
SameMaterial(e) ==
    LET c == store.idempotency[e.id] IN c.request = e.request /\ c.expected = e.expected

Entry(e, r) == [request |-> e.request, expected |-> e.expected, revision |-> store.revision + 1, result |-> r]

NextStore(e, p) ==
    [revision |-> store.revision + 1, family |-> p.family,
     idempotency |-> [i \in DOMAIN store.idempotency \cup {e.id} |->
                        IF i = e.id THEN Entry(e, p.result) ELSE store.idempotency[i]]]

\* The plan gets past both validations.
Valid(e, p) == ValidateRequest(e.request, e.expected, p.result) /\ ValidateStore(NextStore(e, p))

Accepted(e, now) ==
    /\ e.id \notin DOMAIN store.idempotency
    /\ e.expected = store.revision
    /\ HasNext(store.revision)
    /\ LET p == Plan(store, e.request, now) IN p # None /\ Valid(e, p)

Idle == writing = None

\* mutate up to and including the rename.
Rename(e) ==
    /\ disk' = Append(disk, NextStore(e, Plan(store, e.request, clock)))
    /\ writing' = e

\* A new request that gets that far.
Execute(q) ==
    /\ Idle /\ store.revision < MaxRevision
    /\ Accepted(Envelope(q), clock)
    /\ Rename(Envelope(q))
    /\ UNCHANGED <<held, confirmed, bets, clock, faults>>

HasFamily == store.family # None

InitializeFamily == Idle /\ ~HasFamily /\ SomeInitialize(Execute)
PrepareRotation == Idle /\ HasFamily /\ SomePrepare(Execute)
RecordCandidate == Idle /\ HasFamily /\ SomePhase("candidate", Execute)
RecordAdoption == Idle /\ HasFamily /\ SomePhase("adoption", Execute)
RecordInitialDelivery == Idle /\ HasFamily /\ SomePhase("delivery", Execute)
RecordAcknowledgement == Idle /\ HasFamily /\ SomePhase("acknowledgement", Execute)
TransferAuthority == Idle /\ HasFamily /\ SomePhase("transfer", Execute)
CompleteRotation == Idle /\ HasFamily /\ SomePhase("completion", Execute)

ExecuteEnding(q) == q.op \in Endings /\ Execute(q)
EndRotation == Idle /\ HasFamily /\ SomeTerminal(ExecuteEnding)

\* An outcome outside that nobody saw is a fault like the others.
ExecuteUnknown(q) ==
    /\ Idle /\ store.revision < MaxRevision /\ faults < MaxFaults
    /\ Accepted(Envelope(q), clock)
    /\ Rename(Envelope(q))
    /\ faults' = faults + 1
    /\ UNCHANGED <<held, confirmed, bets, clock>>

RecordUnknown == Idle /\ HasFamily /\ SomeUnknown(ExecuteUnknown)
ResolveUnknown == Idle /\ HasFamily /\ SomeResolution(Execute)

\* The same request again, not in the table: it is applied.
Retry ==
    /\ Idle /\ held # None /\ store.revision < MaxRevision
    /\ Accepted(held, clock)
    /\ Rename(held)
    /\ held' = None
    /\ UNCHANGED <<confirmed, bets, clock, faults>>

\* The same request again, in the table: the recorded answer.  get_request_result
\* answers the same.
Replay ==
    /\ Idle /\ held # None
    /\ held.id \in DOMAIN store.idempotency /\ SameMaterial(held)
    /\ LET c == [id |-> held.id, entry |-> store.idempotency[held.id]] IN
       /\ confirmed' = confirmed \cup {c}
       /\ bets' = IF Len(disk) > 1 THEN bets \cup {c} ELSE bets
    /\ held' = None
    /\ UNCHANGED <<disk, writing, clock, faults>>

\* The same request again, refused: a conflict of ids or of revisions, or no plan.
Refuse ==
    /\ Idle /\ held # None
    /\ IF held.id \in DOMAIN store.idempotency THEN ~SameMaterial(held) ELSE ~Accepted(held, clock)
    /\ held' = None
    /\ UNCHANGED <<disk, writing, confirmed, bets, clock, faults>>

\* Mutant: the caller is told, the directory is not synced.
SyncDirectorySkipped ==
    /\ writing # None
    /\ confirmed' = confirmed \cup {[id |-> writing.id, entry |-> store.idempotency[writing.id]]}
    /\ writing' = None
    /\ UNCHANGED <<disk, held, bets, clock, faults>>

\* The directory is synced and the caller told.
SyncDirectory ==
    /\ writing # None
    /\ disk' = <<store>>
    /\ confirmed' = confirmed \cup {[id |-> writing.id, entry |-> store.idempotency[writing.id]]}
    /\ writing' = None
    /\ UNCHANGED <<held, bets, clock, faults>>

\* PersistenceUnknown, or the process dies before it can answer.
Unanswered ==
    /\ writing # None /\ faults < MaxFaults
    /\ writing' = None
    /\ held' = writing
    /\ faults' = faults + 1
    /\ UNCHANGED <<disk, confirmed, bets, clock>>

\* Any of the renames not yet synced may be the last one the medium has.  One that
\* strikes during a mutation is an unanswered mutation followed by this.
PowerLoss ==
    /\ Idle /\ Len(disk) > 1
    /\ \E i \in DOMAIN disk : disk' = <<disk[i]>>
    /\ UNCHANGED <<writing, held, confirmed, bets, clock, faults>>

\* The clock is read as text: a later reading may sort before an earlier one.  Only
\* readings taken during one rotation are ever compared.
Rotating == Idle /\ HasFamily /\ store.family.active # None

Tick ==
    /\ Rotating /\ clock < MaxTime
    /\ clock' = clock + 1
    /\ UNCHANGED <<disk, writing, held, confirmed, bets, faults>>

StepBack ==
    /\ Rotating /\ clock > 1 /\ faults < MaxFaults
    /\ clock' = clock - 1
    /\ faults' = faults + 1
    /\ UNCHANGED <<disk, writing, held, confirmed, bets>>

Init ==
    /\ disk = <<EmptyStore>> /\ writing = None /\ held = None
    /\ confirmed = {} /\ bets = {} /\ clock = 1 /\ faults = 0

Next ==
    \/ InitializeFamily \/ PrepareRotation \/ RecordCandidate \/ RecordAdoption
    \/ RecordInitialDelivery \/ RecordAcknowledgement \/ TransferAuthority \/ CompleteRotation
    \/ EndRotation \/ RecordUnknown \/ ResolveUnknown
    \/ Retry \/ Replay \/ Refuse \/ SyncDirectory \/ Unanswered \/ PowerLoss \/ Tick \/ StepBack

Spec == Init /\ [][Next]_vars

-----------------------------------------------------------------------------
(* Properties. *)

\* Whether the clock reads earlier than something the rotation has recorded.
Behind ==
    /\ store.family # None /\ store.family.active # None
    /\ LET t == store.family.transitions[store.family.active.transition] IN
       \/ clock < t.created
       \/ \E i \in DOMAIN t.unknowns :
            LET u == t.unknowns[i] IN clock < u.recorded \/ (u.resolution # None /\ clock < u.resolution.recorded)

\* Operations and validator agree: whatever an operation plans passes the
\* validation of its answer and of the next store, on every store that was ever
\* written, unless the clock reads earlier than the rotation's own records.
PlansValidate ==
    LET refused(q) == LET p == Plan(store, q, clock) IN p # None /\ ~Valid(Envelope(q), p)
    IN  Idle /\ ~Behind => ~SomeInput(refused)

\* The transitions of the store, by name.
Rotations == IF store.family = None THEN {} ELSE DOMAIN store.family.transitions
Entries == {store.idempotency[i] : i \in DOMAIN store.idempotency}

\* The table entries by which a phase of a rotation took place.
Took(t, phase) ==
    {c \in Entries : /\ c.result.op # "initialize" /\ c.result.transition = t
                     /\ \/ c.result.op = phase
                        \/ /\ c.result.op = "resolveUnknown" /\ Succeeded(c.result.unknown)
                           /\ c.result.unknown.phase = phase}

\* Every phase a rotation has behind it took place once, in order, by a request
\* that was recorded, and no phase it has not reached did: neither retries nor
\* unknown outcomes skip a phase or apply one twice.
PhasesTakePlaceOnce ==
    \A t \in Rotations :
        LET r == store.family.transitions[t]
            base == IF r.unknowns # <<>> /\ Last(r.unknowns).resolution = None THEN Last(r.unknowns).prior.state ELSE r.state
            done == IF base \in {"failed", "cancelled"} THEN EvidenceShape(r.evidence) ELSE TransitionProgress(base)
        IN  \A k \in DOMAIN Phases :
                /\ Cardinality(Took(t, Phases[k])) = IF k - 1 <= done THEN 1 ELSE 0
                /\ k > 1 => \A c \in Took(t, Phases[k]), b \in Took(t, Phases[k - 1]) : b.revision < c.revision

\* The ancestry the store answers is the history of who was told to hold the seat:
\* one revision per epoch, each the one its committed transfer named.
AncestryIsHistory ==
    store.family # None =>
        LET line == SuccessfulAncestry(store.family)
            moves == {c \in Entries : c.result.op = "transfer"}
        IN  /\ Len(line) = Cardinality(moves) + 1
            /\ \A c \in moves :
                 /\ line[Len(line) + 1 - c.result.epoch] = c.result.revision
                 /\ store.family.revisions[c.result.revision].session.id = c.result.session
            /\ store.family.authority.revision = Head(line)

\* The history the store tells is the one that happened, phase by phase and
\* revision by revision, across retries, unknown outcomes and ended rotations.
HistoryIsExact == PhasesTakePlaceOnce /\ AncestryIsHistory

\* A request answered Committed is on the medium with the answer it was given, and
\* what that answer said is still so: no number, epoch or outcome is given again.
\* Except where a caller asked again and was answered before the sync.
ConfirmedStaysTrue ==
    \A c \in confirmed \ bets :
        /\ c.id \in DOMAIN disk[1].idempotency /\ disk[1].idempotency[c.id] = c.entry
        /\ IdempotencyResultMatches(store.family, c.entry.result)

OpenUnknown(r, phase) == \E i \in Unresolved(r) : r.unknowns[i].phase = phase

\* A request that takes the rotation to one of these states at some time.
Leads(t, states, q) ==
    \E now \in Times :
        LET p == Plan(store, q, now) IN
        p # None /\ p.family.transitions[t].state \in states /\ Accepted(Envelope(q), now)

\* A rotation's attempts are used up: an unknown outcome was recorded under the
\* largest number, and to give up takes a larger one.
NoAttemptLeft(r) == r.unknowns # <<>> /\ ~HasNext(Last(r.unknowns).attempt)

\* A rotation can be given up until it is acknowledged and finished from there on,
\* so that the seat is free for the next: except when the outcome of the transfer
\* itself was recorded as unknown, or no attempt is left and nothing is open.
SeatIsFreed ==
    Idle /\ HasNext(store.revision) /\ store.family # None /\ store.family.active # None =>
        LET t == store.family.active.transition
            r == store.family.transitions[t]
            late == r.state \in {"acknowledged", "transferred"} \/ OpenUnknown(r, "completion")
            finishes(q) == Leads(t, {"transferred", "completed"}, q)
            givesUp(q) == Leads(t, {"failed", "cancelled"}, q)
        IN  \/ OpenUnknown(r, "transfer")
            \/ late /\ (SomePhase("transfer", finishes) \/ SomePhase("completion", finishes) \/ SomeResolution(finishes))
            \/ ~late /\ (SomeTerminal(givesUp) \/ SomeResolution(givesUp))
            \/ ~late /\ NoAttemptLeft(r) /\ Unresolved(r) = {}
=============================================================================
