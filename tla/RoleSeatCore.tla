----------------------------- MODULE RoleSeatCore -----------------------------
(***************************************************************************)
(* The role-seat records and the rules over them: what every operation     *)
(* plans (src/src/role_revision/operations.rs) and what the validator      *)
(* accepts (src/src/role_revision/mod.rs).  A store holds one family: who  *)
(* holds the seat now, the role revisions allocated so far, and one        *)
(* transition per rotation with the evidence of each of its phases and the *)
(* phases whose outcome was not known.                                     *)
(*                                                                         *)
(* Project, family, role key and schema are the same in every request and  *)
(* are left out.  An evidence receipt is its kind and its subjects; the    *)
(* subjects of a transition are its task.  Times are the order of the      *)
(* texts the code compares.  None is an absent field or a refused plan.    *)
(***************************************************************************)
EXTENDS Integers, Sequences, FiniteSets, SequencesExt

CONSTANTS
    None,
    MaxNumber       \* MAX_JSON_SAFE_INTEGER: the largest revision, epoch or attempt

ASSUME NumberAssumption == MaxNumber \in Nat \ {0}

Phases == <<"prepare", "candidate", "adoption", "delivery", "acknowledgement",
            "transfer", "completion">>
PhaseSet == Range(Phases)

\* phase_progress.
PhaseProgress(p) == (CHOOSE i \in DOMAIN Phases : Phases[i] = p) - 1

\* The states a phase leads to, in order.
States == <<"prepared", "candidateRecorded", "adopted", "deliveryRecorded",
            "acknowledged", "transferred", "completed">>
Live == (Range(States) \ {"completed"}) \cup {"unknown"}

\* transition_progress; -1 stands for no progress.
TransitionProgress(s) ==
    IF s \in Range(States) THEN (CHOOSE i \in DOMAIN States : States[i] = s) - 1 ELSE -1

\* expected_prior_state and expected_success_state.
ExpectedPriorState(p) == IF p = "prepare" THEN "prepared" ELSE States[PhaseProgress(p)]
ExpectedSuccessState(p) == States[PhaseProgress(p) + 1]

\* checked_next succeeds.
HasNext(n) == n < MaxNumber

-----------------------------------------------------------------------------
(* Evidence. *)

Evidence(kind, subjects) == [kind |-> kind, subjects |-> subjects]

TransitionSubjects(ctx) == <<ctx.handoff.task>>
RuntimeSubjects(ctx, identity) == TransitionSubjects(ctx) \o <<identity>>

NoEvidence == [candidate |-> None, adoption |-> None, delivery |-> None,
               acknowledgement |-> None, completion |-> None]

ValidateContext(ctx) ==
    ctx.handoff.acceptance = Evidence("handoffAcceptance", RuntimeSubjects(ctx, ctx.handoff.recipient))

ValidateRuntimeContext(ctx, identity) ==
    ValidateContext(ctx) /\ identity = ctx.handoff.recipient

ValidateCandidateEvidence(ctx, c) ==
    /\ c.receipt = Evidence("candidateCreation", TransitionSubjects(ctx) \o <<c.session.id>>)
    /\ c.session.id = ctx.handoff.recipient.session

ValidateAdoptionEvidence(ctx, identity, a) ==
    /\ a.identity = identity
    /\ a.receipt = Evidence("adoption", RuntimeSubjects(ctx, identity))

\* The delivery id names the transition and nothing else.
ValidateDeliveryEvidence(ctx, identity, d) ==
    /\ d.id = ctx.transition /\ d.recipient = identity
    /\ d.receipt = Evidence("initialDelivery", RuntimeSubjects(ctx, identity) \o <<d.id>>)

ValidateAcknowledgementEvidence(ctx, identity, k) ==
    /\ k.responder = identity /\ k.sha = ctx.handoff.sha
    /\ k.receipt = Evidence("acknowledgement", RuntimeSubjects(ctx, identity))

ValidateCompletionEvidence(ctx, identity, e) ==
    e = Evidence("completion", RuntimeSubjects(ctx, identity))

ValidateEvidenceSnapshot(ctx, identity, v) ==
    /\ v.candidate # None => ValidateCandidateEvidence(ctx, v.candidate)
    /\ v.adoption # None => ValidateAdoptionEvidence(ctx, identity, v.adoption)
    /\ v.delivery # None => ValidateDeliveryEvidence(ctx, identity, v.delivery)
    /\ v.acknowledgement # None => ValidateAcknowledgementEvidence(ctx, identity, v.acknowledgement)
    /\ v.completion # None => ValidateCompletionEvidence(ctx, identity, v.completion)

\* evidence_shape: how many pieces there are, when they are there in order.
EvidenceShape(v) ==
    LET there == <<v.candidate # None, v.adoption # None, v.delivery # None,
                   v.acknowledgement # None, v.completion # None>>
        n == Cardinality({i \in 1..5 : there[i]})
    IN  IF \A i \in 1..n : there[i] THEN n ELSE -1

\* prior_evidence_shape_matches.
PriorEvidenceShapeMatches(p, v) ==
    /\ p # "prepare"
    /\ EvidenceShape(v) = IF p = "completion" THEN 4 ELSE PhaseProgress(p) - 1

\* expected_transition_evidence_shape; -2 stands for no expectation that can be met.
ExpectedShape(state, terminal) ==
    CASE state \in {"failed", "cancelled"} ->
            IF terminal \in {"transfer", "completion"} THEN -2
            ELSE IF terminal = "prepare" THEN 0 ELSE PhaseProgress(terminal) - 1
      [] state = "completed" -> 5
      [] state = "transferred" -> 4
      [] OTHER -> TransitionProgress(state)

EvidenceIsPrefix(v, w) == \A f \in DOMAIN v : v[f] # None => w[f] = v[f]

ReasonMatchesTerminal(reason, outcome) ==
    reason \in IF outcome = "failed" THEN {"identityMismatch", "evidenceMismatch", "externalFailure", "rejected"}
               ELSE {"humanCancelled", "supersededRequest", "externalCancelled"}

\* There is no reason of its own for an unknown candidate.
ReasonMatchesUnknown(reason, p) ==
    \/ reason = "persistenceOutcomeUnknown"
    \/ reason = "outcomeUnknown" /\ p \notin {"prepare", "candidate"}

TerminalKind(outcome) == IF outcome = "failed" THEN "failure" ELSE "cancellation"

-----------------------------------------------------------------------------
(* The family: lineage and authority. *)

Snapshot(revision, session, epoch, durable) ==
    [revision |-> revision, session |-> session, epoch |-> epoch, durable |-> durable]

\* current_authority_snapshot.
CurrentAuthoritySnapshot(f) ==
    LET a == f.authority IN Snapshot(a.revision, a.session, a.epoch, f.revisions[a.revision].session.durable)

TransitionContextFor(f, t) ==
    [initialization |-> f.root.initialization, transition |-> t.id, candidate |-> t.candidate,
     predecessor |-> t.predecessor, handoff |-> t.handoff]

Lock(ctx) == [transition |-> ctx.transition, candidate |-> ctx.candidate, epoch |-> ctx.predecessor.epoch]

\* successful_depth: how many transfers lead from the root to a revision; -1
\* when its chain of predecessors is broken.
SuccessfulDepth(f, start) ==
    LET broken(n) ==
            LET p == f.revisions[n].successful IN
            \/ p = None
            \/ p.revision >= n \/ p.revision \notin DOMAIN f.revisions
            \/ f.revisions[p.revision].session = None
            \/ f.revisions[p.revision].session.id # p.session
        depth[n \in DOMAIN f.revisions] ==
            IF n = f.root.revision THEN IF f.revisions[n].successful = None THEN 0 ELSE -1
            ELSE IF broken(n) THEN -1
            ELSE LET d == depth[f.revisions[n].successful.revision] IN IF d < 0 THEN -1 ELSE d + 1
    IN  IF start \in DOMAIN f.revisions THEN depth[start] ELSE -1

\* The walk from the holder back to the root.
ReverseLineage(f) ==
    LET walk[n \in DOMAIN f.revisions] ==
            IF n = f.root.revision THEN <<n>>
            ELSE IF f.revisions[n].successful = None THEN <<>>
            ELSE <<n>> \o walk[f.revisions[n].successful.revision]
    IN  walk[f.authority.revision]

\* get_successful_ancestry.
SuccessfulAncestry(f) == ReverseLineage(f)

AuthoritySnapshotMatches(f, a) ==
    /\ a.revision \in DOMAIN f.revisions
    /\ LET s == f.revisions[a.revision].session IN
       s # None /\ a.session = s.id /\ a.durable = s.durable
    /\ SuccessfulDepth(f, a.revision) >= 0
    /\ a.epoch = SuccessfulDepth(f, a.revision) + 1

\* One link of validate_successful_lineage: n follows before, whose epoch was e.
LinkMatches(f, n, before, e) ==
    LET p == f.revisions[n].successful
        s == f.revisions[before].session
    IN  /\ p # None /\ s # None /\ p.transition \in DOMAIN f.transitions
        /\ p.revision = before /\ p.session = s.id
        /\ f.transitions[p.transition].candidate = n
        /\ f.transitions[p.transition].predecessor = Snapshot(before, s.id, e, s.durable)

ValidateSuccessfulLineage(f) ==
    LET line == Reverse(ReverseLineage(f)) IN
    /\ line # <<>> /\ f.revisions[f.root.revision].successful = None
    /\ \A i \in 2..Len(line) : LinkMatches(f, line[i], line[i - 1], i - 1)
    /\ f.authority.epoch = Len(line)
    /\ \A n \in DOMAIN f.revisions : n # f.root.revision /\ f.revisions[n].successful # None => n \in Range(line)
    /\ \A t \in DOMAIN f.transitions :
          f.transitions[t].state \in {"transferred", "completed"} => f.transitions[t].candidate \in Range(line)

\* validate_root.
ValidateRoot(f) ==
    LET r == f.root IN
    /\ r.approval = Evidence("humanApproval", <<r.incumbent.id>>)
    /\ r.evidence = Evidence("rootInitialization", <<r.incumbent.id>>)
    /\ r.revision \in DOMAIN f.revisions
    /\ LET v == f.revisions[r.revision] IN
       v.session = r.incumbent /\ v.intended = None /\ v.successful = None
       /\ v.root = r.revision /\ v.terminal = None

-----------------------------------------------------------------------------
(* Phases whose outcome was not known. *)

\* phase_payload_matches.
PhasePayloadMatches(ctx, identity, prior, p) ==
    CASE p.phase = "prepare" -> p.source = ctx.predecessor /\ p.handoff = ctx.handoff
      [] p.phase = "candidate" -> ValidateCandidateEvidence(ctx, p.evidence)
      [] p.phase = "adoption" ->
            /\ ValidateAdoptionEvidence(ctx, identity, p.evidence)
            /\ p.session.id = identity.session
            /\ prior.candidate # None /\ prior.candidate.session = p.session
      [] p.phase = "delivery" -> ValidateDeliveryEvidence(ctx, identity, p.evidence)
      [] p.phase = "acknowledgement" -> ValidateAcknowledgementEvidence(ctx, identity, p.evidence)
      [] p.phase = "transfer" ->
            /\ p.evidence = Evidence("transferVerification", RuntimeSubjects(ctx, identity) \o <<p.incumbent.id>>)
            /\ p.recipient = identity /\ p.session.id = identity.session
            /\ p.incumbent = [id |-> ctx.predecessor.session, durable |-> ctx.predecessor.durable]
            /\ prior.candidate # None /\ prior.candidate.session = p.session
      [] p.phase = "completion" ->
            ValidateCompletionEvidence(ctx, identity, p.evidence) /\ p.transition = ctx.transition

\* expected_success_evidence.
ExpectedSuccessEvidence(prior, p) ==
    IF p.phase \in DOMAIN prior THEN [prior EXCEPT ![p.phase] = p.evidence] ELSE prior

TransferredAuthorityMatches(ctx, identity, v, a) ==
    /\ HasNext(ctx.predecessor.epoch) /\ v.candidate # None
    /\ a = Snapshot(ctx.candidate, identity.session, ctx.predecessor.epoch + 1, v.candidate.session.durable)

SuccessPostMatches(ctx, identity, u, post) ==
    /\ post.state = ExpectedSuccessState(u.phase)
    /\ post.evidence = ExpectedSuccessEvidence(u.prior.evidence, u.payload)
    /\ IF u.phase \in {"transfer", "completion"}
       THEN /\ post.revision = "current"
            /\ TransferredAuthorityMatches(ctx, identity, post.evidence, post.authority)
            /\ post.active = IF u.phase = "completion" THEN None ELSE u.prior.active
       ELSE /\ post.revision = u.prior.revision
            /\ post.authority = u.prior.authority
            /\ post.active = u.prior.active

ValidateTerminalResolution(ctx, identity, u, o) ==
    /\ u.phase \notin {"transfer", "completion"}
    /\ o.attempt.attempt = u.attempt /\ o.attempt.outcome = o.kind /\ o.attempt.phase = u.phase
    /\ ReasonMatchesTerminal(o.attempt.reason, o.kind)
    /\ o.post = [state |-> o.kind, revision |-> o.kind, authority |-> u.prior.authority,
                 active |-> None, evidence |-> u.prior.evidence]
    /\ o.attempt.evidence = Evidence(TerminalKind(o.kind), RuntimeSubjects(ctx, identity))

\* The resolution part of validate_unknown.
ValidateResolution(ctx, identity, u) ==
    LET r == u.resolution IN
    /\ r.evidence = Evidence("unknownResolution", RuntimeSubjects(ctx, identity))
    /\ IF r.outcome.kind = "succeeded"
       THEN /\ ValidateEvidenceSnapshot(ctx, identity, r.outcome.post.evidence)
            /\ r.outcome.payload = u.payload
            /\ SuccessPostMatches(ctx, identity, u, r.outcome.post)
       ELSE ValidateTerminalResolution(ctx, identity, u, r.outcome)

ValidateUnknown(ctx, identity, u) ==
    /\ ValidateRuntimeContext(ctx, identity)
    /\ PhasePayloadMatches(ctx, identity, u.prior.evidence, u.payload)
    /\ ValidateEvidenceSnapshot(ctx, identity, u.prior.evidence)
    /\ IF u.phase = "completion"
       THEN TransferredAuthorityMatches(ctx, identity, u.prior.evidence, u.prior.authority)
       ELSE u.prior.authority = ctx.predecessor
    /\ u.initialization = ctx.initialization /\ u.transition = ctx.transition
    /\ u.phase = u.payload.phase
    /\ ReasonMatchesUnknown(u.reason, u.phase)
    /\ PriorEvidenceShapeMatches(u.phase, u.prior.evidence)
    /\ u.prior.predecessor = ctx.predecessor
    /\ u.prior.revision = IF u.phase = "completion" THEN "current" ELSE "candidate"
    /\ u.prior.active = Lock(ctx)
    /\ u.prior.state = ExpectedPriorState(u.phase)
    /\ u.post = [state |-> "unknown", revision |-> u.prior.revision, authority |-> u.prior.authority,
                 active |-> u.prior.active, evidence |-> u.prior.evidence]
    /\ u.evidence = Evidence("unknownObservation", RuntimeSubjects(ctx, identity))
    /\ u.resolution # None => ValidateResolution(ctx, identity, u)

\* successful_unknown_post_allows_next_prior.
PostAllowsNextPrior(ctx, u, next) ==
    LET post == u.resolution.outcome.post IN
    /\ next.prior.predecessor = ctx.predecessor
    /\ post.active = next.prior.active
    /\ PhaseProgress(next.phase) > PhaseProgress(u.phase)
    /\ TransitionProgress(next.prior.state) >= TransitionProgress(post.state)
    /\ EvidenceIsPrefix(post.evidence, next.prior.evidence)
    /\ IF next.phase = "completion" THEN next.prior.state = "transferred"
       ELSE next.prior.revision = post.revision /\ next.prior.authority = post.authority

Unresolved(t) == {i \in DOMAIN t.unknowns : t.unknowns[i].resolution = None}
Succeeded(u) == u.resolution # None /\ u.resolution.outcome.kind = "succeeded"

\* validate_transition_unknowns, the loop: times, attempts and what follows what.
UnknownsInOrder(t, ctx) ==
    \A i \in DOMAIN t.unknowns :
        LET u == t.unknowns[i] IN
        /\ t.created <= u.recorded /\ u.recorded <= t.updated
        /\ u.resolution # None => u.recorded <= u.resolution.recorded /\ u.resolution.recorded <= t.updated
        /\ i > 1 => LET b == t.unknowns[i - 1] IN
             /\ b.attempt < u.attempt /\ b.recorded <= u.recorded
             /\ Succeeded(b) => b.resolution.recorded <= u.recorded /\ PostAllowsNextPrior(ctx, b, u)
        /\ CASE u.resolution = None -> i = Len(t.unknowns)
             [] Succeeded(u) -> EvidenceIsPrefix(u.resolution.outcome.post.evidence, t.evidence)
             [] OTHER -> /\ i = Len(t.unknowns)
                         /\ t.terminal = u.resolution.outcome.attempt
                         /\ t.state = u.resolution.outcome.post.state
                         /\ t.evidence = u.resolution.outcome.post.evidence

ValidateTransitionUnknowns(f, t, ctx) ==
    /\ UnknownsInOrder(t, ctx)
    /\ \A i \in DOMAIN t.unknowns : ValidateUnknown(ctx, t.handoff.recipient, t.unknowns[i])
    /\ t.state = "unknown" <=> Unresolved(t) # {}
    /\ \A i \in Unresolved(t) :
          LET post == t.unknowns[i].post IN
          t.evidence = post.evidence /\ f.active = post.active /\ CurrentAuthoritySnapshot(f) = post.authority
    /\ t.terminal # None /\ t.unknowns # <<>> =>
          LET u == Last(t.unknowns) IN
          \/ u.resolution # None /\ ~Succeeded(u) /\ u.resolution.outcome.attempt = t.terminal
          \/ t.terminal.attempt > u.attempt

-----------------------------------------------------------------------------
(* One transition, one family, one store. *)

ValidateFailedAttempt(ctx, identity, a, outcome) ==
    /\ a.outcome = outcome /\ ReasonMatchesTerminal(a.reason, outcome)
    /\ a.phase \notin {"transfer", "completion"}
    /\ a.evidence = Evidence(TerminalKind(outcome), RuntimeSubjects(ctx, identity))

\* validate_transition, how a transition and its revision end.
TerminalMatches(t, v, ctx) ==
    IF t.state \in {"failed", "cancelled"}
    THEN /\ t.terminal # None
         /\ ValidateFailedAttempt(ctx, t.handoff.recipient, t.terminal, t.state)
         /\ EvidenceShape(t.evidence) = ExpectedShape(t.state, t.terminal.phase)
         /\ v.state = t.state /\ v.terminal = t.terminal
         /\ v.successful = None /\ v.root = None
    ELSE /\ t.terminal = None /\ v.terminal = None
         /\ t.state # "unknown" => EvidenceShape(t.evidence) = ExpectedShape(t.state, None)

CompletionUnknown(t) == \E i \in Unresolved(t) : t.unknowns[i].phase = "completion"

\* validate_transition, the candidate's place in the lineage.
SuccessMatches(f, t, v) ==
    LET succeeded == t.state \in {"transferred", "completed"} \/ CompletionUnknown(t)
        a == t.predecessor
    IN  IF v.successful # None
        THEN /\ succeeded /\ t.evidence.candidate # None
             /\ v.successful = [revision |-> a.revision, session |-> a.session, transition |-> t.id]
             /\ a.revision \in DOMAIN f.revisions
             /\ f.revisions[a.revision].session = [id |-> a.session, durable |-> a.durable]
             /\ v.root = f.root.revision
             /\ v.state = IF f.authority.revision = t.candidate THEN "current" ELSE "superseded"
        ELSE t.state \in {"failed", "cancelled"} \/ (v.state = "candidate" /\ v.root = None /\ ~succeeded)

ValidateTransition(f, t, v) ==
    LET ctx == TransitionContextFor(f, t) IN
    /\ t.created <= t.updated
    /\ AuthoritySnapshotMatches(f, t.predecessor)
    /\ t.predecessor.revision < t.candidate
    /\ ValidateContext(ctx)
    /\ t.approval = Evidence("humanApproval", TransitionSubjects(ctx) \o <<t.predecessor.session>>)
    /\ ValidateEvidenceSnapshot(ctx, t.handoff.recipient, t.evidence)
    /\ ValidateTransitionUnknowns(f, t, ctx)
    /\ v.intended = t.predecessor
    /\ v.session = IF t.evidence.candidate = None THEN None ELSE t.evidence.candidate.session
    /\ TerminalMatches(t, v, ctx)
    /\ t.evidence.candidate # None => t.evidence.candidate.session.id = t.handoff.recipient.session
    /\ SuccessMatches(f, t, v)

\* idempotency_result_matches: what a request was told still holds.
IdempotencyResultMatches(f, r) ==
    IF r.op = "initialize" THEN r.root = f.root.revision /\ r.epoch = 1
    ELSE /\ r.transition \in DOMAIN f.transitions
         /\ LET t == f.transitions[r.transition] IN
            CASE r.op = "prepare" -> r.candidate = t.candidate /\ r.epoch = t.predecessor.epoch
              [] r.op = "candidate" ->
                    r.candidate = t.candidate /\ t.evidence.candidate # None /\ t.evidence.candidate.session = r.session
              [] r.op = "adoption" -> t.evidence.adoption # None /\ t.evidence.adoption.identity = r.identity
              [] r.op = "delivery" -> t.evidence.delivery # None /\ t.evidence.delivery.id = r.delivery
              [] r.op = "acknowledgement" ->
                    t.evidence.acknowledgement # None /\ t.evidence.acknowledgement.sha = r.sha
              [] r.op = "transfer" ->
                    /\ HasNext(t.predecessor.epoch) /\ r.epoch = t.predecessor.epoch + 1
                    /\ r.revision = t.candidate
                    /\ LET v == f.revisions[t.candidate] IN
                       v.successful # None /\ v.session # None /\ v.session.id = r.session
              [] r.op = "completion" ->
                    r.revision = t.candidate /\ t.state = "completed" /\ t.evidence.completion # None
              [] r.op \in {"failed", "cancelled"} -> t.state = r.op /\ t.terminal = r.attempt
              [] r.op = "recordUnknown" ->
                    /\ r.unknown.resolution = None
                    /\ \E i \in DOMAIN t.unknowns : [t.unknowns[i] EXCEPT !.resolution = None] = r.unknown
              [] r.op = "resolveUnknown" ->
                    r.unknown.resolution # None /\ \E i \in DOMAIN t.unknowns : t.unknowns[i] = r.unknown

ValidateIdempotency(s) ==
    \A id \in DOMAIN s.idempotency :
        LET c == s.idempotency[id] IN
        /\ c.result.op = c.request.op
        /\ c.revision <= s.revision
        /\ \A other \in DOMAIN s.idempotency \ {id} : s.idempotency[other].revision # c.revision
        /\ IdempotencyResultMatches(s.family, c.result)

\* validate_family, the allocator: revisions run from the root without a gap, one
\* transition for each but the root.
AllocatorMatches(f) ==
    LET root == f.root.revision IN
    /\ f.next <= MaxNumber /\ DOMAIN f.revisions = root..(f.next - 1) /\ f.next > root
    /\ \A n \in DOMAIN f.revisions : n # root =>
          \E t \in DOMAIN f.transitions : f.transitions[t].candidate = n
    /\ Cardinality(DOMAIN f.transitions) + 1 = Cardinality(DOMAIN f.revisions)
    /\ \A t \in DOMAIN f.transitions :
          t = f.transitions[t].id /\ f.transitions[t].candidate \in DOMAIN f.revisions \ {root}

Holding == {"initializedCurrent", "current"}

\* validate_family, the holder of the seat and how it came to hold it.
HolderMatches(f) ==
    LET a == f.authority
        v == f.revisions[a.revision]
        root == f.root.revision
    IN  /\ a.revision \in DOMAIN f.revisions
        /\ v.session # None /\ v.session.id = a.session
        /\ {n \in DOMAIN f.revisions : f.revisions[n].state \in Holding} = {a.revision}
        /\ f.revisions[root].state = IF a.revision = root THEN "initializedCurrent" ELSE "superseded"
        /\ ValidateSuccessfulLineage(f)
        /\ a.epoch = SuccessfulDepth(f, a.revision) + 1
        /\ IF a.by = None
           THEN a.revision = root /\ a.initialization = f.root.initialization /\ a.epoch = 1
           ELSE /\ a.revision # root /\ a.by \in DOMAIN f.transitions
                /\ f.transitions[a.by].candidate = a.revision
                /\ v.successful # None /\ v.successful.transition = a.by

\* validate_family, the rotation lock.
LockMatches(f) ==
    LET live == {t \in DOMAIN f.transitions : f.transitions[t].state \in Live} IN
    IF f.active = None THEN live = {}
    ELSE /\ live = {f.active.transition}
         /\ LET t == f.transitions[f.active.transition] IN
            /\ f.active = Lock(TransitionContextFor(f, t))
            /\ t.state # "transferred" /\ ~CompletionUnknown(t) => t.predecessor = CurrentAuthoritySnapshot(f)

ValidateFamily(f) ==
    /\ ValidateRoot(f)
    /\ AllocatorMatches(f)
    /\ \A t \in DOMAIN f.transitions :
          ValidateTransition(f, f.transitions[t], f.revisions[f.transitions[t].candidate])
    /\ \A t, u \in DOMAIN f.transitions : Unresolved(f.transitions[t]) # {} /\ Unresolved(f.transitions[u]) # {} => t = u
    /\ HolderMatches(f)
    /\ LockMatches(f)

ValidateStore(s) ==
    IF s.family = None THEN DOMAIN s.idempotency = {}
    ELSE ValidateFamily(s.family) /\ ValidateIdempotency(s)

EmptyStore == [revision |-> 1, family |-> None, idempotency |-> <<>>]

-----------------------------------------------------------------------------
(* What each operation plans: the next family and the result, or None. *)

Planned(family, result) == [family |-> family, result |-> result]

\* family_for_context.
FamilyForContext(s, ctx) ==
    LET f == s.family IN
    /\ f # None /\ ctx.initialization = f.root.initialization
    /\ ctx.transition \in DOMAIN f.transitions
    /\ TransitionContextFor(f, f.transitions[ctx.transition]) = ctx
    /\ f.active = Lock(ctx)

\* A transition replaced by what an operation makes of it.
Put(f, t) == [f EXCEPT !.transitions[t.id] = t]

PlanInitialize(s, q, now) ==
    LET subjects == <<q.incumbent.id>>
        v == [session |-> q.incumbent, state |-> "initializedCurrent", intended |-> None,
              successful |-> None, root |-> q.root, terminal |-> None]
    IN  IF /\ s.family = None /\ DOMAIN s.idempotency = {}
           /\ q.approval = Evidence("humanApproval", subjects)
           /\ q.evidence = Evidence("rootInitialization", subjects)
           /\ HasNext(q.root)
        THEN Planned([root |-> [initialization |-> q.initialization, revision |-> q.root, incumbent |-> q.incumbent,
                                approval |-> q.approval, evidence |-> q.evidence],
                      next |-> q.root + 1,
                      authority |-> [revision |-> q.root, session |-> q.incumbent.id, epoch |-> 1,
                                     by |-> None, initialization |-> q.initialization],
                      active |-> None,
                      revisions |-> [n \in {q.root} |-> v],
                      transitions |-> <<>>],
                     [op |-> "initialize", root |-> q.root, epoch |-> 1])
        ELSE None

\* plan_prepare, the fences: the source, the allocator and the transition id.
PrepareFences(s, q) ==
    LET f == s.family IN
    /\ f # None /\ q.initialization = f.root.initialization
    /\ f.active = None
    /\ q.source = CurrentAuthoritySnapshot(f)
    /\ q.allocator = [observed |-> s.revision, next |-> f.next]
    /\ q.transition \notin DOMAIN f.transitions

PlanPrepare(s, q, now) ==
    LET f == s.family
        ctx == [initialization |-> q.initialization, transition |-> q.transition, candidate |-> f.next,
                predecessor |-> q.source, handoff |-> q.handoff]
        v == [session |-> None, state |-> "candidate", intended |-> q.source,
              successful |-> None, root |-> None, terminal |-> None]
        t == [id |-> q.transition, candidate |-> f.next, predecessor |-> q.source, approval |-> q.approval,
              handoff |-> q.handoff, state |-> "prepared", evidence |-> NoEvidence, unknowns |-> <<>>,
              terminal |-> None, created |-> now, updated |-> now]
    IN  IF /\ PrepareFences(s, q)
           /\ ValidateContext(ctx)
           /\ q.approval = Evidence("humanApproval", TransitionSubjects(ctx) \o <<q.source.session>>)
           /\ HasNext(f.next)
        THEN Planned([f EXCEPT !.next = @ + 1, !.active = Lock(ctx),
                               !.revisions = [n \in DOMAIN @ \cup {f.next} |-> IF n = f.next THEN v ELSE @[n]],
                               !.transitions = [i \in DOMAIN @ \cup {t.id} |-> IF i = t.id THEN t ELSE @[i]]],
                     [op |-> "prepare", transition |-> q.transition, candidate |-> f.next, epoch |-> q.source.epoch])
        ELSE None

\* What a phase with evidence of its own does to the family, asked for directly
\* or verified after its outcome was unknown.
Record(f, ctx, phase, evidence, now) ==
    LET t == f.transitions[ctx.transition]
        g == Put(f, [t EXCEPT !.evidence[phase] = evidence, !.state = ExpectedSuccessState(phase), !.updated = now])
    IN  IF phase = "candidate" THEN [g EXCEPT !.revisions[ctx.candidate].session = evidence.session] ELSE g

PlanCandidate(s, q, now) ==
    LET t == s.family.transitions[q.ctx.transition]
        v == s.family.revisions[q.ctx.candidate]
        candidate == [session |-> q.successor, receipt |-> q.evidence]
    IN  IF /\ FamilyForContext(s, q.ctx)
           /\ t.state = "prepared" /\ t.evidence.candidate = None
           /\ v.state = "candidate" /\ v.session = None
           /\ ValidateCandidateEvidence(q.ctx, candidate)
        THEN Planned(Record(s.family, q.ctx, "candidate", candidate, now),
                     [op |-> "candidate", transition |-> t.id, candidate |-> q.ctx.candidate, session |-> q.successor])
        ELSE None

PlanAdoption(s, q, now) ==
    LET t == s.family.transitions[q.ctx.transition]
        adoption == [identity |-> q.identity, receipt |-> q.evidence]
    IN  IF /\ FamilyForContext(s, q.ctx)
           /\ t.state = "candidateRecorded" /\ t.evidence.adoption = None
           /\ t.evidence.candidate # None /\ t.evidence.candidate.session = q.session
           /\ ValidateRuntimeContext(q.ctx, q.identity)
           /\ ValidateAdoptionEvidence(q.ctx, q.identity, adoption)
        THEN Planned(Record(s.family, q.ctx, "adoption", adoption, now),
                     [op |-> "adoption", transition |-> t.id, identity |-> q.identity])
        ELSE None

PlanDelivery(s, q, now) ==
    LET t == s.family.transitions[q.ctx.transition]
        delivery == [id |-> q.delivery, recipient |-> q.identity, receipt |-> q.evidence]
    IN  IF /\ FamilyForContext(s, q.ctx)
           /\ t.state = "adopted" /\ t.evidence.delivery = None
           /\ t.evidence.adoption # None /\ t.evidence.adoption.identity = q.identity
           /\ ValidateRuntimeContext(q.ctx, q.identity)
           /\ ValidateDeliveryEvidence(q.ctx, q.identity, delivery)
        THEN Planned(Record(s.family, q.ctx, "delivery", delivery, now),
                     [op |-> "delivery", transition |-> t.id, delivery |-> q.delivery])
        ELSE None

\* Mutant: a rotation already acknowledged takes another acknowledgement.
PlanAcknowledgementAgain(s, q, now) ==
    LET t == s.family.transitions[q.ctx.transition]
        acknowledgement == [responder |-> q.identity, sha |-> q.sha, receipt |-> q.evidence]
    IN  IF /\ FamilyForContext(s, q.ctx)
           /\ t.state \in {"deliveryRecorded", "acknowledged"}
           /\ ValidateRuntimeContext(q.ctx, q.identity)
           /\ ValidateAcknowledgementEvidence(q.ctx, q.identity, acknowledgement)
        THEN Planned(Record(s.family, q.ctx, "acknowledgement", acknowledgement, now),
                     [op |-> "acknowledgement", transition |-> t.id, sha |-> q.sha])
        ELSE None

PlanAcknowledgement(s, q, now) ==
    LET t == s.family.transitions[q.ctx.transition]
        acknowledgement == [responder |-> q.identity, sha |-> q.sha, receipt |-> q.evidence]
    IN  IF /\ FamilyForContext(s, q.ctx)
           /\ t.state = "deliveryRecorded" /\ t.evidence.acknowledgement = None
           /\ ValidateRuntimeContext(q.ctx, q.identity)
           /\ ValidateAcknowledgementEvidence(q.ctx, q.identity, acknowledgement)
        THEN Planned(Record(s.family, q.ctx, "acknowledgement", acknowledgement, now),
                     [op |-> "acknowledgement", transition |-> t.id, sha |-> q.sha])
        ELSE None

\* transfer_fences.
TransferFences(f, q) ==
    LET t == f.transitions[q.ctx.transition]
        a == q.ctx.predecessor
    IN  /\ t.state = "acknowledged"
        /\ CurrentAuthoritySnapshot(f) = a
        /\ q.epoch = a.epoch
        /\ q.incumbent = [id |-> a.session, durable |-> a.durable]
        /\ t.evidence.candidate # None /\ t.evidence.candidate.session = q.session
        /\ t.evidence.adoption # None /\ t.evidence.adoption.identity = q.identity
        /\ ValidateRuntimeContext(q.ctx, q.identity)
        /\ q.evidence = Evidence("transferVerification", RuntimeSubjects(q.ctx, q.identity) \o <<q.incumbent.id>>)

\* Mutant: the revision that gives the seat up stays current.
ApplyTransferKeeping(f, ctx, session, now) ==
    LET a == ctx.predecessor
        g == Put(f, [f.transitions[ctx.transition] EXCEPT !.state = "transferred", !.updated = now])
    IN  [g EXCEPT !.revisions[ctx.candidate].state = "current",
                  !.revisions[ctx.candidate].successful =
                        [revision |-> a.revision, session |-> a.session, transition |-> ctx.transition],
                  !.revisions[ctx.candidate].root = f.root.revision,
                  !.authority = [revision |-> ctx.candidate, session |-> session.id, epoch |-> a.epoch + 1,
                                 by |-> ctx.transition, initialization |-> None]]

\* apply_transfer.
ApplyTransfer(f, ctx, session, now) ==
    LET a == ctx.predecessor
        g == Put(f, [f.transitions[ctx.transition] EXCEPT !.state = "transferred", !.updated = now])
    IN  [g EXCEPT !.revisions[a.revision].state = "superseded",
                  !.revisions[ctx.candidate].state = "current",
                  !.revisions[ctx.candidate].successful =
                        [revision |-> a.revision, session |-> a.session, transition |-> ctx.transition],
                  !.revisions[ctx.candidate].root = f.root.revision,
                  !.authority = [revision |-> ctx.candidate, session |-> session.id, epoch |-> a.epoch + 1,
                                 by |-> ctx.transition, initialization |-> None]]

PlanTransfer(s, q, now) ==
    IF FamilyForContext(s, q.ctx) /\ TransferFences(s.family, q) /\ HasNext(q.ctx.predecessor.epoch)
    THEN Planned(ApplyTransfer(s.family, q.ctx, q.session, now),
                 [op |-> "transfer", transition |-> q.ctx.transition, revision |-> q.ctx.candidate,
                  session |-> q.session.id, epoch |-> q.ctx.predecessor.epoch + 1])
    ELSE None

\* completion_fences.
CompletionFences(f, q) ==
    LET t == f.transitions[q.ctx.transition] IN
    /\ HasNext(q.ctx.predecessor.epoch)
    /\ t.state = "transferred"
    /\ f.authority = [revision |-> q.ctx.candidate, session |-> q.identity.session,
                      epoch |-> q.ctx.predecessor.epoch + 1, by |-> q.ctx.transition, initialization |-> None]
    /\ t.evidence.adoption # None /\ t.evidence.adoption.identity = q.identity
    /\ ValidateRuntimeContext(q.ctx, q.identity)
    /\ ValidateCompletionEvidence(q.ctx, q.identity, q.evidence)

\* apply_completion: the lock goes with it.
ApplyCompletion(f, ctx, evidence, now) ==
    [Record(f, ctx, "completion", evidence, now) EXCEPT !.active = None]

PlanCompletion(s, q, now) ==
    IF FamilyForContext(s, q.ctx) /\ CompletionFences(s.family, q)
    THEN Planned(ApplyCompletion(s.family, q.ctx, q.evidence, now),
                 [op |-> "completion", transition |-> q.ctx.transition, revision |-> q.ctx.candidate])
    ELSE None

\* terminal_intent_valid.
TerminalIntentValid(q, outcome) ==
    /\ ValidateRuntimeContext(q.ctx, q.identity)
    /\ ReasonMatchesTerminal(q.reason, outcome)
    /\ q.phase \notin {"transfer", "completion"}
    /\ q.evidence = Evidence(TerminalKind(outcome), RuntimeSubjects(q.ctx, q.identity))

\* apply_terminal: the number stays allocated.
ApplyTerminal(f, ctx, attempt) ==
    LET g == Put(f, [f.transitions[ctx.transition] EXCEPT !.state = attempt.outcome, !.terminal = attempt,
                                                          !.updated = attempt.recorded])
    IN  [g EXCEPT !.revisions[ctx.candidate].state = attempt.outcome,
                  !.revisions[ctx.candidate].terminal = attempt,
                  !.active = None]

\* No open unknown, and an attempt after those already recorded.
AttemptIsNext(t, attempt) ==
    Unresolved(t) = {} /\ (t.unknowns # <<>> => attempt > Last(t.unknowns).attempt)

PlanTerminal(s, q, now) ==
    LET t == s.family.transitions[q.ctx.transition]
        attempt == [attempt |-> q.attempt, outcome |-> q.op, phase |-> q.phase, reason |-> q.reason,
                    evidence |-> q.evidence, recorded |-> now]
    IN  IF /\ FamilyForContext(s, q.ctx)
           /\ t.state = ExpectedPriorState(q.phase) /\ t.terminal = None
           /\ AttemptIsNext(t, q.attempt)
           /\ TerminalIntentValid(q, q.op)
        THEN Planned(ApplyTerminal(s.family, q.ctx, attempt), [op |-> q.op, transition |-> t.id, attempt |-> attempt])
        ELSE None

PlanRecordUnknown(s, q, now) ==
    LET f == s.family
        t == f.transitions[q.ctx.transition]
        state == f.revisions[q.ctx.candidate].state
        authority == CurrentAuthoritySnapshot(f)
        u == [initialization |-> q.ctx.initialization, transition |-> t.id, attempt |-> q.attempt,
              phase |-> q.phase, payload |-> q.payload, reason |-> q.reason, evidence |-> q.evidence,
              prior |-> [state |-> t.state, revision |-> state, predecessor |-> t.predecessor,
                         authority |-> authority, active |-> f.active, evidence |-> t.evidence],
              post |-> [state |-> "unknown", revision |-> state, authority |-> authority,
                        active |-> f.active, evidence |-> t.evidence],
              recorded |-> now, resolution |-> None]
    IN  IF /\ FamilyForContext(s, q.ctx)
           /\ q.phase # "prepare" /\ q.payload.phase = q.phase
           /\ t.state = ExpectedPriorState(q.phase)
           /\ ReasonMatchesUnknown(q.reason, q.phase)
           /\ AttemptIsNext(t, q.attempt)
           /\ ValidateRuntimeContext(q.ctx, q.identity)
           /\ PhasePayloadMatches(q.ctx, q.identity, t.evidence, q.payload)
           /\ q.evidence = Evidence("unknownObservation", RuntimeSubjects(q.ctx, q.identity))
        THEN Planned(Put(f, [t EXCEPT !.state = "unknown", !.updated = now, !.unknowns = Append(@, u)]),
                     [op |-> "recordUnknown", transition |-> t.id, unknown |-> u])
        ELSE None

\* unresolved_for: the open unknown is the one the request names, and nothing
\* it recorded has changed since.
UnresolvedFor(f, q) ==
    LET t == f.transitions[q.ctx.transition]
        open == {i \in Unresolved(t) : \A j \in Unresolved(t) : i <= j}
    IN  /\ t.state = "unknown"
        /\ \E i \in open :
              LET u == t.unknowns[i] IN
              /\ u.attempt = q.attempt
              /\ u.post.evidence = t.evidence /\ u.post.active = f.active
              /\ u.post.authority = CurrentAuthoritySnapshot(f)

\* Mutant: an unknown outcome can only be verified, never given up.
MayResolveVerified(q, u) == q.outcome.kind = "succeeded" /\ q.outcome.payload = u.payload /\ u.phase # "transfer"

\* plan_resolve_unknown, which outcomes may be claimed: a transfer can neither be
\* verified nor given up, and a completion cannot be given up.
MayResolve(q, u) ==
    IF q.outcome.kind = "succeeded" THEN q.outcome.payload = u.payload /\ u.phase # "transfer"
    ELSE /\ u.phase \notin {"transfer", "completion"}
         /\ ReasonMatchesTerminal(q.outcome.reason, q.outcome.kind)
         /\ q.outcome.evidence = Evidence(TerminalKind(q.outcome.kind), RuntimeSubjects(q.ctx, q.identity))

\* apply_verified_success.
ApplyVerifiedSuccess(f, ctx, p, now) ==
    IF p.phase = "completion" THEN ApplyCompletion(f, ctx, p.evidence, now)
    ELSE Record(f, ctx, p.phase, p.evidence, now)

\* success_post_state and terminal_post_state.
PostState(f, ctx) ==
    [state |-> f.transitions[ctx.transition].state, revision |-> f.revisions[ctx.candidate].state,
     authority |-> CurrentAuthoritySnapshot(f), active |-> f.active,
     evidence |-> f.transitions[ctx.transition].evidence]

\* The family and the outcome a resolution leads to.
Resolve(f, q, u, now) ==
    LET attempt == [attempt |-> u.attempt, outcome |-> q.outcome.kind, phase |-> u.phase,
                    reason |-> q.outcome.reason, evidence |-> q.outcome.evidence, recorded |-> now]
        success == ApplyVerifiedSuccess(f, q.ctx, q.outcome.payload, now)
        terminal == ApplyTerminal(f, q.ctx, attempt)
    IN  IF q.outcome.kind = "succeeded"
        THEN [family |-> success,
              outcome |-> [kind |-> "succeeded", payload |-> q.outcome.payload, post |-> PostState(success, q.ctx)]]
        ELSE [family |-> terminal,
              outcome |-> [kind |-> q.outcome.kind, attempt |-> attempt, post |-> PostState(terminal, q.ctx)]]

PlanResolveUnknown(s, q, now) ==
    LET f == s.family
        i == CHOOSE j \in Unresolved(f.transitions[q.ctx.transition]) : TRUE
        u == f.transitions[q.ctx.transition].unknowns[i]
        r == Resolve(f, q, u, now)
        resolved == [u EXCEPT !.resolution = [outcome |-> r.outcome, evidence |-> q.evidence, recorded |-> now]]
        t == [r.family.transitions[q.ctx.transition] EXCEPT !.unknowns[i] = resolved, !.updated = now]
    IN  IF /\ FamilyForContext(s, q.ctx) /\ UnresolvedFor(f, q)
           /\ ValidateRuntimeContext(q.ctx, q.identity)
           /\ q.evidence = Evidence("unknownResolution", RuntimeSubjects(q.ctx, q.identity))
           /\ MayResolve(q, u)
        THEN Planned(Put(r.family, t), [op |-> "resolveUnknown", transition |-> t.id, unknown |-> resolved])
        ELSE None

\* execute.
Plan(s, q, now) ==
    CASE q.op = "initialize" -> PlanInitialize(s, q, now)
      [] q.op = "prepare" -> PlanPrepare(s, q, now)
      [] q.op = "candidate" -> PlanCandidate(s, q, now)
      [] q.op = "adoption" -> PlanAdoption(s, q, now)
      [] q.op = "delivery" -> PlanDelivery(s, q, now)
      [] q.op = "acknowledgement" -> PlanAcknowledgement(s, q, now)
      [] q.op = "transfer" -> PlanTransfer(s, q, now)
      [] q.op = "completion" -> PlanCompletion(s, q, now)
      [] q.op \in {"failed", "cancelled"} -> PlanTerminal(s, q, now)
      [] q.op = "recordUnknown" -> PlanRecordUnknown(s, q, now)
      [] q.op = "resolveUnknown" -> PlanResolveUnknown(s, q, now)

-----------------------------------------------------------------------------
(* validate_request: the result answers the request it is given for. *)

InitializeAnswered(q, r) ==
    /\ q.approval = Evidence("humanApproval", <<q.incumbent.id>>)
    /\ q.evidence = Evidence("rootInitialization", <<q.incumbent.id>>)
    /\ r.root = q.root /\ r.epoch = 1

PrepareAnswered(q, r, expected) ==
    /\ q.handoff.acceptance = Evidence("handoffAcceptance", <<q.handoff.task, q.handoff.recipient>>)
    /\ q.approval = Evidence("humanApproval", <<q.handoff.task, q.source.session>>)
    /\ q.allocator.observed = expected /\ q.allocator.next > q.source.revision
    /\ r.transition = q.transition /\ r.candidate = q.allocator.next /\ r.epoch = q.source.epoch

\* The four phases with evidence of their own.
PhaseAnswered(q, r) ==
    /\ r.transition = q.ctx.transition
    /\ CASE q.op = "candidate" ->
              /\ ValidateContext(q.ctx)
              /\ ValidateCandidateEvidence(q.ctx, [session |-> q.successor, receipt |-> q.evidence])
              /\ r.candidate = q.ctx.candidate /\ r.session = q.successor
         [] q.op = "adoption" ->
              /\ ValidateRuntimeContext(q.ctx, q.identity)
              /\ q.evidence = Evidence("adoption", RuntimeSubjects(q.ctx, q.identity))
              /\ r.identity = q.identity /\ q.session.id = q.identity.session
         [] q.op = "delivery" ->
              /\ ValidateRuntimeContext(q.ctx, q.identity)
              /\ q.evidence = Evidence("initialDelivery", RuntimeSubjects(q.ctx, q.identity) \o <<q.delivery>>)
              /\ q.delivery = q.ctx.transition /\ r.delivery = q.delivery
         [] q.op = "acknowledgement" ->
              /\ ValidateRuntimeContext(q.ctx, q.identity)
              /\ q.evidence = Evidence("acknowledgement", RuntimeSubjects(q.ctx, q.identity))
              /\ q.sha = q.ctx.handoff.sha /\ r.sha = q.sha

TransferAnswered(q, r) ==
    /\ ValidateRuntimeContext(q.ctx, q.identity)
    /\ q.evidence = Evidence("transferVerification", RuntimeSubjects(q.ctx, q.identity) \o <<q.incumbent.id>>)
    /\ HasNext(q.epoch) /\ q.epoch = q.ctx.predecessor.epoch
    /\ q.incumbent = [id |-> q.ctx.predecessor.session, durable |-> q.ctx.predecessor.durable]
    /\ q.session.id = q.identity.session
    /\ r = [op |-> "transfer", transition |-> q.ctx.transition, revision |-> q.ctx.candidate,
            session |-> q.session.id, epoch |-> q.epoch + 1]

CompletionAnswered(q, r) ==
    /\ ValidateRuntimeContext(q.ctx, q.identity)
    /\ ValidateCompletionEvidence(q.ctx, q.identity, q.evidence)
    /\ r.transition = q.ctx.transition /\ r.revision = q.ctx.candidate

\* validate_terminal_intent.
TerminalAnswered(q, r) ==
    /\ TerminalIntentValid(q, q.op)
    /\ r.transition = q.ctx.transition
    /\ r.attempt.attempt = q.attempt /\ r.attempt.outcome = q.op /\ r.attempt.phase = q.phase
    /\ r.attempt.reason = q.reason /\ r.attempt.evidence = q.evidence

\* validate_record_unknown_intent.
UnknownAnswered(q, r) ==
    /\ r.unknown.resolution = None
    /\ ValidateUnknown(q.ctx, q.identity, r.unknown)
    /\ r.unknown.attempt = q.attempt /\ r.unknown.phase = q.phase /\ r.unknown.payload = q.payload
    /\ r.unknown.reason = q.reason /\ r.unknown.evidence = q.evidence
    /\ r.transition = q.ctx.transition

\* validate_resolve_unknown_intent.
ResolutionAnswered(q, r) ==
    LET o == r.unknown.resolution.outcome IN
    /\ r.unknown.resolution # None
    /\ ValidateUnknown(q.ctx, q.identity, r.unknown)
    /\ r.unknown.attempt = q.attempt /\ r.unknown.resolution.evidence = q.evidence
    /\ o.kind = q.outcome.kind
    /\ IF o.kind = "succeeded" THEN o.payload = q.outcome.payload
       ELSE o.attempt.reason = q.outcome.reason /\ o.attempt.evidence = q.outcome.evidence
    /\ r.transition = q.ctx.transition

ValidateRequest(q, expected, r) ==
    /\ r.op = q.op
    /\ CASE q.op = "initialize" -> InitializeAnswered(q, r)
         [] q.op = "prepare" -> PrepareAnswered(q, r, expected)
         [] q.op \in {"candidate", "adoption", "delivery", "acknowledgement"} -> PhaseAnswered(q, r)
         [] q.op = "transfer" -> TransferAnswered(q, r)
         [] q.op = "completion" -> CompletionAnswered(q, r)
         [] q.op \in {"failed", "cancelled"} -> TerminalAnswered(q, r)
         [] q.op = "recordUnknown" -> UnknownAnswered(q, r)
         [] q.op = "resolveUnknown" -> ResolutionAnswered(q, r)
=============================================================================
