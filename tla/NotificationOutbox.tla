------------------------- MODULE NotificationOutbox -------------------------
(***************************************************************************)
(* How a completion notification or a Worker follow-up travels from the    *)
(* Task Service outbox into the context of the runtime it is meant for:    *)
(*                                                                         *)
(*  - the OUTBOX, durable in the provider: which notifications a committed *)
(*    transition persisted and the facts recorded about each (queued,      *)
(*    uncertain, delivered), every fact guarded by the revision it read;   *)
(*  - the DRAIN of the Agent Bus process (task_delivery/provider_adapter,  *)
(*    agent_bus/server): flags that say a drain is wanted, a single-flight *)
(*    worker, one pass over a snapshot of the outbox;                      *)
(*  - the AGENT BUS (agent_bus/queue, store): registrations, which its     *)
(*    registry file keeps, and queues and send records, which it does not; *)
(*  - the BRIDGE of each runtime (app_server/bus_bridge): poll, submit to  *)
(*    the native thread, record the delivered fact, acknowledge.           *)
(*                                                                         *)
(* A message is named by its notification: task-service messages have the  *)
(* stable id tsc_<notification> or tsf_<notification>.  A fact's revision  *)
(* is the number of facts recorded before it.                              *)
(***************************************************************************)
EXTENDS Naturals, Sequences, FiniteSets, SequencesExt

CONSTANTS
    Outbox,      \* the notifications, in the order a pass visits them
    Followups,   \* those that are follow-ups to the assignee, not to a seat
    Sessions,    \* durable sessions; each is one native thread
    Assignee,    \* the session follow-ups are addressed to
    Coordinator, \* the session that has the coordinator seat first
    Agents,      \* runtime ids
    SessionOf,   \* the session a runtime id registers for
    Starts,      \* bound: the outbox and the live runtimes when the bus starts,
                 \* and the kinds and the number of mishaps after that
    MaxCommits,  \* bound: notifications beyond which no transition adds one
    None

Notes == Range(Outbox)
Mishaps == {"restart", "crash", "leave", "rebind", "lostack", "refuse", "retrigger"}

ASSUME OutboxAssumption == Outbox \in Seq(Notes) /\ IsInjective(Outbox) /\ Followups \subseteq Notes
ASSUME AgentAssumption == SessionOf \in [Agents -> Sessions] /\ {Assignee, Coordinator} \subseteq Sessions
ASSUME StartAssumption ==
    /\ Starts \subseteq [committed : SUBSET Notes, live : SUBSET Agents,
                        kinds : SUBSET Mishaps, mishaps : Nat]
    /\ MaxCommits \in Nat
ASSUME NoneAssumption == None \notin Agents \cup Sessions

VARIABLES
    committed,   \* notifications a transition has persisted
    facts,       \* per notification, the facts recorded, oldest first
    receipt,     \* per notification, the session whose receipt the delivered action carries
    occupant,    \* session in the coordinator seat
    current,     \* current_runtime_agent_id per session
    registered,  \* AgentBusState.agents
    queue,       \* AgentBusState.messages
    recent,      \* AgentBusState.recent_sends: <<notification, agent>>
    serving,     \* the Agent Bus answers requests
    waking,      \* handlers that committed and have not requested a drain yet
    sched,       \* the completion_* flags of TaskWorkerActionHost
    drain,       \* the thread holding completion_drain_execution
    native,      \* per session and notification, the thread's delivery state
    bridge,      \* per runtime, its bridge worker
    left         \* mishaps that may still happen: their kinds, their number

outbox == <<committed, facts, receipt>>
roster == <<occupant, current, registered>>
bus == <<queue, recent, serving>>
vars == <<committed, facts, receipt, occupant, current, registered, queue,
          recent, serving, waking, sched, drain, native, bridge, left>>

Delivered(fs) == "delivered" \in Range(fs)

(* The queue a target names: a follow-up's is its session, a completion's   *)
(* is the seat.                                                             *)
Target(n) == IF n \in Followups THEN Assignee ELSE "seat"

(* A bridge that is not running, and one between two sweeps. *)
DownBridge == [pc |-> "down", batch |-> <<>>, rev |-> 0, acks |-> {}]
IdleBridge(acks) == [pc |-> "idle", batch |-> <<>>, rev |-> 0, acks |-> acks]

(* The host as it is created: a drain is requested, nothing else is known. *)
FreshSched == [requested |-> TRUE, backoff |-> FALSE, probe |-> FALSE,
               scheduled |-> FALSE, away |-> {}]

RestDrain(pc) == [pc |-> pc, seen |-> [n \in Notes |-> <<>>], known |-> {},
                  seat |-> None, at |-> 1, to |-> None, away |-> {}]

(* The bus process starts: the outbox is durable, and the registry file has *)
(* the runtimes that are live.                                              *)
Init ==
    /\ \E start \in Starts :
        /\ committed = start.committed
        /\ registered = start.live
        /\ left = [kinds |-> start.kinds, mishaps |-> start.mishaps]
    /\ facts = [n \in Notes |-> <<>>]
    /\ receipt = [n \in Notes |-> None]
    /\ occupant = Coordinator
    /\ current \in [Sessions -> registered \cup {None}]
    /\ \A s \in Sessions :
        IF \E a \in registered : SessionOf[a] = s
        THEN current[s] \in registered /\ SessionOf[current[s]] = s
        ELSE current[s] = None
    /\ queue = [a \in Agents |-> <<>>]
    /\ recent = {}
    /\ serving = FALSE
    /\ waking = {}
    /\ sched = FreshSched
    /\ drain = RestDrain("take")
    /\ native = [s \in Sessions |-> [n \in Notes |-> "unknown"]]
    /\ bridge = [a \in Agents |-> IF a \in registered THEN IdleBridge({}) ELSE DownBridge]

Spend(kind) ==
    /\ kind \in left.kinds /\ left.mishaps > 0
    /\ left' = [left EXCEPT !.mishaps = @ - 1]

-----------------------------------------------------------------------------
(* Transitions and the drain flags.                                         *)

(* A semantic transition commits and persists its notification with it. *)
Transition(n) ==
    /\ serving /\ n \notin committed /\ Cardinality(committed) < MaxCommits
    /\ committed' = committed \cup {n}
    /\ waking' = waking \cup {n}
    /\ UNCHANGED <<facts, receipt, roster, bus, sched, drain, native, bridge, left>>

(* After a committed response the handler asks for a drain at once. *)
RequestDrain(n) ==
    /\ n \in waking
    /\ waking' = waking \ {n}
    /\ sched' = [sched EXCEPT !.requested = TRUE, !.backoff = FALSE]
    /\ UNCHANGED <<outbox, roster, bus, drain, native, bridge, left>>

(* A committed transition that persists no notification asks as well. *)
Retrigger ==
    /\ serving /\ Spend("retrigger")
    /\ sched' = [sched EXCEPT !.requested = TRUE, !.backoff = FALSE]
    /\ UNCHANGED <<outbox, roster, bus, waking, drain, native, bridge>>

(* COMPLETION_DRAIN_RETRY_SECS pass after a failed drain. *)
BackoffElapses ==
    /\ sched.backoff
    /\ sched' = [sched EXCEPT !.backoff = FALSE]
    /\ UNCHANGED <<outbox, roster, bus, waking, drain, native, bridge, left>>

Due == sched.requested /\ ~sched.backoff

(* Every request first tries to start the single-flight drain worker. *)
Schedule ==
    /\ serving /\ ~sched.scheduled
    /\ Due \/ sched.probe
    /\ drain.pc \in {"idle", "tail"}
    /\ sched' = [sched EXCEPT !.scheduled = TRUE]
    /\ drain' = RestDrain("spawned")
    /\ UNCHANGED <<outbox, roster, bus, waking, native, bridge, left>>

(* The runtime a message for a durable session goes to: the session's       *)
(* current runtime, which must be registered, or, for a session without     *)
(* that record, the only registered runtime of the session.                 *)
Candidates(s) == {a \in registered : SessionOf[a] = s}
ResolveTarget(s) ==
    IF current[s] # None
    THEN IF current[s] \in Candidates(s) THEN current[s] ELSE None
    ELSE IF Cardinality(Candidates(s)) = 1 THEN CHOOSE a \in Candidates(s) : TRUE ELSE None

TargetSession(n, seat) == IF n \in Followups THEN Assignee ELSE seat

(* A target the last pass could not reach is now reachable. *)
TargetBecameAvailable ==
    \E t \in sched.away :
        ResolveTarget(IF t = "seat" THEN occupant ELSE t) # None

(* The drain worker consumes a probe and turns it into a request. *)
DrainProbe ==
    /\ drain.pc = "spawned"
    /\ sched' = IF sched.probe /\ TargetBecameAvailable
                THEN [sched EXCEPT !.probe = FALSE, !.requested = TRUE, !.backoff = FALSE]
                ELSE [sched EXCEPT !.probe = FALSE]
    /\ drain' = [drain EXCEPT !.pc = "due"]
    /\ UNCHANGED <<outbox, roster, bus, waking, native, bridge, left>>

(* The worker runs a pass only when a request is due. *)
DrainDue ==
    /\ drain.pc = "due"
    /\ drain' = [drain EXCEPT !.pc = IF Due THEN "take" ELSE "release"]
    /\ UNCHANGED <<outbox, roster, bus, waking, sched, native, bridge, left>>

(* The request is taken before the outbox is read. *)
DrainTake ==
    /\ drain.pc = "take"
    /\ sched' = [sched EXCEPT !.requested = FALSE]
    /\ drain' = [drain EXCEPT !.pc = IF sched.requested THEN "query" ELSE "release"]
    /\ UNCHANGED <<outbox, roster, bus, waking, native, bridge, left>>

(* The pass works on one snapshot of the outbox and one of the seats. *)
DrainQuery ==
    /\ drain.pc = "query"
    /\ drain' = [drain EXCEPT !.pc = "item", !.seen = facts, !.known = committed,
                              !.seat = occupant]
    /\ UNCHANGED <<outbox, roster, bus, waking, sched, native, bridge, left>>

Item == Outbox[drain.at]
Aborted == [sched EXCEPT !.requested = TRUE, !.backoff = TRUE]

(* A fact is appended only at the revision the writer read. *)
\* Mutant of AtRevision: the fact is appended at any revision.
AnyRevision(n, rev) == n \in Notes /\ rev \in Nat
AtRevision(n, rev) == Len(facts[n]) = rev
Append1(n, fact) == facts' = [facts EXCEPT ![n] = Append(@, fact)]

(* A notification that is not in the snapshot or was delivered is skipped. *)
DrainSkip ==
    /\ drain.pc = "item" /\ drain.at <= Len(Outbox)
    /\ Item \notin drain.known \/ Delivered(drain.seen[Item])
    /\ drain' = [drain EXCEPT !.at = @ + 1]
    /\ UNCHANGED <<outbox, roster, bus, waking, sched, native, bridge, left>>

Pending ==
    /\ drain.pc = "item" /\ drain.at <= Len(Outbox)
    /\ Item \in drain.known /\ ~Delivered(drain.seen[Item])

DrainResolve ==
    /\ Pending
    /\ LET to == ResolveTarget(TargetSession(Item, drain.seat)) IN
       /\ to # None
       /\ drain' = [drain EXCEPT !.pc = "enqueue", !.to = to]
    /\ UNCHANGED <<outbox, roster, bus, waking, sched, native, bridge, left>>

(* No runtime to send to: an uncertain fact, unless it is the latest one. *)
LastIsUncertain(fs) == fs # <<>> /\ fs[Len(fs)] = "uncertain"

DrainUnavailable ==
    /\ Pending
    /\ ResolveTarget(TargetSession(Item, drain.seat)) = None
    /\ LET away == drain.away \cup {Target(Item)} IN
       \/ /\ LastIsUncertain(drain.seen[Item])
          /\ drain' = [drain EXCEPT !.at = @ + 1, !.away = away]
          /\ UNCHANGED <<facts, sched>>
       \/ /\ ~LastIsUncertain(drain.seen[Item])
          /\ AtRevision(Item, Len(drain.seen[Item]))
          /\ Append1(Item, "uncertain")
          /\ drain' = [drain EXCEPT !.at = @ + 1, !.away = away]
          /\ UNCHANGED sched
       \/ /\ ~LastIsUncertain(drain.seen[Item])
          /\ ~AtRevision(Item, Len(drain.seen[Item]))
          /\ sched' = Aborted
          /\ drain' = [drain EXCEPT !.pc = "release"]
          /\ UNCHANGED facts
    /\ UNCHANGED <<committed, receipt, roster, bus, waking, native, bridge, left>>

(* The stable id is looked up among the recent sends to this runtime and in *)
(* this runtime's queue before the message is queued.                       *)
\* Mutant of DrainEnqueue: only the send records are looked up.
EnqueueUnlessRecent ==
    /\ drain.pc = "enqueue"
    /\ LET key == <<Item, drain.to>> IN
       /\ queue' = IF key \in recent THEN queue
                   ELSE [queue EXCEPT ![drain.to] = Append(@, Item)]
       /\ recent' = recent \cup {key}
    /\ drain' = [drain EXCEPT !.pc = "record"]
    /\ UNCHANGED <<outbox, roster, serving, waking, sched, native, bridge, left>>
DrainEnqueue ==
    /\ drain.pc = "enqueue"
    /\ LET a == drain.to
           known == <<Item, a>> \in recent \/ Item \in Range(queue[a])
       IN /\ queue' = IF known THEN queue ELSE [queue EXCEPT ![a] = Append(@, Item)]
          /\ recent' = IF known THEN recent ELSE recent \cup {<<Item, a>>}
    /\ drain' = [drain EXCEPT !.pc = "record"]
    /\ UNCHANGED <<outbox, roster, serving, waking, sched, native, bridge, left>>

(* The queued fact, unless the snapshot has it already. *)
DrainRecord ==
    /\ drain.pc = "record"
    /\ LET seen == drain.seen[Item]
           next == [drain EXCEPT !.pc = "item", !.at = @ + 1, !.to = None]
       IN \/ /\ "queued" \in Range(seen)
             /\ drain' = next
             /\ UNCHANGED <<facts, sched>>
          \/ /\ "queued" \notin Range(seen) /\ AtRevision(Item, Len(seen))
             /\ Append1(Item, "queued")
             /\ drain' = next
             /\ UNCHANGED sched
          \/ /\ "queued" \notin Range(seen) /\ ~AtRevision(Item, Len(seen))
             /\ sched' = Aborted
             /\ drain' = [drain EXCEPT !.pc = "release"]
             /\ UNCHANGED facts
    /\ UNCHANGED <<committed, receipt, roster, bus, waking, native, bridge, left>>

(* A finished pass remembers the targets it could not reach. *)
\* Mutant of DrainFinish: the pass clears the requests made while it ran.
FinishClearing ==
    /\ drain.pc = "item" /\ drain.at > Len(Outbox)
    /\ sched' = [sched EXCEPT !.away = drain.away, !.requested = FALSE]
    /\ drain' = [drain EXCEPT !.pc = "release"]
    /\ UNCHANGED <<outbox, roster, bus, waking, native, bridge, left>>
DrainFinish ==
    /\ drain.pc = "item" /\ drain.at > Len(Outbox)
    /\ sched' = [sched EXCEPT !.away = drain.away]
    /\ drain' = [drain EXCEPT !.pc = "release"]
    /\ UNCHANGED <<outbox, roster, bus, waking, native, bridge, left>>

(* The start-up drain runs before the first request is accepted; a worker   *)
(* gives up the single-flight flag and then looks for work once more.       *)
DrainRelease ==
    /\ drain.pc = "release"
    /\ IF serving
       THEN /\ sched' = [sched EXCEPT !.scheduled = FALSE]
            /\ drain' = RestDrain("tail")
       ELSE /\ sched' = sched
            /\ drain' = RestDrain("idle")
    /\ serving' = TRUE
    /\ UNCHANGED <<outbox, roster, queue, recent, waking, native, bridge, left>>

DrainTail ==
    /\ drain.pc = "tail"
    /\ ~(Due \/ sched.probe)
    /\ drain' = RestDrain("idle")
    /\ UNCHANGED <<outbox, roster, bus, waking, sched, native, bridge, left>>

-----------------------------------------------------------------------------
(* The Agent Bus.                                                           *)

(* retry_completion_notifications_for_available_target *)
\* Mutant of ProbeIfAway: a registration or heartbeat asks for no probe.
NeverProbe == sched' = sched
ProbeIfAway == sched' = [sched EXCEPT !.probe = @ \/ sched.away # {}]

(* A runtime comes up, or refreshes its registration: it becomes the        *)
(* current runtime of its session in the same step.                         *)
Register(a) ==
    /\ serving
    /\ current' = [current EXCEPT ![SessionOf[a]] = a]
    /\ registered' = registered \cup {a}
    /\ ProbeIfAway
    /\ bridge' = IF bridge[a].pc = "down"
                 THEN [bridge EXCEPT ![a] = IdleBridge({})] ELSE bridge
    /\ UNCHANGED <<outbox, occupant, bus, waking, drain, native, left>>

Start(a) == bridge[a].pc = "down" /\ Register(a)
Refresh(a) == bridge[a].pc = "idle" /\ Register(a)

Heartbeat ==
    /\ serving /\ registered # {}
    /\ ProbeIfAway
    /\ UNCHANGED <<outbox, roster, bus, waking, drain, native, bridge, left>>

(* The roster entry goes and the queue with it: a clean unregister of a     *)
(* bridge between two sweeps, or the pruning of a runtime that was silent.  *)
Drop(a) ==
    /\ serving /\ Spend("leave")
    /\ registered' = registered \ {a}
    /\ queue' = [queue EXCEPT ![a] = <<>>]
    /\ UNCHANGED <<outbox, occupant, current, recent, serving, waking, sched, drain>>

Unregister(a) ==
    /\ bridge[a].pc = "idle" /\ Drop(a)
    /\ bridge' = [bridge EXCEPT ![a] = DownBridge]
    /\ UNCHANGED native

Prune(a) ==
    /\ a \in registered /\ Drop(a)
    /\ UNCHANGED <<native, bridge>>

(* The session's runtime record is cleared once its runtime is gone. *)
ClearRuntime(s) ==
    /\ current[s] # None /\ bridge[current[s]].pc = "down"
    /\ current' = [current EXCEPT ![s] = None]
    /\ UNCHANGED <<outbox, occupant, registered, bus, waking, sched, drain, native, bridge, left>>

(* A send record leaves the 30 second window. *)
ExpireRecent(key) ==
    /\ recent' = recent \ {key}
    /\ UNCHANGED <<outbox, roster, queue, serving, waking, sched, drain, native, bridge, left>>

(* The Agent Bus process ends and starts again: the roster is read back     *)
(* from the registry file, the queues and the send records are gone, and    *)
(* the start-up drain runs.                                                 *)
Restart ==
    /\ serving /\ Spend("restart")
    /\ queue' = [a \in Agents |-> <<>>]
    /\ recent' = {}
    /\ serving' = FALSE
    /\ waking' = {}
    /\ sched' = FreshSched
    /\ drain' = RestDrain("take")
    /\ UNCHANGED <<outbox, roster, native, bridge>>

Rebind(s) ==
    /\ s # occupant /\ Spend("rebind")
    /\ occupant' = s
    /\ UNCHANGED <<outbox, current, registered, bus, waking, sched, drain, native, bridge>>

-----------------------------------------------------------------------------
(* The bridge of a runtime, and the native thread behind it.                *)

Put(a, b) == bridge' = [bridge EXCEPT ![a] = b]

(* A queue or a batch with some messages taken out of it. *)
Without(q, gone) ==
    LET kept[i \in 0..Len(q)] ==
            IF i = 0 THEN <<>>
            ELSE IF q[i] \in gone THEN kept[i - 1] ELSE Append(kept[i - 1], q[i])
    IN  kept[Len(q)]

(* Acknowledgements that did not get through are repeated before polling. *)
RetryAcks(a) ==
    /\ serving /\ bridge[a].pc = "idle" /\ bridge[a].acks # {}
    /\ queue' = [queue EXCEPT ![a] = Without(@, bridge[a].acks)]
    /\ Put(a, IdleBridge({}))
    /\ UNCHANGED <<outbox, roster, recent, serving, waking, sched, drain, native, left>>

(* The poll leaves the messages in the queue. *)
Poll(a) ==
    /\ serving /\ bridge[a].pc = "idle" /\ bridge[a].acks = {} /\ queue[a] # <<>>
    /\ Put(a, [bridge[a] EXCEPT !.pc = "submit", !.batch = queue[a]])
    /\ UNCHANGED <<outbox, roster, bus, waking, sched, drain, native, left>>

(* What the native thread does not know is submitted; it may refuse some. *)
Unknown(a) == {n \in Range(bridge[a].batch) : native[SessionOf[a]][n] = "unknown"}

SubmitAll(a, sent) ==
    /\ bridge[a].pc = "submit"
    /\ native' = [native EXCEPT ![SessionOf[a]] =
                    [n \in Notes |-> IF n \in sent THEN "pending" ELSE @[n]]]
    /\ Put(a, [bridge[a] EXCEPT !.pc = "status"])
    /\ UNCHANGED <<outbox, roster, bus, waking, sched, drain>>

Submit(a) == SubmitAll(a, Unknown(a)) /\ UNCHANGED left
SubmitRefused(a) ==
    /\ Spend("refuse")
    /\ \E sent \in SUBSET Unknown(a) : sent # Unknown(a) /\ SubmitAll(a, sent)

(* Only messages whose context insertion is persisted go on. *)
NotPersisted(a) == {n \in Notes : native[SessionOf[a]][n] # "persisted"}
Status(a) ==
    /\ bridge[a].pc = "status"
    /\ Put(a, [bridge[a] EXCEPT !.pc = "read",
                 !.batch = Without(@, NotPersisted(a))])
    /\ UNCHANGED <<outbox, roster, bus, waking, sched, drain, native, left>>

(* The delivered fact: the revision is read, then the fact is recorded at   *)
(* it.  The action id names the notification and the message, the request   *)
(* also the native receipt.                                                 *)
ReadRevision(a) ==
    /\ bridge[a].pc = "read"
    /\ Put(a, IF bridge[a].batch = <<>> THEN IdleBridge(bridge[a].acks)
              ELSE [bridge[a] EXCEPT !.pc = "record",
                                     !.rev = Len(facts[Head(bridge[a].batch)])])
    /\ UNCHANGED <<outbox, roster, bus, waking, sched, drain, native, left>>

CanRecord(n, rev) == receipt[n] = None /\ AtRevision(n, rev)

\* Mutant of RecordDelivered: the message is acknowledged even when its fact
\* was refused.
RecordThenAck(a) ==
    /\ bridge[a].pc = "record"
    /\ LET n == Head(bridge[a].batch) IN
       IF CanRecord(n, bridge[a].rev)
       THEN Append1(n, "delivered") /\ receipt' = [receipt EXCEPT ![n] = SessionOf[a]]
       ELSE UNCHANGED <<facts, receipt>>
    /\ Put(a, [bridge[a] EXCEPT !.pc = "ack", !.rev = 0])
    /\ UNCHANGED <<committed, roster, bus, waking, sched, drain, native, left>>
\* Mutant of RecordDelivered: the replay of a recorded fact is an error.
RecordWithoutReplay(a) ==
    /\ bridge[a].pc = "record"
    /\ LET n == Head(bridge[a].batch) IN
       IF CanRecord(n, bridge[a].rev)
       THEN /\ Append1(n, "delivered")
            /\ receipt' = [receipt EXCEPT ![n] = SessionOf[a]]
            /\ Put(a, [bridge[a] EXCEPT !.pc = "ack", !.rev = 0])
       ELSE /\ Put(a, IdleBridge(bridge[a].acks))
            /\ UNCHANGED <<facts, receipt>>
    /\ UNCHANGED <<committed, roster, bus, waking, sched, drain, native, left>>
RecordDelivered(a) ==
    /\ bridge[a].pc = "record"
    /\ LET n == Head(bridge[a].batch)
           s == SessionOf[a]
       IN \/ /\ CanRecord(n, bridge[a].rev)
             /\ Append1(n, "delivered")
             /\ receipt' = [receipt EXCEPT ![n] = s]
             /\ Put(a, [bridge[a] EXCEPT !.pc = "ack", !.rev = 0])
          \/ /\ receipt[n] = s
             /\ Put(a, [bridge[a] EXCEPT !.pc = "ack", !.rev = 0])
             /\ UNCHANGED <<facts, receipt>>
          \/ /\ ~CanRecord(n, bridge[a].rev) /\ receipt[n] # s
             /\ Put(a, IdleBridge(bridge[a].acks))
             /\ UNCHANGED <<facts, receipt>>
    /\ UNCHANGED <<committed, roster, bus, waking, sched, drain, native, left>>

Acked(a) == [queue EXCEPT ![a] = Without(@, {Head(bridge[a].batch)})]

Ack(a) ==
    /\ serving /\ bridge[a].pc = "ack"
    /\ queue' = Acked(a)
    /\ Put(a, [bridge[a] EXCEPT !.pc = "read", !.batch = Tail(@)])
    /\ UNCHANGED <<outbox, roster, recent, serving, waking, sched, drain, native, left>>

(* The acknowledgement fails: the bus is away, or its answer is lost. *)
AckFails(a) ==
    /\ bridge[a].pc = "ack"
    /\ \/ ~serving /\ UNCHANGED <<queue, left>>
       \/ serving /\ Spend("lostack") /\ queue' = Acked(a)
    /\ Put(a, IdleBridge(bridge[a].acks \cup {Head(bridge[a].batch)}))
    /\ UNCHANGED <<outbox, roster, recent, serving, waking, sched, drain, native>>

(* The runtime dies: its bridge forgets everything, the native thread what  *)
(* it had not persisted.                                                    *)
Crash(a) ==
    /\ bridge[a].pc # "down" /\ Spend("crash")
    /\ Put(a, DownBridge)
    /\ native' = [native EXCEPT ![SessionOf[a]] =
                    [n \in Notes |-> IF @[n] = "pending" THEN "unknown" ELSE @[n]]]
    /\ UNCHANGED <<outbox, roster, bus, waking, sched, drain>>

Persist(s, n) ==
    /\ native[s][n] = "pending"
    /\ native' = [native EXCEPT ![s][n] = "persisted"]
    /\ UNCHANGED <<outbox, roster, bus, waking, sched, drain, bridge, left>>

-----------------------------------------------------------------------------
DrainStep ==
    \/ DrainProbe \/ DrainDue \/ DrainTake \/ DrainQuery \/ DrainSkip
    \/ DrainResolve \/ DrainUnavailable \/ DrainEnqueue \/ DrainRecord
    \/ DrainFinish \/ DrainRelease \/ DrainTail

BridgeStep(a) ==
    \/ RetryAcks(a) \/ Poll(a) \/ Submit(a) \/ Status(a)
    \/ ReadRevision(a) \/ RecordDelivered(a) \/ Ack(a)

Next ==
    \/ \E n \in Notes : Transition(n) \/ RequestDrain(n)
    \/ Retrigger \/ BackoffElapses \/ Schedule \/ DrainStep
    \/ Heartbeat \/ Restart
    \/ \E s \in Sessions : ClearRuntime(s) \/ Rebind(s)
    \/ \E a \in Agents :
        \/ Start(a) \/ Refresh(a) \/ Unregister(a) \/ Prune(a) \/ Crash(a)
        \/ BridgeStep(a) \/ SubmitRefused(a) \/ AckFails(a)
    \/ \E s \in Sessions, n \in Notes : Persist(s, n)
    \/ \E key \in recent : ExpireRecent(key)

Spec == Init /\ [][Next]_vars

(* Fairness.  The drain and bridge threads run; every request, and every    *)
(* bridge polls, tries to start a due drain; a backoff ends; the runtimes   *)
(* the outbox is addressed to come up and re-register every 30 seconds,     *)
(* which the bridge loop checks on each turn (hence strong fairness); the   *)
(* native thread persists what it accepted.                                 *)
FairSpec ==
    /\ Spec
    /\ WF_vars(BackoffElapses) /\ WF_vars(Schedule) /\ WF_vars(DrainStep)
    /\ \A n \in Notes : WF_vars(RequestDrain(n))
    /\ \A a \in Agents :
        /\ WF_vars(Start(a)) /\ SF_vars(Refresh(a)) /\ WF_vars(BridgeStep(a))
    /\ \A s \in Sessions, n \in Notes : WF_vars(Persist(s, n))

-----------------------------------------------------------------------------
FactKinds == {"queued", "uncertain", "delivered"}
DrainPcs == {"idle", "spawned", "due", "take", "query", "item", "enqueue",
             "record", "release", "tail"}
Budget == [kinds : SUBSET Mishaps, mishaps : Nat]
BridgePcs == {"down", "idle", "submit", "status", "read", "record", "ack"}

(* Every variable keeps its shape. *)
TypeOK ==
    /\ committed \subseteq Notes /\ waking \subseteq Notes
    /\ facts \in [Notes -> Seq(FactKinds)]
    /\ receipt \in [Notes -> Sessions \cup {None}]
    /\ occupant \in Sessions
    /\ current \in [Sessions -> Agents \cup {None}]
    /\ registered \subseteq Agents
    /\ queue \in [Agents -> Seq(Notes)]
    /\ recent \subseteq Notes \X Agents
    /\ serving \in BOOLEAN
    /\ sched \in [requested : BOOLEAN, backoff : BOOLEAN, probe : BOOLEAN,
                  scheduled : BOOLEAN, away : SUBSET (Sessions \cup {"seat"})]
    /\ drain \in [pc : DrainPcs, seen : [Notes -> Seq(FactKinds)], known : SUBSET Notes,
                  seat : Sessions \cup {None}, at : Nat, to : Agents \cup {None},
                  away : SUBSET (Sessions \cup {"seat"})]
    /\ native \in [Sessions -> [Notes -> {"unknown", "pending", "persisted"}]]
    /\ bridge \in [Agents -> [pc : BridgePcs, batch : Seq(Notes), rev : Nat,
                              acks : SUBSET Notes]]
    /\ left \in Budget

(* The facts tell one story, and a true one, although the drain and any     *)
(* number of bridges write them from stale reads: the thread whose receipt  *)
(* a delivered fact carries has the message in its context; queued and      *)
(* delivered at most once, nothing after delivered, and no two uncertain    *)
(* facts in a row.                                                          *)
FactsTellOneStory == \A n \in Notes :
    /\ Delivered(facts[n]) <=> receipt[n] # None
    /\ receipt[n] # None => native[receipt[n]][n] = "persisted"
    /\ \A i, j \in DOMAIN facts[n] :
        /\ facts[n][i] = "delivered" => i = Len(facts[n])
        /\ i < j /\ facts[n][i] = "queued" => facts[n][j] # "queued"
        /\ j = i + 1 /\ facts[n][i] = "uncertain" => facts[n][j] # "uncertain"

(* A queue holds a message once, only messages the outbox has, and a         *)
(* follow-up only where it goes to its assignee, although the record of the *)
(* send may have expired and the seat may have moved between two passes.    *)
QueueIsExact ==
    \A a \in Agents :
        /\ IsInjective(queue[a])
        /\ Range(queue[a]) \subseteq committed
        /\ SessionOf[a] # Assignee => Range(queue[a]) \cap Followups = {}

(* An acknowledgement removes only messages whose context insertion has    *)
(* been recorded: while the bus runs and the runtime stays registered, a    *)
(* message leaves the queue only after its delivered fact.                  *)
LeavesDelivered(n, a) ==
    n \in Range(queue[a]) /\ n \notin Range(queue'[a]) /\ serving' /\ a \in registered'
        => Delivered(facts[n])
AckedAfterDelivery == [][\A n \in Notes, a \in Agents : LeavesDelivered(n, a)]_vars

(* A drain that is wanted is never forgotten: every undelivered             *)
(* notification is queued somewhere, was visited by a drain that could not  *)
(* reach its target and will be probed for, or has a drain coming.          *)
DrainComing(n) ==
    \/ sched.requested \/ n \in waking
    \/ drain.pc = "query"
    \/ drain.pc \in {"item", "enqueue", "record"} /\ n \in drain.known
NeverForgotten ==
    \A n \in committed :
        \/ Delivered(facts[n])
        \/ DrainComing(n)
        \/ Target(n) \in sched.away
        \/ "queued" \in Range(facts[n])

(* A delivered fact carries the receipt of another session than this one:  *)
(* a rebind of the seat let both insert the message.                        *)
Contradicted(a, n) == receipt[n] \notin {None, SessionOf[a]}

(* The bridge's sweep of a queue ends where it cannot record the delivered  *)
(* fact: at a contradicted message, so also for the messages behind it.     *)
Stuck(a, n) ==
    \E i, j \in DOMAIN queue[a] :
        i <= j /\ queue[a][j] = n /\ Contradicted(a, queue[a][i])

(* Nobody is going to deliver this notification before an unrelated commit  *)
(* or a restart: its message was lost with the queue of a runtime that left *)
(* or is stuck in every queue that has it, no pass has found its target     *)
(* away, and no drain is coming.                                            *)
Overlooked(n) ==
    /\ \A a \in Agents : n \in Range(queue[a]) => Stuck(a, n)
    /\ ~DrainComing(n) /\ Target(n) \notin sched.away

(* Every notification is delivered in the end, through restarts of the bus, *)
(* crashes of the runtime, rebinds of the seat, refused submissions and     *)
(* lost acknowledgements, unless it is overlooked.                          *)
EveryNotificationArrives ==
    []<>(\A n \in committed : Delivered(facts[n]) \/ Overlooked(n))

(* What is in the context leaves the queue: no message that a bridge cannot *)
(* settle keeps the ones behind it waiting, unless a rebind of the seat let *)
(* two sessions insert that message or one ahead of it.                     *)
SettledMessagesLeave ==
    []<>(\A a \in Agents, n \in Notes :
            n \in Range(queue[a]) /\ native[SessionOf[a]][n] = "persisted" => Stuck(a, n))
=============================================================================
