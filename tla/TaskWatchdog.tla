----------------------------- MODULE TaskWatchdog -----------------------------
(***************************************************************************)
(* The stale-task watchdog (src/src/task_service/watchdog.rs and           *)
(* run_task_watchdog_once of src/src/agent_bus/server.rs) watching one     *)
(* attempt.  A pass reads the Task Service and the activity of the         *)
(* sessions, updates its durable store (watermark, episode, reminders,     *)
(* retired reminders), takes cancelled reminders off the bus and queues    *)
(* the ones that were not delivered.  The runtime's bridge puts queued     *)
(* reminders into the native context and reports that back to the store.   *)
(* The pass, the bridge, the worker and the clock interleave; the bus may  *)
(* restart, a runtime go away, and reads may fail.                         *)
(*                                                                         *)
(* A reminder is <<watermark, stage>>: episode and notification ids are    *)
(* digests of the attempt, the watermark and the stage.  Its stage says    *)
(* whom it is for: the assignee, or the occupant of the authority seat.    *)
(* Each of the two has a runtime with a queue and a bridge of its own.     *)
(***************************************************************************)
EXTENDS Naturals, FiniteSets

CONSTANTS
    FirstStale,     \* first_stale_threshold
    Escalation,     \* director_escalation_interval
    MaxRetired,     \* MAX_RETIRED_NOTIFICATIONS
    MaxTime,        \* bound: the clock
    MaxEvents       \* bound: changes of the attempt, failed steps, restarts
                    \* and lost runtimes, together

ASSUME WatchdogAssumption ==
    /\ FirstStale \in Nat \ {0} /\ Escalation \in Nat \ {0} /\ MaxRetired \in Nat
    /\ MaxTime \in Nat /\ MaxEvents \in Nat

VARIABLES
    now,            \* the clock
    running,        \* the attempt is active and in phase Running
    updated,        \* when the Task Service last recorded progress
    output,         \* when the session last showed output or a tool call
    watermark,      \* persisted watermark: a set of at most one time
    notes,          \* reminders of the current episode: [id, delivered]
    retired,        \* retired reminders: [id, delivered, at]
    episode,        \* the episode's watermark: a set of at most one time
    pc,             \* the pass: "idle", "read", "cancel", "notify"
    view,           \* what the pass read: [running, updated, output]
    cancelled,      \* the scan's cancelled_notification_ids
    pending,        \* the scan's notifications still to be handled
    queue, recent,  \* on the bus: queued reminders, recent_sends
    online,         \* the stages whose target has a live runtime
    held,           \* reminders of the bridges' sweeps that are in the native
                    \* context and not settled
    seen,           \* the latest progress any scan has seen
    forgotten,      \* cancelled reminders whose pass ended before it removed them
    pruned,         \* reminders the store has dropped
    events

attempt == <<now, running, updated, output>>
store == <<watermark, notes, retired, episode>>
pass == <<pc, view, cancelled, pending>>
bus == <<queue, recent>>
runtime == <<online, held>>
history == <<seen, forgotten, pruned>>
vars == <<now, running, updated, output, watermark, notes, retired, episode, pc, view, cancelled,
          pending, queue, recent, online, held, seen, forgotten, pruned, events>>

Stages == {"first_stale", "director_escalated"}
Ids(ns) == {n.id : n \in ns}

\* is_delivered.
Undelivered(ns) == {n \in ns : ~n.delivered}

NoView == [running |-> FALSE, updated |-> 0, output |-> 0]

Init ==
    /\ now = 0 /\ running = TRUE /\ updated = 0 /\ output = 0
    /\ watermark = {} /\ notes = {} /\ retired = {} /\ episode = {}
    /\ pc = "idle" /\ view = NoView
    /\ cancelled = {} /\ pending = {}
    /\ queue = {} /\ recent = {}
    /\ online = Stages /\ held = {}
    /\ seen = 0 /\ forgotten = {} /\ pruned = {} /\ events = 0

-----------------------------------------------------------------------------
(* The attempt and the clock. *)

Tick ==
    /\ now < MaxTime
    /\ now' = now + 1
    /\ UNCHANGED <<running, updated, output, store, pass, bus, runtime, history, events>>

Event == events < MaxEvents /\ events' = events + 1

\* A transition or a status receipt of the running attempt, or the worker's
\* output reaching the activity store (task_watchdog_activity_projections).
Progress ==
    /\ running /\ Event
    /\ \/ updated < now /\ updated' = now /\ UNCHANGED output
       \/ output < now /\ output' = now /\ UNCHANGED updated
    /\ UNCHANGED <<now, running, store, pass, bus, runtime, history>>

\* The attempt leaves phase Running, or returns to it.
PhaseChange ==
    /\ Event
    /\ running' = ~running /\ updated' = now
    /\ UNCHANGED <<now, output, store, pass, bus, runtime, history>>

-----------------------------------------------------------------------------
(* One pass of the watchdog. *)

Largest(S) == CHOOSE x \in S : \A y \in S : y <= x

\* provider.query and load_session_activity_states; activity that cannot be
\* read counts as none.  The sends of the previous pass have left their window
\* (prune_recent_agent_sends: 30 seconds; a pass starts every 60 by default).
Read ==
    /\ pc = "idle"
    /\ recent' = {}
    /\ \/ view' = [running |-> running, updated |-> updated, output |-> output] /\ UNCHANGED events
       \/ /\ Event
          /\ view' = [running |-> running, updated |-> updated, output |-> 0]
    /\ pc' = "read"
    /\ UNCHANGED <<attempt, store, cancelled, pending, queue, runtime, history>>

\* authoritative_watermark; observations older than the attempt do not count.
Observed == Largest({view.updated, view.output})

\* Mutant of Monotonic: the watermark is what this pass can see.
JustObserved == Observed

\* monotonic_watermark.
Monotonic == Largest({Observed} \cup watermark)

\* Mutant of Retire: the episode takes its reminders with it.
RetireNothing(ns) == retired

\* retire_episode: the reminders move to the retired ones.
Retire(ns) == retired \cup {[id |-> n.id, delivered |-> n.delivered, at |-> now] : n \in ns}

\* prune_retired_notifications drops the oldest first.
Kept(rs) ==
    CHOOSE K \in SUBSET rs :
        /\ Cardinality(K) = IF Cardinality(rs) > MaxRetired THEN MaxRetired ELSE Cardinality(rs)
        /\ \A n \in K, m \in rs \ K : m.at <= n.at

\* ensure_stage.
Ensure(ns, w, stage) ==
    IF <<w, stage>> \in Ids(ns) THEN ns
    ELSE ns \cup {[id |-> <<w, stage>>, delivered |-> FALSE]}

\* The stages that are due after an idle time.
Due(ns, w) ==
    LET idle == now - w IN
    IF idle < FirstStale THEN ns
    ELSE IF idle < FirstStale + Escalation THEN Ensure(ns, w, "first_stale")
    ELSE Ensure(Ensure(ns, w, "first_stale"), w, "director_escalated")

\* Mutant of Unsent: a reminder that an earlier pass sent is left to the bus.
FirstSendOnly(ns) == Ids(Undelivered(ns)) \ Ids(notes)

\* scan_store returns the reminders that were not delivered.
Unsent(ns) == Ids(Undelivered(ns))

\* scan of a running attempt: new progress ends the episode; a silent attempt
\* gets its stages.
ScanActive ==
    LET w == Monotonic
        over == episode # {} /\ episode # {w}
        rs == IF over THEN Retire(notes) ELSE retired
        ns == IF over THEN {} ELSE notes
        stale == now - w >= FirstStale
    IN  /\ watermark' = {w}
        /\ notes' = Due(ns, w)
        /\ episode' = IF stale THEN {w} ELSE IF over THEN {} ELSE episode
        /\ retired' = Kept(rs)
        /\ pruned' = pruned \cup (Ids(rs) \ Ids(Kept(rs)))
        /\ cancelled' = IF over THEN Ids(Undelivered(notes)) ELSE {}
        /\ pending' = IF stale THEN Unsent(Due(ns, w)) ELSE {}
        /\ seen' = Largest({seen, Observed})

\* scan of an attempt that does not run: the episode and the watermark go.
ScanInactive ==
    LET rs == Retire(notes) IN
        /\ watermark' = {} /\ notes' = {} /\ episode' = {}
        /\ retired' = Kept(rs)
        /\ pruned' = pruned \cup (Ids(rs) \ Ids(Kept(rs)))
        /\ cancelled' = Ids(Undelivered(notes))
        /\ pending' = {}
        /\ UNCHANGED seen

\* scan, under the store's lock.
Scan ==
    /\ pc = "read"
    /\ IF view.running THEN ScanActive ELSE ScanInactive
    /\ pc' = "cancel" /\ view' = NoView
    /\ UNCHANGED <<attempt, bus, runtime, forgotten, events>>

\* The seats cannot be read: the pass ends, and the cancelled reminders stay
\* where they are.  The next scan does not name them again.
SeatsUnavailable ==
    /\ pc = "cancel" /\ Event
    /\ forgotten' = forgotten \cup cancelled
    /\ pc' = "idle" /\ cancelled' = {} /\ pending' = {}
    /\ UNCHANGED <<attempt, store, view, bus, runtime, seen, pruned>>

\* Mutant of Cancel: only the send records are cleared.
CancelSends ==
    /\ pc = "cancel"
    /\ recent' = recent \ cancelled
    /\ pc' = "notify" /\ cancelled' = {}
    /\ UNCHANGED <<attempt, store, view, pending, queue, runtime, history, events>>

\* The cancelled reminders leave the queues and the recent sends.
Cancel ==
    /\ pc = "cancel"
    /\ queue' = queue \ cancelled
    /\ recent' = recent \ cancelled
    /\ pc' = "notify" /\ cancelled' = {}
    /\ UNCHANGED <<attempt, store, view, pending, runtime, history, events>>

\* ensure_task_watchdog_fact_committed fails: nothing is queued in this pass.
PresentationFails ==
    /\ pc = "notify" /\ pending # {} /\ Event
    /\ pc' = "idle" /\ pending' = {}
    /\ UNCHANGED <<attempt, store, view, cancelled, bus, runtime, history>>

\* record_delivery_fact: an active reminder, else a retired one.
RecordDelivered(id) ==
    /\ notes' = {IF n.id = id THEN [n EXCEPT !.delivered = TRUE] ELSE n : n \in notes}
    /\ retired' = IF id \in Ids(notes) THEN retired
                  ELSE {IF n.id = id THEN [n EXCEPT !.delivered = TRUE] ELSE n : n \in retired}

\* enqueue_task_service_watchdog_message_once; without a runtime the next pass
\* tries again.  Nothing reads the Queued, Uncertain and RetryScheduled facts.
Notify(id) ==
    /\ pc = "notify" /\ id \in pending
    /\ pending' = pending \ {id}
    /\ IF id[2] \in online
       THEN /\ queue' = IF id \in recent THEN queue ELSE queue \cup {id}
            /\ recent' = recent \cup {id}
       ELSE UNCHANGED bus
    /\ UNCHANGED <<attempt, store, pc, view, cancelled, runtime, history, events>>

EndPass ==
    /\ pc = "notify" /\ pending = {}
    /\ pc' = "idle"
    /\ UNCHANGED <<attempt, store, view, cancelled, pending, bus, runtime, history, events>>

\* The bus restarts: its queues, its sends and the pass are gone.
Restart ==
    /\ Event
    /\ queue' = {} /\ recent' = {}
    /\ pc' = "idle" /\ cancelled' = {} /\ pending' = {} /\ view' = NoView
    /\ UNCHANGED <<attempt, store, runtime, history>>

-----------------------------------------------------------------------------
(* The bridges of the target runtimes. *)

\* A poll leaves the messages in the queue until they are acknowledged; the
\* native runtime accepts a message once and persists it.
Deliver(id) ==
    /\ id[2] \in online /\ id \in queue \ held
    /\ held' = held \cup {id}
    /\ UNCHANGED <<attempt, store, pass, bus, online, history, events>>

\* A sweep goes through the messages in the order of the queue, which is that
\* of the watermarks: only reminders of the current episode are queued, and the
\* watermark of a later episode is later.
First(id) == id \in held /\ \A m \in held : m[2] = id[2] => id[1] <= m[1]

\* record_delivery_fact finds the reminder.
Recordable(id) == id \in Ids(notes) \cup Ids(retired)

\* The reminders among some that are for another target.
Elsewhere(ids, stage) == {id \in ids : id[2] # stage}

\* record_watchdog_context_inserted, then the acknowledgement.
Settle(id) ==
    /\ First(id) /\ Recordable(id)
    /\ RecordDelivered(id)
    /\ queue' = queue \ {id}
    /\ held' = held \ {id}
    /\ UNCHANGED <<attempt, watermark, episode, pass, recent, online, history, events>>

\* A reminder the store has dropped is an error.  It ends the sweep, also for
\* the messages behind, and the next poll finds them all in the queue again.
SweepFails(id) ==
    /\ First(id) /\ ~Recordable(id)
    /\ held' = Elsewhere(held, id[2])
    /\ UNCHANGED <<attempt, store, pass, bus, online, history, events>>

\* The fact cannot be written, or the runtime stops, before the acknowledgement.
DropHeld(id) ==
    /\ First(id) /\ Event
    /\ held' = Elsewhere(held, id[2])
    /\ UNCHANGED <<attempt, store, pass, bus, online, history>>

\* A runtime goes away with its queue; the thread keeps its context.  A
\* later runtime has another id, so the old sends do not count for it.
GoOffline(stage) ==
    /\ stage \in online /\ Event
    /\ online' = online \ {stage}
    /\ queue' = Elsewhere(queue, stage)
    /\ recent' = Elsewhere(recent, stage)
    /\ held' = Elsewhere(held, stage)
    /\ UNCHANGED <<attempt, store, pass, history>>

ComeOnline(stage) ==
    /\ stage \in Stages \ online
    /\ online' = online \cup {stage}
    /\ UNCHANGED <<attempt, store, pass, bus, held, history, events>>

AllIds == (0 .. MaxTime) \X Stages

Pass == Read \/ Scan \/ Cancel \/ EndPass \/ \E id \in pending : Notify(id)
Bridge(stage) ==
    \E id \in AllIds : id[2] = stage /\ (Deliver(id) \/ Settle(id) \/ SweepFails(id))

Next ==
    \/ Tick \/ Progress \/ PhaseChange
    \/ Pass \/ SeatsUnavailable \/ PresentationFails \/ Restart
    \/ \E stage \in Stages : Bridge(stage) \/ GoOffline(stage) \/ ComeOnline(stage)
    \/ \E id \in AllIds : DropHeld(id)

Spec == Init /\ [][Next]_vars

\* The scheduler thread loops (spawn_task_watchdog), the bridges poll, and a
\* lost runtime is started again.
FairSpec ==
    /\ Spec
    /\ WF_vars(Pass)
    /\ \A stage \in Stages : WF_vars(Bridge(stage)) /\ WF_vars(ComeOnline(stage))

-----------------------------------------------------------------------------
(* Properties. *)

\* A reminder of the current episode says what it says for a reason: no scan,
\* this one or an earlier one, has ever seen progress after its watermark, and
\* the attempt was silent for the whole threshold of its stage, also when a
\* pass could not read the activity that an earlier one saw
\* (monotonic_watermark).
RemindersAreEarned ==
    \A n \in notes :
        /\ n.id[1] >= seen
        /\ now >= n.id[1] + FirstStale + (IF n.id[2] = "first_stale" THEN 0 ELSE Escalation)

\* The store can still take the delivery fact of everything that is on its
\* way: a reminder that is queued, or in the native context without
\* its fact is active or retired, unless the retention dropped it
\* (record_delivery_fact finds the notification absent otherwise).
FactsFindTheirReminder ==
    queue \cup held \subseteq Ids(notes) \cup Ids(retired) \cup pruned

\* A reminder whose episode is over leaves the bus before the pass that ended
\* the episode goes on to queue others; the exceptions are passes that failed
\* in between and reminders retired after the scan that is still being carried
\* out.
CancelledLeaveTheBus ==
    pc \in {"idle", "read"} => \A n \in Undelivered(retired) : n.id \in queue => n.id \in forgotten

\* A reminder the store has dropped is ahead in the queue: every sweep ends
\* there.
Blocked(id) == \E m \in queue : m[2] = id[2] /\ ~Recordable(m)

\* Again and again every reminder of the current episode is known to be in the
\* native context: one the store created is delivered, or its episode ends.
\* Restarts of the bus, lost runtimes, failed presentations and send records
\* do not lose it; only a dropped reminder that was left in the queue
\* keeps those behind it from being recorded.
RemindersArrive == []<>(\A n \in Undelivered(notes) : Blocked(n.id))
=============================================================================
