---------------------------- MODULE TaskRepository ----------------------------
(***************************************************************************)
(* The stage-1 task repository (src/src/task_service/store.rs, journal.rs  *)
(* and persist.rs): a journal of task transitions, a snapshot, and a       *)
(* recovery intent, each a file of one private directory.  Every operation *)
(* runs under one exclusive file lock and begins by loading the files; a   *)
(* load that finds part of a line at the end of the journal first records  *)
(* what it is about to discard (the intent), cuts the journal, appends a   *)
(* record of the loss, rewrites the snapshot and removes the intent.       *)
(* A process may die or meet an I/O error between any two file operations, *)
(* and the machine may lose what was never synced.  Each process keeps     *)
(* subscribers of its own, who are told of every transition or told to     *)
(* start again.                                                            *)
(*                                                                         *)
(* A journal line is a request, or the record of a loss: line.loss says    *)
(* how many recovery records are nested in it (0 for a transition, 1 for   *)
(* the loss of part of one).  The hash chain is the position in log.       *)
(***************************************************************************)
EXTENDS Naturals, Sequences, FiniteSets

CONSTANTS
    Procs,          \* processes, each with a TaskRepository of its own
    Watchers,       \* those of them that serve a subscriber
    Requests,       \* the TransitionEnvelopes callers may send
    Tasks,          \* task ids
    Tokens,         \* attempt tokens
    None,           \* no lock holder, no request, no intent, no tail, no filter
    Capacity,       \* the queue of a subscription
    Filters,        \* what subscribers ask for: a task, or None for all
    MaxFaults,      \* bound: deaths, I/O errors and power failures considered
    MaxPowerLosses  \* bound: power failures among them

ASSUME RepositoryAssumption ==
    /\ Watchers \subseteq Procs
    /\ Capacity \in Nat \ {0}
    /\ MaxFaults \in Nat
    /\ MaxPowerLosses \in Nat
    /\ None \notin Procs \cup Requests \cup Tasks
    /\ Filters \subseteq Tasks \cup {None}

VARIABLES
    log,            \* the complete lines of the journal
    tail,           \* part of a line after them: None or [line, len]
    snap,           \* how many lines the snapshot file covers
    intent,         \* the recovery intent file: None or [prefix, lost]
    synced,         \* how many lines are on the medium
    media,          \* what the directory on the medium names: [snap, intent]
    holder,         \* the process that holds the file lock
    pc, req,        \* its next file operation; its request (None: a load)
    recovered,      \* it applied a recovery
    observed,       \* per process: observed_checkpoint
    watch,          \* per process: its subscription
    confirmed,      \* requests whose own transition returned Committed
    losses,         \* appends that left part of a line
    trusted,        \* the last load began while something was not yet on the medium
    lostBet,        \* power was lost after such a load
    faults, powerLosses

files == <<log, tail, snap, intent>>
medium == <<synced, media>>
call == <<holder, pc, req, recovered>>
hubs == <<observed, watch>>
history == <<confirmed, losses, trusted, lostBet, faults, powerLosses>>
vars == <<log, tail, snap, intent, synced, media, holder, pc, req, recovered,
          observed, watch, confirmed, losses, trusted, lostBet, faults, powerLosses>>

-----------------------------------------------------------------------------
(* What a transition does to the task store. *)

Terminal == {"rejected", "completed", "failed", "cancelled"}

\* command_edge, and the two commands that need no fence.
Edge == [
    publish |-> <<"draft", "published">>, cancelDraft |-> <<"draft", "cancelled">>,
    recordDelivery |-> <<"published", "delivered">>, cancelPublished |-> <<"published", "cancelled">>,
    accept |-> <<"delivered", "accepted">>, reject |-> <<"delivered", "rejected">>,
    cancelDelivered |-> <<"delivered", "cancelled">>, start |-> <<"accepted", "running">>,
    cancelAccepted |-> <<"accepted", "cancelled">>, enterWaiting |-> <<"running", "waiting">>,
    enterBlocked |-> <<"running", "blocked">>, markReviewReady |-> <<"running", "reviewReady">>,
    completeRunning |-> <<"running", "completed">>, failRunning |-> <<"running", "failed">>,
    cancelRunning |-> <<"running", "cancelled">>, resumeWaiting |-> <<"waiting", "running">>,
    blockWaiting |-> <<"waiting", "blocked">>, cancelWaiting |-> <<"waiting", "cancelled">>,
    resumeBlocked |-> <<"blocked", "running">>, cancelBlocked |-> <<"blocked", "cancelled">>,
    completeReview |-> <<"reviewReady", "completed">>, failReview |-> <<"reviewReady", "failed">>,
    cancelReview |-> <<"reviewReady", "cancelled">>]

Unfenced == {"createDraft", "publish", "cancelDraft"}

\* TransitionEnvelope: what planning looks at.
Envelope == [receipt : Nat, expected : Nat, cmd : DOMAIN Edge \cup {"createDraft"},
             task : Tasks, revision : Nat, token : Tokens \cup {None}]

ASSUME RequestsAssumption == Requests \subseteq Envelope

\* TaskStore.
TaskPhases == {"none", "draft"} \cup {Edge[c][2] : c \in DOMAIN Edge}
StoreRecord == [rev : Nat, receipts : SUBSET Requests, tokens : SUBSET (Tokens \cup {None}),
                task : [Tasks -> [phase : TaskPhases, revision : Nat, token : Tokens \cup {None}]]]

EmptyStore == [rev |-> 1, receipts |-> {}, tokens |-> {},
               task |-> [t \in Tasks |-> [phase |-> "none", revision |-> 0, token |-> None]]]

\* plan_transition, the CreateDraft arm: a new revision of a task that has none
\* or whose latest one is over.
MayCreate(s, q) ==
    LET t == s.task[q.task]
    IN  t.phase = "none" \/ (t.phase \in Terminal /\ q.revision > t.revision)

\* plan_transition and plan_attempt_transition: phase, token and fence.
Plans(s, q) ==
    IF q.cmd = "createDraft" THEN MayCreate(s, q)
    ELSE LET t == s.task[q.task] IN
         /\ q.revision = t.revision
         /\ t.phase = Edge[q.cmd][1]
         /\ q.cmd = "publish" => q.token \notin s.tokens
         /\ q.cmd \notin Unfenced => q.token = t.token

\* finalize_transition, as far as the store is concerned.
Finalize(s, q) ==
    LET old == s.task[q.task] IN
    [rev |-> s.rev + 1,
     receipts |-> s.receipts \cup {q},
     tokens |-> IF q.cmd = "publish" THEN s.tokens \cup {q.token} ELSE s.tokens,
     task |-> [s.task EXCEPT ![q.task] =
        IF q.cmd = "createDraft" THEN [phase |-> "draft", revision |-> q.revision, token |-> None]
        ELSE [old EXCEPT !.phase = Edge[q.cmd][2],
                         !.token = IF q.cmd = "publish" THEN q.token ELSE old.token]]]

SameReceipt(s, q) == {r \in s.receipts : r.receipt = q.receipt}

\* reconstruct_store, one record; None stands for InvalidJournal.
Replay(s, line) ==
    CASE s = None -> None
      [] line.loss > 0 -> s
      [] OTHER -> IF /\ SameReceipt(s, line.of) = {}
                     /\ line.of.expected = s.rev
                     /\ Plans(s, line.of)
                  THEN Finalize(s, line.of) ELSE None

\* reconstruct_store.
Reconstruct(h) ==
    LET S[i \in 0 .. Len(h)] == IF i = 0 THEN EmptyStore ELSE Replay(S[i - 1], h[i])
    IN  S[Len(h)]

Store == Reconstruct(log)

-----------------------------------------------------------------------------
(* What the files hold. *)

Line == [of : Requests, loss : Nat]
Torso == [line : Line, len : {1, 2}]
Intent == [prefix : Nat, lost : Torso]

ASSUME NoneAssumption == None \notin StoreRecord \cup Torso \cup Intent

-----------------------------------------------------------------------------
(* Subscribers. *)

NoWatch == [on |-> FALSE, task |-> None, cursor |-> 0, queue |-> <<>>, resync |-> FALSE]

\* deliverable: a loss concerns every subscriber.
Deliverable(line, t) == line.loss > 0 \/ t = None \/ line.of.task = t

\* WatchHub::mark_all.
MarkAll(w) == IF w.on THEN [w EXCEPT !.resync = TRUE] ELSE w

\* WatchHub::broadcast of the line at position n.
Broadcast(w, n) ==
    IF ~w.on \/ w.resync \/ ~Deliverable(log[n], w.task) THEN w
    ELSE IF Len(w.queue) < Capacity THEN [w EXCEPT !.queue = Append(@, n)]
    ELSE [w EXCEPT !.resync = TRUE]

\* Mutant of Reloaded: only a recovery or a replay is noticed.
ReloadedHere(p, replayed) == replayed

\* mark_load_effects: the journal is not where this process last saw it, or
\* the snapshot did not agree with it.
Reloaded(p, replayed) == replayed \/ observed[p] # Len(log)

\* mark_load_effects at the end of a load by p.
LoadEffects(p, replayed) ==
    /\ observed' = [observed EXCEPT ![p] = Len(log)]
    /\ watch' = IF Reloaded(p, replayed) THEN [watch EXCEPT ![p] = MarkAll(@)] ELSE watch

-----------------------------------------------------------------------------
(* Loading. *)

Init ==
    /\ log = <<>> /\ tail = None /\ snap = 0 /\ intent = None
    /\ synced = 0 /\ media = [snap |-> 0, intent |-> None]
    /\ holder = None /\ pc = "idle" /\ req = None /\ recovered = FALSE
    /\ observed = [p \in Procs |-> 0]
    /\ watch = [p \in Procs |-> NoWatch]
    /\ confirmed = {} /\ losses = 0 /\ trusted = FALSE /\ lostBet = FALSE
    /\ faults = 0 /\ powerLosses = 0

\* The line that records the loss the intent describes.
LossRecord(i) == [of |-> i.lost.line.of, loss |-> i.lost.line.loss + 1]

\* Mutant of Recorded: a journal that was cut is taken for a finished recovery.
RecordedIfCut(i) == tail = None

\* recovery_record_is_complete.
Recorded(i) == Len(log) = i.prefix + 1 /\ log[Len(log)] = LossRecord(i) /\ tail = None

\* recover_journal: an intent that fits neither the finished nor an unfinished
\* recovery is an error.
Resumable(i) ==
    \/ Recorded(i)
    \/ /\ Len(log) = i.prefix
       /\ \/ tail \in {None, i.lost}
          \/ tail # None /\ tail.line = LossRecord(i)

\* load_locked_recovering finds files it accepts: validate_loaded_prefix,
\* reconstruct_store and the intent.
Accepts ==
    /\ snap <= Len(log)
    /\ Store # None
    /\ intent # None => Resumable(intent)

Synced == synced = Len(log) /\ tail = None /\ media = [snap |-> snap, intent |-> intent]

\* transition, load, get_task, get_attempt, checkpoint and the receipt queries
\* take the lock and load.
Begin(p, q) ==
    /\ holder = None
    /\ holder' = p /\ req' = q /\ pc' = "load" /\ recovered' = FALSE
    /\ trusted' = ~Synced
    /\ UNCHANGED <<files, medium, hubs, confirmed, losses, lostBet, faults, powerLosses>>

Release == holder' = None /\ pc' = "idle" /\ req' = None /\ recovered' = FALSE

\* mark_load_error: the load refuses the files.
LoadRefused ==
    /\ pc = "load" /\ ~Accepts
    /\ watch' = [watch EXCEPT ![holder] = MarkAll(@)]
    /\ Release
    /\ UNCHANGED <<files, medium, observed, history>>

\* recover_journal decides how much of the recovery is left.
Load ==
    /\ pc = "load" /\ Accepts
    /\ \/ /\ tail = None /\ intent = None
          /\ pc' = "snapshot" /\ recovered' = FALSE
       \/ /\ tail # None /\ intent = None
          /\ pc' = "intent" /\ recovered' = TRUE
       \/ /\ intent # None /\ Recorded(intent)
          /\ pc' = "snapshot" /\ recovered' = TRUE
       \/ /\ intent # None /\ ~Recorded(intent)
          /\ pc' = (IF tail = None THEN "record" ELSE "truncate") /\ recovered' = TRUE
    /\ UNCHANGED <<files, medium, holder, req, hubs, history>>

\* persist_recovery_intent, up to the rename.
WriteIntent ==
    /\ pc = "intent"
    /\ intent' = [prefix |-> Len(log), lost |-> tail]
    /\ pc' = "intentSync"
    /\ UNCHANGED <<log, tail, snap, medium, holder, req, recovered, hubs, history>>

\* sync_root: renames and removals reach the medium.
SyncRoot == media' = [snap |-> snap, intent |-> intent]

SyncIntent ==
    /\ pc = "intentSync"
    /\ SyncRoot
    /\ pc' = "truncate"
    /\ UNCHANGED <<files, synced, holder, req, recovered, hubs, history>>

\* truncate_for_recovery; set_len and sync_all count as one operation.
Truncate ==
    /\ pc = "truncate"
    /\ tail' = None /\ synced' = Len(log)
    /\ pc' = "record"
    /\ UNCHANGED <<log, snap, intent, media, holder, req, recovered, hubs, history>>

\* append_recovery_record, and reading it back.
AppendRecord ==
    /\ pc = "record"
    /\ log' = Append(log, LossRecord(intent))
    /\ pc' = "recordSync"
    /\ UNCHANGED <<tail, snap, intent, medium, holder, req, recovered, hubs, history>>

SyncRecord ==
    /\ pc = "recordSync"
    /\ synced' = Len(log)
    /\ pc' = "snapshot"
    /\ UNCHANGED <<files, media, holder, req, recovered, hubs, history>>

\* persist_recovery_snapshot or persist_replayed_snapshot.
WriteSnapshot ==
    /\ pc = "snapshot" /\ snap # Len(log)
    /\ snap' = Len(log)
    /\ pc' = "snapshotSync"
    /\ UNCHANGED <<log, tail, intent, medium, holder, req, recovered, hubs, history>>

SyncSnapshot ==
    /\ pc = "snapshotSync"
    /\ SyncRoot
    /\ pc' = (IF recovered THEN "unlink" ELSE "reloaded")
    /\ UNCHANGED <<files, synced, holder, req, recovered, hubs, history>>

\* The snapshot already says what the journal says.
KeepSnapshot ==
    /\ pc = "snapshot" /\ snap = Len(log)
    /\ pc' = (IF recovered THEN "unlink" ELSE "loaded")
    /\ UNCHANGED <<files, medium, holder, req, recovered, hubs, history>>

\* remove_recovery_intent.
RemoveIntent ==
    /\ pc = "unlink"
    /\ intent' = None
    /\ pc' = "unlinkSync"
    /\ UNCHANGED <<log, tail, snap, medium, holder, req, recovered, hubs, history>>

SyncRemoval ==
    /\ pc = "unlinkSync"
    /\ SyncRoot
    /\ pc' = "reloaded"
    /\ UNCHANGED <<files, synced, holder, req, recovered, hubs, history>>

\* The load is over; a plain load returns, a transition goes on.
EndLoad ==
    /\ pc \in {"loaded", "reloaded"}
    /\ LoadEffects(holder, pc = "reloaded")
    /\ IF req = None THEN Release
       ELSE pc' = "ready" /\ UNCHANGED <<holder, req, recovered>>
    /\ UNCHANGED <<files, medium, history>>

-----------------------------------------------------------------------------
(* A transition. *)

\* Receipt replay, and every refusal that writes nothing.
AnswerWithoutWriting ==
    /\ pc = "ready"
    /\ \/ SameReceipt(Store, req) # {}
       \/ req.expected # Store.rev
       \/ ~Plans(Store, req)
    /\ Release
    /\ UNCHANGED <<files, medium, hubs, history>>

\* Mutant of AppendTransition: the answer does not wait for the sync.
AppendAndAnswer ==
    /\ pc = "ready"
    /\ SameReceipt(Store, req) = {} /\ req.expected = Store.rev /\ Plans(Store, req)
    /\ log' = Append(log, [of |-> req, loss |-> 0])
    /\ pc' = "replaceSync"
    /\ UNCHANGED <<tail, snap, intent, medium, holder, req, recovered, hubs, history>>

\* append_transition, the write.
AppendTransition ==
    /\ pc = "ready"
    /\ SameReceipt(Store, req) = {} /\ req.expected = Store.rev /\ Plans(Store, req)
    /\ log' = Append(log, [of |-> req, loss |-> 0])
    /\ pc' = "sync"
    /\ UNCHANGED <<tail, snap, intent, medium, holder, req, recovered, hubs, history>>

\* Mutant of SyncTransition: the line is left to the operating system.
SkipSync ==
    /\ pc = "sync"
    /\ pc' = "replace"
    /\ UNCHANGED <<files, medium, holder, req, recovered, hubs, history>>

\* append_transition, the sync.
SyncTransition ==
    /\ pc = "sync"
    /\ synced' = Len(log)
    /\ pc' = "replace"
    /\ UNCHANGED <<files, media, holder, req, recovered, hubs, history>>

\* replace_snapshot_after_transition, the rename.
ReplaceSnapshot ==
    /\ pc = "replace"
    /\ snap' = Len(log)
    /\ pc' = "replaceSync"
    /\ UNCHANGED <<log, tail, intent, medium, holder, req, recovered, hubs, history>>

\* replace_snapshot_after_transition, the directory; then observe_committed,
\* the broadcast and the answer, which nothing outside can tell apart.
Commit ==
    /\ pc = "replaceSync"
    /\ SyncRoot
    /\ observed' = [observed EXCEPT ![holder] = Len(log)]
    /\ watch' = [watch EXCEPT ![holder] = Broadcast(@, Len(log))]
    /\ confirmed' = confirmed \cup {req}
    /\ Release
    /\ UNCHANGED <<files, synced, losses, trusted, lostBet, faults, powerLosses>>

-----------------------------------------------------------------------------
(* Reads of the events, which repair nothing. *)

\* load_locked_read_only: RecoveryRequired when there is something to recover.
Readable == Accepts /\ tail = None /\ intent = None

\* page_events and page_and_subscribe on files they cannot use.
ReadRefused(p) ==
    /\ holder = None /\ ~Readable /\ ~watch[p].resync
    /\ watch' = [watch EXCEPT ![p] = MarkAll(@)]
    /\ UNCHANGED <<files, medium, call, observed, history>>

\* page_events.
PageEvents(p) ==
    /\ holder = None /\ Readable
    /\ LoadEffects(p, snap # Len(log))
    /\ UNCHANGED <<files, medium, call, history>>

\* The last deliverable position up to n: the continuation of a page that
\* reached the head from the cursor start.
Continuation(start, t) ==
    LET seen == {n \in start + 1 .. Len(log) : Deliverable(log[n], t)}
    IN  IF seen = {} THEN start ELSE CHOOSE n \in seen : \A m \in seen : m <= n

\* page_and_subscribe from the cursor start: a page to the head, then the
\* subscription, under one lock.  The earlier subscribers of this process are
\* marked first; one subscription at a time is modelled.
Subscribe(p, start, t) ==
    /\ holder = None /\ Readable /\ ~watch[p].on
    /\ start <= Len(log)
    /\ observed' = [observed EXCEPT ![p] = Len(log)]
    /\ watch' = [watch EXCEPT ![p] =
                    [NoWatch EXCEPT !.on = TRUE, !.task = t, !.cursor = Continuation(start, t)]]
    /\ UNCHANGED <<files, medium, call, history>>

\* receive_ready, the queued events.
Receive(p) ==
    /\ watch[p].queue # <<>>
    /\ watch' = [watch EXCEPT ![p].cursor = Head(watch[p].queue), ![p].queue = Tail(@)]
    /\ UNCHANGED <<files, medium, call, observed, history>>

\* The subscription is dropped, for instance after receive_ready's notice to
\* start again, which follows the queued events.
Unsubscribe(p) ==
    /\ watch[p].on
    /\ watch' = [watch EXCEPT ![p] = NoWatch]
    /\ UNCHANGED <<files, medium, call, observed, history>>

-----------------------------------------------------------------------------
(* Faults. *)

\* Part of the line being appended reaches the file (len 2); a power failure
\* may leave less of it (len 1).
Torn(line) ==
    /\ tail' = [line |-> line, len |-> 2]
    /\ losses' = IF line.loss = 0 THEN losses + 1 ELSE losses

\* What the stop leaves: the files as they are, or part of a line.
Cut ==
    \/ UNCHANGED <<tail, losses>>
    \/ pc = "ready" /\ req # None /\ SameReceipt(Store, req) = {}
       /\ req.expected = Store.rev /\ Plans(Store, req) /\ Torn([of |-> req, loss |-> 0])
    \/ pc = "record" /\ Torn(LossRecord(intent))

\* An I/O error: the call returns PersistenceUnknown, RecoveryStopped or the
\* error, and the subscribers are told to start again, unless the journal could
\* not even be opened for the append.
Fail ==
    /\ holder # None /\ faults < MaxFaults
    /\ faults' = faults + 1
    /\ Cut
    /\ \/ watch' = [watch EXCEPT ![holder] = MarkAll(@)]
       \/ pc = "ready" /\ tail' = tail /\ UNCHANGED watch
    /\ Release
    /\ UNCHANGED <<log, snap, intent, medium, observed, confirmed, trusted, lostBet, powerLosses>>

\* The process dies and starts again: TaskRepository::new.
Die ==
    /\ holder # None /\ faults < MaxFaults
    /\ faults' = faults + 1
    /\ Cut
    /\ observed' = [observed EXCEPT ![holder] = 0]
    /\ watch' = [watch EXCEPT ![holder] = NoWatch]
    /\ Release
    /\ UNCHANGED <<log, snap, intent, medium, confirmed, trusted, lostBet, powerLosses>>

\* Power is lost: what was not synced may be gone, an unfinished line may be
\* shorter, and the directory may name the older files.
LosePower ==
    /\ powerLosses < MaxPowerLosses /\ faults < MaxFaults
    /\ faults' = faults + 1
    /\ powerLosses' = powerLosses + 1
    /\ \E n \in synced .. Len(log) :
        /\ log' = SubSeq(log, 1, n)
        /\ \/ tail' = None
           \/ n < Len(log) /\ tail' = [line |-> log[n + 1], len |-> 1]
           \/ n = Len(log) /\ tail # None /\ tail' \in {tail, [tail EXCEPT !.len = 1]}
        /\ synced' = n
    /\ snap' \in {snap, media.snap} /\ intent' \in {intent, media.intent}
    /\ media' = [snap |-> snap', intent |-> intent']
    /\ lostBet' = (lostBet \/ trusted) /\ trusted' = FALSE
    /\ observed' = [p \in Procs |-> 0]
    /\ watch' = [p \in Procs |-> NoWatch]
    /\ Release
    /\ UNCHANGED <<confirmed, losses>>

Step ==
    \/ LoadRefused \/ Load \/ WriteIntent \/ SyncIntent \/ Truncate \/ AppendRecord \/ SyncRecord
    \/ WriteSnapshot \/ SyncSnapshot \/ KeepSnapshot \/ RemoveIntent \/ SyncRemoval \/ EndLoad
    \/ AnswerWithoutWriting \/ AppendTransition \/ SyncTransition \/ ReplaceSnapshot \/ Commit

Next ==
    \/ Step
    \/ \E p \in Procs :
        \/ \E q \in Requests \cup {None} : Begin(p, q)
        \/ ReadRefused(p) \/ PageEvents(p)
    \/ \E p \in Watchers :
        \/ \E start \in 0 .. Len(log), t \in Filters : Subscribe(p, start, t)
        \/ Receive(p) \/ Unsubscribe(p)
    \/ Fail \/ Die \/ LosePower

Spec == Init /\ [][Next]_vars

-----------------------------------------------------------------------------
(* Properties. *)

\* Wherever a process stops, the next load accepts the files: the snapshot is
\* not ahead of the journal, the journal replays without error, and an intent
\* fits the recovery it belongs to.  The exception is a power failure after a
\* load that took unsynced files for durable: loads sync what they write, not
\* what they find.
Loadable == lostBet \/ Accepts

\* As long as power stays on, every append that left part of a line is
\* recorded in the journal exactly once, or is still waiting for its recovery,
\* however often the recovery itself was stopped (recover_journal).
LossesAreRecorded ==
    LET waiting == \/ tail # None /\ tail.line.loss = 0
                   \/ intent # None /\ ~Recorded(intent)
    IN  powerLosses = 0 =>
            losses = Cardinality({n \in 1 .. Len(log) : log[n].loss > 0})
                     + (IF waiting THEN 1 ELSE 0)

\* A subscriber gets the lines it asked for in journal order and without a
\* gap, across the commits of other processes, recoveries and full queues;
\* while it has not been told to start again it has everything its process
\* has seen (page_and_subscribe, broadcast, mark_load_effects).
WatchGapless ==
    \A p \in Procs : watch[p].on =>
        LET w == watch[p]
            last == IF w.queue = <<>> THEN w.cursor ELSE w.queue[Len(w.queue)]
            owed == {n \in w.cursor + 1 .. Len(log) : Deliverable(log[n], w.task)}
        IN  /\ \A i, j \in 1 .. Len(w.queue) : i < j => w.queue[i] < w.queue[j]
            /\ {w.queue[i] : i \in 1 .. Len(w.queue)} = {n \in owed : n <= last}
            /\ ~w.resync /\ holder # p => \A n \in owed : n <= observed[p] => n <= last

\* The transitions of a journal, without the recovery records.
Transitions(h) ==
    LET T[i \in 0 .. Len(h)] ==
            IF i = 0 THEN <<>>
            ELSE IF h[i].loss > 0 THEN T[i - 1] ELSE Append(T[i - 1], h[i].of)
    IN  T[Len(h)]

Durable == INSTANCE DurableLog WITH Actions <- Requests, log <- Transitions(log)

\* Files, recoveries, stops and power failures implement one growing log: a
\* request is appended once, and a power failure never cuts below a request
\* whose own transition was answered Committed (transition).
ImplementsDurableLog == Durable!Spec
=============================================================================
