--------------------------- MODULE ProviderJournal ---------------------------
(***************************************************************************)
(* How the Task Service provider keeps its state on disk                   *)
(* (src/src/task_service/provider.rs): an append-only journal of complete  *)
(* states, each chained to its predecessor by a hash, and a snapshot file  *)
(* replaced by rename.  Processes mutate under an exclusive file lock and  *)
(* may die or meet an I/O error between any two file operations; the       *)
(* machine may lose power, and with it whatever was not yet synced.        *)
(* Readers query and watch the store.                                      *)
(*                                                                         *)
(* A provider state is represented by the sequence of the actions it has   *)
(* applied (its receipts, in journal order).  That is what the hash chain  *)
(* authenticates, so a state stands for its own journal_sha256, and the    *)
(* record with hash h chains to its predecessor when h extends the         *)
(* predecessor's hash by one action.  What an action does to the state is  *)
(* the subject of module TaskProvider.                                     *)
(***************************************************************************)
EXTENDS Naturals, Sequences

CONSTANTS
    Procs,          \* processes (or threads) that mutate the store
    Readers,        \* clients that query and watch it
    Actions,        \* action ids
    None,           \* no snapshot, no lock holder, no action
    Unreadable,     \* a journal line that does not parse
    MaxRecords,     \* MAX_JSON_SAFE_INTEGER, the ceiling of journal_sequence
    MaxPowerLosses, \* bound: power failures considered
    WatchLimit      \* the largest page a watcher asks for

ASSUME JournalAssumption ==
    /\ MaxRecords \in Nat
    /\ MaxPowerLosses \in Nat
    /\ WatchLimit \in Nat \ {0}
    /\ None \notin Procs \cup Actions \cup Seq(Actions)
    /\ Unreadable \notin Seq(Actions)

VARIABLES
    journal,        \* the complete lines of the journal file
    torn,           \* bytes after the last newline
    synced,         \* how many complete lines are known to be on the medium
    settled,        \* the length of the journal file is on the medium
    snap,           \* the snapshot file (None until the first one)
    snapDurable,    \* the snapshot the directory on the medium names
    lockFile,       \* the lock file exists
    lock,           \* the process that holds it
    pc, req, st,    \* per process: next file operation, its action, its state
    confirmed,      \* actions whose committing call returned Ok
    rpc,            \* per reader: what it is waiting for
    floor, seen,    \* per reader: confirmed when its query began; its last result
    delivered,      \* per reader: the events its watch calls returned
    powerLosses

disk == <<journal, torn, synced, settled, snap, snapDurable>>
procs == <<lockFile, lock, pc, req, st>>
readers == <<rpc, floor, seen, delivered>>
vars == <<journal, torn, synced, settled, snap, snapDurable, lockFile, lock, pc, req, st,
          confirmed, rpc, floor, seen, delivered, powerLosses>>

Applied(h) == {h[i] : i \in 1 .. Len(h)}

\* The state of the last complete record.
LineAt(i) == IF i = 0 THEN <<>> ELSE journal[i]
Log == LineAt(Len(journal))

Init ==
    /\ journal = <<>> /\ torn = FALSE /\ synced = 0 /\ settled = TRUE
    /\ snap = None /\ snapDurable = None
    /\ lockFile = FALSE /\ lock = None
    /\ pc = [p \in Procs |-> "idle"]
    /\ req = [p \in Procs |-> None]
    /\ st = [p \in Procs |-> <<>>]
    /\ confirmed = {}
    /\ rpc = [r \in Readers |-> "idle"]
    /\ floor = [r \in Readers |-> {}]
    /\ seen = [r \in Readers |-> <<>>]
    /\ delivered = [r \in Readers |-> <<>>]
    /\ powerLosses = 0

-----------------------------------------------------------------------------
(* A call takes the lock and recovers the state it starts from. *)

\* with_store_lock(true): the lock file is created on first use.  A call
\* without an action is recover().
Begin(p, a) ==
    /\ pc[p] = "idle"
    /\ lock = None
    /\ lock' = p
    /\ lockFile' = TRUE
    /\ pc' = [pc EXCEPT ![p] = "locked"]
    /\ req' = [req EXCEPT ![p] = a]
    /\ UNCHANGED <<disk, st, confirmed, readers, powerLosses>>

\* recover_checkpoint: no bytes after the last record, and the snapshot is
\* exactly the state that the last record authenticates.
Exact ==
    /\ snap # None
    /\ ~torn
    /\ snap = Log

\* recover_checkpoint also refuses a snapshot whose file is older than the
\* journal; timestamps follow a clock that may be set back, so an exact snapshot
\* of a non-empty journal may be refused too.
MayDistrust == ~Exact \/ journal # <<>>

\* recover_checkpoint_locked, the checkpoint path; recover() never takes it.
RecoverCheckpoint(p) ==
    /\ pc[p] = "locked"
    /\ req[p] # None
    /\ Exact
    /\ st' = [st EXCEPT ![p] = snap]
    /\ pc' = [pc EXCEPT ![p] = "ready"]
    /\ UNCHANGED <<disk, lockFile, lock, req, confirmed, readers, powerLosses>>

\* The chain check of recover_locked and recover_records.
Follows(x, y) == \E a \in Actions : y = Append(x, a)
Chained == \A i \in 1 .. Len(journal) : Follows(LineAt(i - 1), journal[i])

\* recover_locked up to truncate_partial_tail: the full journal is read.
ReadJournal(p) ==
    /\ pc[p] = "locked"
    /\ req[p] = None \/ MayDistrust
    /\ Chained
    /\ st' = [st EXCEPT ![p] = Log]
    /\ pc' = [pc EXCEPT ![p] = IF torn THEN "truncate" ELSE "repair"]
    /\ UNCHANGED <<disk, lockFile, lock, req, confirmed, readers, powerLosses>>

\* Mutant of CutTail: the incomplete line is ignored and left in place.
LeaveTail == UNCHANGED <<torn, settled>>

\* set_len(complete_len)
CutTail == torn' = FALSE /\ settled' = FALSE

Truncate(p) ==
    /\ pc[p] = "truncate"
    /\ CutTail
    /\ pc' = [pc EXCEPT ![p] = "truncated"]
    /\ UNCHANGED <<journal, synced, snap, snapDurable, lockFile, lock, req, st, confirmed,
                   readers, powerLosses>>

\* sync_all on the journal file.
SyncJournal == synced' = Len(journal) /\ settled' = TRUE

SyncTruncated(p) ==
    /\ pc[p] = "truncated"
    /\ SyncJournal
    /\ pc' = [pc EXCEPT ![p] = "repair"]
    /\ UNCHANGED <<journal, torn, snap, snapDurable, lockFile, lock, req, st, confirmed,
                   readers, powerLosses>>

\* atomic_snapshot: the temporary file is written and synced before this step
\* and visible to nobody, so the rename is the one step that matters.
Repair(p) ==
    /\ pc[p] = "repair"
    /\ snap' = st[p]
    /\ pc' = [pc EXCEPT ![p] = IF snap = st[p] THEN "ready" ELSE "repairing"]
    /\ UNCHANGED <<journal, torn, synced, settled, snapDurable, lockFile, lock, req, st,
                   confirmed, readers, powerLosses>>

\* The directory is synced: the renamed snapshot is the durable one.
SyncRepaired(p) ==
    /\ pc[p] = "repairing"
    /\ snapDurable' = snap
    /\ pc' = [pc EXCEPT ![p] = "ready"]
    /\ UNCHANGED <<journal, torn, synced, settled, snap, lockFile, lock, req, st, confirmed,
                   readers, powerLosses>>

Release(p) ==
    /\ lock' = None
    /\ pc' = [pc EXCEPT ![p] = "idle"]
    /\ req' = [req EXCEPT ![p] = None]
    /\ st' = [st EXCEPT ![p] = <<>>]

\* recover() returns the state it read.
RecoverReturns(p) ==
    /\ pc[p] = "ready"
    /\ req[p] = None
    /\ Release(p)
    /\ UNCHANGED <<disk, lockFile, confirmed, readers, powerLosses>>

-----------------------------------------------------------------------------
(* A mutation commits one record. *)

\* mutate's receipt probe.
Fresh(p) == req[p] \notin Applied(st[p])

\* The action has a receipt: it is returned and nothing is written.
Replay(p) ==
    /\ pc[p] = "ready"
    /\ req[p] # None
    /\ ~Fresh(p)
    /\ Release(p)
    /\ UNCHANGED <<disk, lockFile, confirmed, readers, powerLosses>>

\* append_and_snapshot: write_all puts a whole line after whatever the file
\* ends with.
WriteRecord(p) ==
    /\ pc[p] = "ready"
    /\ req[p] # None
    /\ Fresh(p)
    /\ Len(st[p]) < MaxRecords
    /\ st' = [st EXCEPT ![p] = Append(@, req[p])]
    /\ journal' = Append(journal, IF torn THEN Unreadable ELSE st'[p])
    /\ torn' = FALSE
    /\ settled' = FALSE
    /\ pc' = [pc EXCEPT ![p] = "written"]
    /\ UNCHANGED <<synced, snap, snapDurable, lockFile, lock, req, confirmed, readers,
                   powerLosses>>

\* write_all stops half way: an I/O error, or the death of the process.
WritePartly(p) ==
    /\ pc[p] = "ready"
    /\ req[p] # None
    /\ Fresh(p)
    /\ Len(st[p]) < MaxRecords
    /\ torn' = TRUE
    /\ settled' = FALSE
    /\ Release(p)
    /\ UNCHANGED <<journal, synced, snap, snapDurable, lockFile, confirmed, readers,
                   powerLosses>>

\* Mutant of SyncRecord: the call goes on without sync_all.
SyncRecordSkipped(p) ==
    /\ pc[p] = "written"
    /\ UNCHANGED <<synced, settled>>
    /\ pc' = [pc EXCEPT ![p] = "synced"]
    /\ UNCHANGED <<journal, torn, snap, snapDurable, lockFile, lock, req, st, confirmed,
                   readers, powerLosses>>

SyncRecord(p) ==
    /\ pc[p] = "written"
    /\ SyncJournal
    /\ pc' = [pc EXCEPT ![p] = "synced"]
    /\ UNCHANGED <<journal, torn, snap, snapDurable, lockFile, lock, req, st, confirmed,
                   readers, powerLosses>>

\* atomic_snapshot of the new state, as in Repair.
Publish(p) ==
    /\ pc[p] = "synced"
    /\ snap' = st[p]
    /\ pc' = [pc EXCEPT ![p] = "published"]
    /\ UNCHANGED <<journal, torn, synced, settled, snapDurable, lockFile, lock, req, st,
                   confirmed, readers, powerLosses>>

\* The directory is synced and mutate returns Ok with the new receipt.
Return(p) ==
    /\ pc[p] = "published"
    /\ snapDurable' = snap
    /\ confirmed' = confirmed \cup {req[p]}
    /\ Release(p)
    /\ UNCHANGED <<journal, torn, synced, settled, snap, lockFile, readers,
                   powerLosses>>

\* The operation refuses the request, or journal_sequence is at its ceiling.
Refuse(p) ==
    /\ pc[p] = "ready"
    /\ req[p] # None
    /\ Fresh(p)
    /\ Release(p)
    /\ UNCHANGED <<disk, lockFile, confirmed, readers, powerLosses>>

\* Between any two file operations the call may end: an I/O error or
\* InvalidStore is returned, or the process dies, which also drops the lock.
Abandon(p) ==
    /\ pc[p] # "idle"
    /\ Release(p)
    /\ UNCHANGED <<disk, lockFile, confirmed, readers, powerLosses>>

-----------------------------------------------------------------------------
(* Readers. *)

\* The answer to a query; the result leaves the provider without any lock.
Answer(r, h) ==
    /\ seen' = [seen EXCEPT ![r] = h]
    /\ rpc' = [rpc EXCEPT ![r] = "idle"]

\* query_cancellable asks for the lock.
BeginQuery(r) ==
    /\ rpc[r] = "idle"
    /\ rpc' = [rpc EXCEPT ![r] = "checkpoint"]
    /\ floor' = [floor EXCEPT ![r] = confirmed]
    /\ UNCHANGED <<disk, procs, confirmed, seen, delivered, powerLosses>>

\* capture_checkpoint_for_query holds the lock while it copies; the copy is
\* judged afterwards, and an inexact one sends the query for the whole journal.
CaptureCheckpoint(r) ==
    /\ rpc[r] = "checkpoint"
    /\ lock = None
    /\ lockFile' = TRUE
    /\ \/ Exact /\ Answer(r, snap)
       \/ MayDistrust /\ rpc' = [rpc EXCEPT ![r] = "journal"] /\ UNCHANGED seen
    /\ UNCHANGED <<disk, lock, pc, req, st, confirmed, floor, delivered, powerLosses>>

\* Mutant of CaptureJournal: with an incomplete last line, the last complete one
\* is dropped as well.
CaptureJournalDropsLast(r) ==
    /\ rpc[r] = "journal"
    /\ lock = None
    /\ Chained
    /\ Answer(r, IF torn /\ journal # <<>> THEN LineAt(Len(journal) - 1) ELSE Log)
    /\ UNCHANGED <<disk, procs, confirmed, floor, delivered, powerLosses>>

\* capture_journal_for_query, read_journal_bytes, recover_records: a second
\* turn of the lock; an incomplete last line is skipped, nothing is repaired.
CaptureJournal(r) ==
    /\ rpc[r] = "journal"
    /\ lock = None
    /\ Chained
    /\ Answer(r, Log)
    /\ UNCHANGED <<disk, procs, confirmed, floor, delivered, powerLosses>>

\* Deadline, cancellation or InvalidStore: the query ends without a state.
GiveUp(r) ==
    /\ rpc[r] \in {"checkpoint", "journal"}
    /\ rpc' = [rpc EXCEPT ![r] = "idle"]
    /\ floor' = [floor EXCEPT ![r] = {}]
    /\ UNCHANGED <<disk, procs, confirmed, seen, delivered, powerLosses>>

\* watch: the records after the cursor, at most limit of them.
Page(after, limit) ==
    LET last == IF after + limit < Len(journal) THEN after + limit ELSE Len(journal)
    IN  SubSeq(journal, after + 1, last)

\* A client watches from the last event it has.
ReadEvents(r, limit) ==
    /\ \A i \in 1 .. Len(journal) : journal[i] # Unreadable
    /\ delivered' = [delivered EXCEPT ![r] = @ \o Page(Len(@), limit)]

Watch(r, limit) ==
    /\ rpc[r] = "idle"
    /\ lockFile
    /\ lock = None
    /\ ReadEvents(r, limit)
    /\ UNCHANGED <<disk, procs, confirmed, rpc, floor, seen, powerLosses>>

\* with_store_lock(false) without a lock file: the read goes on unlocked, next
\* to a first mutation that may create lock and journal in the meantime.
WatchUnlocked(r) ==
    /\ rpc[r] = "idle"
    /\ ~lockFile
    /\ rpc' = [rpc EXCEPT ![r] = "watch"]
    /\ UNCHANGED <<disk, procs, confirmed, floor, seen, delivered, powerLosses>>

ReadUnlocked(r, limit) ==
    /\ rpc[r] = "watch"
    /\ ReadEvents(r, limit)
    /\ rpc' = [rpc EXCEPT ![r] = "idle"]
    /\ UNCHANGED <<disk, procs, confirmed, floor, seen, powerLosses>>

-----------------------------------------------------------------------------
\* The machine loses power.  Lines that were synced survive, the others up to
\* an arbitrary point; the directory names the new snapshot or the old one.
\* Every process and every client is gone.
PowerLoss ==
    /\ powerLosses < MaxPowerLosses
    /\ powerLosses' = powerLosses + 1
    /\ \E n \in synced .. Len(journal) :
          /\ journal' = SubSeq(journal, 1, n)
          /\ synced' = n
    /\ torn' \in IF settled THEN {torn} ELSE BOOLEAN
    /\ settled' = TRUE
    /\ snap' \in {snap, snapDurable}
    /\ snapDurable' = snap'
    /\ lock' = None
    /\ pc' = [p \in Procs |-> "idle"]
    /\ req' = [p \in Procs |-> None]
    /\ st' = [p \in Procs |-> <<>>]
    /\ rpc' = [r \in Readers |-> "idle"]
    /\ floor' = [r \in Readers |-> {}]
    /\ seen' = [r \in Readers |-> <<>>]
    /\ delivered' = [r \in Readers |-> <<>>]
    /\ UNCHANGED <<lockFile, confirmed>>

\* What the holder of the lock does next, in the absence of a fault.
Step(p) ==
    \/ RecoverCheckpoint(p) \/ ReadJournal(p) \/ Truncate(p) \/ SyncTruncated(p)
    \/ Repair(p) \/ SyncRepaired(p) \/ RecoverReturns(p)
    \/ Replay(p) \/ Refuse(p)
    \/ WriteRecord(p) \/ SyncRecord(p) \/ Publish(p) \/ Return(p)

Next ==
    \/ \E p \in Procs :
          \/ \E a \in Actions \cup {None} : Begin(p, a)
          \/ Step(p)
          \/ WritePartly(p)
          \/ Abandon(p)
    \/ \E r \in Readers :
          \/ BeginQuery(r) \/ CaptureCheckpoint(r) \/ CaptureJournal(r) \/ GiveUp(r)
          \/ \E limit \in 1 .. WatchLimit : Watch(r, limit) \/ ReadUnlocked(r, limit)
          \/ WatchUnlocked(r)
    \/ PowerLoss

Spec == Init /\ [][Next]_vars

\* The holder of the lock waits for nobody, so the scheduler carries it on.
FairSpec == Spec /\ \A p \in Procs : WF_vars(Step(p))

-----------------------------------------------------------------------------
(* Properties. *)

Lines == Seq(Actions) \cup {Unreadable}
Pcs == {"idle", "locked", "truncate", "truncated", "repair", "repairing", "ready",
        "written", "synced", "published"}

\* Every variable has its type, and the lock is held by the one process that is
\* inside a call.
TypeOK ==
    /\ journal \in Seq(Lines)
    /\ torn \in BOOLEAN
    /\ synced \in 0 .. Len(journal)
    /\ settled \in BOOLEAN
    /\ settled => synced = Len(journal)
    /\ snap \in Seq(Actions) \cup {None}
    /\ snapDurable \in Seq(Actions) \cup {None}
    /\ lockFile \in BOOLEAN
    /\ lock \in Procs \cup {None}
    /\ pc \in [Procs -> Pcs]
    /\ \A p \in Procs : pc[p] # "idle" <=> lock = p
    /\ req \in [Procs -> Actions \cup {None}]
    /\ st \in [Procs -> Seq(Actions)]
    /\ confirmed \subseteq Actions
    /\ rpc \in [Readers -> {"idle", "checkpoint", "journal", "watch"}]
    /\ floor \in [Readers -> SUBSET Actions]
    /\ seen \in [Readers -> Seq(Actions)]
    /\ delivered \in [Readers -> Seq(Seq(Actions))]
    /\ powerLosses \in Nat

\* No crash, torn write or power loss leaves a journal that the full recovery
\* refuses: the provider never locks itself out of its own store.
ChainIntact == Chained

\* Whatever the snapshot file holds (nothing, an older state, a state the
\* journal lost), a mutation starts from the state of the last complete record.
StartsFromTheLog == \A p \in Procs : pc[p] = "ready" => st[p] = Log /\ ~torn

\* An action is applied once, however often it is retried after errors, crashes
\* and lost answers.
AppliedOnce ==
    \A i, j \in 1 .. Len(journal) : i < j =>
        journal[i][i] # journal[j][j]

\* When mutate returned Ok for a record it wrote, no later fault removes it.
ConfirmedSurvive == confirmed \subseteq Applied(LineAt(synced))

\* A query sees every action confirmed before it began, even when it had to give
\* up the lock between the snapshot and the journal.
QueriesSeeConfirmed ==
    \A r \in Readers : rpc[r] = "idle" => floor[r] \subseteq Applied(seen[r])

\* Between power losses a reader never goes back in time.
ReaderAdvances(r) ==
    /\ Len(seen[r]) <= Len(seen'[r])
    /\ seen[r] = SubSeq(seen'[r], 1, Len(seen[r]))
ReadersAdvance == powerLosses' = powerLosses => \A r \in Readers : ReaderAdvances(r)
ReadsNeverGoBack == [][ReadersAdvance]_vars

\* The pages of a watcher add up to the journal: no event is skipped, repeated
\* or replaced, also for the watcher that reads without the lock.
WatchGapless ==
    \A r \in Readers : /\ Len(delivered[r]) <= Len(journal)
                       /\ delivered[r] = SubSeq(journal, 1, Len(delivered[r]))

\* Both for every reader: whichever lock it could or could not take, no query
\* misses what was confirmed before it and no watch misses an event.
ReadersSeeTheLog == QueriesSeeConfirmed /\ WatchGapless

\* From every state that crashes and power losses lead to, the next call gets
\* through recovery and releases the lock without running into an error.
CallsGetThrough == \A p \in Procs : lock = p ~> lock # p

\* The files implement the one growing log of module DurableLog.
Abstract == INSTANCE DurableLog WITH log <- Log
ImplementsDurableLog == Abstract!Spec

=============================================================================
