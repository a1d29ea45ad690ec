-------------------------- MODULE AgentBusMessages --------------------------
(***************************************************************************)
(* Ordinary messages between agents on one Agent Bus.  A send reserves an  *)
(* id for its dedupe key, records the message in the durable ledger and    *)
(* queues it; the bridge of the target's runtime polls, submits to the     *)
(* native thread, records the delivery and acknowledges; every             *)
(* registration, and the start of the bus, queues again what the ledger    *)
(* still has as pending.                                                   *)
(*                                                                         *)
(* Queues, reservations and send records live in the memory of the bus.    *)
(* The ledger is a file that the bus and the runtimes' processes share,    *)
(* and each of its operations reads it, appends a management event and     *)
(* writes it in steps that others come between.                            *)
(***************************************************************************)
EXTENDS Naturals, Sequences, FiniteSets, SequencesExt

CONSTANTS
    Texts,       \* what is sent: sender, mode and content of a dedupe key
    Calls,       \* send requests, numbered as they arrive
    Agents,      \* runtime ids, all of the one durable session written to
    Ids,         \* message ids, each drawn at most once
    Window,      \* AGENT_BUS_DEDUPE_WINDOW_SECS
    MaxClock,    \* bound on the clock
    Possible,    \* the kinds of mishap that may happen
    MaxMishaps,  \* how many of them, at most
    None

Mishaps == {"restart", "crash", "leave", "lostack", "refuse", "garble", "store"}
ASSUME BusAssumption == Calls \subseteq Nat /\ Window \in Nat /\ MaxClock \in Nat /\ MaxMishaps \in Nat
ASSUME BusNames == Possible \subseteq Mishaps /\ None \notin Agents \cup Ids \cup Texts

VARIABLES
    ledger,      \* per id, the stored message; its state is "absent" before
    told,        \* per id, the management events appended about it
    clock,       \* the bus's clock
    serving,     \* the bus answers requests
    registered,  \* AgentBusState.agents
    current,     \* current_runtime_agent_id of the session
    queue,       \* AgentBusState.messages
    resv,        \* send_reservations
    recent,      \* recent_sends
    call,        \* the send handlers
    redrive,     \* redrive passes: one per registering runtime, one at start
    bridge,      \* bridge workers
    native,      \* per id, what the native thread knows of it
    left         \* mishaps that may still happen

book == <<ledger, told>>
roster == <<registered, current>>
memory == <<queue, resv, recent>>
vars == <<ledger, told, clock, serving, registered, current, queue, resv, recent,
          call, redrive, bridge, native, left>>

Keys == Texts \X Agents
NoSend == [id |-> None, born |-> 0]
NoMessage == [st |-> "absent", text |-> None, born |-> 0]
NewCall == [pc |-> "new", text |-> None, to |-> None, id |-> None, born |-> 0]
Down == [pc |-> "down", batch |-> <<>>, acks |-> {}]
Resting == [batch |-> {}, cur |-> None]
Slots == Agents \cup {"boot"}

Init ==
    /\ ledger = [i \in Ids |-> NoMessage] /\ told = [i \in Ids |-> {}]
    /\ clock = 0 /\ serving = TRUE
    /\ registered = {} /\ current = None
    /\ queue = [a \in Agents |-> <<>>]
    /\ resv = [k \in Keys |-> NoSend] /\ recent = [k \in Keys |-> NoSend]
    /\ call = [c \in Calls |-> NewCall]
    /\ redrive = [s \in Slots |-> Resting]
    /\ bridge = [a \in Agents |-> Down]
    /\ native = [i \in Ids |-> "unknown"]
    /\ left = MaxMishaps

Spend(kind) == kind \in Possible /\ left > 0 /\ left' = left - 1
Drawn == {i \in Ids : \/ told[i] # {} \/ \E k \in Keys : resv[k].id = i
                      \/ \E c \in Calls : call[c].id = i}
NewId == CHOOSE i \in Ids \ Drawn : TRUE

-----------------------------------------------------------------------------
(* The memory of the bus.                                                   *)

(* A record or reservation is kept until `now` is past its window.  The     *)
(* subtraction saturates: one born later than `now` is kept.                *)
Live(table, now) ==
    [k \in Keys |-> IF now <= table[k].born + Window THEN table[k] ELSE NoSend]

(* enqueue_agent_bus_message_once_with_id for message i born at b. *)
EnqueueOnce(t, a, i, b) ==
    LET kept == Live(recent, b)
        held == Live(resv, b)
        fresh == kept[<<t, a>>] = NoSend /\ i \notin Range(queue[a])
    IN  IF fresh
        THEN /\ queue' = [queue EXCEPT ![a] = Append(@, i)]
             /\ recent' = [kept EXCEPT ![<<t, a>>] = [id |-> i, born |-> b]]
             /\ resv' = [k \in Keys |-> IF held[k].id = i THEN NoSend ELSE held[k]]
        ELSE /\ recent' = kept /\ resv' = held
             /\ UNCHANGED queue

-----------------------------------------------------------------------------
(* POST /api/messages/send.                                                 *)

(* A runtime named by its id must be on the roster; one named by its        *)
(* session must also be the session's current runtime.                      *)
Resolves(a) == a \in registered
ResolvesSession(cur) == cur \in registered

(* An id is reserved for a dedupe key: that of a recent send, whose message *)
(* is recorded and queued already, that of a send under way, or a new one.  *)
Reserve(c, t, a) ==
    LET kept == Live(recent, clock)
        held == Live(resv, clock)
        k == <<t, a>>
        Take(i, b, pc) == call' = [call EXCEPT ![c] =
                            [pc |-> pc, text |-> t, to |-> a, id |-> i, born |-> b]]
    IN  /\ recent' = kept
        /\ \/ /\ kept[k] # NoSend
              /\ Take(kept[k].id, kept[k].born, "enqueue")
              /\ resv' = held
           \/ /\ kept[k] = NoSend /\ held[k] # NoSend
              /\ Take(held[k].id, held[k].born, "record")
              /\ resv' = held
           \/ /\ kept[k] = NoSend /\ held[k] = NoSend /\ Ids \ Drawn # {}
              /\ Take(NewId, clock, "record")
              /\ resv' = [held EXCEPT ![k] = [id |-> NewId, born |-> clock]]

(* The handler up to the reservation: a send whose target does not resolve  *)
(* is refused.                                                              *)
Send(c, t, a) ==
    /\ serving /\ call[c] = NewCall /\ \A d \in Calls : d < c => call[d] # NewCall
    /\ Resolves(a)
    /\ Reserve(c, t, a)
    /\ UNCHANGED <<book, clock, serving, roster, queue, redrive, bridge, native, left>>

At(c, pc) == call' = [call EXCEPT ![c].pc = pc]
Refused == [NewCall EXCEPT !.pc = "refused"]
Answer(c) == call' = [call EXCEPT ![c] = [NewCall EXCEPT !.pc = "answered", !.id = call[c].id]]

(* record_queued: a message the ledger has is not recorded again; for       *)
(* another the event comes first, then the ledger.                          *)
RecordQueued(c) ==
    LET i == call[c].id
    IN  /\ call[c].pc = "record"
        /\ \/ ledger[i].st # "absent" /\ At(c, "enqueue") /\ UNCHANGED told
           \/ /\ ledger[i].st = "absent" /\ At(c, "insert")
              /\ told' = [told EXCEPT ![i] = @ \cup {"queued"}]
        /\ UNCHANGED <<ledger, clock, serving, roster, memory, redrive, bridge, native, left>>

InsertPending(c) ==
    /\ call[c].pc = "insert"
    /\ ledger' = [ledger EXCEPT ![call[c].id] =
                    [st |-> "pending", text |-> call[c].text, born |-> call[c].born]]
    /\ At(c, "enqueue")
    /\ UNCHANGED <<told, clock, serving, roster, memory, redrive, bridge, native, left>>

(* The write of the event log or of the ledger fails: the send is refused,  *)
(* the reservation stays.                                                   *)
RecordFails(c) ==
    /\ call[c].pc \in {"record", "insert"} /\ Spend("store")
    /\ call' = [call EXCEPT ![c] = Refused]
    /\ UNCHANGED <<book, clock, serving, roster, memory, redrive, bridge, native>>

(* The message is queued under its id and the time it was reserved at. *)
\* Mutant of Enqueue: the message is queued before the ledger has it.
EnqueueEarly(c) ==
    /\ call[c].pc \in {"record", "enqueue"}
    /\ EnqueueOnce(call[c].text, call[c].to, call[c].id, call[c].born)
    /\ Answer(c)
    /\ UNCHANGED <<book, clock, serving, roster, redrive, bridge, native, left>>
Enqueue(c) ==
    /\ call[c].pc = "enqueue"
    /\ EnqueueOnce(call[c].text, call[c].to, call[c].id, call[c].born)
    /\ Answer(c)
    /\ UNCHANGED <<book, clock, serving, roster, redrive, bridge, native, left>>

-----------------------------------------------------------------------------
(* Registrations, and what they queue again.                                *)

Pending == {i \in Ids : ledger[i].st = "pending"}

(* A redrive pass begins: the session store and the pending messages are    *)
(* read, once for the whole pass.                                           *)
Begin(s, cur) ==
    [redrive EXCEPT ![s] = IF Pending = {} THEN Resting ELSE [batch |-> Pending, cur |-> cur]]

(* A runtime registers: it becomes the session's current runtime, and the   *)
(* handler goes on to redrive.                                              *)
Register(a) ==
    /\ serving /\ redrive[a] = Resting
    /\ registered' = registered \cup {a} /\ current' = a
    /\ bridge' = IF bridge[a] = Down THEN [bridge EXCEPT ![a].pc = "idle"] ELSE bridge
    /\ redrive' = Begin(a, a)
    /\ UNCHANGED <<book, clock, serving, memory, call, native, left>>
(* The launch claim of the session lets one runtime live at a time. *)
Start(a) == (\A b \in Agents : bridge[b] = Down) /\ Register(a)
Refresh(a) == bridge[a].pc = "idle" /\ Register(a)

(* One pending message: skipped when its session has no registered runtime, *)
(* otherwise queued for that runtime as of the time it was first sent.      *)
\* Mutant of Redriven: what a runtime has not fetched is left to the send.
LeftToTheSend(s, i) == UNCHANGED memory
Redriven(s, i) ==
    IF ResolvesSession(redrive[s].cur)
    THEN EnqueueOnce(ledger[i].text, redrive[s].cur, i, ledger[i].born)
    ELSE UNCHANGED memory
RedriveOne(s, i) ==
    LET rest == redrive[s].batch \ {i}
    IN  /\ i \in redrive[s].batch
        /\ Redriven(s, i)
        /\ redrive' = [redrive EXCEPT ![s] =
                         IF rest = {} THEN Resting ELSE [@ EXCEPT !.batch = rest]]
        /\ UNCHANGED <<book, clock, serving, roster, call, bridge, native, left>>

(* The roster entry goes and its queue with it; the send records stay.  A   *)
(* bridge that stops unregisters; a silent runtime is pruned.               *)
Drop(a) ==
    /\ serving /\ Spend("leave") /\ a \in registered
    /\ registered' = registered \ {a}
    /\ queue' = [queue EXCEPT ![a] = <<>>]
    /\ UNCHANGED <<book, clock, serving, current, resv, recent, call, redrive, native>>
Unregister(a) == bridge[a].pc = "idle" /\ Drop(a) /\ bridge' = [bridge EXCEPT ![a] = Down]
PruneStale(a) == Drop(a) /\ UNCHANGED bridge

(* The bus process ends: sends and passes under way die with it.  It comes  *)
(* back with the roster it saved and redrives before it answers.            *)
Restart ==
    /\ serving /\ Spend("restart")
    /\ serving' = FALSE
    /\ queue' = [a \in Agents |-> <<>>]
    /\ resv' = [k \in Keys |-> NoSend] /\ recent' = [k \in Keys |-> NoSend]
    /\ call' = [c \in Calls |-> IF call[c].pc \in {"new", "answered"} THEN call[c]
                                ELSE Refused]
    /\ redrive' = [[s \in Slots |-> Resting] EXCEPT !["boot"] = Begin("boot", current)["boot"]]
    /\ UNCHANGED <<book, clock, roster, bridge, native>>
Serve ==
    /\ ~serving /\ redrive["boot"] = Resting /\ serving' = TRUE
    /\ UNCHANGED <<book, clock, roster, memory, call, redrive, bridge, native, left>>

Tick ==
    /\ clock < MaxClock /\ \E k \in Keys : resv[k] # NoSend \/ recent[k] # NoSend
    /\ clock' = clock + 1
    /\ UNCHANGED <<book, serving, roster, memory, call, redrive, bridge, native, left>>

-----------------------------------------------------------------------------
(* The bridge of a runtime, and the native thread behind it.                *)

Put(a, b) == bridge' = [bridge EXCEPT ![a] = b]
Idle(acks) == [pc |-> "idle", batch |-> <<>>, acks |-> acks]

(* The messages of q that are not acknowledged, in their order. *)
Without(q, acks) ==
    LET kept[n \in 0..Len(q)] ==
            IF n = 0 THEN <<>>
            ELSE IF q[n] \in acks THEN kept[n - 1] ELSE Append(kept[n - 1], q[n])
    IN  kept[Len(q)]

RetryAcks(a) ==
    /\ serving /\ bridge[a].pc = "idle" /\ bridge[a].acks # {}
    /\ queue' = [queue EXCEPT ![a] = Without(@, bridge[a].acks)]
    /\ Put(a, Idle({}))
    /\ UNCHANGED <<book, clock, serving, roster, resv, recent, call, redrive, native, left>>

Poll(a) ==
    /\ serving /\ bridge[a].pc = "idle" /\ bridge[a].acks = {} /\ queue[a] # <<>>
    /\ Put(a, [bridge[a] EXCEPT !.pc = "submit", !.batch = queue[a]])
    /\ UNCHANGED <<book, clock, serving, roster, memory, call, redrive, native, left>>

(* Only what the thread does not know yet is submitted. *)
Unknown(a) == {i \in Range(bridge[a].batch) : native[i] = "unknown"}
SubmitAll(a, sent) ==
    /\ bridge[a].pc = "submit"
    /\ native' = [i \in Ids |-> IF i \in sent THEN "pending" ELSE native[i]]
    /\ Put(a, [bridge[a] EXCEPT !.pc = "settle"])
    /\ UNCHANGED <<book, clock, serving, roster, memory, call, redrive>>
Submit(a) == SubmitAll(a, Unknown(a)) /\ UNCHANGED left
SubmitRefused(a) ==
    Spend("refuse") /\ \E sent \in SUBSET Unknown(a) : sent # Unknown(a) /\ SubmitAll(a, sent)

(* The second status query: a message that is not persisted stays queued,   *)
(* a delivered one is acknowledged again, another is announced as delivered *)
(* and then recorded.                                                       *)
\* Mutant of Settle: what the thread has accepted counts as delivered.
SettleAccepted(a) ==
    LET i == Head(bridge[a].batch)
        Go(pc) == Put(a, [bridge[a] EXCEPT !.pc = pc])
    IN  /\ bridge[a].pc = "settle" /\ bridge[a].batch # <<>>
        /\ \/ native[i] = "unknown" /\ UNCHANGED told
              /\ Put(a, [bridge[a] EXCEPT !.batch = Tail(@)])
           \/ native[i] # "unknown" /\ ledger[i].st = "delivered" /\ Go("ack") /\ UNCHANGED told
           \/ /\ native[i] # "unknown" /\ ledger[i].st # "delivered" /\ Go("store")
              /\ told' = [told EXCEPT ![i] = @ \cup {"delivered"}]
        /\ UNCHANGED <<ledger, clock, serving, roster, memory, call, redrive, native, left>>
Settle(a) ==
    LET i == Head(bridge[a].batch)
        Go(pc) == Put(a, [bridge[a] EXCEPT !.pc = pc])
    IN  /\ bridge[a].pc = "settle" /\ bridge[a].batch # <<>>
        /\ \/ native[i] # "persisted" /\ UNCHANGED told
              /\ Put(a, [bridge[a] EXCEPT !.batch = Tail(@)])
           \/ native[i] = "persisted" /\ ledger[i].st = "delivered" /\ Go("ack") /\ UNCHANGED told
           \/ /\ native[i] = "persisted" /\ ledger[i].st # "delivered" /\ Go("store")
              /\ told' = [told EXCEPT ![i] = @ \cup {"delivered"}]
        /\ UNCHANGED <<ledger, clock, serving, roster, memory, call, redrive, native, left>>

RecordDelivered(a) ==
    /\ bridge[a].pc = "store"
    /\ ledger' = [ledger EXCEPT ![Head(bridge[a].batch)].st = "delivered"]
    /\ Put(a, [bridge[a] EXCEPT !.pc = "ack"])
    /\ UNCHANGED <<told, clock, serving, roster, memory, call, redrive, native, left>>

(* A status answer that fits no message, or that reports a conflict, puts   *)
(* the message aside whatever its state is.                                 *)
RecordQuarantined(a) ==
    /\ bridge[a].pc = "settle" /\ bridge[a].batch # <<>> /\ Spend("garble")
    /\ ledger' = [ledger EXCEPT ![Head(bridge[a].batch)].st = "quarantined"]
    /\ Put(a, [bridge[a] EXCEPT !.pc = "ack"])
    /\ UNCHANGED <<told, clock, serving, roster, memory, call, redrive, native>>

SweepDone(a) ==
    /\ bridge[a].pc = "settle" /\ bridge[a].batch = <<>>
    /\ Put(a, Idle(bridge[a].acks))
    /\ UNCHANGED <<book, clock, serving, roster, memory, call, redrive, native, left>>

Acked(a) == [queue EXCEPT ![a] = Without(@, {Head(bridge[a].batch)})]
Ack(a) ==
    /\ serving /\ bridge[a].pc = "ack"
    /\ queue' = Acked(a)
    /\ Put(a, [bridge[a] EXCEPT !.pc = "settle", !.batch = Tail(@)])
    /\ UNCHANGED <<book, clock, serving, roster, resv, recent, call, redrive, native, left>>
(* The acknowledgement fails, or its answer is lost: the sweep ends. *)
AckFails(a) ==
    /\ bridge[a].pc = "ack"
    /\ \/ ~serving /\ UNCHANGED <<queue, left>>
       \/ serving /\ Spend("lostack") /\ queue' = Acked(a)
    /\ Put(a, Idle(bridge[a].acks \cup {Head(bridge[a].batch)}))
    /\ UNCHANGED <<book, clock, serving, roster, resv, recent, call, redrive, native>>

(* The runtime dies: its bridge forgets everything, the native thread what  *)
(* it had not persisted.                                                    *)
Crash(a) ==
    /\ bridge[a] # Down /\ Spend("crash")
    /\ Put(a, Down)
    /\ native' = [i \in Ids |-> IF native[i] = "pending" THEN "unknown" ELSE native[i]]
    /\ UNCHANGED <<book, clock, serving, roster, memory, call, redrive>>
Persist(i) ==
    /\ native[i] = "pending" /\ native' = [native EXCEPT ![i] = "persisted"]
    /\ UNCHANGED <<book, clock, serving, roster, memory, call, redrive, bridge, left>>

-----------------------------------------------------------------------------
CallStep(c) == RecordQueued(c) \/ InsertPending(c) \/ Enqueue(c)
RedriveStep(s) == \E i \in Ids : RedriveOne(s, i)
BridgeStep(a) ==
    \/ RetryAcks(a) \/ Poll(a) \/ Submit(a) \/ Settle(a) \/ RecordDelivered(a)
    \/ SweepDone(a) \/ Ack(a)

Next ==
    \/ \E c \in Calls : CallStep(c) \/ RecordFails(c)
    \/ \E c \in Calls, t \in Texts, a \in Agents : Send(c, t, a)
    \/ \E s \in Slots : RedriveStep(s)
    \/ \E a \in Agents :
        \/ BridgeStep(a) \/ SubmitRefused(a) \/ RecordQuarantined(a) \/ AckFails(a)
        \/ Start(a) \/ Refresh(a) \/ Unregister(a) \/ PruneStale(a) \/ Crash(a)
    \/ \E i \in Ids : Persist(i)
    \/ Restart \/ Serve \/ Tick

Spec == Init /\ [][Next]_vars

(* Threads run on, the native thread works off what it accepted, and the    *)
(* session's runtimes keep registering.                                     *)
FairSpec ==
    /\ Spec
    /\ WF_vars(\E c \in Calls : CallStep(c))
    /\ WF_vars(Serve \/ \E s \in Slots : RedriveStep(s))
    /\ WF_vars(\E a \in Agents : BridgeStep(a))
    /\ WF_vars(\E a \in Agents : Start(a))
    /\ SF_vars(\E a \in Agents : Refresh(a))
    /\ WF_vars(\E i \in Ids : Persist(i))

-----------------------------------------------------------------------------
(* Properties.                                                              *)

(* A send that was answered has its message in the durable ledger, however  *)
(* reservations, send records, expiry and restarts came together            *)
(* (send_payload_response_with_projection, reserve_agent_bus_message_id).   *)
AnsweredIsDurable ==
    \A c \in Calls : call[c].pc = "answered" => ledger[call[c].id].st # "absent"

(* What ledger and events say of a message is true of the native thread:    *)
(* nothing is called delivered, in either, before its context insertion is  *)
(* persisted, and the ledger never runs ahead of the events (record_queued, *)
(* record_delivered).                                                       *)
BookIsTrue ==
    \A i \in Ids :
        /\ (ledger[i].st = "delivered" \/ "delivered" \in told[i]) => native[i] = "persisted"
        /\ ledger[i].st # "absent" => "queued" \in told[i]
        /\ ledger[i].st = "delivered" => "delivered" \in told[i]

(* A queued message that its runtime has lost is queued again by a later    *)
(* registration and settles, with one exception.  While the memory of the   *)
(* bus holds a send record for the same text and runtime, redrive takes the *)
(* message for queued; redrive itself looks at the records as of the time   *)
(* the message was sent, so only a later send can expire that record.       *)
Shadowed(i) ==
    /\ current # None /\ i \notin Range(queue[current])
    /\ recent[<<ledger[i].text, current>>] # NoSend
EveryMessageSettles ==
    \A i \in Ids : (ledger[i].st = "pending") ~> (ledger[i].st # "pending" \/ Shadowed(i))
=============================================================================
