----------------------- MODULE AgentBusMessages_proofs -----------------------
(***************************************************************************)
(* Proofs about ordinary bus messages: AnsweredIsDurable and BookIsTrue    *)
(* for any number of sends, runtimes, ids, mishaps and any window.         *)
(***************************************************************************)
EXTENDS AgentBusMessages, FiniteSetTheorems, TLAPS

-----------------------------------------------------------------------------
(* Acknowledging: what Without keeps was in the queue.                      *)

\* Every nonempty set of naturals has a least element.
LEMMA LeastNat ==
    ASSUME NEW T \in SUBSET Nat, T # {}
    PROVE  \E t \in T : \A u \in T : t <= u
<1> DEFINE R == {ss \in Nat \X Nat : ss[1] < ss[2]}
<1>1. IsWellFoundedOn(R, Nat)
  BY NatLessThanWellFounded, Zenon DEF OpToRel
<1>2. \A a, b \in Nat : a < b => <<a, b>> \in R
  OBVIOUS
<1> HIDE DEF R
<1>3. PICK t \in T : \A u \in T : ~(<<u, t>> \in R)
  BY <1>1, WFMin
<1>4. \A u \in T : ~(u < t)
  BY <1>2, <1>3
<1> QED BY <1>4

\* RetryAcks and Ack only take messages away.
LEMMA WithoutSubset ==
    ASSUME NEW S, NEW q \in Seq(S), NEW acks
    PROVE  /\ Without(q, acks) \in Seq(S)
           /\ \A k \in DOMAIN Without(q, acks) : \E j \in DOMAIN q : q[j] = Without(q, acks)[k]
<1> DEFINE N == Len(q)
           Good(s) == s \in Seq(S) /\ \A k \in 1..Len(s) : \E j \in 1..N : q[j] = s[k]
           Def(g, n) == IF n = 0 THEN <<>>
                        ELSE IF q[n] \in acks THEN g[n - 1] ELSE Append(g[n - 1], q[n])
           Upto(m) == \E g \in [0..m -> Seq(S)] : \A n \in 0..m : Good(g[n]) /\ g[n] = Def(g, n)
           T == {m \in 0..N : ~Upto(m)}
<1>1. N \in Nat /\ DOMAIN q = 1..N /\ \A n \in 1..N : q[n] \in S
  OBVIOUS
<1>2. T = {}
  <2> SUFFICES ASSUME T # {} PROVE FALSE
    OBVIOUS
  <2>1. T \in SUBSET Nat
    BY <1>1
  <2>2. PICK m \in T : \A u \in T : m <= u
    <3> HIDE DEF T
    <3> QED BY <2>1, LeastNat
  <2>3. m # 0
    <3> DEFINE g == [n \in 0..0 |-> <<>>]
    <3>1. g \in [0..0 -> Seq(S)] /\ \A n \in 0..0 : Good(g[n]) /\ g[n] = Def(g, n)
      OBVIOUS
    <3>2. Upto(0)
      BY <3>1
    <3> HIDE DEF Upto
    <3> QED BY <3>2
  <2>4. m \in 1..N /\ m - 1 \in 0..N /\ m - 1 \notin T
    <3>1. m \in 0..N
      OBVIOUS
    <3> HIDE DEF T
    <3> QED BY <1>1, <2>2, <2>3, <3>1
  <2>5. PICK g \in [0..(m - 1) -> Seq(S)] : \A n \in 0..(m - 1) : Good(g[n]) /\ g[n] = Def(g, n)
    BY <2>4
  <2> DEFINE h == [n \in 0..m |-> IF n = m THEN Def(g, m) ELSE g[n]]
  <2>6. Good(g[m - 1])
    BY <2>4, <2>5
  <2>7. Good(Def(g, m))
    BY <1>1, <2>4, <2>6
  <2>8. h \in [0..m -> Seq(S)] /\ \A n \in 0..m : Good(h[n]) /\ h[n] = Def(h, n)
    <3>1. \A n \in 0..m : n # m => n \in 0..(m - 1) /\ h[n] = g[n]
      BY <2>4
    <3>2. h[m] = Def(g, m)
      BY <2>4
    <3>3. \A n \in 0..m : n # 0 => n - 1 \in 0..m /\ h[n - 1] = g[n - 1]
      BY <2>4
    <3>4. h \in [0..m -> Seq(S)]
      BY <2>4, <2>5, <2>7
    <3> HIDE DEF h, Good
    <3> QED BY <2>4, <2>5, <2>7, <3>1, <3>2, <3>3, <3>4
  <2>9. Upto(m)
    <3> HIDE DEF h, Good, Def
    <3> QED BY <2>8
  <2> QED BY <2>2, <2>9
<1>3. PICK g \in [0..N -> Seq(S)] : \A n \in 0..N : Good(g[n]) /\ g[n] = Def(g, n)
  <2>1. Upto(N)
    <3> HIDE DEF Upto
    <3> QED BY <1>1, <1>2
  <2> QED BY <2>1
<1> DEFINE f == CHOOSE f : f = [n \in 0..N |-> Def(f, n)]
<1>4. f = [n \in 0..N |-> Def(f, n)]
  <2>1. g = [n \in 0..N |-> Def(g, n)]
    BY <1>3
  <2> HIDE DEF Def
  <2> QED BY <2>1
<1>5. Without(q, acks) = f[N]
  BY DEF Without
<1> HIDE DEF f
<1>6. \A n \in 0..N : f[n] = Def(f, n)
  <2> HIDE DEF Def
  <2> QED BY <1>4
<1>7. f[N] = g[N]
  <2> DEFINE D == {n \in 0..N : f[n] # g[n]}
  <2> SUFFICES ASSUME D # {} PROVE FALSE
    BY <1>1
  <2>1. D \in SUBSET Nat
    BY <1>1
  <2>2. PICK n \in D : \A u \in D : n <= u
    <3> HIDE DEF D
    <3> QED BY <2>1, LeastNat
  <2>3. n = 0 \/ (n - 1 \in 0..N /\ n - 1 \notin D)
    <3>1. n \in 0..N
      OBVIOUS
    <3> HIDE DEF D
    <3> QED BY <1>1, <2>2, <3>1
  <2>4. f[n] = Def(f, n) /\ g[n] = Def(g, n)
    <3> HIDE DEF Def
    <3> QED BY <1>3, <1>6
  <2>5. n = 0 \/ f[n - 1] = g[n - 1]
    BY <2>3
  <2>6. f[n] # g[n]
    OBVIOUS
  <2> HIDE DEF D
  <2> QED BY <2>4, <2>5, <2>6
<1>8. Good(f[N])
  <2> HIDE DEF Good
  <2> QED BY <1>1, <1>3, <1>7
<1> HIDE DEF N, f, Def
<1>9. f[N] \in Seq(S) /\ DOMAIN f[N] = 1..Len(f[N])
  BY <1>8
<1> QED BY <1>1, <1>5, <1>8, <1>9

-----------------------------------------------------------------------------
(* The inductive invariant.                                                 *)

\* The messages the ledger has.  It never loses one.
Recorded == {i \in Ids : ledger[i].st # "absent"}

Message == [st : {"absent", "pending", "delivered", "quarantined"}, text : Texts \cup {None}, born : Nat]
Reservation == [id : Ids \cup {None}, born : Nat]
Handler == [pc : {"new", "record", "insert", "enqueue", "answered", "refused"}, text : Texts \cup {None},
            to : Agents \cup {None}, id : Ids \cup {None}, born : Nat]

BookTypes ==
    /\ ledger \in [Ids -> Message]
    /\ told \in [Ids -> SUBSET {"queued", "delivered"}]
    /\ native \in [Ids -> {"unknown", "pending", "persisted"}]

MemoryTypes ==
    /\ clock \in Nat
    /\ registered \subseteq Agents /\ current \in Agents \cup {None}
    /\ resv \in [Keys -> Reservation] /\ recent \in [Keys -> Reservation]
    /\ call \in [Calls -> Handler]

\* A send record is about a recorded message, a reservation about some id.
Sends ==
    /\ \A k \in Keys : recent[k] # NoSend => recent[k].id \in Recorded
    /\ \A k \in Keys : resv[k] # NoSend => resv[k].id \in Ids

\* Where each send handler has come to.
Handlers ==
    \A c \in Calls :
        /\ call[c].pc \in {"record", "insert", "enqueue", "answered"} => call[c].id \in Ids
        /\ call[c].pc \in {"record", "insert", "enqueue"} => call[c].to \in Agents
        /\ call[c].pc = "insert" => "queued" \in told[call[c].id]
        /\ call[c].pc \in {"enqueue", "answered"} => call[c].id \in Recorded

Worker == [pc : {"down", "idle", "submit", "settle", "store", "ack"}, batch : Seq(Recorded), acks : SUBSET Ids]

\* Only recorded messages are queued, fetched by a bridge or redriven.
Queues ==
    /\ queue \in [Agents -> Seq(Recorded)]
    /\ redrive \in [Slots -> [batch : SUBSET Recorded, cur : Agents \cup {None}]]
    /\ bridge \in [Agents -> Worker]

\* A bridge that is about to record a delivery has seen it persisted.
Settling ==
    \A a \in Agents :
        /\ bridge[a].pc \in {"store", "ack"} => bridge[a].batch # <<>>
        /\ bridge[a].pc = "store" => /\ native[Head(bridge[a].batch)] = "persisted"
                                     /\ "delivered" \in told[Head(bridge[a].batch)]

IInv == BookTypes /\ MemoryTypes /\ Sends /\ Handlers /\ Queues /\ Settling /\ BookIsTrue

-----------------------------------------------------------------------------
(* The memory of the bus.                                                   *)

\* Expiry drops entries and changes none.
LEMMA LiveFacts ==
    ASSUME NEW table \in [Keys -> Reservation], NEW t \in Nat
    PROVE  /\ Live(table, t) \in [Keys -> Reservation]
           /\ \A k \in Keys : Live(table, t)[k] = table[k] \/ Live(table, t)[k] = NoSend
<1>1. NoSend \in Reservation
  BY DEF NoSend, Reservation
<1> QED BY <1>1 DEF Live

\* enqueue_agent_bus_message_once_with_id for a message that the ledger has.
LEMMA EnqueueOnceFacts ==
    ASSUME MemoryTypes, Sends, Queues, UNCHANGED ledger,
           NEW t, NEW a \in Agents, NEW i \in Recorded, NEW b \in Nat, EnqueueOnce(t, a, i, b)
    PROVE  /\ resv' \in [Keys -> Reservation] /\ recent' \in [Keys -> Reservation]
           /\ Sends' /\ queue' \in [Agents -> Seq(Recorded)]
<1> DEFINE kept == Live(recent, b)
           held == Live(resv, b)
           send == [id |-> i, born |-> b]
<1>1. Recorded' = Recorded /\ Recorded \subseteq Ids
  BY DEF Recorded
<1>2. /\ kept \in [Keys -> Reservation] /\ \A k \in Keys : kept[k] = recent[k] \/ kept[k] = NoSend
      /\ held \in [Keys -> Reservation] /\ \A k \in Keys : held[k] = resv[k] \/ held[k] = NoSend
  BY LiveFacts DEF MemoryTypes
<1>3. send \in Reservation /\ send.id \in Recorded /\ NoSend \in Reservation
  BY <1>1 DEF Reservation, NoSend
<1>4. \/ /\ queue' = [queue EXCEPT ![a] = Append(@, i)]
         /\ recent' = [kept EXCEPT ![<<t, a>>] = send]
         /\ resv' = [k \in Keys |-> IF held[k].id = i THEN NoSend ELSE held[k]]
      \/ recent' = kept /\ resv' = held /\ queue' = queue
  BY DEF EnqueueOnce
<1> HIDE DEF kept, held, send
<1>5. queue' \in [Agents -> Seq(Recorded)]
  <2>1. queue \in [Agents -> Seq(Recorded)]
    BY DEF Queues
  <2> HIDE DEF Recorded
  <2>2. Append(queue[a], i) \in Seq(Recorded)
    BY <2>1
  <2> QED BY <1>4, <2>1, <2>2
<1>6. resv' \in [Keys -> Reservation] /\ \A k \in Keys : resv'[k] = resv[k] \/ resv'[k] = NoSend
  BY <1>2, <1>3, <1>4
<1>7. recent' \in [Keys -> Reservation] /\ \A k \in Keys : recent'[k] \in {recent[k], NoSend, send}
  <2>1. CASE recent' = kept
    BY <1>2, <2>1
  <2>2. CASE recent' = [kept EXCEPT ![<<t, a>>] = send]
    <3> DEFINE key == <<t, a>>
    <3>1. recent' = [kept EXCEPT ![key] = send]
      BY <2>2
    <3> HIDE DEF key
    <3> QED BY <1>2, <1>3, <3>1
  <2> QED BY <1>4, <2>1, <2>2
<1>8. Sends'
  BY <1>1, <1>3, <1>6, <1>7 DEF Sends
<1> QED BY <1>5, <1>6, <1>7, <1>8

\* A step that keeps the book and the bridges.
LEMMA BookStays ==
    ASSUME IInv, UNCHANGED <<ledger, told, native>>
    PROVE  /\ BookTypes' /\ BookIsTrue' /\ Recorded' = Recorded
           /\ (UNCHANGED bridge => Settling')
           /\ (UNCHANGED call => Handlers')
           /\ (UNCHANGED <<resv, recent>> => Sends')
           /\ (UNCHANGED <<queue, redrive, bridge>> => Queues')
           /\ (UNCHANGED <<clock, registered, current, resv, recent, call>> => MemoryTypes')
<1>1. Recorded' = Recorded
  BY DEF Recorded
<1>2. BookTypes' /\ BookIsTrue'
  BY DEF IInv, BookTypes, BookIsTrue
<1>3. UNCHANGED bridge => Settling'
  BY DEF IInv, Settling
<1>4. UNCHANGED call => Handlers'
  BY <1>1 DEF IInv, Handlers
<1>5. UNCHANGED <<resv, recent>> => Sends'
  BY <1>1 DEF IInv, Sends
<1>6. UNCHANGED <<queue, redrive, bridge>> => Queues'
  BY <1>1 DEF IInv, Queues, Worker
<1>7. UNCHANGED <<clock, registered, current, resv, recent, call>> => MemoryTypes'
  BY DEF IInv, MemoryTypes
<1> QED BY <1>1, <1>2, <1>3, <1>4, <1>5, <1>6, <1>7

-----------------------------------------------------------------------------
(* The send handlers.                                                       *)

LEMMA SendStep ==
    ASSUME IInv, NEW c \in Calls, NEW t \in Texts, NEW a \in Agents, Send(c, t, a)
    PROVE  IInv'
<1>1. UNCHANGED <<ledger, told, clock, registered, current, queue, redrive, bridge, native>>
  BY DEF Send, book, roster
<1>2. BookTypes' /\ BookIsTrue' /\ Recorded' = Recorded /\ Settling' /\ Queues'
  BY <1>1, BookStays
<1> DEFINE kept == Live(recent, clock)
           held == Live(resv, clock)
           k == <<t, a>>
<1>3. k \in Keys
  BY DEF Keys
<1>4. /\ kept \in [Keys -> Reservation] /\ \A j \in Keys : kept[j] = recent[j] \/ kept[j] = NoSend
      /\ held \in [Keys -> Reservation] /\ \A j \in Keys : held[j] = resv[j] \/ held[j] = NoSend
  BY LiveFacts DEF IInv, MemoryTypes
<1>5. Ids \ Drawn # {} => NewId \in Ids
  BY DEF NewId
<1>6. /\ recent' = kept
      /\ \/ /\ kept[k] # NoSend /\ resv' = held
            /\ call' = [call EXCEPT ![c] = [pc |-> "enqueue", text |-> t, to |-> a, id |-> kept[k].id, born |-> kept[k].born]]
         \/ /\ held[k] # NoSend /\ resv' = held
            /\ call' = [call EXCEPT ![c] = [pc |-> "record", text |-> t, to |-> a, id |-> held[k].id, born |-> held[k].born]]
         \/ /\ Ids \ Drawn # {}
            /\ call' = [call EXCEPT ![c] = [pc |-> "record", text |-> t, to |-> a, id |-> NewId, born |-> clock]]
            /\ resv' = [held EXCEPT ![k] = [id |-> NewId, born |-> clock]]
  BY DEF Send, Reserve
<1> HIDE DEF kept, held, k
<1>7. clock \in Nat
  BY DEF IInv, MemoryTypes
<1>8. resv' \in [Keys -> Reservation] /\ \A j \in Keys : resv'[j] # NoSend => resv'[j].id \in Ids
  <2>1. CASE resv' = held
    BY <1>4, <2>1 DEF IInv, Sends
  <2>2. CASE Ids \ Drawn # {} /\ resv' = [held EXCEPT ![k] = [id |-> NewId, born |-> clock]]
    <3>1. NewId \in Ids /\ [id |-> NewId, born |-> clock] \in Reservation
      BY <1>5, <1>7, <2>2 DEF Reservation
    <3> QED BY <1>4, <2>2, <3>1 DEF IInv, Sends
  <2> QED BY <1>6, <2>1, <2>2
<1>9. recent' \in [Keys -> Reservation] /\ \A j \in Keys : recent'[j] # NoSend => recent'[j].id \in Recorded
  BY <1>4, <1>6 DEF IInv, Sends
<1>10. Sends'
  BY <1>2, <1>8, <1>9 DEF Sends
<1>11. PICK i \in Ids, b \in Nat, pc \in {"record", "enqueue"} :
          /\ call' = [call EXCEPT ![c] = [pc |-> pc, text |-> t, to |-> a, id |-> i, born |-> b]]
          /\ pc = "enqueue" => i \in Recorded
  <2>1. CASE kept[k] # NoSend /\ call' = [call EXCEPT ![c] = [pc |-> "enqueue", text |-> t, to |-> a, id |-> kept[k].id, born |-> kept[k].born]]
    <3>1. kept[k].id \in Recorded /\ kept[k].id \in Ids /\ kept[k].born \in Nat
      BY <1>3, <1>4, <2>1 DEF IInv, Sends, Recorded, Reservation
    <3> QED BY <2>1, <3>1
  <2>2. CASE held[k] # NoSend /\ call' = [call EXCEPT ![c] = [pc |-> "record", text |-> t, to |-> a, id |-> held[k].id, born |-> held[k].born]]
    <3>1. held[k].id \in Ids /\ held[k].born \in Nat
      BY <1>3, <1>4, <2>2 DEF IInv, Sends, Reservation
    <3> QED BY <2>2, <3>1
  <2>3. CASE Ids \ Drawn # {} /\ call' = [call EXCEPT ![c] = [pc |-> "record", text |-> t, to |-> a, id |-> NewId, born |-> clock]]
    BY <1>5, <1>7, <2>3
  <2> QED BY <1>6, <2>1, <2>2, <2>3
<1>12. MemoryTypes'
  BY <1>1, <1>8, <1>9, <1>11 DEF IInv, MemoryTypes, Handler
<1>13. Handlers'
  BY <1>1, <1>2, <1>11 DEF IInv, MemoryTypes, Handler, Handlers
<1> QED BY <1>2, <1>10, <1>12, <1>13 DEF IInv

\* A step after which the ledger has at least the messages it had.
LEMMA BookGrows ==
    ASSUME IInv, Recorded \subseteq Recorded'
    PROVE  /\ UNCHANGED <<resv, recent>> => Sends'
           /\ UNCHANGED <<queue, redrive, bridge>> => Queues'
<1>1. UNCHANGED <<resv, recent>> => Sends'
  BY DEF IInv, Sends
<1>2. \A s \in Seq(Recorded) : s \in Seq(Recorded')
  <2> DEFINE A == Recorded
             B == Recorded'
  <2>1. A \subseteq B
    OBVIOUS
  <2> HIDE DEF A, B
  <2>2. \A s \in Seq(A) : s \in Seq(B)
    BY <2>1
  <2> QED BY <2>2 DEF A, B
<1>3. UNCHANGED <<queue, redrive, bridge>> => Queues'
  <2> SUFFICES ASSUME UNCHANGED <<queue, redrive, bridge>> PROVE Queues'
    OBVIOUS
  <2>1. queue' \in [Agents -> Seq(Recorded')]
    BY <1>2 DEF IInv, Queues
  <2>2. redrive' \in [Slots -> [batch : SUBSET Recorded', cur : Agents \cup {None}]]
    BY DEF IInv, Queues
  <2>3. bridge' \in [Agents -> Worker']
    <3>1. \A w \in Worker : w \in Worker'
      BY <1>2 DEF Worker
    <3> QED BY <3>1 DEF IInv, Queues
  <2> QED BY <2>1, <2>2, <2>3 DEF Queues
<1> QED BY <1>1, <1>3

\* A bridge moves on while the native thread and the events only gain.
LEMMA WorkerMoves ==
    ASSUME IInv, Recorded \subseteq Recorded',
           \A i \in Ids : told[i] \subseteq told'[i],
           \A i \in Ids : native[i] = "persisted" => native'[i] = "persisted",
           NEW a \in Agents, NEW w \in Worker, bridge' = [bridge EXCEPT ![a] = w],
           w.pc \in {"store", "ack"} => w.batch # <<>>,
           w.pc = "store" => /\ native'[Head(w.batch)] = "persisted"
                             /\ "delivered" \in told'[Head(w.batch)]
    PROVE  Settling' /\ bridge' \in [Agents -> Worker']
<1>1. \A s \in Seq(Recorded) : s \in Seq(Recorded')
  <2> DEFINE A == Recorded
             B == Recorded'
  <2>1. A \subseteq B
    OBVIOUS
  <2> HIDE DEF A, B
  <2>2. \A s \in Seq(A) : s \in Seq(B)
    BY <2>1
  <2> QED BY <2>2 DEF A, B
<1>2. \A x \in Worker : x \in Worker'
  BY <1>1 DEF Worker
<1>3. bridge \in [Agents -> Worker]
  BY DEF IInv, Queues
<1>4. bridge' \in [Agents -> Worker']
  BY <1>2, <1>3
<1>5. \A b \in Agents : bridge'[b] = IF b = a THEN w ELSE bridge[b]
  BY <1>3
<1>6. \A b \in Agents : bridge[b].pc = "store" => Head(bridge[b].batch) \in Ids
  <2> SUFFICES ASSUME NEW b \in Agents, bridge[b].pc = "store" PROVE Head(bridge[b].batch) \in Ids
    OBVIOUS
  <2>1. bridge[b].batch \in Seq(Recorded) /\ bridge[b].batch # <<>>
    BY <1>3 DEF IInv, Settling, Worker
  <2> QED BY <2>1 DEF Recorded
<1>7. Settling'
  <2> SUFFICES ASSUME NEW b \in Agents
               PROVE  /\ bridge'[b].pc \in {"store", "ack"} => bridge'[b].batch # <<>>
                      /\ bridge'[b].pc = "store" => /\ native'[Head(bridge'[b].batch)] = "persisted"
                                                   /\ "delivered" \in told'[Head(bridge'[b].batch)]
    BY DEF Settling
  <2>1. CASE b = a
    BY <1>5, <2>1
  <2>2. CASE b # a
    BY <1>5, <1>6, <2>2 DEF IInv, Settling
  <2> QED BY <2>1, <2>2
<1> QED BY <1>4, <1>7

LEMMA RecordQueuedStep ==
    ASSUME IInv, NEW c \in Calls, RecordQueued(c)
    PROVE  IInv'
<1> DEFINE i == call[c].id
<1>1. UNCHANGED <<ledger, clock, registered, current, queue, resv, recent, redrive, bridge, native>>
  BY DEF RecordQueued, roster, memory
<1>2. /\ i \in Ids
      /\ \/ ledger[i].st # "absent" /\ call' = [call EXCEPT ![c].pc = "enqueue"] /\ told' = told
         \/ /\ ledger[i].st = "absent" /\ call' = [call EXCEPT ![c].pc = "insert"]
            /\ told' = [told EXCEPT ![i] = @ \cup {"queued"}]
  BY DEF IInv, Handlers, RecordQueued, At
<1>3. Recorded' = Recorded
  BY <1>1 DEF Recorded
<1>4. \A j \in Ids : told[j] \subseteq told'[j] /\ told'[j] \subseteq told[j] \cup {"queued"}
  BY <1>2 DEF IInv, BookTypes
<1>5. BookTypes'
  BY <1>1, <1>2 DEF IInv, BookTypes
<1>6. BookIsTrue'
  BY <1>1, <1>4 DEF IInv, BookIsTrue
<1>7. MemoryTypes'
  BY <1>1, <1>2 DEF IInv, MemoryTypes, Handler
<1>8. Sends' /\ Queues'
  BY <1>1, <1>3, BookGrows
<1>9. Handlers'
  <2> SUFFICES ASSUME NEW d \in Calls
               PROVE  /\ call'[d].pc \in {"record", "insert", "enqueue", "answered"} => call'[d].id \in Ids
                      /\ call'[d].pc \in {"record", "insert", "enqueue"} => call'[d].to \in Agents
                      /\ call'[d].pc = "insert" => "queued" \in told'[call'[d].id]
                      /\ call'[d].pc \in {"enqueue", "answered"} => call'[d].id \in Recorded
    BY <1>3 DEF Handlers
  <2>1. CASE d = c
    BY <1>2, <2>1 DEF IInv, MemoryTypes, Handler, Handlers, Recorded, BookTypes, RecordQueued
  <2>2. CASE d # c
    BY <1>2, <1>4, <2>2 DEF IInv, MemoryTypes, Handlers
  <2> QED BY <2>1, <2>2
<1>10. Settling'
  <2> SUFFICES ASSUME NEW a \in Agents, bridge[a].pc = "store"
               PROVE  "delivered" \in told'[Head(bridge[a].batch)]
    BY <1>1 DEF IInv, Settling
  <2>1. bridge[a].batch \in Seq(Recorded) /\ bridge[a].batch # <<>> /\ "delivered" \in told[Head(bridge[a].batch)]
    BY DEF IInv, Queues, Settling, Worker
  <2>2. Head(bridge[a].batch) \in Ids
    BY <2>1 DEF Recorded
  <2> QED BY <1>4, <2>1, <2>2
<1> QED BY <1>5, <1>6, <1>7, <1>8, <1>9, <1>10 DEF IInv

LEMMA InsertPendingStep ==
    ASSUME IInv, NEW c \in Calls, InsertPending(c)
    PROVE  IInv'
<1> DEFINE i == call[c].id
           m == [st |-> "pending", text |-> call[c].text, born |-> call[c].born]
<1>1. UNCHANGED <<told, clock, registered, current, queue, resv, recent, redrive, bridge, native>>
  BY DEF InsertPending, roster, memory
<1>2. /\ i \in Ids /\ "queued" \in told[i] /\ m \in Message /\ m.st = "pending"
      /\ ledger' = [ledger EXCEPT ![i] = m] /\ call' = [call EXCEPT ![c].pc = "enqueue"]
  BY DEF IInv, Handlers, MemoryTypes, Handler, Message, InsertPending, At
<1> HIDE DEF m
<1>3. Recorded \subseteq Recorded' /\ i \in Recorded'
  BY <1>2 DEF IInv, BookTypes, Recorded
<1>4. BookTypes'
  BY <1>1, <1>2 DEF IInv, BookTypes
<1>5. BookIsTrue'
  BY <1>1, <1>2 DEF IInv, BookIsTrue, BookTypes
<1>6. MemoryTypes'
  BY <1>1, <1>2 DEF IInv, MemoryTypes, Handler
<1>7. Sends' /\ Queues'
  BY <1>1, <1>3, BookGrows
<1>8. Handlers'
  <2> SUFFICES ASSUME NEW d \in Calls
               PROVE  /\ call'[d].pc \in {"record", "insert", "enqueue", "answered"} => call'[d].id \in Ids
                      /\ call'[d].pc \in {"record", "insert", "enqueue"} => call'[d].to \in Agents
                      /\ call'[d].pc = "insert" => "queued" \in told[call'[d].id]
                      /\ call'[d].pc \in {"enqueue", "answered"} => call'[d].id \in Recorded'
    BY <1>1 DEF Handlers
  <2>1. CASE d = c
    BY <1>2, <1>3, <2>1 DEF IInv, MemoryTypes, Handler, Handlers, InsertPending
  <2>2. CASE d # c
    BY <1>2, <1>3, <2>2 DEF IInv, MemoryTypes, Handlers
  <2> QED BY <2>1, <2>2
<1>9. Settling'
  BY <1>1 DEF IInv, Settling
<1> QED BY <1>4, <1>5, <1>6, <1>7, <1>8, <1>9 DEF IInv

LEMMA RecordFailsStep ==
    ASSUME IInv, NEW c \in Calls, RecordFails(c)
    PROVE  IInv'
<1>1. /\ UNCHANGED <<ledger, told, clock, registered, current, queue, resv, recent, redrive, bridge, native>>
      /\ call' = [call EXCEPT ![c] = Refused]
  BY DEF RecordFails, book, roster, memory
<1>2. Refused \in Handler /\ Refused.pc = "refused"
  BY DEF Refused, NewCall, Handler
<1>3. MemoryTypes' /\ Handlers'
  BY <1>1, <1>2, BookStays DEF IInv, MemoryTypes, Handlers
<1> QED BY <1>1, <1>3, BookStays DEF IInv

LEMMA EnqueueStep ==
    ASSUME IInv, NEW c \in Calls, Enqueue(c)
    PROVE  IInv'
<1> DEFINE i == call[c].id
           done == [NewCall EXCEPT !.pc = "answered", !.id = i]
<1>1. /\ UNCHANGED <<ledger, told, clock, registered, current, redrive, bridge, native>>
      /\ call' = [call EXCEPT ![c] = done] /\ call[c].pc = "enqueue"
      /\ EnqueueOnce(call[c].text, call[c].to, i, call[c].born)
  BY DEF Enqueue, Answer, book, roster
<1>2. i \in Recorded /\ i \in Ids /\ call[c].born \in Nat /\ call[c].to \in Agents
  BY <1>1 DEF IInv, Handlers, MemoryTypes, Handler, Recorded
<1>3. done \in Handler /\ done.pc = "answered" /\ done.id = i
  BY <1>2 DEF NewCall, Handler
<1>4. resv' \in [Keys -> Reservation] /\ recent' \in [Keys -> Reservation] /\ Sends'
      /\ queue' \in [Agents -> Seq(Recorded)]
  BY <1>1, <1>2, EnqueueOnceFacts DEF IInv
<1>5. BookTypes' /\ BookIsTrue' /\ Recorded' = Recorded /\ Settling'
  BY <1>1, BookStays
<1> HIDE DEF done
<1>6. MemoryTypes' /\ Handlers'
  BY <1>1, <1>2, <1>3, <1>4, <1>5 DEF IInv, MemoryTypes, Handlers
<1>7. Queues'
  BY <1>1, <1>4, <1>5 DEF IInv, Queues, Worker
<1> QED BY <1>4, <1>5, <1>6, <1>7 DEF IInv

-----------------------------------------------------------------------------
(* Redrive, registrations and the life of the bus.                          *)

LEMMA RedriveOneStep ==
    ASSUME IInv, NEW s \in Slots, NEW i \in Ids, RedriveOne(s, i)
    PROVE  IInv'
<1> DEFINE rest == redrive[s].batch \ {i}
           cur == redrive[s].cur
           pass == IF rest = {} THEN Resting ELSE [redrive[s] EXCEPT !.batch = rest]
<1>1. /\ UNCHANGED <<ledger, told, clock, registered, current, call, bridge, native>>
      /\ i \in redrive[s].batch /\ redrive' = [redrive EXCEPT ![s] = pass]
      /\ \/ cur \in registered /\ EnqueueOnce(ledger[i].text, cur, i, ledger[i].born)
         \/ UNCHANGED <<queue, resv, recent>>
  BY DEF RedriveOne, Redriven, ResolvesSession, book, roster, memory
<1>2. redrive[s] \in [batch : SUBSET Recorded, cur : Agents \cup {None}]
  BY DEF IInv, Queues
<1>3. i \in Recorded /\ pass \in [batch : SUBSET Recorded, cur : Agents \cup {None}]
  BY <1>1, <1>2 DEF Resting
<1>4. BookTypes' /\ BookIsTrue' /\ Recorded' = Recorded /\ Settling' /\ Handlers'
  BY <1>1, BookStays
<1>5. /\ resv' \in [Keys -> Reservation] /\ recent' \in [Keys -> Reservation]
      /\ Sends' /\ queue' \in [Agents -> Seq(Recorded)]
  <2>1. CASE cur \in registered /\ EnqueueOnce(ledger[i].text, cur, i, ledger[i].born)
    <3>1. cur \in Agents /\ ledger[i].born \in Nat
      BY <2>1 DEF IInv, MemoryTypes, BookTypes, Message
    <3> HIDE DEF cur
    <3> QED BY <1>1, <1>3, <2>1, <3>1, EnqueueOnceFacts DEF IInv
  <2>2. CASE UNCHANGED <<queue, resv, recent>>
    BY <1>1, <2>2, BookStays DEF IInv, MemoryTypes, Queues
  <2> QED BY <1>1, <2>1, <2>2
<1> HIDE DEF pass
<1>6. MemoryTypes'
  BY <1>1, <1>5 DEF IInv, MemoryTypes
<1>7. Queues'
  BY <1>1, <1>3, <1>4, <1>5 DEF IInv, Queues, Worker
<1> QED BY <1>4, <1>5, <1>6, <1>7 DEF IInv

LEMMA BeginFacts ==
    ASSUME NEW s \in Slots, NEW cur \in Agents \cup {None}, Queues
    PROVE  Begin(s, cur) \in [Slots -> [batch : SUBSET Recorded, cur : Agents \cup {None}]]
<1>1. Resting \in [batch : SUBSET Recorded, cur : Agents \cup {None}]
  BY DEF Resting
<1>2. Pending \subseteq Recorded
  BY DEF Pending, Recorded
<1> HIDE DEF Recorded
<1> QED BY <1>1, <1>2 DEF Queues, Begin

LEMMA RegisterStep ==
    ASSUME IInv, NEW a \in Agents, Register(a)
    PROVE  IInv'
<1>1. /\ UNCHANGED <<ledger, told, clock, queue, resv, recent, call, native>>
      /\ registered' = registered \cup {a} /\ current' = a /\ redrive' = Begin(a, a)
      /\ \/ bridge' = bridge
         \/ bridge[a] = Down /\ bridge' = [bridge EXCEPT ![a].pc = "idle"]
  BY DEF Register, book, memory
<1>2. BookTypes' /\ BookIsTrue' /\ Recorded' = Recorded /\ Handlers' /\ Sends'
  BY <1>1, BookStays
<1>3. MemoryTypes'
  BY <1>1 DEF IInv, MemoryTypes
<1>4. redrive' \in [Slots -> [batch : SUBSET Recorded, cur : Agents \cup {None}]]
  BY <1>1, BeginFacts DEF IInv, Slots
<1>5. bridge' \in [Agents -> Worker]
  BY <1>1, ZenonT(60) DEF IInv, Queues, Worker
<1>6. Queues'
  BY <1>1, <1>2, <1>4, <1>5 DEF IInv, Queues, Worker
<1>7. Settling'
  BY <1>1, ZenonT(60) DEF IInv, Settling, Queues, Worker
<1> QED BY <1>2, <1>3, <1>6, <1>7 DEF IInv

LEMMA DropStep ==
    ASSUME IInv, NEW a \in Agents, Unregister(a) \/ PruneStale(a)
    PROVE  IInv'
<1>1. /\ UNCHANGED <<ledger, told, clock, current, resv, recent, call, redrive, native>>
      /\ registered' = registered \ {a} /\ queue' = [queue EXCEPT ![a] = <<>>]
      /\ (bridge' = bridge \/ bridge' = [bridge EXCEPT ![a] = Down])
  BY DEF Unregister, PruneStale, Drop, book
<1>2. BookTypes' /\ BookIsTrue' /\ Recorded' = Recorded /\ Handlers' /\ Sends'
  BY <1>1, BookStays
<1>3. MemoryTypes'
  BY <1>1 DEF IInv, MemoryTypes
<1>4. <<>> \in Seq(Recorded) /\ Down \in Worker
  BY DEF Down, Worker
<1>5. Queues'
  <2> HIDE DEF Recorded
  <2>1. queue' \in [Agents -> Seq(Recorded)] /\ bridge' \in [Agents -> Worker]
    BY <1>1, <1>4 DEF IInv, Queues
  <2> QED BY <1>1, <1>2, <2>1 DEF IInv, Queues, Worker
<1>6. Settling'
  <2>1. Down.pc = "down"
    BY DEF Down
  <2>2. CASE bridge' = [bridge EXCEPT ![a] = Down]
    BY <1>1, <1>2, <1>4, <2>1, <2>2, WorkerMoves
  <2> QED BY <1>1, <2>2, BookStays
<1> QED BY <1>2, <1>3, <1>5, <1>6 DEF IInv

LEMMA RestartStep == IInv /\ Restart => IInv'
<1> SUFFICES ASSUME IInv, Restart PROVE IInv'
  OBVIOUS
<1>1. /\ UNCHANGED <<ledger, told, clock, registered, current, bridge, native>>
      /\ queue' = [a \in Agents |-> <<>>]
      /\ resv' = [k \in Keys |-> NoSend] /\ recent' = [k \in Keys |-> NoSend]
      /\ call' = [c \in Calls |-> IF call[c].pc \in {"new", "answered"} THEN call[c] ELSE Refused]
      /\ redrive' = [[s \in Slots |-> Resting] EXCEPT !["boot"] = Begin("boot", current)["boot"]]
  BY DEF Restart, book, roster
<1>2. BookTypes' /\ BookIsTrue' /\ Recorded' = Recorded /\ Settling'
  BY <1>1, BookStays
<1>3. Refused \in Handler /\ Refused.pc = "refused" /\ NoSend \in Reservation
  BY DEF Refused, NewCall, Handler, NoSend, Reservation
<1>4. MemoryTypes'
  BY <1>1, <1>3 DEF IInv, MemoryTypes
<1>5. Handlers'
  BY <1>1, <1>2, <1>3 DEF IInv, Handlers
<1>6. Sends'
  BY <1>1 DEF Sends
<1>7. redrive' \in [Slots -> [batch : SUBSET Recorded, cur : Agents \cup {None}]]
  <2>1. "boot" \in Slots
    BY DEF Slots
  <2>2. Begin("boot", current) \in [Slots -> [batch : SUBSET Recorded, cur : Agents \cup {None}]]
    BY <2>1, BeginFacts DEF IInv, MemoryTypes
  <2>3. Resting \in [batch : SUBSET Recorded, cur : Agents \cup {None}]
    BY DEF Resting
  <2> QED BY <1>1, <2>1, <2>2, <2>3
<1>8. Queues'
  BY <1>1, <1>2, <1>7 DEF IInv, Queues, Worker
<1> QED BY <1>2, <1>4, <1>5, <1>6, <1>8 DEF IInv

LEMMA ServeTickStep == IInv /\ (Serve \/ Tick) => IInv'
<1> SUFFICES ASSUME IInv, Serve \/ Tick PROVE IInv'
  OBVIOUS
<1>1. /\ UNCHANGED <<ledger, told, registered, current, queue, resv, recent, call, redrive, bridge, native>>
      /\ (clock' = clock \/ clock' = clock + 1)
  BY DEF Serve, Tick, book, roster, memory
<1>2. MemoryTypes'
  BY <1>1 DEF IInv, MemoryTypes
<1> QED BY <1>1, <1>2, BookStays DEF IInv

-----------------------------------------------------------------------------
(* The bridge and the native thread.                                        *)

\* A step of a bridge that leaves the book alone and at most takes messages off
\* its own queue.
LEMMA BridgeOnly ==
    ASSUME IInv, NEW a \in Agents, NEW w \in Worker,
           UNCHANGED <<ledger, told, clock, registered, current, resv, recent, call, redrive>>,
           native' \in [Ids -> {"unknown", "pending", "persisted"}],
           \A i \in Ids : native[i] = "persisted" <=> native'[i] = "persisted",
           queue' = queue \/ \E acks : queue' = [queue EXCEPT ![a] = Without(@, acks)],
           bridge' = [bridge EXCEPT ![a] = w],
           w.pc # "store", w.pc = "ack" => w.batch # <<>>
    PROVE  IInv'
<1>1. Recorded' = Recorded
  BY DEF Recorded
<1>2. Settling' /\ bridge' \in [Agents -> Worker']
  BY <1>1, WorkerMoves
<1>3. BookTypes' /\ BookIsTrue'
  BY DEF IInv, BookTypes, BookIsTrue
<1>4. MemoryTypes' /\ Sends' /\ Handlers'
  BY <1>1 DEF IInv, MemoryTypes, Sends, Handlers
<1>5. queue' \in [Agents -> Seq(Recorded)]
  <2>1. queue \in [Agents -> Seq(Recorded)]
    BY DEF IInv, Queues
  <2>2. ASSUME NEW acks, queue' = [queue EXCEPT ![a] = Without(@, acks)]
        PROVE  queue' \in [Agents -> Seq(Recorded)]
    <3> HIDE DEF Recorded
    <3>1. Without(queue[a], acks) \in Seq(Recorded)
      BY <2>1, WithoutSubset
    <3> QED BY <2>1, <2>2, <3>1
  <2> QED BY <2>1, <2>2
<1>6. Queues'
  BY <1>1, <1>2, <1>5 DEF IInv, Queues
<1> QED BY <1>2, <1>3, <1>4, <1>6 DEF IInv

\* The steps of the bridge that neither read a status nor write the ledger.
LEMMA SweepStep ==
    ASSUME IInv, NEW a \in Agents,
           RetryAcks(a) \/ Poll(a) \/ SweepDone(a) \/ Ack(a) \/ AckFails(a) \/ Crash(a)
    PROVE  IInv'
<1> DEFINE b == bridge[a]
<1>1. /\ b \in Worker /\ b.batch \in Seq(Recorded) /\ b.acks \subseteq Ids
      /\ queue[a] \in Seq(Recorded) /\ Recorded \subseteq Ids
      /\ b.pc = "ack" => b.batch # <<>>
  BY DEF IInv, Queues, Worker, Settling, Recorded
<1> HIDE DEF Recorded
<1>2. native \in [Ids -> {"unknown", "pending", "persisted"}]
  BY DEF IInv, BookTypes
<1>3. \A acks \in SUBSET Ids : Idle(acks) \in Worker /\ Idle(acks).pc = "idle"
  BY DEF Idle, Worker
<1>4. CASE RetryAcks(a)
  BY <1>1, <1>2, <1>3, <1>4, BridgeOnly DEF RetryAcks, Put, book, roster
<1>5. CASE Poll(a)
  <2> DEFINE w == [b EXCEPT !.pc = "submit", !.batch = queue[a]]
  <2>1. w \in Worker /\ w.pc = "submit"
    BY <1>1 DEF Worker
  <2> HIDE DEF w
  <2>2. bridge' = [bridge EXCEPT ![a] = w]
    BY <1>5 DEF Poll, Put, w
  <2> QED BY <1>2, <1>5, <2>1, <2>2, BridgeOnly DEF Poll, book, roster, memory
<1>6. CASE SweepDone(a)
  BY <1>1, <1>2, <1>3, <1>6, BridgeOnly DEF SweepDone, Put, book, roster, memory
<1>7. CASE Ack(a)
  <2> DEFINE w == [b EXCEPT !.pc = "settle", !.batch = Tail(@)]
  <2>1. w \in Worker /\ w.pc = "settle"
    <3>1. Tail(b.batch) \in Seq(Recorded)
      BY <1>1, <1>7 DEF Ack
    <3> QED BY <1>1, <3>1 DEF Worker
  <2> HIDE DEF w
  <2>2. bridge' = [bridge EXCEPT ![a] = w]
    BY <1>7 DEF Ack, Put, w
  <2> QED BY <1>2, <1>7, <2>1, <2>2, BridgeOnly DEF Ack, Acked, book, roster
<1>8. CASE AckFails(a)
  <2>1. b.acks \cup {Head(b.batch)} \subseteq Ids
    BY <1>1, <1>8 DEF AckFails
  <2> QED BY <1>2, <1>3, <1>8, <2>1, BridgeOnly DEF AckFails, Acked, Put, book, roster
<1>9. CASE Crash(a)
  <2>1. Down \in Worker /\ Down.pc = "down"
    BY DEF Down, Worker
  <2>2. native' = [i \in Ids |-> IF native[i] = "pending" THEN "unknown" ELSE native[i]]
    BY <1>9 DEF Crash
  <2>3. /\ native' \in [Ids -> {"unknown", "pending", "persisted"}]
        /\ \A i \in Ids : native[i] = "persisted" <=> native'[i] = "persisted"
    BY <1>2, <2>2
  <2> QED BY <1>9, <2>1, <2>3, BridgeOnly DEF Crash, Put, book, roster, memory
<1> QED BY <1>4, <1>5, <1>6, <1>7, <1>8, <1>9

LEMMA SubmitStep ==
    ASSUME IInv, NEW a \in Agents, NEW sent \in SUBSET Unknown(a), SubmitAll(a, sent)
    PROVE  IInv'
<1> DEFINE w == [bridge[a] EXCEPT !.pc = "settle"]
<1>1. native \in [Ids -> {"unknown", "pending", "persisted"}]
  BY DEF IInv, BookTypes
<1>2. \A i \in sent : native[i] = "unknown"
  BY DEF Unknown
<1>3. native' = [i \in Ids |-> IF i \in sent THEN "pending" ELSE native[i]]
  BY DEF SubmitAll
<1>4. /\ native' \in [Ids -> {"unknown", "pending", "persisted"}]
      /\ \A i \in Ids : native[i] = "persisted" <=> native'[i] = "persisted"
  BY <1>1, <1>2, <1>3
<1>5. w \in Worker /\ w.pc = "settle"
  BY DEF IInv, Queues, Worker
<1> HIDE DEF w
<1>6. bridge' = [bridge EXCEPT ![a] = w]
  BY DEF SubmitAll, Put, w
<1> QED BY <1>4, <1>5, <1>6, BridgeOnly DEF SubmitAll, book, roster, memory

LEMMA SettleStep ==
    ASSUME IInv, NEW a \in Agents, Settle(a)
    PROVE  IInv'
<1> DEFINE b == bridge[a]
           i == Head(b.batch)
<1>1. b \in Worker /\ b.batch \in Seq(Recorded) /\ b.batch # <<>> /\ i \in Ids
  <2>1. b \in Worker /\ b.batch \in Seq(Recorded) /\ b.batch # <<>>
    BY DEF IInv, Queues, Worker, Settle
  <2> QED BY <2>1 DEF Recorded
<1>2. UNCHANGED <<ledger, clock, registered, current, queue, resv, recent, call, redrive, native>>
  BY DEF Settle, roster, memory
<1>3. native \in [Ids -> {"unknown", "pending", "persisted"}]
  BY DEF IInv, BookTypes
<1>4. Tail(b.batch) \in Seq(Recorded)
  <2> HIDE DEF Recorded, b
  <2> QED BY <1>1
<1>5. CASE told' = told /\ Put(a, [bridge[a] EXCEPT !.batch = Tail(@)])
  <2> DEFINE w == [b EXCEPT !.batch = Tail(@)]
  <2>1. w \in Worker /\ w.pc = "settle"
    BY <1>1, <1>4 DEF Worker, Settle
  <2> HIDE DEF w
  <2>2. bridge' = [bridge EXCEPT ![a] = w]
    BY <1>5 DEF Put, w
  <2> QED BY <1>2, <1>3, <1>5, <2>1, <2>2, BridgeOnly
<1>6. CASE told' = told /\ Put(a, [bridge[a] EXCEPT !.pc = "ack"])
  <2> DEFINE w == [b EXCEPT !.pc = "ack"]
  <2>1. w \in Worker /\ w.pc = "ack" /\ w.batch # <<>>
    BY <1>1 DEF Worker
  <2> HIDE DEF w
  <2>2. bridge' = [bridge EXCEPT ![a] = w]
    BY <1>6 DEF Put, w
  <2> QED BY <1>2, <1>3, <1>6, <2>1, <2>2, BridgeOnly
<1>7. CASE /\ native[i] = "persisted" /\ Put(a, [bridge[a] EXCEPT !.pc = "store"])
           /\ told' = [told EXCEPT ![i] = @ \cup {"delivered"}]
  <2> DEFINE w == [b EXCEPT !.pc = "store"]
  <2>1. w \in Worker /\ w.pc = "store" /\ w.batch # <<>> /\ Head(w.batch) = i
    BY <1>1 DEF Worker
  <2>2. /\ told' \in [Ids -> SUBSET {"queued", "delivered"}]
        /\ \A j \in Ids : told[j] \subseteq told'[j] /\ told'[j] \subseteq told[j] \cup {"delivered"}
        /\ \A j \in Ids : j # i => told'[j] = told[j]
        /\ "delivered" \in told'[i]
    BY <1>1, <1>7 DEF IInv, BookTypes
  <2>3. Recorded' = Recorded
    BY <1>2 DEF Recorded
  <2>4. bridge' = [bridge EXCEPT ![a] = w]
    BY <1>7 DEF Put
  <2> HIDE DEF w, i
  <2>5. Settling' /\ bridge' \in [Agents -> Worker']
    BY <1>2, <1>7, <2>1, <2>2, <2>3, <2>4, WorkerMoves
  <2>6. BookTypes' /\ BookIsTrue'
    BY <1>2, <1>7, <2>2 DEF IInv, BookTypes, BookIsTrue
  <2>7. MemoryTypes' /\ Sends'
    BY <1>2, <2>3 DEF IInv, MemoryTypes, Sends
  <2>8. Handlers'
    BY <1>2, <2>2, <2>3 DEF IInv, Handlers
  <2>9. Queues'
    BY <1>2, <2>3, <2>5 DEF IInv, Queues
  <2> QED BY <2>5, <2>6, <2>7, <2>8, <2>9 DEF IInv
<1> QED BY <1>5, <1>6, <1>7 DEF Settle

\* The ledger's state of the message at the head of the batch is set.
LEMMA WriteStep ==
    ASSUME IInv, NEW a \in Agents, RecordDelivered(a) \/ RecordQuarantined(a)
    PROVE  IInv'
<1> DEFINE b == bridge[a]
           i == Head(b.batch)
           w == [b EXCEPT !.pc = "ack"]
<1>1. b \in Worker /\ b.batch \in Seq(Recorded) /\ b.batch # <<>> /\ i \in Recorded
  <2>1. b \in Worker /\ b.batch \in Seq(Recorded) /\ b.batch # <<>>
    BY DEF IInv, Queues, Worker, Settling, RecordDelivered, RecordQuarantined
  <2> HIDE DEF b, Recorded
  <2> QED BY <2>1
<1>2. w \in Worker /\ w.pc = "ack" /\ w.batch # <<>>
  BY <1>1 DEF Worker
<1>3. UNCHANGED <<told, clock, registered, current, queue, resv, recent, call, redrive, native>>
  BY DEF RecordDelivered, RecordQuarantined, roster, memory
<1>4. PICK st \in {"delivered", "quarantined"} :
          /\ ledger' = [ledger EXCEPT ![i].st = st]
          /\ st = "delivered" => native[i] = "persisted" /\ "delivered" \in told[i]
  BY DEF RecordDelivered, RecordQuarantined, IInv, Settling
<1>5. bridge' = [bridge EXCEPT ![a] = w]
  BY DEF RecordDelivered, RecordQuarantined, Put
<1>6. i \in Ids /\ ledger[i].st # "absent"
  BY <1>1 DEF Recorded
<1> HIDE DEF i, w
<1>7. /\ BookTypes'
      /\ \A j \in Ids : ledger'[j].st = IF j = i THEN st ELSE ledger[j].st
  BY <1>3, <1>4, <1>6 DEF IInv, BookTypes, Message
<1>8. Recorded' = Recorded
  BY <1>6, <1>7 DEF Recorded
<1>9. BookIsTrue'
  BY <1>3, <1>4, <1>6, <1>7 DEF IInv, BookIsTrue
<1>10. Settling' /\ bridge' \in [Agents -> Worker']
  BY <1>2, <1>3, <1>5, <1>8, WorkerMoves
<1>11. MemoryTypes' /\ Sends' /\ Handlers'
  BY <1>3, <1>8 DEF IInv, MemoryTypes, Sends, Handlers
<1>12. Queues'
  BY <1>3, <1>8, <1>10 DEF IInv, Queues
<1> QED BY <1>7, <1>9, <1>10, <1>11, <1>12 DEF IInv

LEMMA PersistStep ==
    ASSUME IInv, NEW i \in Ids, Persist(i)
    PROVE  IInv'
<1>1. /\ UNCHANGED <<ledger, told, clock, registered, current, queue, resv, recent, call, redrive, bridge>>
      /\ native' = [native EXCEPT ![i] = "persisted"]
  BY DEF Persist, book, roster, memory
<1>2. Recorded' = Recorded
  BY <1>1 DEF Recorded
<1>3. /\ native' \in [Ids -> {"unknown", "pending", "persisted"}]
      /\ \A j \in Ids : native[j] = "persisted" => native'[j] = "persisted"
  BY <1>1 DEF IInv, BookTypes
<1>4. BookTypes' /\ BookIsTrue'
  BY <1>1, <1>3 DEF IInv, BookTypes, BookIsTrue
<1>5. MemoryTypes' /\ Sends' /\ Handlers'
  BY <1>1, <1>2 DEF IInv, MemoryTypes, Sends, Handlers
<1>6. Queues'
  BY <1>1, <1>2 DEF IInv, Queues, Worker
<1>7. Settling'
  <2> SUFFICES ASSUME NEW a \in Agents, bridge[a].pc = "store"
               PROVE  native'[Head(bridge[a].batch)] = "persisted"
    BY <1>1 DEF IInv, Settling
  <2>1. bridge[a].batch \in Seq(Recorded) /\ bridge[a].batch # <<>>
    BY DEF IInv, Queues, Settling, Worker
  <2>2. Head(bridge[a].batch) \in Ids
    BY <2>1 DEF Recorded
  <2> QED BY <1>3, <2>2 DEF IInv, Settling
<1> QED BY <1>4, <1>5, <1>6, <1>7 DEF IInv

-----------------------------------------------------------------------------
(* The theorems.                                                            *)

LEMMA InitInv == Init => IInv
<1> SUFFICES ASSUME Init PROVE IInv
  OBVIOUS
<1>1. NoMessage \in Message /\ NoMessage.st = "absent" /\ NoSend \in Reservation
  BY DEF NoMessage, Message, NoSend, Reservation
<1>2. NewCall \in Handler /\ NewCall.pc = "new"
  BY DEF NewCall, Handler
<1>3. BookTypes /\ BookIsTrue
  BY <1>1 DEF Init, BookTypes, BookIsTrue
<1>4. MemoryTypes
  BY <1>1, <1>2 DEF Init, MemoryTypes
<1>5. Sends /\ Handlers
  BY <1>2 DEF Init, Sends, Handlers
<1>6. Down \in Worker /\ Down.pc = "down" /\ Resting \in [batch : SUBSET Recorded, cur : Agents \cup {None}]
  BY DEF Down, Worker, Resting
<1>7. Queues
  BY <1>6 DEF Init, Queues
<1>8. Settling
  BY <1>6 DEF Init, Settling
<1> QED BY <1>3, <1>4, <1>5, <1>7, <1>8 DEF IInv

LEMMA Inductive == IInv /\ [Next]_vars => IInv'
<1> SUFFICES ASSUME IInv, [Next]_vars PROVE IInv'
  OBVIOUS
<1>1. ASSUME NEW c \in Calls, CallStep(c) \/ RecordFails(c) PROVE IInv'
  BY <1>1, RecordQueuedStep, InsertPendingStep, EnqueueStep, RecordFailsStep DEF CallStep
<1>2. ASSUME NEW c \in Calls, NEW t \in Texts, NEW a \in Agents, Send(c, t, a) PROVE IInv'
  BY <1>2, SendStep
<1>3. ASSUME NEW s \in Slots, RedriveStep(s) PROVE IInv'
  BY <1>3, RedriveOneStep DEF RedriveStep
<1>4. ASSUME NEW a \in Agents, RetryAcks(a) \/ Poll(a) \/ SweepDone(a) \/ Ack(a) \/ AckFails(a) \/ Crash(a)
      PROVE  IInv'
  BY <1>4, SweepStep
<1>5. ASSUME NEW a \in Agents, Submit(a) \/ SubmitRefused(a) PROVE IInv'
  BY <1>5, SubmitStep DEF Submit, SubmitRefused
<1>6. ASSUME NEW a \in Agents, Settle(a) \/ RecordDelivered(a) \/ RecordQuarantined(a) PROVE IInv'
  BY <1>6, SettleStep, WriteStep
<1>7. ASSUME NEW a \in Agents, Start(a) \/ Refresh(a) \/ Unregister(a) \/ PruneStale(a) PROVE IInv'
  BY <1>7, RegisterStep, DropStep DEF Start, Refresh
<1>8. ASSUME NEW i \in Ids, Persist(i) PROVE IInv'
  BY <1>8, PersistStep
<1>9. CASE Restart \/ Serve \/ Tick
  BY <1>9, RestartStep, ServeTickStep
<1>10. CASE UNCHANGED vars
  BY <1>10, BookStays DEF vars, IInv
<1> QED BY <1>1, <1>2, <1>3, <1>4, <1>5, <1>6, <1>7, <1>8, <1>9, <1>10 DEF Next, BridgeStep

LEMMA InvariantHolds == Spec => []IInv
<1> QED BY InitInv, Inductive, PTL DEF Spec

\* send_payload_response_with_projection: an answered send is in the ledger,
\* for any number of sends, reservations, expiries, restarts and failures.
THEOREM AnsweredDurable == Spec => []AnsweredIsDurable
<1>1. IInv => AnsweredIsDurable
  BY DEF IInv, Handlers, AnsweredIsDurable, Recorded
<1> QED BY <1>1, InvariantHolds, PTL

\* record_queued and record_delivered: neither the ledger nor the events say
\* anything of a message that is not true of the native thread.
THEOREM BookTrue == Spec => []BookIsTrue
<1>1. IInv => BookIsTrue
  BY DEF IInv
<1> QED BY <1>1, InvariantHolds, PTL
=============================================================================
