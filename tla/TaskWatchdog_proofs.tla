------------------------- MODULE TaskWatchdog_proofs -------------------------
(***************************************************************************)
(* Proofs about the stale-task watchdog: RemindersAreEarned,               *)
(* FactsFindTheirReminder and CancelledLeaveTheBus for every threshold,    *)
(* retention, clock and number of events.                                  *)
(***************************************************************************)
EXTENDS TaskWatchdog, FiniteSetTheorems, TLAPS

Note == [id : Nat \X Stages, delivered : BOOLEAN]
RetiredNote == [id : Nat \X Stages, delivered : BOOLEAN, at : Nat]

-----------------------------------------------------------------------------
(* Lemmas about the operators of the scan.                                  *)

\* Every nonempty set of naturals has a least element.
LEMMA LeastNat ==
    ASSUME NEW T \in SUBSET Nat, T # {}
    PROVE  \E t \in T : \A u \in T : t <= u
<1> DEFINE R == {ss \in Nat \X Nat : ss[1] < ss[2]}
<1>1. IsWellFoundedOn(R, Nat)
  BY NatLessThanWellFounded, Zenon DEF OpToRel
<1>2. \A a, b \in Nat : a < b => <<a, b>> \in R
  OBVIOUS
<1> HIDE DEF R
<1>3. PICK t \in T : \A u \in T : ~(<<u, t>> \in R)
  BY <1>1, WFMin
<1>4. \A u \in T : ~(u < t)
  BY <1>2, <1>3
<1> QED BY <1>4

\* A nonempty set of retired reminders has an oldest one.
LEMMA OldestExists ==
    ASSUME NEW S \in SUBSET RetiredNote, S # {}
    PROVE  \E x \in S : \A y \in S : x.at <= y.at
<1> DEFINE T == {n.at : n \in S}
<1>1. T \in SUBSET Nat /\ T # {}
  BY DEF RetiredNote
<1>2. PICK t \in T : \A u \in T : t <= u
  <2> HIDE DEF T
  <2> QED BY <1>1, LeastNat
<1> QED BY <1>2

\* prune_retired_notifications can always choose what to keep: some subset has
\* the size of the retention, or everything, and only older reminders go.
LEMMA KeptSubset ==
    ASSUME NEW rs \in SUBSET RetiredNote, IsFiniteSet(rs)
    PROVE  Kept(rs) \subseteq rs
<1> DEFINE m == IF Cardinality(rs) > MaxRetired THEN MaxRetired ELSE Cardinality(rs)
           Newest(K) == \A n \in K, o \in rs \ K : o.at <= n.at
           T == {K \in SUBSET rs : Cardinality(K) >= m /\ Newest(K)}
<1>1. Cardinality(rs) \in Nat /\ m \in Nat /\ m <= Cardinality(rs)
  BY FS_CardinalityType, WatchdogAssumption
<1>2. rs \in T
  BY <1>1
<1>3. T \subseteq FiniteSubsetsOf(rs)
  BY FS_Subset DEF FiniteSubsetsOf
<1>4. PICK K \in T : \A L \in T : ~(<<L, K>> \in StrictSubsetOrdering(rs))
  <2> HIDE DEF T
  <2> QED BY <1>2, <1>3, FS_StrictSubsetOrderingWellFounded, WFMin
<1>5. IsFiniteSet(K) /\ Cardinality(K) \in Nat
  BY FS_Subset, FS_CardinalityType
<1>6. Cardinality(K) = m
  <2> SUFFICES ASSUME Cardinality(K) > m PROVE FALSE
    BY <1>1, <1>5
  <2>1. K # {}
    <3> HIDE DEF m
    <3> QED BY <1>1, FS_EmptySet
  <2>2. PICK x \in K : \A y \in K : x.at <= y.at
    BY <2>1, OldestExists
  <2> DEFINE L == K \ {x}
  <2>3. Cardinality(L) >= m
    <3>1. Cardinality(L) = Cardinality(K) - 1
      BY <1>5, FS_RemoveElement
    <3> HIDE DEF m, L
    <3> QED BY <1>1, <1>5, <3>1
  <2>4. Newest(L)
    BY <2>2 DEF RetiredNote
  <2>5. L \in T /\ <<L, K>> \in StrictSubsetOrdering(rs)
    BY <2>3, <2>4 DEF StrictSubsetOrdering
  <2> QED BY <1>4, <2>5
<1> QED BY <1>4, <1>6 DEF Kept

\* The image of a finite set under a function is finite.
LEMMA FiniteImage ==
    ASSUME NEW S, IsFiniteSet(S), NEW f, DOMAIN f = S
    PROVE  IsFiniteSet({f[x] : x \in S})
<1> DEFINE T == {f[x] : x \in S}
           g == [x \in S |-> f[x]]
<1>1. g \in Surjection(S, T)
  BY DEF Surjection
<1> QED BY <1>1, FS_Surjection

LEMMA LargestOfTwo ==
    ASSUME NEW a \in Nat, NEW b \in Nat
    PROVE  /\ Largest({a, b}) \in Nat
           /\ Largest({a, b}) \in {a, b}
           /\ a <= Largest({a, b}) /\ b <= Largest({a, b})
<1>1. \E x \in {a, b} : \A y \in {a, b} : y <= x
  OBVIOUS
<1> QED BY <1>1 DEF Largest

LEMMA RetireFinite ==
    ASSUME notes \in SUBSET Note, IsFiniteSet(notes), now \in Nat,
           retired \in SUBSET RetiredNote, IsFiniteSet(retired)
    PROVE  /\ Retire(notes) \in SUBSET RetiredNote
           /\ IsFiniteSet(Retire(notes))
           /\ Ids(Retire(notes)) = Ids(retired) \cup Ids(notes)
<1> DEFINE f == [n \in notes |-> [id |-> n.id, delivered |-> n.delivered, at |-> now]]
           T == {f[n] : n \in notes}
<1>1. IsFiniteSet(T)
  BY FiniteImage
<1>2. Retire(notes) = retired \cup T
  BY DEF Retire
<1>3. IsFiniteSet(Retire(notes))
  <2> HIDE DEF T
  <2> QED BY <1>1, <1>2, FS_Union
<1>4. Retire(notes) \in SUBSET RetiredNote
  BY DEF Retire, Note, RetiredNote
<1>5. Ids(Retire(notes)) = Ids(retired) \cup Ids(notes)
  <2>1. \A n \in notes : [id |-> n.id, delivered |-> n.delivered, at |-> now].id = n.id
    OBVIOUS
  <2>2. Ids(retired) \cup Ids(notes) \subseteq Ids(Retire(notes))
    BY <2>1 DEF Retire, Ids
  <2>3. Ids(Retire(notes)) \subseteq Ids(retired) \cup Ids(notes)
    BY DEF Retire, Ids
  <2> QED BY <2>2, <2>3
<1> QED BY <1>3, <1>4, <1>5

\* ensure_stage adds at most the reminder that is due.
LEMMA EnsureAdds ==
    ASSUME NEW ns \in SUBSET Note, IsFiniteSet(ns), NEW w \in Nat, NEW st \in Stages
    PROVE  /\ Ensure(ns, w, st) \in SUBSET Note /\ IsFiniteSet(Ensure(ns, w, st))
           /\ ns \subseteq Ensure(ns, w, st)
           /\ \A n \in Ensure(ns, w, st) : n \in ns \/ n.id = <<w, st>>
<1> DEFINE new == [id |-> <<w, st>>, delivered |-> FALSE]
<1>1. new \in Note /\ new.id = <<w, st>>
  BY DEF Note
<1>2. Ensure(ns, w, st) = ns \/ Ensure(ns, w, st) = ns \cup {new}
  BY DEF Ensure
<1> HIDE DEF new
<1>3. IsFiniteSet(ns \cup {new})
  BY FS_AddElement
<1> QED BY <1>1, <1>2, <1>3

\* The stages of a scan: old reminders stay, a new one has waited long enough.
LEMMA DueAdds ==
    ASSUME NEW ns \in SUBSET Note, IsFiniteSet(ns), NEW w \in Nat, now \in Nat, w <= now
    PROVE  /\ Due(ns, w) \in SUBSET Note /\ IsFiniteSet(Due(ns, w))
           /\ ns \subseteq Due(ns, w)
           /\ now - w < FirstStale => Due(ns, w) = ns
           /\ \A n \in Due(ns, w) : \/ n \in ns
                                    \/ /\ n.id = <<w, "first_stale">>
                                       /\ now >= w + FirstStale
                                    \/ /\ n.id = <<w, "director_escalated">>
                                       /\ now >= w + FirstStale + Escalation
<1> DEFINE one == Ensure(ns, w, "first_stale")
           two == Ensure(one, w, "director_escalated")
<1>1. /\ one \in SUBSET Note /\ IsFiniteSet(one) /\ ns \subseteq one
      /\ \A n \in one : n \in ns \/ n.id = <<w, "first_stale">>
  BY EnsureAdds DEF Stages
<1>2. /\ two \in SUBSET Note /\ IsFiniteSet(two) /\ one \subseteq two
      /\ \A n \in two : n \in one \/ n.id = <<w, "director_escalated">>
  <2> HIDE DEF one
  <2> QED BY <1>1, EnsureAdds DEF Stages
<1>3. Due(ns, w) = IF now - w < FirstStale THEN ns
                   ELSE IF now - w < FirstStale + Escalation THEN one ELSE two
  BY DEF Due
<1> HIDE DEF one, two
<1>4. CASE now - w < FirstStale
  BY <1>3, <1>4
<1>5. CASE now - w >= FirstStale /\ now - w < FirstStale + Escalation
  BY <1>1, <1>3, <1>5, WatchdogAssumption
<1>6. CASE now - w >= FirstStale + Escalation
  BY <1>1, <1>2, <1>3, <1>6, WatchdogAssumption
<1> QED BY <1>4, <1>5, <1>6, WatchdogAssumption

-----------------------------------------------------------------------------
(* The inductive invariant.                                                 *)

Times ==
    /\ now \in Nat /\ updated \in Nat /\ output \in Nat /\ seen \in Nat
    /\ updated <= now /\ output <= now /\ seen <= now
    /\ running \in BOOLEAN
    /\ view \in [running : BOOLEAN, updated : Nat, output : Nat]
    /\ view.updated <= updated /\ view.output <= now

Stored ==
    /\ watermark = {} \/ \E w \in Nat : w <= now /\ watermark = {w}
    /\ notes \in SUBSET Note /\ IsFiniteSet(notes)
    /\ retired \in SUBSET RetiredNote /\ IsFiniteSet(retired)

Passing ==
    /\ pc \in {"idle", "read", "cancel", "notify"}
    /\ pending \subseteq Ids(notes)
    /\ pc \in {"idle", "read"} => pending = {}

\* The reminders are those of the episode, and the episode is the watermark's.
Anchored ==
    /\ \A n \in notes : n.id[1] \in episode
    /\ episode \subseteq watermark

\* A watermark is not older than what any scan saw; without one, the attempt
\* stopped running in between, and that is progress the next scan will see.
Informed ==
    /\ \A w \in watermark : seen <= w
    /\ ~running => /\ seen <= updated /\ output <= updated
                   /\ pc = "read" => view.updated <= updated /\ view.output <= updated
    /\ watermark = {} => seen <= updated
    /\ pc = "read" /\ (watermark = {} \/ ~view.running) => seen <= view.updated

\* Reminders were created a threshold after their watermark.
Aged ==
    /\ \A n \in notes : n.id[1] + FirstStale <= now
    /\ \A n \in retired : n.id[1] + FirstStale <= now

\* Retired reminders are of earlier episodes than any reminder still to come.
Past ==
    /\ \A n \in retired, w \in watermark : n.id[1] < w
    /\ watermark = {} /\ running => \A n \in retired : n.id[1] < updated
    /\ watermark = {} /\ pc = "read" /\ view.running => \A n \in retired : n.id[1] < view.updated
    /\ pc = "read" /\ ~view.running /\ running =>
            /\ \A n \in notes : n.id[1] < updated
            /\ \A n \in retired : n.id[1] < updated

\* What is on the bus of an earlier episode is about to be cancelled or was
\* left there by a pass that failed.
OnTheWay ==
    \A n \in Undelivered(retired) :
        n.id \in queue => n.id \in forgotten \/ (pc = "cancel" /\ n.id \in cancelled)

IInv ==
    /\ Times /\ Stored /\ Passing /\ Anchored /\ Informed /\ Aged /\ Past /\ OnTheWay
    /\ RemindersAreEarned /\ FactsFindTheirReminder

-----------------------------------------------------------------------------
(* Steps of the attempt, of the clock and of the pass that leave the store   *)
(* alone.                                                                    *)

LEMMA InitInv == Init => IInv
<1> SUFFICES ASSUME Init PROVE IInv
  OBVIOUS
<1> USE DEF Init
<1>1. Times
  BY DEF Times, NoView
<1>2. Stored
  BY FS_EmptySet DEF Stored
<1>3. Passing /\ Anchored
  BY DEF Passing, Anchored
<1>4. Informed /\ Aged /\ Past
  BY DEF Informed, Aged, Past
<1>5. OnTheWay /\ RemindersAreEarned /\ FactsFindTheirReminder
  BY DEF OnTheWay, RemindersAreEarned, FactsFindTheirReminder, Undelivered
<1> QED BY <1>1, <1>2, <1>3, <1>4, <1>5 DEF IInv

LEMMA AttemptStep == IInv /\ (Tick \/ Progress \/ PhaseChange) => IInv'
<1> SUFFICES ASSUME IInv, Tick \/ Progress \/ PhaseChange PROVE IInv'
  OBVIOUS
<1> USE DEF IInv
<1>1. /\ UNCHANGED <<watermark, notes, retired, episode, pc, view, cancelled, pending, queue, recent,
                     online, held, seen, forgotten, pruned>>
      /\ now' \in Nat /\ now <= now'
      /\ \/ UNCHANGED <<running, updated, output>>
         \/ now' = now /\ running /\ running' = running
            /\ (updated' = updated \/ updated' = now) /\ (output' = output \/ output' = now)
         \/ now' = now /\ running' = ~running /\ updated' = now /\ output' = output
  BY DEF Times, Tick, Progress, PhaseChange, store, pass, bus, runtime, history
<1>2. Times'
  <2>1. running' \in BOOLEAN
    BY <1>1 DEF Times
  <2>2. view' \in [running : BOOLEAN, updated : Nat, output : Nat]
    BY <1>1 DEF Times
  <2>3. /\ now' \in Nat /\ updated' \in Nat /\ output' \in Nat /\ seen' \in Nat
        /\ updated' <= now' /\ output' <= now' /\ seen' <= now'
    BY <1>1 DEF Times
  <2>4. view.updated <= updated' /\ view.output <= now'
    BY <1>1 DEF Times
  <2> QED BY <1>1, <2>1, <2>2, <2>3, <2>4 DEF Times
<1>3. Stored'
  BY <1>1 DEF Stored, Times
<1>4. Passing' /\ Anchored'
  BY <1>1 DEF Passing, Anchored
<1>5. Informed'
  BY <1>1 DEF Informed, Times
<1>6. Aged' /\ RemindersAreEarned'
  BY <1>1, WatchdogAssumption DEF Aged, RemindersAreEarned, Times, Stored, Note, RetiredNote
<1>7. Past'
  <2>1. \A n \in notes \cup retired : n.id[1] \in Nat /\ n.id[1] < now
    BY WatchdogAssumption DEF Aged, Times, Stored, Note, RetiredNote
  <2> QED BY <1>1, <2>1 DEF Past, Times
<1>8. OnTheWay' /\ FactsFindTheirReminder'
  BY <1>1 DEF OnTheWay, FactsFindTheirReminder
<1> QED BY <1>2, <1>3, <1>4, <1>5, <1>6, <1>7, <1>8

LEMMA ReadStep == IInv /\ Read => IInv'
<1> SUFFICES ASSUME IInv, Read PROVE IInv'
  OBVIOUS
<1> USE DEF IInv
<1>1. /\ UNCHANGED <<now, running, updated, output, watermark, notes, retired, episode, cancelled, pending,
                     queue, online, held, seen, forgotten, pruned>>
      /\ pc = "idle" /\ pc' = "read"
      /\ \E o \in {0, output} : view' = [running |-> running, updated |-> updated, output |-> o]
  BY DEF Read, attempt, store, runtime, history
<1>2. Times'
  BY <1>1 DEF Times
<1>3. Stored' /\ Passing' /\ Anchored' /\ Aged'
  BY <1>1 DEF Stored, Passing, Anchored, Aged
<1>4. Informed' /\ Past'
  BY <1>1 DEF Informed, Past, Times
<1>5. OnTheWay' /\ RemindersAreEarned' /\ FactsFindTheirReminder'
  BY <1>1 DEF OnTheWay, RemindersAreEarned, FactsFindTheirReminder
<1> QED BY <1>2, <1>3, <1>4, <1>5

\* Steps after the scan: nothing gets onto the bus but reminders of the
\* current episode.
LEMMA BusStep ==
    IInv /\ (SeatsUnavailable \/ Cancel \/ PresentationFails \/ EndPass \/ Restart \/ \E id \in pending : Notify(id))
        => IInv'
<1> SUFFICES ASSUME IInv, SeatsUnavailable \/ Cancel \/ PresentationFails \/ EndPass \/ Restart \/ \E id \in pending : Notify(id)
             PROVE IInv'
  OBVIOUS
<1> USE DEF IInv
<1>1. /\ UNCHANGED <<now, running, updated, output, watermark, notes, retired, episode, online, held, seen, pruned>>
      /\ pc' # "read" /\ (view' = view \/ view' = NoView)
  BY DEF SeatsUnavailable, Cancel, PresentationFails, EndPass, Restart, Notify, attempt, store, runtime, history
<1>2. Times'
  <2>1. CASE view' = view
    BY <1>1, <2>1 DEF Times
  <2>2. CASE view' = NoView
    BY <1>1, <2>2 DEF Times, NoView
  <2> QED BY <1>1, <2>1, <2>2
<1>3. Stored' /\ Anchored' /\ Aged' /\ RemindersAreEarned'
  BY <1>1 DEF Stored, Anchored, Aged, RemindersAreEarned
<1>4. Informed' /\ Past'
  BY <1>1 DEF Informed, Past
<1>5. Passing'
  BY <1>1 DEF Passing, SeatsUnavailable, Cancel, PresentationFails, EndPass, Restart, Notify, pass
<1>6. \A n \in retired : n.id \notin Ids(notes)
  BY DEF Past, Anchored, Ids, Stored, Note, RetiredNote
<1>7. OnTheWay'
  BY <1>1, <1>6 DEF OnTheWay, Undelivered, Passing,
       SeatsUnavailable, Cancel, PresentationFails, EndPass, Restart, Notify, bus, history
<1>8. FactsFindTheirReminder'
  BY <1>1 DEF FactsFindTheirReminder, Passing,
       SeatsUnavailable, Cancel, PresentationFails, EndPass, Restart, Notify, bus
<1> QED BY <1>2, <1>3, <1>4, <1>5, <1>7, <1>8

\* Steps of the runtimes and their bridges, apart from the delivery fact.
RuntimeMoves ==
    \/ \E stage \in Stages : GoOffline(stage) \/ ComeOnline(stage)
    \/ \E id \in AllIds : Deliver(id) \/ SweepFails(id) \/ DropHeld(id)

LEMMA RuntimeStep == IInv /\ RuntimeMoves => IInv'
<1> SUFFICES ASSUME IInv, RuntimeMoves PROVE IInv'
  OBVIOUS
<1> USE DEF IInv
<1>1. /\ UNCHANGED <<now, running, updated, output, watermark, notes, retired, episode, pc, view, cancelled, pending,
                     seen, forgotten, pruned>>
      /\ queue' \subseteq queue /\ held' \subseteq held \cup queue
  BY DEF RuntimeMoves, GoOffline, ComeOnline, Deliver, SweepFails, DropHeld, Elsewhere,
       attempt, store, pass, bus, history
<1>2. Times' /\ Stored' /\ Passing'
  BY <1>1 DEF Times, Stored, Passing
<1>3. Anchored' /\ Informed' /\ Aged' /\ Past' /\ RemindersAreEarned'
  BY <1>1 DEF Anchored, Informed, Aged, Past, RemindersAreEarned
<1>4. OnTheWay' /\ FactsFindTheirReminder'
  BY <1>1 DEF OnTheWay, FactsFindTheirReminder
<1> QED BY <1>2, <1>3, <1>4

\* The delivery fact marks a reminder and changes no id.
Marked(S, id) == {IF n.id = id THEN [n EXCEPT !.delivered = TRUE] ELSE n : n \in S}

LEMMA MarkDelivered ==
    ASSUME NEW S, IsFiniteSet(S), S \in SUBSET Note \/ S \in SUBSET RetiredNote, NEW id,
           NEW T, T = Marked(S, id)
    PROVE  /\ IsFiniteSet(T) /\ Ids(T) = Ids(S)
           /\ S \in SUBSET Note => T \in SUBSET Note
           /\ S \in SUBSET RetiredNote => T \in SUBSET RetiredNote
           /\ \A n \in T : \E m \in S : n.id = m.id
           /\ \A n \in Undelivered(T) : n \in Undelivered(S)
<1> DEFINE f == [n \in S |-> IF n.id = id THEN [n EXCEPT !.delivered = TRUE] ELSE n]
<1>1. T = {f[n] : n \in S} /\ DOMAIN f = S
  BY DEF Marked
<1>2. IsFiniteSet(T)
  <2> HIDE DEF f
  <2> QED BY <1>1, FiniteImage
<1>3. \A n \in S : /\ f[n].id = n.id /\ (n \in Note => f[n] \in Note) /\ (n \in RetiredNote => f[n] \in RetiredNote)
                   /\ ~f[n].delivered => f[n] = n
  BY DEF Note, RetiredNote
<1> HIDE DEF f
<1> QED BY <1>1, <1>2, <1>3 DEF Ids, Undelivered

LEMMA SettleStep == IInv /\ (\E id \in AllIds : Settle(id)) => IInv'
<1> SUFFICES ASSUME IInv, NEW id \in AllIds, Settle(id) PROVE IInv'
  OBVIOUS
<1> USE DEF IInv
<1>1. /\ UNCHANGED <<now, running, updated, output, watermark, episode, pc, view, cancelled, pending,
                     seen, forgotten, pruned>>
      /\ queue' \subseteq queue /\ held' \subseteq held
  BY DEF Settle, attempt, pass, history
<1>2. /\ IsFiniteSet(notes') /\ Ids(notes') = Ids(notes) /\ notes' \in SUBSET Note
      /\ \A n \in notes' : \E m \in notes : n.id = m.id
  <2>1. notes' = Marked(notes, id)
    BY DEF Settle, RecordDelivered, Marked
  <2> QED BY <2>1, MarkDelivered DEF Stored
<1>3. /\ IsFiniteSet(retired') /\ Ids(retired') = Ids(retired) /\ retired' \in SUBSET RetiredNote
      /\ \A n \in retired' : \E m \in retired : n.id = m.id
      /\ \A n \in Undelivered(retired') : n \in Undelivered(retired)
  <2>1. CASE retired' = retired
    BY <2>1 DEF Stored
  <2>2. CASE retired' = Marked(retired, id)
    BY <2>2, MarkDelivered DEF Stored
  <2> QED BY <2>1, <2>2 DEF Settle, RecordDelivered, Marked
<1>4. Times' /\ Stored' /\ Passing'
  BY <1>1, <1>2, <1>3 DEF Times, Stored, Passing
<1>5. Anchored' /\ Informed'
  BY <1>1, <1>2 DEF Anchored, Informed
<1>6. Aged' /\ Past' /\ RemindersAreEarned'
  BY <1>1, <1>2, <1>3 DEF Aged, Past, RemindersAreEarned
<1>7. OnTheWay' /\ FactsFindTheirReminder'
  BY <1>1, <1>2, <1>3 DEF OnTheWay, FactsFindTheirReminder
<1> QED BY <1>4, <1>5, <1>6, <1>7

-----------------------------------------------------------------------------
(* The scan.                                                                 *)

LEMMA ScanInactiveStep == IInv /\ Scan /\ ~view.running => IInv'
<1> SUFFICES ASSUME IInv, Scan, ~view.running PROVE IInv'
  OBVIOUS
<1> USE DEF IInv
<1>1. /\ UNCHANGED <<now, running, updated, output, queue, held, forgotten, seen>>
      /\ pc = "read" /\ pc' = "cancel" /\ view' = NoView
      /\ watermark' = {} /\ notes' = {} /\ episode' = {} /\ pending' = {}
      /\ retired' = Kept(Retire(notes))
      /\ pruned' = pruned \cup (Ids(Retire(notes)) \ Ids(retired'))
      /\ cancelled' = Ids(Undelivered(notes))
  BY DEF Scan, ScanInactive, attempt, bus, runtime
<1>2. /\ Retire(notes) \in SUBSET RetiredNote /\ IsFiniteSet(Retire(notes))
      /\ Ids(Retire(notes)) = Ids(retired) \cup Ids(notes)
      /\ retired' \subseteq Retire(notes)
  BY <1>1, RetireFinite, KeptSubset DEF Times, Stored
<1>3. \A n \in Retire(notes) : n \in retired \/ \E m \in notes : m.id = n.id /\ m.delivered = n.delivered
  BY DEF Retire
<1>4. Times'
  BY <1>1 DEF Times, NoView
<1>5. Stored'
  BY <1>1, <1>2, FS_EmptySet, FS_Subset DEF Stored
<1>6. Passing' /\ Anchored' /\ RemindersAreEarned'
  BY <1>1 DEF Passing, Anchored, RemindersAreEarned
<1>7. Informed'
  BY <1>1 DEF Informed, Times
<1>8. Aged' /\ Past'
  BY <1>1, <1>2, <1>3 DEF Aged, Past
<1>9. OnTheWay'
  BY <1>1, <1>2, <1>3 DEF OnTheWay, Undelivered, Ids
<1>10. FactsFindTheirReminder'
  BY <1>1, <1>2 DEF FactsFindTheirReminder
<1> QED BY <1>4, <1>5, <1>6, <1>7, <1>8, <1>9, <1>10

\* The new watermark is not older than anything a scan has seen, nor than the
\* one before it.
LEMMA MonotonicFacts ==
    ASSUME Times, Stored
    PROVE  /\ Observed \in Nat /\ view.updated <= Observed /\ view.output <= Observed /\ Observed <= now
           /\ Observed \in {view.updated, view.output}
           /\ Monotonic \in Nat /\ Observed <= Monotonic /\ Monotonic <= now
           /\ \A x \in watermark : x <= Monotonic
<1>1. view.updated \in Nat /\ view.output \in Nat
  BY DEF Times
<1>2. /\ Observed \in Nat /\ view.updated <= Observed /\ view.output <= Observed
      /\ Observed \in {view.updated, view.output}
  BY <1>1, LargestOfTwo DEF Observed
<1>3. Observed <= now
  BY <1>1, <1>2 DEF Times
<1>4. CASE watermark = {}
  <2>1. {Observed} \cup watermark = {Observed, Observed}
    BY <1>4
  <2>2. Monotonic = Observed
    BY <1>2, <2>1, LargestOfTwo DEF Monotonic
  <2> QED BY <1>2, <1>3, <1>4, <2>2
<1>5. ASSUME NEW x \in Nat, x <= now, watermark = {x}
      PROVE  Monotonic \in Nat /\ Observed <= Monotonic /\ Monotonic <= now /\ x <= Monotonic
  <2>1. {Observed} \cup watermark = {Observed, x}
    BY <1>5
  <2>2. Monotonic = Largest({Observed, x})
    BY <2>1 DEF Monotonic
  <2>3. /\ Largest({Observed, x}) \in Nat /\ Largest({Observed, x}) \in {Observed, x}
        /\ Observed <= Largest({Observed, x}) /\ x <= Largest({Observed, x})
    BY <1>2, LargestOfTwo
  <2> QED BY <1>3, <1>5, <2>2, <2>3
<1> QED BY <1>2, <1>3, <1>4, <1>5 DEF Stored

LEMMA ScanActiveStep == IInv /\ Scan /\ view.running => IInv'
<1> SUFFICES ASSUME IInv, Scan, view.running PROVE IInv'
  OBVIOUS
<1> USE DEF IInv
<1> DEFINE w == Monotonic
           over == episode # {} /\ episode # {w}
           rs == IF over THEN Retire(notes) ELSE retired
           ns == IF over THEN {} ELSE notes
           stale == now - w >= FirstStale
<1>1. /\ UNCHANGED <<now, running, updated, output, queue, held, forgotten>>
      /\ pc = "read" /\ pc' = "cancel" /\ view' = NoView
      /\ watermark' = {w} /\ notes' = Due(ns, w)
      /\ episode' = (IF stale THEN {w} ELSE IF over THEN {} ELSE episode)
      /\ retired' = Kept(rs)
      /\ pruned' = pruned \cup (Ids(rs) \ Ids(retired'))
      /\ cancelled' = (IF over THEN Ids(Undelivered(notes)) ELSE {})
      /\ pending' = (IF stale THEN Unsent(notes') ELSE {})
      /\ seen' = Largest({seen, Observed})
  BY DEF Scan, ScanActive, attempt, bus, runtime
<1>2. /\ Observed \in Nat /\ view.updated <= Observed /\ view.output <= Observed /\ Observed <= now
      /\ Observed \in {view.updated, view.output}
      /\ w \in Nat /\ Observed <= w /\ w <= now /\ \A x \in watermark : x <= w
  BY MonotonicFacts
<1>3. /\ seen' \in {seen, Observed} /\ seen' \in Nat /\ seen' <= now /\ seen <= seen' /\ seen' <= w
  <2>1. /\ Largest({seen, Observed}) \in {seen, Observed} /\ Largest({seen, Observed}) \in Nat
        /\ seen <= Largest({seen, Observed})
    BY <1>2, LargestOfTwo DEF Times
  <2>2. seen <= w
    BY <1>1, <1>2 DEF Informed, Times, Stored
  <2> HIDE DEF w
  <2> QED BY <1>1, <1>2, <2>1, <2>2 DEF Times
<1>4. /\ rs \in SUBSET RetiredNote /\ IsFiniteSet(rs)
      /\ Ids(rs) \cup Ids(ns) = Ids(retired) \cup Ids(notes)
      /\ retired \subseteq rs /\ retired' \subseteq rs
  <2>1. /\ Retire(notes) \in SUBSET RetiredNote /\ IsFiniteSet(Retire(notes))
        /\ Ids(Retire(notes)) = Ids(retired) \cup Ids(notes)
        /\ retired \subseteq Retire(notes)
    BY RetireFinite DEF Times, Stored, Retire
  <2>2. Ids({}) = {}
    BY DEF Ids
  <2>3. rs \in SUBSET RetiredNote /\ IsFiniteSet(rs) /\ retired \subseteq rs
    BY <2>1 DEF Stored
  <2>4. retired' \subseteq rs
    <3> HIDE DEF rs
    <3> QED BY <1>1, <2>3, KeptSubset
  <2>5. Ids(rs) \cup Ids(ns) = Ids(retired) \cup Ids(notes)
    BY <2>1, <2>2
  <2> QED BY <2>3, <2>4, <2>5
<1>5. \A n \in rs : n \in retired \/ (over /\ \E m \in notes : m.id = n.id /\ m.delivered = n.delivered)
  BY DEF Retire
<1>6. /\ ns \in SUBSET Note /\ IsFiniteSet(ns)
      /\ \A n \in ns : n \in notes /\ n.id[1] = w /\ episode = {w}
  BY FS_EmptySet DEF Stored, Anchored
<1>7. /\ notes' \in SUBSET Note /\ IsFiniteSet(notes') /\ ns \subseteq notes'
      /\ ~stale => notes' = ns
      /\ \A n \in notes' : \/ n \in ns
                           \/ n.id = <<w, "first_stale">> /\ now >= w + FirstStale
                           \/ n.id = <<w, "director_escalated">> /\ now >= w + FirstStale + Escalation
  <2> HIDE DEF w, ns
  <2> QED BY <1>1, <1>2, <1>6, DueAdds, WatchdogAssumption DEF Times
<1>8. \A n \in notes' : n.id[1] = w
  <2> HIDE DEF w, ns
  <2> QED BY <1>6, <1>7
<1>9. over => \A x \in episode : x < w
  BY <1>2 DEF Anchored, Stored
<1>10. \A n \in rs : n.id[1] \in Nat /\ n.id[1] < w
  <2>1. \A n \in retired : n.id[1] \in Nat /\ n.id[1] < w
    BY <1>1, <1>2 DEF Past, Stored, Times, RetiredNote
  <2>2. \A n \in notes : n.id[1] \in Nat /\ (over => n.id[1] < w)
    BY <1>9 DEF Anchored, Stored, Note
  <2> HIDE DEF w, rs, over
  <2> QED BY <1>5, <2>1, <2>2
<1> HIDE DEF w, rs, ns
<1>11. Times'
  BY <1>1, <1>3 DEF Times, NoView
<1>12. Stored'
  <2>1. IsFiniteSet(retired')
    BY <1>4, FS_Subset
  <2> QED BY <1>1, <1>2, <1>4, <1>7, <2>1 DEF Stored
<1>13. Passing'
  BY <1>1 DEF Passing, Unsent, Undelivered, Ids
<1>14. Anchored'
  <2>1. CASE stale
    BY <1>1, <1>8, <2>1 DEF Anchored
  <2>2. CASE ~stale
    <3>1. notes' = ns
      BY <1>7, <2>2
    <3> QED BY <1>1, <1>6, <2>2, <3>1 DEF Anchored, ns
  <2> QED BY <2>1, <2>2
<1>15. Informed'
  BY <1>1, <1>2, <1>3 DEF Informed, Times
<1>16. Aged'
  BY <1>1, <1>2, <1>4, <1>5, <1>6, <1>7, <1>8, WatchdogAssumption DEF Aged, Times
<1>17. Past'
  BY <1>1, <1>4, <1>10 DEF Past
<1>18. OnTheWay'
  BY <1>1, <1>4, <1>5 DEF OnTheWay, Undelivered, Ids
<1>19. RemindersAreEarned'
  BY <1>1, <1>2, <1>3, <1>6, <1>7, <1>8, WatchdogAssumption DEF RemindersAreEarned, Times
<1>20. FactsFindTheirReminder'
  <2>1. Ids(ns) \subseteq Ids(notes')
    BY <1>7 DEF Ids
  <2> QED BY <1>1, <1>4, <2>1 DEF FactsFindTheirReminder
<1> QED BY <1>11, <1>12, <1>13, <1>14, <1>15, <1>16, <1>17, <1>18, <1>19, <1>20

-----------------------------------------------------------------------------
(* The theorems.                                                             *)

LEMMA Inductive == IInv /\ [Next]_vars => IInv'
<1> SUFFICES ASSUME IInv, [Next]_vars PROVE IInv'
  OBVIOUS
<1>1. CASE Tick \/ Progress \/ PhaseChange
  BY <1>1, AttemptStep
<1>2. CASE Read
  BY <1>2, ReadStep
<1>3. CASE Scan
  BY <1>3, ScanActiveStep, ScanInactiveStep
<1>4. CASE SeatsUnavailable \/ Cancel \/ PresentationFails \/ EndPass \/ Restart \/ \E id \in pending : Notify(id)
  BY <1>4, BusStep
<1>5. CASE RuntimeMoves
  BY <1>5, RuntimeStep
<1>6. CASE \E id \in AllIds : Settle(id)
  BY <1>6, SettleStep
<1>7. CASE UNCHANGED vars
  BY <1>7 DEF vars, IInv, Times, Stored, Passing, Anchored, Informed, Aged, Past, OnTheWay,
       RemindersAreEarned, FactsFindTheirReminder
<1> QED BY <1>1, <1>2, <1>3, <1>4, <1>5, <1>6, <1>7 DEF Next, Pass, Bridge, RuntimeMoves

LEMMA InvariantHolds == Spec => []IInv
<1> QED BY InitInv, Inductive, PTL DEF Spec

\* scan_store: a reminder of the current episode is about a silence that
\* lasted the whole threshold of its stage and in which no scan saw progress.
THEOREM Earned == Spec => []RemindersAreEarned
<1>1. IInv => RemindersAreEarned
  BY DEF IInv
<1> QED BY <1>1, InvariantHolds, PTL

\* record_delivery_fact: what is queued or in the native context without its
\* fact is in the store, unless the retention dropped it.
THEOREM FactsFind == Spec => []FactsFindTheirReminder
<1>1. IInv => FactsFindTheirReminder
  BY DEF IInv
<1> QED BY <1>1, InvariantHolds, PTL

\* run_task_watchdog_once: between two passes no reminder of an ended episode
\* is on the bus, except where a pass failed before the withdrawal.
THEOREM CancelledLeave == Spec => []CancelledLeaveTheBus
<1>1. IInv => CancelledLeaveTheBus
  BY DEF IInv, OnTheWay, CancelledLeaveTheBus
<1> QED BY <1>1, InvariantHolds, PTL
=============================================================================
