---------------------- MODULE NotificationOutbox_proofs ----------------------
(***************************************************************************)
(* Proofs about the way of a notification from the outbox into a context:  *)
(* FactsTellOneStory, QueueIsExact, NeverForgotten and AckedAfterDelivery  *)
(* for every outbox, set of sessions and runtimes, and number of mishaps.  *)
(***************************************************************************)
EXTENDS NotificationOutbox, FiniteSetTheorems, TLAPS

-----------------------------------------------------------------------------
(* What is left of a queue.                                                 *)

\* Every nonempty set of naturals has a least element.
LEMMA LeastNat ==
    ASSUME NEW T \in SUBSET Nat, T # {}
    PROVE  \E t \in T : \A u \in T : t <= u
<1> DEFINE R == {ss \in Nat \X Nat : ss[1] < ss[2]}
<1>1. IsWellFoundedOn(R, Nat)
  BY NatLessThanWellFounded, Zenon DEF OpToRel
<1>2. \A a, b \in Nat : a < b => <<a, b>> \in R
  OBVIOUS
<1> HIDE DEF R
<1>3. PICK t \in T : \A u \in T : ~(<<u, t>> \in R)
  BY <1>1, WFMin
<1>4. \A u \in T : ~(u < t)
  BY <1>2, <1>3
<1> QED BY <1>4

\* What is taken out of a queue is gone, all else stays, and nothing comes
\* twice that was there once.
Remains(s, q, n, gone) ==
    /\ \A k \in 1..Len(s) : \E j \in 1..n : q[j] = s[k] /\ q[j] \notin gone
    /\ \A j \in 1..n : q[j] \notin gone => \E k \in 1..Len(s) : s[k] = q[j]
    /\ IsInjective(q) => \A k, l \in 1..Len(s) : s[k] = s[l] => k = l

LEMMA RemainsStep ==
    ASSUME NEW S, NEW q \in Seq(S), NEW gone, NEW s \in Seq(S), NEW n \in 1..Len(q),
           Remains(s, q, n - 1, gone)
    PROVE  /\ q[n] \in gone => Remains(s, q, n, gone)
           /\ q[n] \notin gone => Remains(Append(s, q[n]), q, n, gone) /\ Append(s, q[n]) \in Seq(S)
<1>0. Len(q) \in Nat /\ n \in Nat /\ n # 0 /\ n - 1 \in Nat /\ q[n] \in S /\ Len(s) \in Nat
      /\ DOMAIN q = 1..Len(q)
  OBVIOUS
<1>n. \A j \in 1..n : j = n \/ j \in 1..(n - 1)
  BY <1>0
<1>m. \A j \in 1..(n - 1) : j \in 1..n /\ j # n
  BY <1>0
<1>1. ASSUME q[n] \in gone PROVE Remains(s, q, n, gone)
  BY <1>0, <1>n, <1>m, <1>1 DEF Remains
<1>2. ASSUME q[n] \notin gone
      PROVE  Remains(Append(s, q[n]), q, n, gone) /\ Append(s, q[n]) \in Seq(S)
  <2> DEFINE z == Append(s, q[n])
  <2>1. z \in Seq(S) /\ Len(z) = Len(s) + 1 /\ z[Len(s) + 1] = q[n]
        /\ \A k \in 1..Len(s) : z[k] = s[k]
    BY <1>0
  <2> HIDE DEF z
  <2>2. \A k \in 1..Len(z) : k = Len(s) + 1 \/ k \in 1..Len(s)
    BY <1>0, <2>1
  <2>3. \A k \in 1..Len(s) : k \in 1..Len(z)
    BY <1>0, <2>1
  <2>3b. Len(s) + 1 \in 1..Len(z)
    BY <1>0, <2>1
  <2>4. \A k \in 1..Len(z) : \E j \in 1..n : q[j] = z[k] /\ q[j] \notin gone
    <3> TAKE k \in 1..Len(z)
    <3>1. CASE k = Len(s) + 1
      BY <1>0, <1>2, <2>1, <3>1
    <3>2. CASE k \in 1..Len(s)
      <4>1. PICK j \in 1..(n - 1) : q[j] = s[k] /\ q[j] \notin gone
        BY <3>2 DEF Remains
      <4>2. j \in 1..n
        BY <1>m
      <4> QED BY <2>1, <3>2, <4>1, <4>2
    <3> QED BY <2>2, <3>1, <3>2
  <2>5. \A j \in 1..n : q[j] \notin gone => \E k \in 1..Len(z) : z[k] = q[j]
    <3> SUFFICES ASSUME NEW j \in 1..n, q[j] \notin gone
                 PROVE  \E k \in 1..Len(z) : z[k] = q[j]
      OBVIOUS
    <3>1. CASE j = n
      BY <2>1, <2>3b, <3>1
    <3>2. CASE j \in 1..(n - 1)
      <4>1. PICK k \in 1..Len(s) : s[k] = q[j]
        BY <3>2 DEF Remains
      <4> QED BY <2>1, <2>3, <4>1
    <3> QED BY <1>n, <3>1, <3>2
  <2>6. ASSUME IsInjective(q), NEW k \in 1..Len(s) PROVE s[k] # q[n]
    <3>1. PICK j \in 1..(n - 1) : q[j] = s[k]
      BY <2>6 DEF Remains
    <3>2. j \in DOMAIN q /\ n \in DOMAIN q /\ j # n
      BY <1>0, <1>m
    <3> QED BY <2>6, <3>1, <3>2 DEF IsInjective
  <2>7. ASSUME IsInjective(q), NEW k \in 1..Len(z), NEW l \in 1..Len(z), z[k] = z[l] PROVE k = l
    <3>1. CASE k \in 1..Len(s) /\ l \in 1..Len(s)
      BY <2>1, <2>7, <3>1 DEF Remains
    <3>2. CASE k \in 1..Len(s) /\ l = Len(s) + 1
      BY <2>1, <2>6, <2>7, <3>2
    <3>3. CASE k = Len(s) + 1 /\ l \in 1..Len(s)
      BY <2>1, <2>6, <2>7, <3>3
    <3> QED BY <2>2, <3>1, <3>2, <3>3
  <2>8. Remains(z, q, n, gone)
    BY <2>4, <2>5, <2>7 DEF Remains
  <2> QED BY <2>1, <2>8 DEF z
<1> QED BY <1>1, <1>2

LEMMA WithoutRemains ==
    ASSUME NEW S, NEW q \in Seq(S), NEW gone
    PROVE  Without(q, gone) \in Seq(S) /\ Remains(Without(q, gone), q, Len(q), gone)
<1> DEFINE N == Len(q)
           Good(s, n) == s \in Seq(S) /\ Remains(s, q, n, gone)
           Def(g, n) == IF n = 0 THEN <<>>
                        ELSE IF q[n] \in gone THEN g[n - 1] ELSE Append(g[n - 1], q[n])
           Upto(m) == \E g \in [0..m -> Seq(S)] : \A n \in 0..m : Good(g[n], n) /\ g[n] = Def(g, n)
           T == {m \in 0..N : ~Upto(m)}
<1>1. N \in Nat /\ DOMAIN q = 1..N /\ \A n \in 1..N : q[n] \in S
  OBVIOUS
<1>2. T = {}
  <2> SUFFICES ASSUME T # {} PROVE FALSE
    OBVIOUS
  <2>1. T \in SUBSET Nat
    BY <1>1
  <2>2. PICK m \in T : \A u \in T : m <= u
    <3> HIDE DEF T
    <3> QED BY <2>1, LeastNat
  <2>3. m # 0
    <3> DEFINE g == [n \in 0..0 |-> <<>>]
    <3>0. Good(<<>>, 0)
      BY DEF Remains
    <3>1. g \in [0..0 -> Seq(S)] /\ \A n \in 0..0 : g[n] = <<>> /\ n = 0
      OBVIOUS
    <3>2. \A n \in 0..0 : Good(g[n], n) /\ g[n] = Def(g, n)
      <4> HIDE DEF Good, g
      <4> QED BY <3>0, <3>1
    <3>3. Upto(0)
      <4> HIDE DEF Good, g, Def
      <4> QED BY <3>1, <3>2
    <3> HIDE DEF Upto
    <3> QED BY <3>3
  <2>4. m \in 1..N /\ m - 1 \in 0..N /\ m - 1 \notin T
    <3>1. m \in 0..N
      OBVIOUS
    <3> HIDE DEF T
    <3> QED BY <1>1, <2>2, <2>3, <3>1
  <2>5. PICK g \in [0..(m - 1) -> Seq(S)] : \A n \in 0..(m - 1) : Good(g[n], n) /\ g[n] = Def(g, n)
    BY <2>4
  <2> DEFINE h == [n \in 0..m |-> IF n = m THEN Def(g, m) ELSE g[n]]
  <2>6. Good(g[m - 1], m - 1)
    <3> HIDE DEF Good, Def
    <3> QED BY <2>4, <2>5
  <2>7. Good(Def(g, m), m)
    <3>1. g[m - 1] \in Seq(S) /\ Remains(g[m - 1], q, m - 1, gone)
      BY <2>6
    <3>2. /\ q[m] \in gone => Remains(g[m - 1], q, m, gone)
          /\ q[m] \notin gone => Remains(Append(g[m - 1], q[m]), q, m, gone)
                                 /\ Append(g[m - 1], q[m]) \in Seq(S)
      BY <2>4, <3>1, RemainsStep
    <3>3. m # 0
      BY <2>4
    <3>4. CASE q[m] \in gone
      <4>1. Def(g, m) = g[m - 1]
        BY <3>3, <3>4
      <4> HIDE DEF Def
      <4> QED BY <3>1, <3>2, <3>4, <4>1
    <3>5. CASE q[m] \notin gone
      <4>1. Def(g, m) = Append(g[m - 1], q[m])
        BY <3>3, <3>5
      <4> HIDE DEF Def
      <4> QED BY <3>1, <3>2, <3>5, <4>1
    <3> QED BY <3>4, <3>5
  <2>8. h \in [0..m -> Seq(S)] /\ \A n \in 0..m : Good(h[n], n) /\ h[n] = Def(h, n)
    <3>1. \A n \in 0..m : n # m => n \in 0..(m - 1) /\ h[n] = g[n]
      BY <2>4
    <3>2. h[m] = Def(g, m)
      BY <2>4
    <3>3. \A n \in 0..m : n # 0 => n - 1 \in 0..m /\ h[n - 1] = g[n - 1]
      BY <2>4
    <3>4. h \in [0..m -> Seq(S)]
      BY <2>4, <2>5, <2>7
    <3> HIDE DEF h, Good
    <3> QED BY <2>4, <2>5, <2>7, <3>1, <3>2, <3>3, <3>4
  <2>9. Upto(m)
    <3> HIDE DEF h, Good, Def
    <3> QED BY <2>8
  <2> QED BY <2>2, <2>9
<1>3. PICK g \in [0..N -> Seq(S)] : \A n \in 0..N : Good(g[n], n) /\ g[n] = Def(g, n)
  <2>1. Upto(N)
    <3> HIDE DEF Upto
    <3> QED BY <1>1, <1>2
  <2> QED BY <2>1
<1> DEFINE f == CHOOSE f : f = [n \in 0..N |-> Def(f, n)]
<1>4. f = [n \in 0..N |-> Def(f, n)]
  <2>1. g = [n \in 0..N |-> Def(g, n)]
    <3> HIDE DEF Good, Def
    <3> QED BY <1>3
  <2> HIDE DEF Def
  <2> QED BY <2>1
<1>5. Without(q, gone) = f[N]
  BY DEF Without
<1> HIDE DEF f
<1>6. \A n \in 0..N : f[n] = Def(f, n)
  <2> HIDE DEF Def
  <2> QED BY <1>4
<1>7. f[N] = g[N]
  <2> DEFINE D == {n \in 0..N : f[n] # g[n]}
  <2> SUFFICES ASSUME D # {} PROVE FALSE
    BY <1>1
  <2>1. D \in SUBSET Nat
    BY <1>1
  <2>2. PICK n \in D : \A u \in D : n <= u
    <3> HIDE DEF D
    <3> QED BY <2>1, LeastNat
  <2>3. n = 0 \/ (n - 1 \in 0..N /\ n - 1 \notin D)
    <3>1. n \in 0..N
      OBVIOUS
    <3> HIDE DEF D
    <3> QED BY <1>1, <2>2, <3>1
  <2>4. f[n] = Def(f, n) /\ g[n] = Def(g, n)
    <3> HIDE DEF Def, Good
    <3> QED BY <1>3, <1>6
  <2>5. n = 0 \/ f[n - 1] = g[n - 1]
    BY <2>3
  <2>6. f[n] # g[n]
    OBVIOUS
  <2> HIDE DEF D
  <2> QED BY <2>4, <2>5, <2>6
<1>8. Good(f[N], N)
  <2> HIDE DEF Good
  <2> QED BY <1>1, <1>3, <1>7
<1> QED BY <1>5, <1>8

\* The same of the range of the queue.
LEMMA WithoutFacts ==
    ASSUME NEW S, NEW q \in Seq(S), NEW gone
    PROVE  /\ Without(q, gone) \in Seq(S)
           /\ Range(Without(q, gone)) = Range(q) \ gone
           /\ IsInjective(q) => IsInjective(Without(q, gone))
<1> DEFINE w == Without(q, gone)
<1>1. w \in Seq(S) /\ Remains(w, q, Len(q), gone)
  BY WithoutRemains
<1> HIDE DEF w
<1>2. DOMAIN w = 1..Len(w) /\ DOMAIN q = 1..Len(q)
  BY <1>1
<1>3. Range(w) = Range(q) \ gone
  <2>1. ASSUME NEW x \in Range(w) PROVE x \in Range(q) \ gone
    <3>1. PICK k \in 1..Len(w) : w[k] = x
      BY <1>2, <2>1 DEF Range
    <3>2. PICK j \in 1..Len(q) : q[j] = w[k] /\ q[j] \notin gone
      BY <1>1, <3>1 DEF Remains
    <3> QED BY <1>2, <3>1, <3>2 DEF Range
  <2>2. ASSUME NEW x \in Range(q), x \notin gone PROVE x \in Range(w)
    <3>1. PICK j \in 1..Len(q) : q[j] = x
      BY <1>2, <2>2 DEF Range
    <3>2. PICK k \in 1..Len(w) : w[k] = q[j]
      BY <1>1, <2>2, <3>1 DEF Remains
    <3> QED BY <1>2, <3>1, <3>2 DEF Range
  <2> QED BY <2>1, <2>2
<1>4. IsInjective(q) => IsInjective(w)
  BY <1>1, <1>2 DEF Remains, IsInjective
<1> QED BY <1>1, <1>3, <1>4 DEF w

-----------------------------------------------------------------------------
(* The inductive invariant.                                                 *)

\* The drain works on a snapshot.
InPass == drain.pc \in {"item", "enqueue", "record"}

\* One list of facts is what another was or a beginning of it.
Onward(old, new) ==
    /\ Len(old) <= Len(new)
    /\ Len(old) = Len(new) => old = new
    /\ Range(old) \subseteq Range(new)

\* What the drain has read of a notification is a beginning of what is
\* recorded of it now, and the snapshot names only committed notifications.
SnapshotIsOld ==
    InPass => drain.known \subseteq committed /\ \A n \in Notes : Onward(drain.seen[n], facts[n])

\* The notification the drain is sending is one that it has seen undelivered,
\* and the runtime it goes to is one of the session that it is meant for.
SendsPending ==
    /\ drain.at >= 1
    /\ ~InPass /\ drain.pc # "release" => drain.at = 1
    /\ drain.pc \in {"enqueue", "record"} =>
        /\ drain.at <= Len(Outbox) /\ Item \in drain.known /\ ~Delivered(drain.seen[Item])
    /\ drain.pc = "enqueue" =>
        /\ drain.to \in Agents
        /\ Item \in Followups => SessionOf[drain.to] = Assignee

\* What a pass has behind it is settled; what was committed since its
\* snapshot still has its own request.
Settled(n) == Delivered(facts[n]) \/ "queued" \in Range(facts[n]) \/ Target(n) \in drain.away
PassIsThorough ==
    InPass =>
        /\ \A i \in 1..Len(Outbox) : i < drain.at /\ Outbox[i] \in drain.known => Settled(Outbox[i])
        /\ \A n \in committed \ drain.known : sched.requested \/ n \in waking

\* What a bridge is about to record is in the context of its thread, and what
\* it acknowledges, now or again, is recorded.
Honest(b, thread, fs) ==
    /\ b.pc \in {"read", "record", "ack"} => \A n \in Range(b.batch) : thread[n] = "persisted"
    /\ b.pc \in {"record", "ack"} => b.batch # <<>>
    /\ b.pc = "ack" => Delivered(fs[Head(b.batch)])
    /\ \A n \in b.acks : Delivered(fs[n])
BridgesAreHonest == \A a \in Agents : Honest(bridge[a], native[SessionOf[a]], facts)

IInv == /\ TypeOK /\ SnapshotIsOld /\ SendsPending /\ PassIsThorough /\ BridgesAreHonest
        /\ FactsTellOneStory /\ QueueIsExact /\ NeverForgotten

-----------------------------------------------------------------------------
(* What the parts need of a step that leaves them alone.                    *)

Scheds == [requested : BOOLEAN, backoff : BOOLEAN, probe : BOOLEAN,
           scheduled : BOOLEAN, away : SUBSET (Sessions \cup {"seat"})]
Drains == [pc : DrainPcs, seen : [Notes -> Seq(FactKinds)], known : SUBSET Notes,
           seat : Sessions \cup {None}, at : Nat, to : Agents \cup {None},
           away : SUBSET (Sessions \cup {"seat"})]
Bridges == [pc : BridgePcs, batch : Seq(Notes), rev : Nat, acks : SUBSET Notes]

\* Facts are only added; what a thread has persisted it keeps.
FactsOnward == \A n \in Notes : Onward(facts[n], facts'[n])
NativeOnward == \A s \in Sessions, n \in Notes : native[s][n] = "persisted" => native'[s][n] = "persisted"

LEMMA OnwardSame == \A fs : fs \in Seq(FactKinds) => Onward(fs, fs)
  BY DEF Onward

LEMMA OnwardOnward ==
    ASSUME NEW x \in Seq(FactKinds), NEW y \in Seq(FactKinds), NEW z \in Seq(FactKinds),
           Onward(x, y), Onward(y, z)
    PROVE  Onward(x, z)
<1>1. Len(x) \in Nat /\ Len(y) \in Nat /\ Len(z) \in Nat
  OBVIOUS
<1>2. Len(x) <= Len(z) /\ (Len(x) = Len(z) => Len(x) = Len(y) /\ Len(y) = Len(z))
  BY <1>1 DEF Onward
<1>3. Range(x) \subseteq Range(z)
  BY DEF Onward
<1> QED BY <1>2, <1>3 DEF Onward

LEMMA SameFacts == TypeOK /\ UNCHANGED facts => FactsOnward
  BY OnwardSame DEF TypeOK, FactsOnward

\* An appended fact is added to what was there.
LEMMA AppendOnward ==
    ASSUME NEW K, NEW fs \in Seq(K), NEW x \in K
    PROVE  /\ Append(fs, x) \in Seq(K)
           /\ Range(Append(fs, x)) = Range(fs) \cup {x}
           /\ Onward(fs, Append(fs, x))
<1> DEFINE z == Append(fs, x)
<1>1. z \in Seq(K) /\ Len(fs) \in Nat /\ Len(z) = Len(fs) + 1 /\ z[Len(fs) + 1] = x
      /\ DOMAIN fs = 1..Len(fs) /\ DOMAIN z = 1..Len(z)
      /\ \A k \in 1..Len(fs) : z[k] = fs[k]
  OBVIOUS
<1> HIDE DEF z
<1>2. \A k \in 1..Len(z) : k = Len(fs) + 1 \/ k \in 1..Len(fs)
  BY <1>1
<1>3. Len(fs) + 1 \in 1..Len(z) /\ \A k \in 1..Len(fs) : k \in 1..Len(z)
  BY <1>1
<1>4. Range(z) = Range(fs) \cup {x}
  <2>1. ASSUME NEW y \in Range(z) PROVE y \in Range(fs) \cup {x}
    BY <1>1, <1>2, <2>1 DEF Range
  <2>2. ASSUME NEW y \in Range(fs) PROVE y \in Range(z)
    BY <1>1, <1>3, <2>2 DEF Range
  <2>3. x \in Range(z)
    BY <1>1, <1>3 DEF Range
  <2> QED BY <2>1, <2>2, <2>3
<1>5. Onward(fs, z)
  <2> DEFINE l == Len(fs)
             m == Len(z)
  <2>0. l \in Nat /\ m = l + 1
    BY <1>1
  <2>1. l <= m /\ l # m
    <3> HIDE DEF l, m
    <3> QED BY <2>0
  <2>2. Range(fs) \subseteq Range(z)
    BY <1>4
  <2> QED BY <2>1, <2>2 DEF Onward
<1> QED BY <1>1, <1>4, <1>5 DEF z

LEMMA GrownFacts ==
    ASSUME TypeOK, NEW n \in Notes, NEW fact \in FactKinds, Append1(n, fact)
    PROVE  /\ facts' \in [Notes -> Seq(FactKinds)] /\ FactsOnward
           /\ facts'[n] = Append(facts[n], fact)
           /\ Range(facts'[n]) = Range(facts[n]) \cup {fact}
           /\ \A m \in Notes : m # n => facts'[m] = facts[m]
<1>1. facts \in [Notes -> Seq(FactKinds)] /\ facts' = [facts EXCEPT ![n] = Append(facts[n], fact)]
  BY DEF TypeOK, Append1
<1>2. facts[n] \in Seq(FactKinds)
  BY <1>1
<1>3. /\ Append(facts[n], fact) \in Seq(FactKinds)
      /\ Range(Append(facts[n], fact)) = Range(facts[n]) \cup {fact}
      /\ Onward(facts[n], Append(facts[n], fact))
  BY <1>2, AppendOnward
<1>4. facts'[n] = Append(facts[n], fact) /\ \A m \in Notes : m # n => facts'[m] = facts[m]
  BY <1>1
<1>5. facts' \in [Notes -> Seq(FactKinds)]
  BY <1>1, <1>3
<1>6. FactsOnward
  BY <1>1, <1>3, <1>4, OnwardSame DEF FactsOnward
<1> QED BY <1>3, <1>4, <1>5, <1>6

\* Delivered and queued facts stay.
LEMMA FactsStay ==
    ASSUME FactsOnward, NEW n \in Notes
    PROVE  /\ Delivered(facts[n]) => Delivered(facts'[n])
           /\ "queued" \in Range(facts[n]) => "queued" \in Range(facts'[n])
  BY DEF FactsOnward, Onward, Delivered

\* A step of somebody else leaves the drain in order when no request is lost.
RequestsKept ==
    /\ sched'.away = sched.away
    /\ \A n \in Notes : sched.requested \/ n \in waking => sched'.requested \/ n \in waking'

LEMMA DrainKept ==
    ASSUME IInv, TypeOK', FactsOnward, UNCHANGED <<committed, drain>>, RequestsKept
    PROVE  SnapshotIsOld' /\ SendsPending' /\ PassIsThorough' /\ NeverForgotten'
<1>1. SnapshotIsOld'
  <2>0. InPass' => InPass /\ drain.known \subseteq committed
    BY DEF IInv, SnapshotIsOld, InPass
  <2> SUFFICES ASSUME InPass, NEW n \in Notes PROVE Onward(drain.seen[n], facts'[n])
    BY <2>0 DEF SnapshotIsOld
  <2>1. Onward(drain.seen[n], facts[n])
    BY DEF IInv, SnapshotIsOld
  <2>2. drain.seen[n] \in Seq(FactKinds) /\ facts[n] \in Seq(FactKinds) /\ facts'[n] \in Seq(FactKinds)
    BY DEF IInv, TypeOK
  <2> QED BY <2>1, <2>2, OnwardOnward DEF FactsOnward
<1>2. SendsPending'
  BY DEF IInv, SendsPending, InPass, Item
<1>3. PassIsThorough'
  <2>1. ASSUME NEW i \in 1..Len(Outbox), Settled(Outbox[i]), Outbox[i] \in Notes PROVE Settled(Outbox[i])'
    BY <2>1, FactsStay DEF Settled
  <2>2. \A i \in 1..Len(Outbox) : Outbox[i] \in Notes
    BY OutboxAssumption
  <2>3. committed \subseteq Notes
    BY DEF IInv, TypeOK
  <2> QED BY <2>1, <2>2, <2>3 DEF IInv, PassIsThorough, RequestsKept, InPass
<1>4. NeverForgotten'
  <2> SUFFICES ASSUME NEW n \in committed
               PROVE  \/ Delivered(facts'[n]) \/ DrainComing(n)' \/ Target(n) \in sched'.away
                      \/ "queued" \in Range(facts'[n])
    BY DEF NeverForgotten
  <2>1. n \in Notes
    BY DEF IInv, TypeOK
  <2>2. DrainComing(n) => DrainComing(n)'
    BY <2>1 DEF DrainComing, RequestsKept
  <2> QED BY <2>1, <2>2, FactsStay DEF IInv, NeverForgotten, RequestsKept
<1> QED BY <1>1, <1>2, <1>3, <1>4

LEMMA HonestStays ==
    ASSUME IInv, FactsOnward, NativeOnward, NEW a \in Agents, NEW b \in Bridges,
           Honest(b, native[SessionOf[a]], facts)
    PROVE  Honest(b, native'[SessionOf[a]], facts')
<1>1. SessionOf[a] \in Sessions
  BY AgentAssumption
<1>2. b.batch \in Seq(Notes) /\ b.acks \subseteq Notes
  BY DEF Bridges
<1>3. Range(b.batch) \subseteq Notes
  BY <1>2 DEF Range
<1>4. b.batch # <<>> => Head(b.batch) \in Notes
  BY <1>2
<1> QED BY <1>1, <1>2, <1>3, <1>4, FactsStay DEF Honest, NativeOnward

\* One bridge moves, or none; the others are as honest as before.
LEMMA BridgesKept ==
    ASSUME IInv, FactsOnward, NativeOnward, UNCHANGED bridge
    PROVE  BridgesAreHonest'
<1>1. \A a \in Agents : bridge[a] \in Bridges
  BY DEF IInv, TypeOK, Bridges
<1> QED BY <1>1, HonestStays DEF IInv, BridgesAreHonest

LEMMA BridgePut ==
    ASSUME IInv, FactsOnward, NativeOnward, NEW a \in Agents, NEW b \in Bridges, Put(a, b),
           Honest(b, native'[SessionOf[a]], facts')
    PROVE  BridgesAreHonest' /\ bridge' \in [Agents -> Bridges]
<1>1. bridge \in [Agents -> Bridges]
  BY DEF IInv, TypeOK, Bridges
<1>2. bridge' = [bridge EXCEPT ![a] = b]
  BY DEF Put
<1>3. bridge' \in [Agents -> Bridges] /\ bridge'[a] = b /\ \A c \in Agents : c # a => bridge'[c] = bridge[c]
  BY <1>1, <1>2
<1>4. ASSUME NEW c \in Agents PROVE Honest(bridge'[c], native'[SessionOf[c]], facts')
  <2>1. CASE c = a
    BY <1>3, <2>1
  <2>2. CASE c # a
    BY <1>1, <1>3, <2>2, HonestStays DEF IInv, BridgesAreHonest
  <2> QED BY <2>1, <2>2
<1> QED BY <1>3, <1>4 DEF BridgesAreHonest

\* The story stays what it is while no fact is recorded.
LEMMA StoryKept ==
    ASSUME IInv, UNCHANGED <<facts, receipt>>, NativeOnward
    PROVE  FactsTellOneStory'
<1>1. ASSUME NEW n \in Notes, receipt[n] # None PROVE native'[receipt[n]][n] = "persisted"
  <2>1. receipt[n] \in Sessions
    BY <1>1 DEF IInv, TypeOK
  <2> QED BY <1>1, <2>1 DEF IInv, FactsTellOneStory, NativeOnward
<1> QED BY <1>1 DEF IInv, FactsTellOneStory

\* A queue is exact.
Exact(q, s, com) ==
    /\ IsInjective(q)
    /\ Range(q) \subseteq com
    /\ s # Assignee => Range(q) \cap Followups = {}

LEMMA QueueKept ==
    ASSUME IInv, UNCHANGED queue, committed \subseteq committed'
    PROVE  QueueIsExact'
  BY DEF IInv, QueueIsExact

LEMMA QueuePut ==
    ASSUME IInv, UNCHANGED committed, NEW a \in Agents, NEW q \in Seq(Notes),
           Exact(q, SessionOf[a], committed), queue' = [queue EXCEPT ![a] = q]
    PROVE  QueueIsExact' /\ queue' \in [Agents -> Seq(Notes)]
<1>1. queue \in [Agents -> Seq(Notes)]
  BY DEF IInv, TypeOK
<1>2. queue' \in [Agents -> Seq(Notes)] /\ queue'[a] = q /\ \A c \in Agents : c # a => queue'[c] = queue[c]
  BY <1>1
<1>3. ASSUME NEW c \in Agents PROVE Exact(queue'[c], SessionOf[c], committed')
  BY <1>2 DEF IInv, QueueIsExact, Exact
<1> QED BY <1>2, <1>3 DEF QueueIsExact, Exact

LEMMA QueueEmptied ==
    \A s, com : Exact(<<>>, s, com)
<1>1. Range(<<>>) = {} /\ IsInjective(<<>>)
  BY DEF Range, IsInjective
<1> QED BY <1>1 DEF Exact

-----------------------------------------------------------------------------
(* The steps that leave the drain and the facts alone.                      *)

\* All the rest of the invariant when neither the drain nor the facts move.
LEMMA QuietStep ==
    ASSUME IInv, TypeOK', UNCHANGED <<committed, facts, receipt, drain>>, RequestsKept, NativeOnward,
           BridgesAreHonest', QueueIsExact'
    PROVE  IInv'
<1>1. FactsOnward
  BY SameFacts DEF IInv
<1>2. SnapshotIsOld' /\ SendsPending' /\ PassIsThorough' /\ NeverForgotten'
  BY <1>1, DrainKept
<1>3. FactsTellOneStory'
  BY StoryKept
<1> QED BY <1>2, <1>3 DEF IInv

LEMMA SameNative == UNCHANGED native => NativeOnward
  BY DEF NativeOnward

LEMMA SchedChanges ==
    \A r \in Scheds :
        /\ r.away \in SUBSET (Sessions \cup {"seat"}) /\ r.requested \in BOOLEAN
        /\ [r EXCEPT !.requested = TRUE, !.backoff = FALSE] \in Scheds
        /\ [r EXCEPT !.requested = TRUE, !.backoff = FALSE].away = r.away
        /\ [r EXCEPT !.requested = TRUE, !.backoff = FALSE].requested
        /\ [r EXCEPT !.backoff = FALSE] \in Scheds
        /\ [r EXCEPT !.backoff = FALSE].away = r.away
        /\ [r EXCEPT !.backoff = FALSE].requested = r.requested
  BY DEF Scheds

\* A mishap is taken off the budget.
LEMMA SpendType == ASSUME IInv, NEW kind, Spend(kind) PROVE left' \in Budget
<1>1. left \in Budget
  BY DEF IInv, TypeOK
<1>2. left.kinds \in SUBSET Mishaps /\ left.mishaps \in Nat /\ left.mishaps > 0
  BY <1>1 DEF Spend, Budget
<1>3. left' = [left EXCEPT !.mishaps = left.mishaps - 1] /\ left.mishaps - 1 \in Nat
  BY <1>2 DEF Spend
<1> QED BY <1>1, <1>2, <1>3 DEF Budget

\* The flags that ask for a drain, or let one be due.
LEMMA FlagStep ==
    ASSUME IInv, (\E n \in Notes : RequestDrain(n)) \/ Retrigger \/ BackoffElapses
    PROVE  IInv'
<1> USE SameNative
<1>0. sched \in Scheds /\ left \in Budget
  BY DEF IInv, TypeOK, Scheds
<1>1. UNCHANGED <<outbox, roster, bus, drain, native, bridge>>
  BY DEF RequestDrain, Retrigger, BackoffElapses
<1>2. left' \in Budget /\ waking' \subseteq Notes
  <2>1. CASE \E n \in Notes : RequestDrain(n) BY <1>0, <2>1 DEF RequestDrain, IInv, TypeOK
  <2>2. CASE Retrigger BY <1>0, <2>2, SpendType DEF Retrigger, IInv, TypeOK
  <2>3. CASE BackoffElapses BY <1>0, <2>3 DEF BackoffElapses, IInv, TypeOK
  <2> QED BY <2>1, <2>2, <2>3
<1>3. sched' \in Scheds /\ RequestsKept
  <2>1. CASE \E n \in Notes : RequestDrain(n)
    <3>1. sched' = [sched EXCEPT !.requested = TRUE, !.backoff = FALSE]
      BY <2>1 DEF RequestDrain
    <3> QED BY <1>0, <3>1, SchedChanges DEF RequestsKept
  <2>2. CASE Retrigger BY <1>0, <2>2, SchedChanges DEF Retrigger, RequestsKept
  <2>3. CASE BackoffElapses BY <1>0, <2>3, SchedChanges DEF BackoffElapses, RequestsKept
  <2> QED BY <2>1, <2>2, <2>3
<1>4. TypeOK'
  BY <1>1, <1>2, <1>3 DEF IInv, TypeOK, Scheds, outbox, roster, bus
<1>5. FactsOnward /\ NativeOnward
  BY <1>1, SameFacts DEF IInv, outbox
<1>6. BridgesAreHonest' /\ QueueIsExact'
  BY <1>1, <1>5, BridgesKept, QueueKept DEF outbox, bus
<1> QED BY <1>1, <1>3, <1>4, <1>5, <1>6, QuietStep DEF outbox

LEMMA ProbeKept ==
    ASSUME IInv, ProbeIfAway, UNCHANGED waking
    PROVE  sched' \in Scheds /\ RequestsKept
<1>1. sched \in Scheds
  BY DEF IInv, TypeOK, Scheds
<1>2. sched' = [sched EXCEPT !.probe = sched.probe \/ sched.away # {}]
  BY DEF ProbeIfAway
<1> DEFINE p == sched.probe \/ sched.away # {}
<1>3. p \in BOOLEAN
  BY <1>1 DEF Scheds
<1>4. sched' = [sched EXCEPT !.probe = p]
  BY <1>2
<1> HIDE DEF p
<1>5. sched' \in Scheds /\ sched'.away = sched.away /\ sched'.requested = sched.requested
  BY <1>1, <1>3, <1>4 DEF Scheds
<1> QED BY <1>5 DEF RequestsKept

LEMMA RestBridges ==
    /\ DownBridge \in Bridges
    /\ \A acks \in SUBSET Notes : IdleBridge(acks) \in Bridges
    /\ \A t, fs : Honest(DownBridge, t, fs)
    /\ \A acks, t, fs : (\A n \in acks : Delivered(fs[n])) => Honest(IdleBridge(acks), t, fs)
<1>1. <<>> \in Seq(Notes)
  OBVIOUS
<1>2. DownBridge \in Bridges /\ \A acks \in SUBSET Notes : IdleBridge(acks) \in Bridges
  BY <1>1 DEF DownBridge, IdleBridge, Bridges, BridgePcs
<1>3. /\ \A t, fs : Honest(DownBridge, t, fs)
      /\ \A acks, t, fs : (\A n \in acks : Delivered(fs[n])) => Honest(IdleBridge(acks), t, fs)
  BY DEF DownBridge, IdleBridge, Honest
<1> QED BY <1>2, <1>3

\* A runtime registers or shows that it is alive.
LEMMA RegisterStep ==
    ASSUME IInv, NEW a \in Agents, Start(a) \/ Refresh(a)
    PROVE  IInv'
<1>1. Register(a)
  BY DEF Start, Refresh
<1>2. FactsOnward /\ NativeOnward
  BY <1>1, SameFacts, SameNative DEF IInv, Register, outbox
<1>3. sched' \in Scheds /\ RequestsKept
  BY <1>1, ProbeKept DEF Register
<1>4. BridgesAreHonest' /\ bridge' \in [Agents -> Bridges]
  <2>1. CASE bridge[a].pc = "down"
    <3>1. Put(a, IdleBridge({})) /\ IdleBridge({}) \in Bridges
      BY <1>1, <2>1, RestBridges DEF Register, Put
    <3>2. Honest(IdleBridge({}), native'[SessionOf[a]], facts')
      BY RestBridges
    <3> QED BY <1>2, <3>1, <3>2, BridgePut
  <2>2. CASE bridge[a].pc # "down"
    <3>1. bridge' = bridge
      BY <1>1, <2>2 DEF Register
    <3> QED BY <1>2, <3>1, BridgesKept DEF IInv, TypeOK, Bridges
  <2> QED BY <2>1, <2>2
<1>5. current' \in [Sessions -> Agents \cup {None}] /\ registered' \subseteq Agents
  BY <1>1, AgentAssumption DEF Register, IInv, TypeOK
<1>6. UNCHANGED <<outbox, occupant, bus, waking, drain, native, left>>
  BY <1>1 DEF Register
<1>7. TypeOK'
  BY <1>3, <1>4, <1>5, <1>6 DEF IInv, TypeOK, Scheds, Bridges, outbox, bus
<1>8. QueueIsExact'
  BY <1>6, QueueKept DEF outbox, bus
<1> QED BY <1>2, <1>3, <1>4, <1>6, <1>7, <1>8, QuietStep DEF outbox

LEMMA RosterStep ==
    ASSUME IInv, NEW s \in Sessions,
           Heartbeat \/ ClearRuntime(s) \/ Rebind(s) \/ \E key \in recent : ExpireRecent(key)
    PROVE  IInv'
<1>1. UNCHANGED <<outbox, queue, serving, waking, drain, native, bridge>>
  BY DEF Heartbeat, ClearRuntime, Rebind, ExpireRecent, bus
<1>2. sched' \in Scheds /\ RequestsKept
  <2>1. CASE Heartbeat BY <2>1, ProbeKept DEF Heartbeat
  <2>2. CASE ~Heartbeat
    <3>1. UNCHANGED <<sched, waking>>
      BY <2>2 DEF ClearRuntime, Rebind, ExpireRecent
    <3> QED BY <3>1 DEF RequestsKept, IInv, TypeOK, Scheds
  <2> QED BY <2>1, <2>2
<1>3. /\ occupant' \in Sessions /\ current' \in [Sessions -> Agents \cup {None}]
      /\ registered' \subseteq Agents /\ recent' \subseteq Notes \X Agents /\ left' \in Budget
  <2>1. CASE Heartbeat BY <2>1 DEF Heartbeat, roster, bus, IInv, TypeOK
  <2>2. CASE ClearRuntime(s) BY <2>2 DEF ClearRuntime, bus, IInv, TypeOK
  <2>3. CASE Rebind(s)
    <3>1. UNCHANGED <<current, registered, recent>> /\ occupant' = s
      BY <2>3 DEF Rebind, bus
    <3>2. left' \in Budget
      BY <2>3, SpendType DEF Rebind
    <3> QED BY <3>1, <3>2 DEF IInv, TypeOK
  <2>4. CASE \E key \in recent : ExpireRecent(key)
    BY <2>4 DEF ExpireRecent, roster, IInv, TypeOK
  <2> QED BY <2>1, <2>2, <2>3, <2>4
<1>4. TypeOK'
  BY <1>1, <1>2, <1>3 DEF IInv, TypeOK, Scheds, outbox
<1>5. FactsOnward /\ NativeOnward
  BY <1>1, SameFacts, SameNative DEF IInv, outbox
<1>6. BridgesAreHonest' /\ QueueIsExact'
  BY <1>1, <1>5, BridgesKept, QueueKept DEF outbox
<1> QED BY <1>1, <1>2, <1>4, <1>5, <1>6, QuietStep DEF outbox

\* A runtime leaves the roster and its queue goes.
LEMMA LeaveStep ==
    ASSUME IInv, NEW a \in Agents, Unregister(a) \/ Prune(a)
    PROVE  IInv'
<1>1. Drop(a) /\ UNCHANGED native
  BY DEF Unregister, Prune
<1>2. /\ UNCHANGED <<outbox, occupant, current, recent, serving, waking, sched, drain, native>>
      /\ registered' \subseteq Agents /\ queue' = [queue EXCEPT ![a] = <<>>]
  BY <1>1 DEF Drop, IInv, TypeOK
<1>3. FactsOnward /\ NativeOnward
  BY <1>2, SameFacts, SameNative DEF IInv, outbox
<1>4. BridgesAreHonest' /\ bridge' \in [Agents -> Bridges]
  <2>1. CASE Unregister(a)
    <3>1. Put(a, DownBridge) /\ DownBridge \in Bridges
      BY <2>1, RestBridges DEF Unregister, Put
    <3> QED BY <1>3, <3>1, BridgePut, RestBridges
  <2>2. CASE Prune(a)
    BY <1>3, <2>2, BridgesKept DEF Prune, IInv, TypeOK, Bridges
  <2> QED BY <2>1, <2>2
<1>5. QueueIsExact' /\ queue' \in [Agents -> Seq(Notes)]
  <2>1. <<>> \in Seq(Notes) /\ Exact(<<>>, SessionOf[a], committed)
    BY QueueEmptied
  <2> QED BY <1>2, <2>1, QueuePut DEF outbox
<1>6. left' \in Budget
  BY <1>1, SpendType DEF Drop
<1>7. TypeOK'
  BY <1>2, <1>4, <1>5, <1>6 DEF IInv, TypeOK, Bridges, outbox
<1> QED BY <1>2, <1>3, <1>4, <1>5, <1>7, QuietStep DEF outbox, RequestsKept

-----------------------------------------------------------------------------
(* The steps of a bridge and of the thread behind it.                       *)

LEMMA BridgeFields ==
    \A b \in Bridges :
        /\ b.pc \in BridgePcs /\ b.batch \in Seq(Notes) /\ b.rev \in Nat /\ b.acks \subseteq Notes
        /\ Range(b.batch) \subseteq Notes
        /\ b.batch # <<>> => Head(b.batch) \in Range(b.batch) /\ Tail(b.batch) \in Seq(Notes)
                             /\ Range(Tail(b.batch)) \subseteq Range(b.batch)
<1> TAKE b \in Bridges
<1>1. b.pc \in BridgePcs /\ b.batch \in Seq(Notes) /\ b.rev \in Nat /\ b.acks \subseteq Notes
  BY DEF Bridges
<1> DEFINE q == b.batch
<1>2. q \in Seq(Notes)
  BY <1>1
<1> HIDE DEF q
<1>3. DOMAIN q = 1..Len(q) /\ Len(q) \in Nat
  BY <1>2
<1>4. Range(q) \subseteq Notes
  BY <1>2 DEF Range
<1>5. ASSUME q # <<>> PROVE Head(q) \in Range(q) /\ Tail(q) \in Seq(Notes) /\ Range(Tail(q)) \subseteq Range(q)
  <2>1. Head(q) = q[1] /\ 1 \in DOMAIN q /\ Tail(q) \in Seq(Notes)
        /\ Len(Tail(q)) = Len(q) - 1
    BY <1>2, <1>5
  <2>2. \A i \in 1..Len(Tail(q)) : Tail(q)[i] = q[i + 1] /\ i + 1 \in 1..Len(q)
    BY <1>2, <1>3, <1>5
  <2>3. DOMAIN Tail(q) = 1..Len(Tail(q))
    BY <2>1
  <2>4. ASSUME NEW y \in Range(Tail(q)) PROVE y \in Range(q)
    BY <1>3, <2>2, <2>3, <2>4 DEF Range
  <2> QED BY <2>1, <2>4 DEF Range
<1> QED BY <1>1, <1>4, <1>5 DEF q

\* What a bridge keeps of its record when it moves on.
Moved(c, b, p, q) == c \in Bridges /\ c.pc = p /\ c.acks = b.acks /\ c.batch = q

LEMMA BridgeMoves ==
    \A b \in Bridges, p \in BridgePcs :
        /\ Moved([b EXCEPT !.pc = p], b, p, b.batch)
        /\ \A q \in Seq(Notes) : Moved([b EXCEPT !.pc = p, !.batch = q], b, p, q)
        /\ \A r \in Nat : Moved([b EXCEPT !.pc = p, !.rev = r], b, p, b.batch)
<1> SUFFICES ASSUME NEW b \in Bridges, NEW p \in BridgePcs
             PROVE  /\ Moved([b EXCEPT !.pc = p], b, p, b.batch)
                    /\ \A q \in Seq(Notes) : Moved([b EXCEPT !.pc = p, !.batch = q], b, p, q)
                    /\ \A r \in Nat : Moved([b EXCEPT !.pc = p, !.rev = r], b, p, b.batch)
  OBVIOUS
<1>1. Moved([b EXCEPT !.pc = p], b, p, b.batch)
  BY DEF Bridges, Moved
<1>2. ASSUME NEW q \in Seq(Notes) PROVE Moved([b EXCEPT !.pc = p, !.batch = q], b, p, q)
  BY DEF Bridges, Moved
<1>3. ASSUME NEW r \in Nat PROVE Moved([b EXCEPT !.pc = p, !.rev = r], b, p, b.batch)
  BY DEF Bridges, Moved
<1> QED BY <1>1, <1>2, <1>3

\* The rest of the invariant after a step of a bridge that records nothing.
LEMMA BridgeTurn ==
    ASSUME IInv, NEW a \in Agents, NEW b \in Bridges, Put(a, b), NativeOnward,
           UNCHANGED <<committed, facts, receipt, roster, recent, serving, waking, sched, drain>>,
           Honest(b, native'[SessionOf[a]], facts), QueueIsExact', queue' \in [Agents -> Seq(Notes)],
           native' \in [Sessions -> [Notes -> {"unknown", "pending", "persisted"}]], left' \in Budget
    PROVE  IInv'
<1>1. FactsOnward
  BY SameFacts DEF IInv
<1>2. BridgesAreHonest' /\ bridge' \in [Agents -> Bridges]
  BY <1>1, BridgePut
<1>3. TypeOK'
  BY <1>2 DEF IInv, TypeOK, Bridges, roster
<1> QED BY <1>2, <1>3, QuietStep DEF RequestsKept

LEMMA QueueWithout ==
    ASSUME IInv, NEW a \in Agents, NEW gone, queue' = [queue EXCEPT ![a] = Without(queue[a], gone)],
           UNCHANGED committed
    PROVE  QueueIsExact' /\ queue' \in [Agents -> Seq(Notes)] /\ Range(queue'[a]) = Range(queue[a]) \ gone
           /\ \A c \in Agents : c # a => queue'[c] = queue[c]
<1>1. queue[a] \in Seq(Notes) /\ queue \in [Agents -> Seq(Notes)]
  BY DEF IInv, TypeOK
<1>2. Exact(queue[a], SessionOf[a], committed)
  BY DEF IInv, QueueIsExact, Exact
<1> DEFINE w == Without(queue[a], gone)
<1>3. w \in Seq(Notes) /\ Range(w) = Range(queue[a]) \ gone /\ (IsInjective(queue[a]) => IsInjective(w))
  BY <1>1, WithoutFacts
<1> HIDE DEF w
<1>4. Exact(w, SessionOf[a], committed)
  BY <1>2, <1>3 DEF Exact
<1>5. queue' = [queue EXCEPT ![a] = w]
  BY DEF w
<1>6. QueueIsExact' /\ queue' \in [Agents -> Seq(Notes)]
  BY <1>3, <1>4, <1>5, QueuePut
<1> QED BY <1>1, <1>3, <1>5, <1>6

LEMMA SameQueue ==
    ASSUME IInv, UNCHANGED <<committed, queue>>
    PROVE  QueueIsExact' /\ queue' \in [Agents -> Seq(Notes)]
  BY QueueKept DEF IInv, TypeOK

LEMMA NativeType ==
    IInv => native \in [Sessions -> [Notes -> {"unknown", "pending", "persisted"}]] /\ left \in Budget
            /\ facts \in [Notes -> Seq(FactKinds)] /\ receipt \in [Notes -> Sessions \cup {None}]
            /\ bridge \in [Agents -> Bridges]
  BY DEF IInv, TypeOK, Bridges

LEMMA RetryAcksStep ==
    ASSUME IInv, NEW a \in Agents, RetryAcks(a) PROVE IInv'
<1>1. /\ UNCHANGED <<committed, facts, receipt, roster, recent, serving, waking, sched, drain, native, left>>
      /\ queue' = [queue EXCEPT ![a] = Without(queue[a], bridge[a].acks)]
      /\ Put(a, IdleBridge({}))
  BY DEF RetryAcks, outbox
<1>2. QueueIsExact' /\ queue' \in [Agents -> Seq(Notes)]
  BY <1>1, QueueWithout
<1>3. IdleBridge({}) \in Bridges /\ Honest(IdleBridge({}), native'[SessionOf[a]], facts)
  BY RestBridges
<1> QED BY <1>1, <1>2, <1>3, BridgeTurn, SameNative, NativeType

LEMMA PollStep ==
    ASSUME IInv, NEW a \in Agents, Poll(a) PROVE IInv'
<1> DEFINE b == [bridge[a] EXCEPT !.pc = "submit", !.batch = queue[a]]
<1>0. bridge[a] \in Bridges /\ queue[a] \in Seq(Notes)
  BY DEF IInv, TypeOK, Bridges
<1>1. /\ UNCHANGED <<committed, facts, receipt, roster, recent, serving, waking, sched, drain, native, left, queue>>
      /\ Put(a, b)
  BY DEF Poll, outbox, bus
<1>2. b \in Bridges /\ b.pc = "submit" /\ b.acks = bridge[a].acks
  <2>1. "submit" \in BridgePcs
    BY DEF BridgePcs
  <2>2. Moved(b, bridge[a], "submit", queue[a])
    BY <1>0, <2>1, BridgeMoves, Zenon
  <2> QED BY <2>2 DEF Moved
<1>3. \A n \in bridge[a].acks : Delivered(facts[n])
  BY DEF IInv, BridgesAreHonest, Honest
<1> HIDE DEF b
<1>4. Honest(b, native'[SessionOf[a]], facts)
  BY <1>2, <1>3 DEF Honest
<1> QED BY <1>1, <1>2, <1>4, BridgeTurn, SameNative, NativeType, SameQueue

LEMMA SubmitStep ==
    ASSUME IInv, NEW a \in Agents, NEW sent \in SUBSET Unknown(a), SubmitAll(a, sent), left' \in Budget
    PROVE  IInv'
<1> DEFINE b == [bridge[a] EXCEPT !.pc = "status"]
<1>0. bridge[a] \in Bridges /\ SessionOf[a] \in Sessions
  BY AgentAssumption DEF IInv, TypeOK, Bridges
<1>1. /\ UNCHANGED <<committed, facts, receipt, roster, recent, serving, waking, sched, drain, queue>>
      /\ Put(a, b)
      /\ native' = [native EXCEPT ![SessionOf[a]] =
                      [n \in Notes |-> IF n \in sent THEN "pending" ELSE native[SessionOf[a]][n]]]
  BY DEF SubmitAll, outbox, bus
<1>2. b \in Bridges /\ b.pc = "status" /\ b.acks = bridge[a].acks
  BY <1>0, BridgeMoves, ZenonT(60) DEF Moved, BridgePcs
<1>3. \A n \in bridge[a].acks : Delivered(facts[n])
  BY DEF IInv, BridgesAreHonest, Honest
<1> HIDE DEF b
<1>4. Honest(b, native'[SessionOf[a]], facts)
  BY <1>2, <1>3 DEF Honest
<1>5. \A n \in sent : native[SessionOf[a]][n] = "unknown"
  BY DEF Unknown
<1>6. native' \in [Sessions -> [Notes -> {"unknown", "pending", "persisted"}]]
  BY <1>0, <1>1, NativeType
<1>7. NativeOnward
  BY <1>0, <1>1, <1>5, NativeType DEF NativeOnward
<1> QED BY <1>1, <1>2, <1>4, <1>6, <1>7, BridgeTurn, SameQueue

LEMMA StatusStep ==
    ASSUME IInv, NEW a \in Agents, Status(a) PROVE IInv'
<1> DEFINE w == Without(bridge[a].batch, NotPersisted(a))
           b == [bridge[a] EXCEPT !.pc = "read", !.batch = w]
<1>0. bridge[a] \in Bridges /\ bridge[a].batch \in Seq(Notes) /\ Range(bridge[a].batch) \subseteq Notes
  BY BridgeFields DEF IInv, TypeOK, Bridges
<1>1. /\ UNCHANGED <<committed, facts, receipt, roster, recent, serving, waking, sched, drain, native, left, queue>>
      /\ Put(a, b)
  BY DEF Status, outbox, bus
<1>2. w \in Seq(Notes) /\ Range(w) = Range(bridge[a].batch) \ NotPersisted(a)
  BY <1>0, WithoutFacts
<1> HIDE DEF w
<1>3. b \in Bridges /\ b.pc = "read" /\ b.acks = bridge[a].acks /\ b.batch = w
  <2>1. "read" \in BridgePcs
    BY DEF BridgePcs
  <2>2. Moved(b, bridge[a], "read", w)
    BY <1>0, <1>2, <2>1, BridgeMoves, Zenon
  <2> QED BY <2>2 DEF Moved
<1>4. \A n \in bridge[a].acks : Delivered(facts[n])
  BY DEF IInv, BridgesAreHonest, Honest
<1>5. \A n \in Range(w) : native[SessionOf[a]][n] = "persisted"
  BY <1>0, <1>2 DEF NotPersisted
<1> HIDE DEF b
<1>6. Honest(b, native'[SessionOf[a]], facts)
  BY <1>1, <1>3, <1>4, <1>5 DEF Honest
<1> QED BY <1>1, <1>3, <1>6, BridgeTurn, SameNative, NativeType, SameQueue

LEMMA ReadStep ==
    ASSUME IInv, NEW a \in Agents, ReadRevision(a) PROVE IInv'
<1>0. bridge[a] \in Bridges /\ bridge[a].acks \in SUBSET Notes
  BY DEF IInv, TypeOK, Bridges
<1>1. /\ UNCHANGED <<committed, facts, receipt, roster, recent, serving, waking, sched, drain, native, left, queue>>
      /\ bridge[a].pc = "read"
  BY DEF ReadRevision, outbox, bus
<1>2. /\ \A n \in bridge[a].acks : Delivered(facts[n])
      /\ \A n \in Range(bridge[a].batch) : native[SessionOf[a]][n] = "persisted"
  BY <1>1 DEF IInv, BridgesAreHonest, Honest
<1>3. CASE bridge[a].batch = <<>>
  <2> DEFINE b == IdleBridge(bridge[a].acks)
  <2>1. b \in Bridges /\ Honest(b, native'[SessionOf[a]], facts)
    BY <1>0, <1>2, RestBridges
  <2>2. Put(a, b)
    BY <1>3 DEF ReadRevision
  <2> HIDE DEF b
  <2> QED BY <1>1, <2>1, <2>2, BridgeTurn, SameNative, NativeType, SameQueue
<1>4. CASE bridge[a].batch # <<>>
  <2> DEFINE r == Len(facts[Head(bridge[a].batch)])
             b == [bridge[a] EXCEPT !.pc = "record", !.rev = r]
  <2>1. r \in Nat
    BY <1>0, <1>4, BridgeFields, NativeType
  <2>2. Put(a, b)
    BY <1>4 DEF ReadRevision
  <2> HIDE DEF r
  <2>3. b \in Bridges /\ b.pc = "record" /\ b.acks = bridge[a].acks /\ b.batch = bridge[a].batch
    <3>1. "record" \in BridgePcs
      BY DEF BridgePcs
    <3>2. Moved(b, bridge[a], "record", bridge[a].batch)
      BY <1>0, <2>1, <3>1, BridgeMoves, Zenon
    <3> QED BY <3>2 DEF Moved
  <2> HIDE DEF b
  <2>4. Honest(b, native'[SessionOf[a]], facts)
    BY <1>1, <1>2, <1>4, <2>3 DEF Honest
  <2> QED BY <1>1, <2>2, <2>3, <2>4, BridgeTurn, SameNative, NativeType, SameQueue
<1> QED BY <1>3, <1>4

LEMMA AckStep ==
    ASSUME IInv, NEW a \in Agents, Ack(a) \/ AckFails(a) PROVE IInv'
<1>0. bridge[a] \in Bridges /\ bridge[a].acks \in SUBSET Notes
  BY DEF IInv, TypeOK, Bridges
<1>1. /\ UNCHANGED <<committed, facts, receipt, roster, recent, serving, waking, sched, drain, native>>
      /\ bridge[a].pc = "ack"
  BY DEF Ack, AckFails, outbox
<1>2. /\ \A n \in bridge[a].acks : Delivered(facts[n])
      /\ \A n \in Range(bridge[a].batch) : native[SessionOf[a]][n] = "persisted"
      /\ bridge[a].batch # <<>> /\ Delivered(facts[Head(bridge[a].batch)])
  BY <1>1 DEF IInv, BridgesAreHonest, Honest
<1>3. QueueIsExact' /\ queue' \in [Agents -> Seq(Notes)]
  <2>1. CASE UNCHANGED queue
    BY <1>1, <2>1, SameQueue
  <2>2. CASE queue' = Acked(a)
    BY <1>1, <2>2, QueueWithout DEF Acked
  <2> QED BY <2>1, <2>2 DEF Ack, AckFails
<1>4. left' \in Budget
  BY NativeType, SpendType DEF Ack, AckFails
<1>5. CASE Ack(a)
  <2> DEFINE b == [bridge[a] EXCEPT !.pc = "read", !.batch = Tail(bridge[a].batch)]
  <2>1. Put(a, b)
    BY <1>5 DEF Ack
  <2>2. Tail(bridge[a].batch) \in Seq(Notes) /\ Range(Tail(bridge[a].batch)) \subseteq Range(bridge[a].batch)
    BY <1>0, <1>2, BridgeFields
  <2>3. b \in Bridges /\ b.pc = "read" /\ b.acks = bridge[a].acks /\ b.batch = Tail(bridge[a].batch)
    <3>1. "read" \in BridgePcs
      BY DEF BridgePcs
    <3>2. Moved(b, bridge[a], "read", Tail(bridge[a].batch))
      BY <1>0, <2>2, <3>1, BridgeMoves, Zenon
    <3> QED BY <3>2 DEF Moved
  <2> HIDE DEF b
  <2>4. Honest(b, native'[SessionOf[a]], facts)
    BY <1>1, <1>2, <2>2, <2>3 DEF Honest
  <2> QED BY <1>1, <1>3, <1>4, <2>1, <2>3, <2>4, BridgeTurn, SameNative, NativeType
<1>6. CASE AckFails(a)
  <2> DEFINE k == bridge[a].acks \cup {Head(bridge[a].batch)}
             b == IdleBridge(k)
  <2>1. Put(a, b)
    BY <1>6 DEF AckFails
  <2>2. k \in SUBSET Notes /\ \A n \in k : Delivered(facts[n])
    BY <1>0, <1>2, BridgeFields
  <2> HIDE DEF k
  <2>3. b \in Bridges /\ Honest(b, native'[SessionOf[a]], facts)
    BY <2>2, RestBridges
  <2> HIDE DEF b
  <2> QED BY <1>1, <1>3, <1>4, <2>1, <2>3, BridgeTurn, SameNative, NativeType
<1> QED BY <1>5, <1>6

\* A runtime dies.
LEMMA CrashStep == ASSUME IInv, NEW a \in Agents, Crash(a) PROVE IInv'
<1>0. SessionOf[a] \in Sessions
  BY AgentAssumption
<1>1. /\ UNCHANGED <<committed, facts, receipt, roster, recent, serving, waking, sched, drain, queue>>
      /\ Put(a, DownBridge)
      /\ native' = [native EXCEPT ![SessionOf[a]] =
            [m \in Notes |-> IF native[SessionOf[a]][m] = "pending" THEN "unknown" ELSE native[SessionOf[a]][m]]]
  BY DEF Crash, outbox, bus
<1>2. left' \in Budget
  BY SpendType DEF Crash
<1>3. native' \in [Sessions -> [Notes -> {"unknown", "pending", "persisted"}]]
  BY <1>0, <1>1, NativeType
<1>4. NativeOnward
  BY <1>0, <1>1, NativeType DEF NativeOnward
<1>5. DownBridge \in Bridges /\ Honest(DownBridge, native'[SessionOf[a]], facts)
  BY RestBridges
<1> QED BY <1>1, <1>2, <1>3, <1>4, <1>5, BridgeTurn, SameQueue

\* A thread persists what it accepted.
LEMMA PersistStep == ASSUME IInv, NEW s \in Sessions, NEW n \in Notes, Persist(s, n) PROVE IInv'
<1>1. /\ UNCHANGED <<committed, facts, receipt, roster, bus, waking, sched, drain, bridge, left>>
      /\ native' = [native EXCEPT ![s][n] = "persisted"]
  BY DEF Persist, outbox
<1>2. native' \in [Sessions -> [Notes -> {"unknown", "pending", "persisted"}]]
  BY <1>1, NativeType
<1>3. NativeOnward
  BY <1>1, NativeType DEF NativeOnward
<1>4. TypeOK'
  BY <1>1, <1>2 DEF IInv, TypeOK, roster, bus
<1>5. BridgesAreHonest'
  BY <1>1, <1>3, BridgesKept, SameFacts DEF IInv
<1>6. QueueIsExact'
  BY <1>1, QueueKept DEF bus
<1> QED BY <1>1, <1>3, <1>4, <1>5, <1>6, QuietStep DEF RequestsKept

-----------------------------------------------------------------------------
(* The steps that record a fact.                                            *)

\* The order of the facts about one notification.
Story(fs) ==
    \A i, j \in DOMAIN fs :
        /\ fs[i] = "delivered" => i = Len(fs)
        /\ i < j /\ fs[i] = "queued" => fs[j] # "queued"
        /\ j = i + 1 /\ fs[i] = "uncertain" => fs[j] # "uncertain"

LEMMA StoryAppend ==
    ASSUME NEW fs \in Seq(FactKinds), NEW x \in FactKinds, Story(fs), ~Delivered(fs),
           x = "queued" => "queued" \notin Range(fs), x = "uncertain" => ~LastIsUncertain(fs)
    PROVE  Story(Append(fs, x))
<1> DEFINE z == Append(fs, x)
           l == Len(fs)
<1>1. l \in Nat /\ DOMAIN fs = 1..l /\ DOMAIN z = 1..(l + 1) /\ Len(z) = l + 1 /\ z[l + 1] = x
      /\ \A k \in 1..l : z[k] = fs[k]
  OBVIOUS
<1>2. \A k \in 1..l : fs[k] \in Range(fs) /\ z[k] # "delivered"
  BY <1>1 DEF Range, Delivered
<1>3. l # 0 => fs # <<>>
  OBVIOUS
<1>3a. x = "uncertain" /\ l # 0 => fs[l] # "uncertain"
  BY <1>3 DEF LastIsUncertain
<1> HIDE DEF z, l
<1>4. SUFFICES ASSUME NEW i \in 1..(l + 1), NEW j \in 1..(l + 1)
               PROVE  /\ z[i] = "delivered" => i = l + 1
                      /\ i < j /\ z[i] = "queued" => z[j] # "queued"
                      /\ j = i + 1 /\ z[i] = "uncertain" => z[j] # "uncertain"
  BY <1>1 DEF Story, z
<1>5. i \in 1..l \/ i = l + 1
  BY <1>1
<1>6. z[i] = "delivered" => i = l + 1
  BY <1>2, <1>5
<1>7. ASSUME i < j PROVE i \in 1..l /\ (j \in 1..l \/ j = l + 1)
  BY <1>1, <1>7
<1>8. ASSUME i < j, z[i] = "queued", z[j] = "queued" PROVE FALSE
  <2>1. CASE j \in 1..l
    BY <1>1, <1>7, <1>8, <2>1 DEF Story
  <2>2. CASE j = l + 1
    <3>1. x = "queued" /\ fs[i] = "queued" /\ fs[i] \in Range(fs)
      BY <1>1, <1>2, <1>7, <1>8, <2>2
    <3> QED BY <3>1
  <2> QED BY <1>7, <1>8, <2>1, <2>2
<1>9. ASSUME j = i + 1, z[i] = "uncertain", z[j] = "uncertain" PROVE FALSE
  <2>0. i < j
    BY <1>1, <1>9
  <2>1. CASE j \in 1..l
    BY <1>1, <1>7, <1>9, <2>0, <2>1 DEF Story
  <2>2. CASE j = l + 1
    <3>1. i = l /\ l # 0
      BY <1>1, <1>9, <2>2
    <3>2. x = "uncertain" /\ fs[l] = "uncertain"
      BY <1>1, <1>7, <1>9, <2>0, <2>2, <3>1
    <3> QED BY <1>3a, <3>1, <3>2
  <2> QED BY <1>7, <2>0, <2>1, <2>2
<1> QED BY <1>6, <1>8, <1>9

\* A recorded fact continues the story when the writer knew all of it.
LEMMA StoryGrown ==
    ASSUME IInv, NEW n \in Notes, NEW x \in FactKinds, Append1(n, x), UNCHANGED native,
           ~Delivered(facts[n]), x = "queued" => "queued" \notin Range(facts[n]),
           x = "uncertain" => ~LastIsUncertain(facts[n]),
           receipt' \in [Notes -> Sessions \cup {None}],
           \A m \in Notes : m # n => receipt'[m] = receipt[m],
           x # "delivered" => receipt'[n] = receipt[n],
           x = "delivered" => receipt'[n] \in Sessions /\ native[receipt'[n]][n] = "persisted"
    PROVE  FactsTellOneStory'
<1>0. TypeOK /\ facts[n] \in Seq(FactKinds)
  BY DEF IInv, TypeOK
<1>1. /\ facts'[n] = Append(facts[n], x) /\ Range(facts'[n]) = Range(facts[n]) \cup {x}
      /\ \A m \in Notes : m # n => facts'[m] = facts[m]
  BY <1>0, GrownFacts
<1>2. Story(facts[n])
  BY DEF IInv, FactsTellOneStory, Story
<1>3. Story(facts'[n])
  BY <1>0, <1>1, <1>2, StoryAppend
<1>4. receipt[n] = None
  BY DEF IInv, FactsTellOneStory
<1>5. Delivered(facts'[n]) <=> receipt'[n] # None
  <2>1. CASE x = "delivered"
    BY <1>1, <2>1, NoneAssumption DEF Delivered
  <2>2. CASE x # "delivered"
    BY <1>1, <1>4, <2>2 DEF Delivered
  <2> QED BY <2>1, <2>2
<1>6. receipt'[n] # None => native'[receipt'[n]][n] = "persisted"
  BY <1>4
<1> SUFFICES ASSUME NEW m \in Notes
             PROVE  /\ Delivered(facts'[m]) <=> receipt'[m] # None
                    /\ receipt'[m] # None => native'[receipt'[m]][m] = "persisted"
                    /\ Story(facts'[m])
  BY DEF FactsTellOneStory, Story
<1>7. CASE m = n
  BY <1>3, <1>5, <1>6, <1>7
<1>8. CASE m # n
  <2>1. facts'[m] = facts[m] /\ receipt'[m] = receipt[m]
    BY <1>1, <1>8
  <2>2. /\ Delivered(facts[m]) <=> receipt[m] # None
        /\ receipt[m] # None => native[receipt[m]][m] = "persisted"
        /\ Story(facts[m])
    BY DEF IInv, FactsTellOneStory, Story
  <2> QED BY <2>1, <2>2
<1> QED BY <1>7, <1>8

\* A bridge records that its message is in the context.
LEMMA RecordDeliveredStep ==
    ASSUME IInv, NEW a \in Agents, RecordDelivered(a) PROVE IInv'
<1> DEFINE n == Head(bridge[a].batch)
           s == SessionOf[a]
           b == [bridge[a] EXCEPT !.pc = "ack", !.rev = 0]
<1>0. bridge[a] \in Bridges /\ s \in Sessions /\ bridge[a].acks \in SUBSET Notes
  BY AgentAssumption DEF IInv, TypeOK, Bridges
<1>1. /\ UNCHANGED <<committed, roster, recent, serving, waking, sched, drain, queue, native, left>>
      /\ bridge[a].pc = "record"
  BY DEF RecordDelivered, bus
<1>2. /\ \A m \in bridge[a].acks : Delivered(facts[m])
      /\ \A m \in Range(bridge[a].batch) : native[s][m] = "persisted"
      /\ bridge[a].batch # <<>>
  BY <1>1 DEF IInv, BridgesAreHonest, Honest
<1>3. n \in Notes /\ native[s][n] = "persisted"
  BY <1>0, <1>2, BridgeFields
<1>4. b \in Bridges /\ b.pc = "ack" /\ b.acks = bridge[a].acks /\ b.batch = bridge[a].batch
  <2>1. "ack" \in BridgePcs /\ 0 \in Nat
    BY DEF BridgePcs
  <2>2. Moved(b, bridge[a], "ack", bridge[a].batch)
    BY <1>0, <2>1, BridgeMoves, Zenon
  <2> QED BY <2>2 DEF Moved
<1>5. NativeOnward
  BY <1>1, SameNative
<1>6. RequestsKept
  BY <1>1 DEF RequestsKept
<1> HIDE DEF b
<1>7. CASE CanRecord(n, bridge[a].rev) /\ Append1(n, "delivered")
           /\ receipt' = [receipt EXCEPT ![n] = s] /\ Put(a, b)
  <2>1. receipt \in [Notes -> Sessions \cup {None}] /\ receipt[n] = None
    BY <1>7, NativeType DEF CanRecord
  <2>2. receipt' \in [Notes -> Sessions \cup {None}] /\ receipt'[n] = s
        /\ \A m \in Notes : m # n => receipt'[m] = receipt[m]
    BY <1>0, <1>3, <1>7, <2>1
  <2>3. ~Delivered(facts[n]) /\ "delivered" \in FactKinds
    BY <1>3, <2>1 DEF IInv, FactsTellOneStory, FactKinds
  <2>4. TypeOK
    BY DEF IInv
  <2>5. /\ facts' \in [Notes -> Seq(FactKinds)] /\ FactsOnward /\ Delivered(facts'[n])
    <3> HIDE DEF n
    <3>1. Append1(n, "delivered")
      BY <1>7
    <3>2. /\ facts' \in [Notes -> Seq(FactKinds)] /\ FactsOnward
          /\ Range(facts'[n]) = Range(facts[n]) \cup {"delivered"}
      BY <1>3, <2>3, <2>4, <3>1, GrownFacts
    <3> QED BY <3>2 DEF Delivered
  <2>6. FactsTellOneStory'
    <3> HIDE DEF n, s
    <3> QED BY <1>0, <1>1, <1>3, <1>7, <2>2, <2>3, StoryGrown
  <2>7. \A m \in bridge[a].acks : Delivered(facts'[m])
    BY <1>0, <1>2, <2>5, FactsStay
  <2>8. Honest(b, native'[SessionOf[a]], facts')
    BY <1>1, <1>2, <1>4, <2>5, <2>7 DEF Honest
  <2>9. BridgesAreHonest' /\ bridge' \in [Agents -> Bridges]
    <3>1. Put(a, b)
      BY <1>7
    <3> QED BY <1>4, <1>5, <2>5, <2>8, <3>1, BridgePut
  <2>10. TypeOK'
    BY <1>1, <2>2, <2>5, <2>9 DEF IInv, TypeOK, Bridges, roster
  <2>11. SnapshotIsOld' /\ SendsPending' /\ PassIsThorough' /\ NeverForgotten'
    BY <1>1, <1>6, <2>5, <2>10, DrainKept
  <2>12. QueueIsExact'
    BY <1>1, QueueKept
  <2> QED BY <2>6, <2>9, <2>10, <2>11, <2>12 DEF IInv
<1>8. CASE receipt[n] = s /\ Put(a, b) /\ UNCHANGED <<facts, receipt>>
  <2>1. Delivered(facts[n])
    BY <1>0, <1>3, <1>8, NoneAssumption DEF IInv, FactsTellOneStory
  <2>2. Honest(b, native'[SessionOf[a]], facts)
    BY <1>1, <1>2, <1>4, <2>1 DEF Honest
  <2>3. Put(a, b) /\ UNCHANGED <<facts, receipt>>
    BY <1>8
  <2> QED BY <1>1, <1>4, <1>5, <2>2, <2>3, BridgeTurn, NativeType, SameQueue
<1>9. CASE Put(a, IdleBridge(bridge[a].acks)) /\ UNCHANGED <<facts, receipt>>
  <2> DEFINE c == IdleBridge(bridge[a].acks)
  <2>1. c \in Bridges /\ Honest(c, native'[SessionOf[a]], facts) /\ Put(a, c)
    BY <1>0, <1>2, <1>9, RestBridges
  <2> HIDE DEF c
  <2> QED BY <1>1, <1>5, <1>9, <2>1, BridgeTurn, NativeType, SameQueue
<1>10. \/ CanRecord(n, bridge[a].rev) /\ Append1(n, "delivered")
           /\ receipt' = [receipt EXCEPT ![n] = s] /\ Put(a, b)
       \/ receipt[n] = s /\ Put(a, b) /\ UNCHANGED <<facts, receipt>>
       \/ Put(a, IdleBridge(bridge[a].acks)) /\ UNCHANGED <<facts, receipt>>
  BY Zenon DEF RecordDelivered, b
<1> QED BY <1>7, <1>8, <1>9, <1>10

-----------------------------------------------------------------------------
(* The steps of the drain.                                                  *)

LEMMA DrainFields ==
    IInv => drain \in Drains /\ drain.at \in Nat /\ drain.at >= 1 /\ sched \in Scheds
            /\ drain.known \subseteq Notes /\ Len(Outbox) \in Nat
            /\ \A i \in 1..Len(Outbox) : Outbox[i] \in Notes
<1> SUFFICES ASSUME IInv
             PROVE  drain \in Drains /\ drain.at \in Nat /\ drain.at >= 1 /\ sched \in Scheds
                    /\ drain.known \subseteq Notes /\ Len(Outbox) \in Nat
                    /\ \A i \in 1..Len(Outbox) : Outbox[i] \in Notes
  OBVIOUS
<1>1. drain \in Drains /\ sched \in Scheds
  BY DEF IInv, TypeOK, Drains, Scheds
<1>2. drain.at \in Nat /\ drain.known \subseteq Notes
  BY <1>1 DEF Drains
<1>3. drain.at >= 1
  BY DEF IInv, SendsPending
<1>4. Len(Outbox) \in Nat /\ \A i \in 1..Len(Outbox) : Outbox[i] \in Notes
  BY OutboxAssumption
<1> QED BY <1>1, <1>2, <1>3, <1>4

\* The rest of the invariant after a step of the drain that sends and records
\* nothing.
LEMMA DrainQuiet ==
    ASSUME IInv, UNCHANGED <<committed, facts, receipt, roster, queue, recent, waking, native, bridge>>,
           drain' \in Drains, sched' \in Scheds, serving' \in BOOLEAN, left' \in Budget,
           SnapshotIsOld', SendsPending', PassIsThorough', NeverForgotten'
    PROVE  IInv'
<1>1. TypeOK'
  BY DEF IInv, TypeOK, Drains, Scheds, roster
<1>2. FactsOnward /\ NativeOnward
  BY SameFacts, SameNative DEF IInv
<1>3. BridgesAreHonest' /\ QueueIsExact' /\ FactsTellOneStory'
  BY <1>2, BridgesKept, QueueKept, StoryKept
<1> QED BY <1>1, <1>3 DEF IInv

\* A drain that is not in a pass has nothing to answer for.
LEMMA Rests ==
    ASSUME \/ drain'.pc \in {"idle", "spawned", "due", "take", "query", "tail"} /\ drain'.at = 1
           \/ drain'.pc = "release" /\ drain'.at >= 1
    PROVE  SnapshotIsOld' /\ SendsPending' /\ PassIsThorough'
  BY DEF SnapshotIsOld, SendsPending, PassIsThorough, InPass

LEMMA RestDrains ==
    /\ \A p \in DrainPcs : RestDrain(p) \in Drains
    /\ \A p : RestDrain(p).pc = p /\ RestDrain(p).at = 1
<1>1. [n \in Notes |-> <<>>] \in [Notes -> Seq(FactKinds)]
  OBVIOUS
<1> QED BY <1>1 DEF RestDrain, Drains

\* A step from one place outside a pass to another.
LEMMA OffPass ==
    ASSUME IInv, UNCHANGED <<committed, facts, receipt, roster, queue, recent, waking, native, bridge, left>>,
           drain.pc \in {"idle", "spawned", "due", "take", "release", "tail"},
           drain' \in Drains, sched' \in Scheds, serving' \in BOOLEAN,
           sched'.away = sched.away, sched.requested => sched'.requested \/ drain'.pc = "query",
           \/ drain'.pc \in {"idle", "spawned", "due", "take", "query", "tail"} /\ drain'.at = 1
           \/ drain'.pc = "release" /\ drain'.at >= 1
    PROVE  IInv'
<1>1. SnapshotIsOld' /\ SendsPending' /\ PassIsThorough'
  BY Rests
<1>2. NeverForgotten'
  BY DEF IInv, NeverForgotten, DrainComing
<1>3. left' \in Budget
  BY NativeType
<1> QED BY <1>1, <1>2, <1>3, DrainQuiet

LEMMA WaitSteps ==
    ASSUME IInv, Schedule \/ DrainProbe \/ DrainDue \/ DrainTake \/ DrainRelease \/ DrainTail
    PROVE  IInv'
<1>0. drain \in Drains /\ sched \in Scheds /\ drain.at >= 1 /\ serving \in BOOLEAN
      /\ (~InPass /\ drain.pc # "release" => drain.at = 1)
  BY DrainFields DEF IInv, TypeOK, SendsPending
<1>p. {"idle", "spawned", "due", "take", "query", "release", "tail"} \subseteq DrainPcs
  BY DEF DrainPcs
<1>1. UNCHANGED <<committed, facts, receipt, roster, queue, recent, waking, native, bridge, left>>
  BY DEF Schedule, DrainProbe, DrainDue, DrainTake, DrainRelease, DrainTail, outbox, bus
<1>2. CASE Schedule
  <2>1. drain' = RestDrain("spawned") /\ sched' = [sched EXCEPT !.scheduled = TRUE]
        /\ drain.pc \in {"idle", "tail"} /\ serving' = serving
    BY <1>2 DEF Schedule, bus
  <2>2. sched' \in Scheds /\ sched'.away = sched.away /\ sched'.requested = sched.requested
    BY <1>0, <2>1 DEF Scheds
  <2>3. drain' \in Drains /\ drain'.pc = "spawned" /\ drain'.at = 1
    BY <1>p, <2>1, RestDrains
  <2> QED BY <1>0, <1>1, <2>1, <2>2, <2>3, OffPass
<1>3. CASE DrainProbe
  <2>1. drain' = [drain EXCEPT !.pc = "due"] /\ drain.pc = "spawned" /\ serving' = serving
    BY <1>3 DEF DrainProbe, bus
  <2>2. drain.at = 1
    BY <1>0, <2>1 DEF InPass
  <2>3. drain' \in Drains /\ drain'.pc = "due" /\ drain'.at = 1
    BY <1>0, <1>p, <2>1, <2>2 DEF Drains
  <2>4. sched' \in Scheds /\ sched'.away = sched.away /\ (sched.requested => sched'.requested)
    <3>1. CASE sched' = [sched EXCEPT !.probe = FALSE, !.requested = TRUE, !.backoff = FALSE]
      BY <1>0, <3>1 DEF Scheds
    <3>2. CASE sched' = [sched EXCEPT !.probe = FALSE]
      BY <1>0, <3>2 DEF Scheds
    <3> QED BY <1>3, <3>1, <3>2 DEF DrainProbe
  <2> QED BY <1>0, <1>1, <2>1, <2>3, <2>4, OffPass
<1>4. CASE DrainDue
  <2>1. PICK p \in {"take", "release"} : drain' = [drain EXCEPT !.pc = p]
    BY <1>4 DEF DrainDue
  <2>2. drain.pc = "due" /\ serving' = serving /\ sched' = sched
    BY <1>4 DEF DrainDue, bus
  <2>3. drain.at = 1
    BY <1>0, <2>2 DEF InPass
  <2>4. drain' \in Drains /\ drain'.pc = p /\ drain'.at = 1
    BY <1>0, <1>p, <2>1, <2>3 DEF Drains
  <2> QED BY <1>0, <1>1, <2>2, <2>4, OffPass
<1>5. CASE DrainTake
  <2>1. drain.pc = "take" /\ serving' = serving /\ sched' = [sched EXCEPT !.requested = FALSE]
        /\ drain' = [drain EXCEPT !.pc = IF sched.requested THEN "query" ELSE "release"]
    BY <1>5 DEF DrainTake, bus
  <2>2. PICK p \in {"query", "release"} : drain' = [drain EXCEPT !.pc = p] /\ (sched.requested => p = "query")
    BY <2>1
  <2>3. drain.at = 1
    BY <1>0, <2>1 DEF InPass
  <2>4. drain' \in Drains /\ drain'.pc = p /\ drain'.at = 1
    BY <1>0, <1>p, <2>2, <2>3 DEF Drains
  <2>5. sched' \in Scheds /\ sched'.away = sched.away
    BY <1>0, <2>1 DEF Scheds
  <2> QED BY <1>0, <1>1, <2>1, <2>2, <2>4, <2>5, OffPass
<1>6. CASE DrainRelease
  <2>1. drain.pc = "release" /\ serving' \in BOOLEAN
    BY <1>6 DEF DrainRelease
  <2>2. PICK p \in {"tail", "idle"} : drain' = RestDrain(p)
    BY <1>6 DEF DrainRelease
  <2>3. drain' \in Drains /\ drain'.pc = p /\ drain'.at = 1
    BY <1>p, <2>2, RestDrains
  <2>4. sched' \in Scheds /\ sched'.away = sched.away /\ sched'.requested = sched.requested
    BY <1>0, <1>6 DEF DrainRelease, Scheds
  <2> QED BY <1>1, <2>1, <2>3, <2>4, OffPass
<1>7. CASE DrainTail
  <2>1. drain.pc = "tail" /\ serving' = serving /\ sched' = sched /\ drain' = RestDrain("idle")
    BY <1>7 DEF DrainTail, bus
  <2>2. drain' \in Drains /\ drain'.pc = "idle" /\ drain'.at = 1
    BY <1>p, <2>1, RestDrains
  <2> QED BY <1>0, <1>1, <2>1, <2>2, OffPass
<1> QED BY <1>2, <1>3, <1>4, <1>5, <1>6, <1>7

LEMMA QueryStep == ASSUME IInv, DrainQuery PROVE IInv'
<1>0. drain \in Drains /\ sched \in Scheds /\ serving \in BOOLEAN /\ committed \subseteq Notes
      /\ occupant \in Sessions /\ facts \in [Notes -> Seq(FactKinds)]
  BY DrainFields DEF IInv, TypeOK
<1>1. /\ UNCHANGED <<committed, facts, receipt, roster, queue, recent, waking, native, bridge, left, sched, serving>>
      /\ drain' = [drain EXCEPT !.pc = "item", !.seen = facts, !.known = committed, !.seat = occupant]
      /\ drain.pc = "query"
  BY DEF DrainQuery, outbox, bus
<1>2. drain.at = 1
  BY <1>1 DEF IInv, SendsPending, InPass
<1>3. drain' \in Drains /\ drain'.pc = "item" /\ drain'.at = 1 /\ drain'.known = committed /\ drain'.seen = facts
  BY <1>0, <1>1, <1>2 DEF Drains, DrainPcs
<1>4. SnapshotIsOld'
  BY <1>0, <1>1, <1>3, OnwardSame DEF SnapshotIsOld
<1>5. SendsPending'
  BY <1>3 DEF SendsPending, InPass
<1>6. PassIsThorough'
  BY <1>1, <1>3 DEF PassIsThorough
<1>7. NeverForgotten'
  BY <1>1, <1>3 DEF NeverForgotten, DrainComing
<1> QED BY <1>0, <1>1, <1>3, <1>4, <1>5, <1>6, <1>7, NativeType, DrainQuiet

\* The pass goes on to the next notification once it is done with one.
LEMMA PassAdvances ==
    ASSUME IInv, TypeOK', InPass, FactsOnward, UNCHANGED <<committed, waking, sched>>,
           drain.at <= Len(Outbox), drain'.pc = "item", drain'.at = drain.at + 1,
           drain'.known = drain.known, drain'.seen = drain.seen, drain.away \subseteq drain'.away,
           Item \in drain.known =>
               Delivered(facts'[Item]) \/ "queued" \in Range(facts'[Item]) \/ Target(Item) \in drain'.away
    PROVE  SnapshotIsOld' /\ SendsPending' /\ PassIsThorough' /\ NeverForgotten'
<1>0. drain.at \in Nat /\ Len(Outbox) \in Nat /\ drain.at >= 1 /\ \A i \in 1..Len(Outbox) : Outbox[i] \in Notes
      /\ committed \subseteq Notes
  BY DrainFields DEF IInv, TypeOK
<1>1. SnapshotIsOld'
  <2>0. drain'.known \subseteq committed'
    BY DEF IInv, SnapshotIsOld
  <2> SUFFICES ASSUME NEW n \in Notes PROVE Onward(drain.seen[n], facts'[n])
    BY <2>0 DEF SnapshotIsOld
  <2>1. Onward(drain.seen[n], facts[n])
    BY DEF IInv, SnapshotIsOld
  <2>2. drain.seen[n] \in Seq(FactKinds) /\ facts[n] \in Seq(FactKinds) /\ facts'[n] \in Seq(FactKinds)
    BY DEF IInv, TypeOK
  <2> QED BY <2>1, <2>2, OnwardOnward DEF FactsOnward
<1>2. SendsPending'
  BY <1>0 DEF SendsPending, InPass
<1>3. PassIsThorough'
  <2>1. \A n \in committed' \ drain'.known : sched'.requested \/ n \in waking'
    BY DEF IInv, PassIsThorough
  <2>2. ASSUME NEW i \in 1..Len(Outbox), i < drain'.at, Outbox[i] \in drain'.known PROVE Settled(Outbox[i])'
    <3>1. i = drain.at \/ i < drain.at
      BY <1>0, <2>2
    <3>2. CASE i = drain.at
      BY <2>2, <3>2 DEF Settled, Item
    <3>3. CASE i < drain.at
      <4>1. Settled(Outbox[i]) /\ Outbox[i] \in Notes
        BY <1>0, <2>2, <3>3 DEF IInv, PassIsThorough
      <4> QED BY <4>1, FactsStay DEF Settled
    <3> QED BY <3>1, <3>2, <3>3
  <2> QED BY <2>1, <2>2 DEF PassIsThorough
<1>4. NeverForgotten'
  <2> SUFFICES ASSUME NEW n \in committed
               PROVE  \/ Delivered(facts'[n]) \/ DrainComing(n)' \/ Target(n) \in sched'.away
                      \/ "queued" \in Range(facts'[n])
    BY DEF NeverForgotten
  <2>1. CASE n \in drain.known
    BY <2>1 DEF DrainComing
  <2>2. CASE n \notin drain.known
    BY <2>2 DEF IInv, PassIsThorough, DrainComing
  <2> QED BY <2>1, <2>2
<1> QED BY <1>1, <1>2, <1>3, <1>4

\* A pass that stops half way asks for another one.
LEMMA PassAborts ==
    ASSUME IInv, sched' = Aborted, drain' = [drain EXCEPT !.pc = "release"],
           UNCHANGED <<committed, facts, receipt, roster, queue, recent, serving, waking, native, bridge, left>>
    PROVE  IInv'
<1>0. drain \in Drains /\ sched \in Scheds /\ drain.at >= 1 /\ serving \in BOOLEAN
  BY DrainFields DEF IInv, TypeOK
<1>1. drain' \in Drains /\ drain'.pc = "release" /\ drain'.at >= 1
  BY <1>0 DEF Drains, DrainPcs
<1>2. sched' \in Scheds /\ sched'.requested
  BY <1>0 DEF Aborted, Scheds
<1>3. SnapshotIsOld' /\ SendsPending' /\ PassIsThorough'
  BY <1>1, Rests
<1>4. NeverForgotten'
  BY <1>2 DEF NeverForgotten, DrainComing
<1> QED BY <1>0, <1>1, <1>2, <1>3, <1>4, DrainQuiet, NativeType

LEMMA ItemFacts ==
    ASSUME IInv, drain.at <= Len(Outbox)
    PROVE  Item \in Notes /\ drain.seen[Item] \in Seq(FactKinds) /\ facts[Item] \in Seq(FactKinds)
<1>1. drain.at \in 1..Len(Outbox)
  BY DrainFields
<1>2. Item \in Notes
  BY <1>1, DrainFields DEF Item
<1> QED BY <1>2 DEF IInv, TypeOK

LEMMA SkipStep == ASSUME IInv, DrainSkip PROVE IInv'
<1>0. drain \in Drains /\ sched \in Scheds /\ serving \in BOOLEAN /\ drain.at \in Nat
  BY DrainFields DEF IInv, TypeOK
<1>1. /\ UNCHANGED <<committed, facts, receipt, roster, queue, recent, waking, native, bridge, left, sched, serving>>
      /\ drain' = [drain EXCEPT !.at = drain.at + 1]
      /\ drain.pc = "item" /\ drain.at <= Len(Outbox)
      /\ Item \notin drain.known \/ Delivered(drain.seen[Item])
  BY DEF DrainSkip, outbox, bus
<1>2. /\ drain' \in Drains /\ drain'.pc = "item" /\ drain'.at = drain.at + 1 /\ drain'.known = drain.known
      /\ drain'.seen = drain.seen /\ drain'.away = drain.away
  BY <1>0, <1>1 DEF Drains
<1>3. InPass /\ Item \in Notes
  BY <1>1, ItemFacts DEF InPass
<1>4. Item \in drain.known => Delivered(facts'[Item])
  BY <1>1, <1>3 DEF IInv, SnapshotIsOld, Onward, Delivered
<1>5. TypeOK'
  BY <1>1, <1>2 DEF IInv, TypeOK, Drains, roster
<1>6. FactsOnward
  BY <1>1, SameFacts DEF IInv
<1>7. SnapshotIsOld' /\ SendsPending' /\ PassIsThorough' /\ NeverForgotten'
  BY <1>1, <1>2, <1>3, <1>4, <1>5, <1>6, PassAdvances
<1> QED BY <1>0, <1>1, <1>2, <1>7, DrainQuiet, NativeType

\* The runtime that a message goes to is one of the target's own.
LEMMA Resolved ==
    ASSUME IInv, NEW s \in Sessions \cup {None}, ResolveTarget(s) # None
    PROVE  ResolveTarget(s) \in Agents /\ SessionOf[ResolveTarget(s)] = s
<1>1. ResolveTarget(s) \in Candidates(s)
  <2>1. CASE current[s] # None
    BY <2>1 DEF ResolveTarget
  <2>2. CASE current[s] = None
    <3>1. Cardinality(Candidates(s)) = 1
      BY <2>2 DEF ResolveTarget
    <3>2. Candidates(s) # {}
      BY <3>1, FS_EmptySet
    <3> QED BY <2>2, <3>1, <3>2 DEF ResolveTarget
  <2> QED BY <2>1, <2>2
<1>2. Candidates(s) \subseteq Agents /\ \A a \in Candidates(s) : SessionOf[a] = s
  BY DEF Candidates, IInv, TypeOK
<1> QED BY <1>1, <1>2

LEMMA ResolveStep == ASSUME IInv, DrainResolve PROVE IInv'
<1> DEFINE to == ResolveTarget(TargetSession(Item, drain.seat))
<1>0. drain \in Drains /\ sched \in Scheds /\ serving \in BOOLEAN /\ drain.at >= 1
      /\ drain.seat \in Sessions \cup {None}
  BY DrainFields DEF IInv, TypeOK, Drains
<1>1. /\ UNCHANGED <<committed, facts, receipt, roster, queue, recent, waking, native, bridge, left, sched, serving>>
      /\ drain' = [drain EXCEPT !.pc = "enqueue", !.to = to]
      /\ to # None
      /\ drain.pc = "item" /\ drain.at <= Len(Outbox)
      /\ Item \in drain.known /\ ~Delivered(drain.seen[Item])
  BY DEF DrainResolve, Pending, outbox, bus
<1>2. to \in Agents /\ SessionOf[to] = TargetSession(Item, drain.seat)
  <2>1. TargetSession(Item, drain.seat) \in Sessions \cup {None}
    BY <1>0, AgentAssumption DEF TargetSession
  <2> QED BY <1>1, <2>1, Resolved
<1>3. Item \in Followups => SessionOf[to] = Assignee
  BY <1>2 DEF TargetSession
<1> HIDE DEF to
<1>4. /\ drain' \in Drains /\ drain'.pc = "enqueue" /\ drain'.at = drain.at /\ drain'.known = drain.known
      /\ drain'.seen = drain.seen /\ drain'.away = drain.away /\ drain'.to = to
  BY <1>0, <1>1, <1>2 DEF Drains, DrainPcs
<1>5. InPass /\ InPass'
  BY <1>1, <1>4 DEF InPass
<1>6. SnapshotIsOld'
  BY <1>1, <1>4, <1>5 DEF IInv, SnapshotIsOld
<1>7. SendsPending'
  BY <1>0, <1>1, <1>2, <1>3, <1>4, <1>5 DEF SendsPending, Item
<1>8. PassIsThorough'
  BY <1>1, <1>4, <1>5 DEF IInv, PassIsThorough, Settled
<1>9. NeverForgotten'
  BY <1>1, <1>4 DEF IInv, NeverForgotten, DrainComing
<1> QED BY <1>0, <1>1, <1>4, <1>6, <1>7, <1>8, <1>9, DrainQuiet, NativeType

\* A fact recorded by the drain: the snapshot has all facts of its item.
LEMMA DrainWrites ==
    ASSUME IInv, InPass, drain.at <= Len(Outbox), ~Delivered(drain.seen[Item]),
           AtRevision(Item, Len(drain.seen[Item])),
           NEW x \in {"uncertain", "queued"}, Append1(Item, x),
           x = "queued" => "queued" \notin Range(drain.seen[Item]),
           x = "uncertain" => ~LastIsUncertain(drain.seen[Item]),
           drain' \in Drains, UNCHANGED <<committed, receipt, roster, bus, waking, sched, native, bridge, left>>,
           drain'.pc = "item", drain'.at = drain.at + 1,
           drain'.known = drain.known, drain'.seen = drain.seen, drain.away \subseteq drain'.away,
           x = "uncertain" => Target(Item) \in drain'.away
    PROVE  IInv'
<1> DEFINE n == Item
<1>0. n \in Notes /\ drain.seen[n] \in Seq(FactKinds) /\ facts[n] \in Seq(FactKinds) /\ x \in FactKinds
  BY ItemFacts DEF FactKinds
<1>1. facts[n] = drain.seen[n]
  BY <1>0 DEF AtRevision, IInv, SnapshotIsOld, Onward
<1>t. TypeOK /\ Append1(n, x)
  BY DEF IInv
<1>2. /\ ~Delivered(facts[n]) /\ (x = "queued" => "queued" \notin Range(facts[n]))
      /\ (x = "uncertain" => ~LastIsUncertain(facts[n]))
  BY <1>1
<1>3. /\ facts' \in [Notes -> Seq(FactKinds)] /\ FactsOnward /\ Range(facts'[n]) = Range(facts[n]) \cup {x}
  <2> HIDE DEF n
  <2> QED BY <1>0, <1>t, GrownFacts
<1>4. FactsTellOneStory'
  <2>1. receipt' \in [Notes -> Sessions \cup {None}] /\ \A m \in Notes : receipt'[m] = receipt[m]
    BY NativeType
  <2> HIDE DEF n
  <2> QED BY <1>0, <1>t, <1>2, <2>1, StoryGrown
<1>5. TypeOK'
  BY <1>3 DEF IInv, TypeOK, Drains, roster, bus
<1>6. Delivered(facts'[n]) \/ "queued" \in Range(facts'[n]) \/ Target(n) \in drain'.away
  <2>1. CASE x = "queued"
    BY <1>3, <2>1
  <2>2. CASE x = "uncertain"
    BY <2>2
  <2> QED BY <2>1, <2>2
<1>7. SnapshotIsOld' /\ SendsPending' /\ PassIsThorough' /\ NeverForgotten'
  BY <1>3, <1>5, <1>6, PassAdvances
<1>8. BridgesAreHonest' /\ QueueIsExact'
  BY <1>3, BridgesKept, QueueKept, SameNative DEF bus
<1> QED BY <1>4, <1>5, <1>7, <1>8 DEF IInv

\* What the drain keeps of its record when it goes on.
GoneOn(c, d, k, aw) ==
    /\ c \in Drains /\ c.pc = "item" /\ c.at = k /\ c.away = aw
    /\ c.known = d.known /\ c.seen = d.seen

LEMMA DrainGoesOn ==
    ASSUME NEW d \in Drains, NEW k \in Nat
    PROVE  /\ GoneOn([d EXCEPT !.pc = "item", !.at = k, !.to = None], d, k, d.away)
           /\ d.pc = "item" => \A aw \in SUBSET (Sessions \cup {"seat"}) :
                                   GoneOn([d EXCEPT !.at = k, !.away = aw], d, k, aw)
<1>1. GoneOn([d EXCEPT !.pc = "item", !.at = k, !.to = None], d, k, d.away)
  <2> DEFINE c == [d EXCEPT !.pc = "item", !.at = k, !.to = None]
  <2>1. c \in Drains
    BY DEF Drains, DrainPcs
  <2>2. c.pc = "item" /\ c.at = k /\ c.away = d.away /\ c.known = d.known /\ c.seen = d.seen
    BY DEF Drains
  <2> HIDE DEF c
  <2>3. GoneOn(c, d, k, d.away)
    BY <2>1, <2>2 DEF GoneOn
  <2> QED BY <2>3 DEF c
<1>2. ASSUME d.pc = "item", NEW aw \in SUBSET (Sessions \cup {"seat"})
      PROVE  GoneOn([d EXCEPT !.at = k, !.away = aw], d, k, aw)
  <2> DEFINE c == [d EXCEPT !.at = k, !.away = aw]
  <2>1. c \in Drains
    BY DEF Drains
  <2>2. c.pc = "item" /\ c.at = k /\ c.away = aw /\ c.known = d.known /\ c.seen = d.seen
    BY <1>2 DEF Drains
  <2> HIDE DEF c
  <2>3. GoneOn(c, d, k, aw)
    BY <2>1, <2>2 DEF GoneOn
  <2> QED BY <2>3 DEF c
<1> QED BY <1>1, <1>2

LEMMA UnavailableStep == ASSUME IInv, DrainUnavailable PROVE IInv'
<1> DEFINE away == drain.away \cup {Target(Item)}
           d == [drain EXCEPT !.at = drain.at + 1, !.away = away]
<1>0. drain \in Drains /\ sched \in Scheds /\ serving \in BOOLEAN /\ drain.at \in Nat /\ drain.at >= 1
  BY DrainFields DEF IInv, TypeOK
<1>1. /\ UNCHANGED <<committed, receipt, roster, queue, recent, serving, waking, native, bridge, left>>
      /\ drain.pc = "item" /\ drain.at <= Len(Outbox)
      /\ Item \in drain.known /\ ~Delivered(drain.seen[Item])
  BY DEF DrainUnavailable, Pending, bus
<1>2. away \in SUBSET (Sessions \cup {"seat"}) /\ drain.away \subseteq away /\ Target(Item) \in away
  BY <1>0, AgentAssumption DEF Target, Drains
<1> HIDE DEF away
<1>3. /\ d \in Drains /\ d.pc = "item" /\ d.at = drain.at + 1 /\ d.known = drain.known
      /\ d.seen = drain.seen /\ d.away = away
  <2>1. drain.at + 1 \in Nat
    BY <1>0
  <2>2. GoneOn(d, drain, drain.at + 1, away)
    BY <1>0, <1>1, <1>2, <2>1, DrainGoesOn, Zenon
  <2> QED BY <2>2 DEF GoneOn
<1> HIDE DEF d
<1>4. InPass
  BY <1>1 DEF InPass
<1>5. CASE drain' = d /\ UNCHANGED <<facts, sched>>
  <2>1. TypeOK'
    BY <1>1, <1>3, <1>5 DEF IInv, TypeOK, Drains, roster
  <2>2. FactsOnward
    BY <1>5, SameFacts DEF IInv
  <2>3. SnapshotIsOld' /\ SendsPending' /\ PassIsThorough' /\ NeverForgotten'
    BY <1>1, <1>2, <1>3, <1>4, <1>5, <2>1, <2>2, PassAdvances
  <2> QED BY <1>0, <1>1, <1>3, <1>5, <2>3, DrainQuiet, NativeType
<1>6. CASE /\ ~LastIsUncertain(drain.seen[Item]) /\ AtRevision(Item, Len(drain.seen[Item]))
           /\ Append1(Item, "uncertain") /\ drain' = d /\ UNCHANGED sched
  BY <1>1, <1>2, <1>3, <1>4, <1>6, DrainWrites DEF bus
<1>7. CASE sched' = Aborted /\ drain' = [drain EXCEPT !.pc = "release"] /\ UNCHANGED facts
  BY <1>1, <1>7, PassAborts
<1>8. \/ drain' = d /\ UNCHANGED <<facts, sched>>
      \/ /\ ~LastIsUncertain(drain.seen[Item]) /\ AtRevision(Item, Len(drain.seen[Item]))
         /\ Append1(Item, "uncertain") /\ drain' = d /\ UNCHANGED sched
      \/ sched' = Aborted /\ drain' = [drain EXCEPT !.pc = "release"] /\ UNCHANGED facts
  BY Zenon DEF DrainUnavailable, d, away
<1> QED BY <1>5, <1>6, <1>7, <1>8

LEMMA RecordStep == ASSUME IInv, DrainRecord PROVE IInv'
<1> DEFINE d == [drain EXCEPT !.pc = "item", !.at = drain.at + 1, !.to = None]
<1>0. drain \in Drains /\ sched \in Scheds /\ serving \in BOOLEAN /\ drain.at \in Nat /\ drain.at >= 1
  BY DrainFields DEF IInv, TypeOK
<1>1. /\ UNCHANGED <<committed, receipt, roster, queue, recent, serving, waking, native, bridge, left>>
      /\ drain.pc = "record" /\ drain.at <= Len(Outbox)
      /\ Item \in drain.known /\ ~Delivered(drain.seen[Item])
  BY DEF DrainRecord, bus, IInv, SendsPending
<1>3. /\ d \in Drains /\ d.pc = "item" /\ d.at = drain.at + 1 /\ d.known = drain.known
      /\ d.seen = drain.seen /\ d.away = drain.away
  <2>1. drain.at + 1 \in Nat
    BY <1>0
  <2>2. GoneOn(d, drain, drain.at + 1, drain.away)
    BY <1>0, <2>1, DrainGoesOn, Zenon
  <2> QED BY <2>2 DEF GoneOn
<1> HIDE DEF d
<1>4. InPass /\ Item \in Notes
  BY <1>1, ItemFacts DEF InPass
<1>5. CASE "queued" \in Range(drain.seen[Item]) /\ drain' = d /\ UNCHANGED <<facts, sched>>
  <2>1. TypeOK'
    BY <1>1, <1>3, <1>5 DEF IInv, TypeOK, Drains, roster
  <2>2. FactsOnward
    BY <1>5, SameFacts DEF IInv
  <2>3. "queued" \in Range(facts'[Item])
    BY <1>4, <1>5 DEF IInv, SnapshotIsOld, Onward
  <2>4. SnapshotIsOld' /\ SendsPending' /\ PassIsThorough' /\ NeverForgotten'
    BY <1>1, <1>3, <1>4, <1>5, <2>1, <2>2, <2>3, PassAdvances
  <2> QED BY <1>0, <1>1, <1>3, <1>5, <2>4, DrainQuiet, NativeType
<1>6. CASE /\ "queued" \notin Range(drain.seen[Item]) /\ AtRevision(Item, Len(drain.seen[Item]))
           /\ Append1(Item, "queued") /\ drain' = d /\ UNCHANGED sched
  BY <1>1, <1>3, <1>4, <1>6, DrainWrites DEF bus
<1>7. CASE sched' = Aborted /\ drain' = [drain EXCEPT !.pc = "release"] /\ UNCHANGED facts
  BY <1>1, <1>7, PassAborts
<1>8. \/ "queued" \in Range(drain.seen[Item]) /\ drain' = d /\ UNCHANGED <<facts, sched>>
      \/ /\ "queued" \notin Range(drain.seen[Item]) /\ AtRevision(Item, Len(drain.seen[Item]))
         /\ Append1(Item, "queued") /\ drain' = d /\ UNCHANGED sched
      \/ sched' = Aborted /\ drain' = [drain EXCEPT !.pc = "release"] /\ UNCHANGED facts
  BY Zenon DEF DrainRecord, d
<1> QED BY <1>5, <1>6, <1>7, <1>8

\* A queue that gets a message it does not hold stays exact.
LEMMA ExactAppend ==
    ASSUME NEW q \in Seq(Notes), NEW n \in Notes, NEW s, NEW com, Exact(q, s, com), n \in com,
           n \notin Range(q), n \in Followups => s = Assignee
    PROVE  Append(q, n) \in Seq(Notes) /\ Exact(Append(q, n), s, com)
<1> DEFINE z == Append(q, n)
           l == Len(q)
<1>1. z \in Seq(Notes) /\ Range(z) = Range(q) \cup {n}
  BY AppendOnward
<1>2. l \in Nat /\ DOMAIN q = 1..l /\ DOMAIN z = 1..(l + 1) /\ z[l + 1] = n /\ \A k \in 1..l : z[k] = q[k]
  OBVIOUS
<1> HIDE DEF z, l
<1>3. \A k \in 1..(l + 1) : k \in 1..l \/ k = l + 1
  BY <1>2
<1>4. \A k \in 1..l : q[k] # n
  BY <1>2 DEF Range
<1>5. ASSUME NEW i \in 1..(l + 1), NEW j \in 1..(l + 1), z[i] = z[j] PROVE i = j
  <2>1. CASE i \in 1..l /\ j \in 1..l
    BY <1>2, <1>5, <2>1 DEF Exact, IsInjective
  <2>2. CASE i = l + 1 /\ j \in 1..l
    BY <1>2, <1>4, <1>5, <2>2
  <2>3. CASE i \in 1..l /\ j = l + 1
    BY <1>2, <1>4, <1>5, <2>3
  <2> QED BY <1>3, <2>1, <2>2, <2>3
<1>6. IsInjective(z)
  BY <1>2, <1>5 DEF IsInjective
<1>7. Exact(z, s, com)
  BY <1>1, <1>6 DEF Exact
<1> QED BY <1>1, <1>7 DEF z

LEMMA EnqueueStep == ASSUME IInv, DrainEnqueue PROVE IInv'
<1> DEFINE a == drain.to
           n == Item
           known == <<n, a>> \in recent \/ n \in Range(queue[a])
<1>0. drain \in Drains /\ sched \in Scheds /\ serving \in BOOLEAN /\ drain.at >= 1
  BY DrainFields DEF IInv, TypeOK
<1>1. /\ UNCHANGED <<committed, facts, receipt, roster, serving, waking, sched, native, bridge, left>>
      /\ drain' = [drain EXCEPT !.pc = "record"] /\ drain.pc = "enqueue"
      /\ queue' = IF known THEN queue ELSE [queue EXCEPT ![a] = Append(queue[a], n)]
      /\ recent' = IF known THEN recent ELSE recent \cup {<<n, a>>}
  BY DEF DrainEnqueue, outbox
<1>2. a \in Agents /\ (n \in Followups => SessionOf[a] = Assignee) /\ drain.at <= Len(Outbox)
      /\ n \in drain.known /\ ~Delivered(drain.seen[n])
  BY <1>1 DEF IInv, SendsPending
<1>3. n \in Notes
  BY <1>2, ItemFacts
<1>4. /\ drain' \in Drains /\ drain'.pc = "record" /\ drain'.at = drain.at /\ drain'.known = drain.known
      /\ drain'.seen = drain.seen /\ drain'.away = drain.away
  BY <1>0, <1>1 DEF Drains, DrainPcs
<1>5. InPass /\ InPass'
  BY <1>1, <1>4 DEF InPass
<1>6. n \in committed
  BY <1>2, <1>5 DEF IInv, SnapshotIsOld
<1>7. QueueIsExact' /\ queue' \in [Agents -> Seq(Notes)]
  <2>1. CASE known
    BY <1>1, <2>1, SameQueue
  <2>2. CASE ~known
    <3>1. queue[a] \in Seq(Notes) /\ Exact(queue[a], SessionOf[a], committed)
      BY <1>2 DEF IInv, TypeOK, QueueIsExact, Exact
    <3>2. n \notin Range(queue[a])
      BY <2>2
    <3>3. queue' = [queue EXCEPT ![a] = Append(queue[a], n)]
      BY <1>1, <2>2
    <3> DEFINE z == Append(queue[a], n)
    <3>4. z \in Seq(Notes) /\ Exact(z, SessionOf[a], committed)
      BY <1>2, <1>3, <1>6, <3>1, <3>2, ExactAppend
    <3> HIDE DEF z, n
    <3>5. queue' = [queue EXCEPT ![a] = z]
      BY <3>3 DEF z
    <3> QED BY <1>1, <1>2, <3>4, <3>5, QueuePut
  <2> QED BY <2>1, <2>2
<1>8. recent' \subseteq Notes \X Agents
  BY <1>1, <1>2, <1>3 DEF IInv, TypeOK
<1>9. TypeOK'
  BY <1>1, <1>4, <1>7, <1>8 DEF IInv, TypeOK, Drains, roster
<1>10. SnapshotIsOld'
  BY <1>1, <1>4, <1>5 DEF IInv, SnapshotIsOld
<1>11. SendsPending'
  BY <1>0, <1>1, <1>2, <1>4, <1>5 DEF SendsPending, Item
<1>12. PassIsThorough'
  BY <1>1, <1>4, <1>5 DEF IInv, PassIsThorough, Settled
<1>13. NeverForgotten'
  BY <1>1, <1>4 DEF IInv, NeverForgotten, DrainComing
<1>14. BridgesAreHonest' /\ FactsTellOneStory'
  BY <1>1, BridgesKept, StoryKept, SameNative, SameFacts DEF IInv
<1> QED BY <1>7, <1>9, <1>10, <1>11, <1>12, <1>13, <1>14 DEF IInv

\* At the end of a pass every notification is accounted for.
LEMMA FinishStep == ASSUME IInv, DrainFinish PROVE IInv'
<1>0. drain \in Drains /\ sched \in Scheds /\ serving \in BOOLEAN /\ drain.at >= 1 /\ drain.at \in Nat
      /\ Len(Outbox) \in Nat
  BY DrainFields DEF IInv, TypeOK
<1>1. /\ UNCHANGED <<committed, facts, receipt, roster, queue, recent, waking, native, bridge, left, serving>>
      /\ sched' = [sched EXCEPT !.away = drain.away]
      /\ drain' = [drain EXCEPT !.pc = "release"]
      /\ drain.pc = "item" /\ drain.at > Len(Outbox)
  BY DEF DrainFinish, outbox, bus
<1>2. sched' \in Scheds /\ sched'.away = drain.away /\ sched'.requested = sched.requested
  BY <1>0, <1>1 DEF Scheds, Drains
<1>3. drain' \in Drains /\ drain'.pc = "release" /\ drain'.at >= 1
  BY <1>0, <1>1 DEF Drains, DrainPcs
<1>4. SnapshotIsOld' /\ SendsPending' /\ PassIsThorough'
  BY <1>3, Rests
<1>5. InPass
  BY <1>1 DEF InPass
<1>6. NeverForgotten'
  <2> SUFFICES ASSUME NEW n \in committed
               PROVE  \/ Delivered(facts'[n]) \/ DrainComing(n)' \/ Target(n) \in sched'.away
                      \/ "queued" \in Range(facts'[n])
    BY <1>1 DEF NeverForgotten
  <2>1. CASE n \notin drain.known
    BY <1>1, <1>2, <1>5, <2>1 DEF IInv, PassIsThorough, DrainComing
  <2>2. CASE n \in drain.known
    <3>1. PICK i \in 1..Len(Outbox) : n = Outbox[i]
      <4>1. n \in Range(Outbox) /\ DOMAIN Outbox = 1..Len(Outbox)
        BY OutboxAssumption DEF IInv, TypeOK, Notes
      <4> QED BY <4>1 DEF Range
    <3>2. i < drain.at
      BY <1>0, <1>1
    <3>3. Settled(n)
      BY <1>5, <2>2, <3>1, <3>2 DEF IInv, PassIsThorough
    <3> QED BY <1>1, <1>2, <3>3 DEF Settled
  <2> QED BY <2>1, <2>2
<1> QED BY <1>0, <1>1, <1>2, <1>3, <1>4, <1>6, DrainQuiet, NativeType

\* A commit comes with a handler that will ask for a drain.
LEMMA TransitionStep == ASSUME IInv, NEW n \in Notes, Transition(n) PROVE IInv'
<1>1. /\ committed' = committed \cup {n} /\ waking' = waking \cup {n}
      /\ UNCHANGED <<facts, receipt, roster, bus, sched, drain, native, bridge, left>>
  BY DEF Transition
<1>2. TypeOK'
  BY <1>1 DEF IInv, TypeOK, roster, bus
<1>3. SnapshotIsOld'
  BY <1>1 DEF IInv, SnapshotIsOld, InPass
<1>4. SendsPending'
  BY <1>1 DEF IInv, SendsPending, InPass, Item
<1>5. PassIsThorough'
  BY <1>1 DEF IInv, PassIsThorough, InPass, Settled
<1>6. NeverForgotten'
  BY <1>1 DEF IInv, NeverForgotten, DrainComing
<1>7. BridgesAreHonest' /\ FactsTellOneStory' /\ QueueIsExact'
  BY <1>1, BridgesKept, StoryKept, QueueKept, SameNative, SameFacts DEF IInv, bus
<1> QED BY <1>2, <1>3, <1>4, <1>5, <1>6, <1>7 DEF IInv

LEMMA RestartStep == ASSUME IInv, Restart PROVE IInv'
<1>1. /\ queue' = [a \in Agents |-> <<>>] /\ recent' = {} /\ serving' = FALSE /\ waking' = {}
      /\ sched' = FreshSched /\ drain' = RestDrain("take")
      /\ UNCHANGED <<committed, facts, receipt, roster, native, bridge>>
  BY DEF Restart, outbox
<1>2. drain' \in Drains /\ drain'.pc = "take" /\ drain'.at = 1
  BY <1>1, RestDrains DEF DrainPcs
<1>3. sched' \in Scheds /\ sched'.requested
  BY <1>1 DEF FreshSched, Scheds
<1>4. left' \in Budget
  BY SpendType DEF Restart
<1>5. queue' \in [Agents -> Seq(Notes)] /\ \A a \in Agents : queue'[a] = <<>>
  BY <1>1
<1>6. TypeOK'
  BY <1>1, <1>2, <1>3, <1>4, <1>5 DEF IInv, TypeOK, Drains, Scheds, roster
<1>7. SnapshotIsOld' /\ SendsPending' /\ PassIsThorough'
  BY <1>2, Rests
<1>8. NeverForgotten'
  BY <1>3 DEF NeverForgotten, DrainComing
<1>9. QueueIsExact'
  BY <1>5, QueueEmptied DEF QueueIsExact, Exact
<1>10. BridgesAreHonest' /\ FactsTellOneStory'
  BY <1>1, BridgesKept, StoryKept, SameNative, SameFacts DEF IInv
<1> QED BY <1>6, <1>7, <1>8, <1>9, <1>10 DEF IInv

-----------------------------------------------------------------------------
(* The theorems.                                                            *)

LEMMA InitIInv == Init => IInv
<1> SUFFICES ASSUME Init PROVE IInv
  OBVIOUS
<1>1. drain \in Drains /\ drain.pc = "take" /\ drain.at = 1
  BY RestDrains DEF Init, DrainPcs
<1>2. sched \in Scheds /\ sched.requested
  BY DEF Init, FreshSched, Scheds
<1>3. facts \in [Notes -> Seq(FactKinds)] /\ \A n \in Notes : facts[n] = <<>>
  BY DEF Init
<1>4. queue \in [Agents -> Seq(Notes)] /\ \A a \in Agents : queue[a] = <<>>
  BY DEF Init
<1>5. bridge \in [Agents -> Bridges] /\ \A a \in Agents : bridge[a] \in {DownBridge, IdleBridge({})}
  BY RestBridges DEF Init
<1>6. /\ receipt \in [Notes -> Sessions \cup {None}] /\ occupant \in Sessions
      /\ current \in [Sessions -> Agents \cup {None}] /\ left \in Budget /\ serving \in BOOLEAN
      /\ native \in [Sessions -> [Notes -> {"unknown", "pending", "persisted"}]]
      /\ committed \subseteq Notes /\ registered \subseteq Agents
  <2>1. PICK start \in Starts : /\ committed = start.committed /\ registered = start.live
                                /\ left = [kinds |-> start.kinds, mishaps |-> start.mishaps]
    BY DEF Init
  <2>2. committed \subseteq Notes /\ registered \subseteq Agents /\ left \in Budget
    BY <2>1, StartAssumption DEF Budget
  <2> QED BY <2>2, AgentAssumption DEF Init
<1>7. TypeOK
  BY <1>1, <1>2, <1>3, <1>4, <1>5, <1>6 DEF Init, TypeOK, Drains, Scheds, Bridges
<1>8. SnapshotIsOld /\ SendsPending /\ PassIsThorough
  BY <1>1 DEF SnapshotIsOld, SendsPending, PassIsThorough, InPass
<1>9. BridgesAreHonest
  BY <1>5, RestBridges DEF BridgesAreHonest
<1>10. QueueIsExact
  BY <1>4, QueueEmptied DEF QueueIsExact, Exact
<1>11. NeverForgotten
  BY <1>2 DEF NeverForgotten, DrainComing
<1>12. FactsTellOneStory
  <2>1. Range(<<>>) = {} /\ DOMAIN <<>> = {}
    BY DEF Range
  <2>2. \A n \in Notes : receipt[n] = None
    BY DEF Init
  <2> QED BY <1>3, <2>1, <2>2 DEF FactsTellOneStory, Delivered
<1> QED BY <1>7, <1>8, <1>9, <1>10, <1>11, <1>12 DEF IInv

LEMMA NextIInv == ASSUME IInv, [Next]_vars PROVE IInv'
<1>1. CASE UNCHANGED vars
  <2>1. UNCHANGED <<committed, facts, receipt, drain, sched, waking, native, bridge, queue>>
    BY <1>1 DEF vars
  <2>2. TypeOK'
    BY <1>1 DEF IInv, TypeOK, vars
  <2>3. BridgesAreHonest' /\ QueueIsExact'
    BY <2>1, BridgesKept, QueueKept, SameNative, SameFacts DEF IInv
  <2> QED BY <2>1, <2>2, <2>3, QuietStep, SameNative DEF RequestsKept
<1>2. ASSUME NEW n \in Notes, Transition(n) PROVE IInv'
  BY <1>2, TransitionStep
<1>3. CASE (\E n \in Notes : RequestDrain(n)) \/ Retrigger \/ BackoffElapses
  BY <1>3, FlagStep
<1>4. CASE Schedule \/ DrainStep
  BY <1>4, WaitSteps, QueryStep, SkipStep, ResolveStep, UnavailableStep, EnqueueStep, RecordStep,
     FinishStep DEF DrainStep
<1>5. CASE Heartbeat \/ \E key \in recent : ExpireRecent(key)
  <2>1. Assignee \in Sessions
    BY AgentAssumption
  <2> QED BY <1>5, <2>1, RosterStep
<1>6. CASE Restart
  BY <1>6, RestartStep
<1>7. ASSUME NEW s \in Sessions, ClearRuntime(s) \/ Rebind(s) PROVE IInv'
  BY <1>7, RosterStep
<1>8. ASSUME NEW a \in Agents, Start(a) \/ Refresh(a) \/ Unregister(a) \/ Prune(a) PROVE IInv'
  BY <1>8, RegisterStep, LeaveStep
<1>9. ASSUME NEW a \in Agents, BridgeStep(a) \/ AckFails(a) PROVE IInv'
  <2>1. CASE Submit(a)
    <3>1. SubmitAll(a, Unknown(a)) /\ left' \in Budget /\ Unknown(a) \in SUBSET Unknown(a)
      BY <2>1, NativeType DEF Submit
    <3> QED BY <3>1, SubmitStep
  <2>2. CASE BridgeStep(a) /\ ~Submit(a)
    BY <2>2, RetryAcksStep, PollStep, StatusStep, ReadStep, RecordDeliveredStep, AckStep DEF BridgeStep
  <2>3. CASE AckFails(a)
    BY <2>3, AckStep
  <2> QED BY <1>9, <2>1, <2>2, <2>3
<1>10. ASSUME NEW a \in Agents, SubmitRefused(a) PROVE IInv'
  <2>1. left' \in Budget
    BY <1>10, SpendType DEF SubmitRefused
  <2>2. PICK sent \in SUBSET Unknown(a) : SubmitAll(a, sent)
    BY <1>10 DEF SubmitRefused
  <2> QED BY <2>1, <2>2, SubmitStep
<1>11. ASSUME NEW a \in Agents, Crash(a) PROVE IInv'
  BY <1>11, CrashStep
<1>12. ASSUME NEW s \in Sessions, NEW n \in Notes, Persist(s, n) PROVE IInv'
  BY <1>12, PersistStep
<1> QED BY <1>1, <1>2, <1>3, <1>4, <1>5, <1>6, <1>7, <1>8, <1>9, <1>10, <1>11, <1>12 DEF Next

LEMMA Invariant == Spec => []IInv
<1> QED BY InitIInv, NextIInv, PTL DEF Spec

\* The facts the drain and the bridges record from stale reads tell one story,
\* and a true one: a delivered fact's thread has the message in its context,
\* queued and delivered come at most once, nothing follows delivered, and no
\* two uncertain facts are neighbours (require_local_revision
\* guards every fact, for any number of bridges and mishaps).
THEOREM FactsOneStory == Spec => []FactsTellOneStory
<1>1. IInv => FactsTellOneStory
  BY DEF IInv
<1> QED BY <1>1, Invariant, PTL

\* Queues hold a message once, only committed ones, and follow-ups only for
\* the assignee (enqueue_agent_bus_message_once_with_id looks the stable id up,
\* while send records expire and seats move).
THEOREM QueueExact == Spec => []QueueIsExact
<1>1. IInv => QueueIsExact
  BY DEF IInv
<1> QED BY <1>1, Invariant, PTL

\* No committed notification is forgotten: it is delivered or queued, a drain
\* is coming, or its target is being probed for (the request, backoff and
\* target flags of the completion drain, through every restart and abort).
THEOREM NothingForgotten == Spec => []NeverForgotten
<1>1. IInv => NeverForgotten
  BY DEF IInv
<1> QED BY <1>1, Invariant, PTL

\* A step that takes a message from the queue of a registered runtime of a
\* running bus.
LEMMA LeavesStep ==
    ASSUME IInv, Next, NEW n \in Notes, NEW a \in Agents,
           n \in Range(queue[a]), n \notin Range(queue'[a]), serving', a \in registered'
    PROVE  Delivered(facts[n])
<1>1. queue'[a] # queue[a]
  OBVIOUS
<1>2. \/ \E c \in Agents : RetryAcks(c) \/ Ack(c) \/ AckFails(c) \/ Unregister(c) \/ Prune(c)
      \/ DrainEnqueue \/ Restart
  <2>1. ~UNCHANGED queue
    BY <1>1
  <2>2. ASSUME DrainStep PROVE DrainEnqueue
    BY <2>1, <2>2 DEF DrainStep, DrainProbe, DrainDue, DrainTake, DrainQuery, DrainSkip, DrainResolve,
       DrainUnavailable, DrainRecord, DrainFinish, DrainRelease, DrainTail, bus
  <2>3. ASSUME NEW c \in Agents, BridgeStep(c) PROVE RetryAcks(c) \/ Ack(c)
    BY <2>1, <2>3 DEF BridgeStep, Poll, Submit, SubmitAll, Status, ReadRevision, RecordDelivered, bus
  <2>4. ASSUME NEW c \in Agents, Start(c) \/ Refresh(c) \/ Crash(c) \/ SubmitRefused(c) PROVE FALSE
    BY <2>1, <2>4 DEF Start, Refresh, Register, Crash, SubmitRefused, SubmitAll, bus
  <2>5. ASSUME NEW s \in Sessions, NEW m \in Notes,
               ClearRuntime(s) \/ Rebind(s) \/ Persist(s, m)
        PROVE  FALSE
    BY <2>1, <2>5 DEF ClearRuntime, Rebind, Persist, bus
  <2>5a. ASSUME NEW s \in Sessions, ClearRuntime(s) \/ Rebind(s) PROVE FALSE
    BY <2>1, <2>5a DEF ClearRuntime, Rebind, bus
  <2>6. ASSUME NEW m \in Notes, Transition(m) \/ RequestDrain(m) PROVE FALSE
    BY <2>1, <2>6 DEF Transition, RequestDrain, bus
  <2>7. ASSUME Retrigger \/ BackoffElapses \/ Schedule \/ Heartbeat \/ \E key \in recent : ExpireRecent(key)
        PROVE  FALSE
    BY <2>1, <2>7 DEF Retrigger, BackoffElapses, Schedule, Heartbeat, ExpireRecent, bus
  <2> QED BY <2>2, <2>3, <2>4, <2>5, <2>5a, <2>6, <2>7 DEF Next
<1>3. ASSUME NEW c \in Agents, NEW gone, queue' = [queue EXCEPT ![c] = Without(queue[c], gone)],
             UNCHANGED committed
      PROVE  c = a /\ n \in gone
  BY <1>1, <1>3, QueueWithout, ZenonT(60)
<1>4. ASSUME NEW c \in Agents, RetryAcks(c) PROVE Delivered(facts[n])
  <2>1. n \in bridge[c].acks
    BY <1>3, <1>4 DEF RetryAcks, outbox
  <2> QED BY <2>1 DEF IInv, BridgesAreHonest, Honest
<1>5. ASSUME NEW c \in Agents, Ack(c) \/ AckFails(c) PROVE Delivered(facts[n])
  <2>1. queue' = Acked(c) /\ UNCHANGED committed /\ bridge[c].pc = "ack"
    BY <1>1, <1>5 DEF Ack, AckFails, outbox
  <2>2. n = Head(bridge[c].batch)
    BY <1>3, <2>1 DEF Acked
  <2> QED BY <2>1, <2>2 DEF IInv, BridgesAreHonest, Honest
<1>6. ASSUME NEW c \in Agents, Unregister(c) \/ Prune(c) PROVE FALSE
  <2>1. queue' = [queue EXCEPT ![c] = <<>>] /\ c \notin registered'
    BY <1>6 DEF Unregister, Prune, Drop
  <2>2. c # a /\ queue \in [Agents -> Seq(Notes)]
    BY <2>1 DEF IInv, TypeOK
  <2> QED BY <1>1, <2>1, <2>2
<1>7. ASSUME DrainEnqueue PROVE FALSE
  <2>1. queue' = [queue EXCEPT ![drain.to] = Append(queue[drain.to], Item)]
    BY <1>1, <1>7 DEF DrainEnqueue
  <2>2. drain.to \in Agents /\ queue \in [Agents -> Seq(Notes)] /\ Item \in Notes
    BY <1>7, ItemFacts DEF DrainEnqueue, IInv, TypeOK, SendsPending
  <2>3. drain.to = a
    BY <1>1, <2>1, <2>2
  <2>4. queue'[a] = Append(queue[a], Item) /\ queue[a] \in Seq(Notes)
    BY <2>1, <2>2, <2>3
  <2>5. Range(queue'[a]) = Range(queue[a]) \cup {Item}
    BY <2>2, <2>4, AppendOnward
  <2> QED BY <2>5
<1>8. ASSUME Restart PROVE FALSE
  BY <1>8 DEF Restart
<1> QED BY <1>2, <1>4, <1>5, <1>6, <1>7, <1>8

\* A message leaves the queue of a registered runtime only after its delivered
\* fact is recorded, although acknowledgements are repeated and their answers
\* lost (bus_bridge's order: submit, status, record, acknowledge).
THEOREM AckedAfter == Spec => AckedAfterDelivery
<1>1. IInv /\ [Next]_vars => [\A n \in Notes, a \in Agents : LeavesDelivered(n, a)]_vars
  BY LeavesStep DEF LeavesDelivered
<1> QED BY <1>1, Invariant, PTL DEF Spec, AckedAfterDelivery

=============================================================================
