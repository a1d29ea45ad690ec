------------------------ MODULE TaskRepository_proofs ------------------------
(***************************************************************************)
(* Proofs about the task repository: Loadable, LossesAreRecorded,          *)
(* WatchGapless and the refinement of DurableLog, for any number of        *)
(* processes, requests, tasks, faults and power failures and any queue     *)
(* capacity.                                                               *)
(***************************************************************************)
EXTENDS TaskRepository, FiniteSetTheorems, SequenceTheorems, TLAPS

-----------------------------------------------------------------------------
(* Induction over positions, with a set for the induction hypothesis.      *)

\* Every nonempty set of naturals has a least element.
LEMMA LeastNat ==
    ASSUME NEW T \in SUBSET Nat, T # {}
    PROVE  \E t \in T : \A u \in T : t <= u
<1> DEFINE R == {ss \in Nat \X Nat : ss[1] < ss[2]}
<1>1. IsWellFoundedOn(R, Nat)
  BY NatLessThanWellFounded, Zenon DEF OpToRel
<1>2. \A a, b \in Nat : a < b => <<a, b>> \in R
  OBVIOUS
<1> HIDE DEF R
<1>3. PICK t \in T : \A u \in T : ~(<<u, t>> \in R)
  BY <1>1, WFMin
<1>4. \A u \in T : ~(u < t)
  BY <1>2, <1>3
<1> QED BY <1>4

\* A set that holds k and is closed under the step to the next position holds
\* everything from k to n.
LEMMA UpTo ==
    ASSUME NEW P, NEW k \in Nat, NEW n \in Nat, k \in P,
           \A i \in k + 1 .. n : i - 1 \in P => i \in P
    PROVE  \A i \in k .. n : i \in P
<1> DEFINE T == {i \in k .. n : i \notin P}
<1> SUFFICES ASSUME T # {} PROVE FALSE
  OBVIOUS
<1>1. T \in SUBSET Nat
  OBVIOUS
<1>2. PICK t \in T : \A u \in T : t <= u
  <2> HIDE DEF T
  <2> QED BY <1>1, LeastNat
<1>3. t \in k .. n /\ t \notin P
  OBVIOUS
<1>4. t \in k + 1 .. n /\ t - 1 \in k .. n
  BY <1>3
<1>5. t - 1 \notin T
  <2> HIDE DEF T
  <2> QED BY <1>2, <1>3
<1>6. t - 1 \in P
  BY <1>4, <1>5
<1> QED BY <1>3, <1>4, <1>6

\* The same from the start.
LEMMA FromStart ==
    ASSUME NEW P, NEW n \in Nat, 0 \in P, \A i \in 1 .. n : i - 1 \in P => i \in P
    PROVE  \A i \in 0 .. n : i \in P
<1>1. \A i \in 0 + 1 .. n : i - 1 \in P => i \in P
  BY SMT
<1>2. 0 \in Nat
  OBVIOUS
<1> QED BY <1>1, <1>2, UpTo, Zenon

\* A nonempty set of positions up to n has a last one.
LEMMA LastPosition ==
    ASSUME NEW n \in Nat, NEW T \in SUBSET (0 .. n), T # {}
    PROVE  \E t \in T : \A u \in T : u <= t
<1> DEFINE B == {b \in Nat : \A u \in T : u <= b}
<1>1. n \in B
  OBVIOUS
<1>2. PICK b \in B : \A c \in B : b <= c
  <2>1. B \in SUBSET Nat /\ B # {}
    BY <1>1
  <2> HIDE DEF B
  <2> QED BY <2>1, LeastNat
<1>3. b \in Nat /\ \A u \in T : u <= b
  OBVIOUS
<1>4. b \in T
  <2> SUFFICES ASSUME b \notin T PROVE FALSE
    OBVIOUS
  <2>1. \A u \in T : u \in Nat /\ u < b
    BY <1>3
  <2>2. b - 1 \in Nat /\ \A u \in T : u <= b - 1
    <3>1. PICK v \in T : TRUE
      OBVIOUS
    <3>2. b > 0
      BY <1>3, <2>1, <3>1
    <3> QED BY <1>3, <2>1, <3>2
  <2>3. b - 1 \in B
    BY <2>2
  <2> HIDE DEF B
  <2> QED BY <1>2, <1>3, <2>3
<1> QED BY <1>3, <1>4

\* f folds the step function over h, starting with e, in D.
IsFold(f, D, e, step, h) ==
    /\ f \in [0 .. Len(h) -> D]
    /\ f[0] = e
    /\ \A i \in 1 .. Len(h) : f[i] = step[<<f[i - 1], h[i]>>]

\* A fold exists: a step function on D and a start in D give a value of D at
\* every position.
LEMMA FoldExists ==
    ASSUME NEW D, NEW L, NEW e \in D, NEW step \in [D \X L -> D], NEW h \in Seq(L)
    PROVE  \E f : IsFold(f, D, e, step, h)
<1> DEFINE N == Len(h)
           Fold(f, m) == f[0] = e /\ \A i \in 1 .. m : f[i] = step[<<f[i - 1], h[i]>>]
           P == {m \in 0 .. N : \E f \in [0 .. m -> D] : Fold(f, m)}
<1>1. N \in Nat /\ \A i \in 1 .. N : h[i] \in L
  OBVIOUS
<1>2. 0 \in P
  <2> DEFINE f == [i \in 0 .. 0 |-> e]
  <2>1. f \in [0 .. 0 -> D] /\ Fold(f, 0)
    OBVIOUS
  <2>2. \E g \in [0 .. 0 -> D] : Fold(g, 0)
    BY <2>1, Zenon
  <2> HIDE DEF f, Fold
  <2> QED BY <1>1, <2>2
<1>3. ASSUME NEW m \in 1 .. N, m - 1 \in P PROVE m \in P
  <2>1. PICK f \in [0 .. m - 1 -> D] : Fold(f, m - 1)
    BY <1>3
  <2> DEFINE g == [i \in 0 .. m |-> IF i = m THEN step[<<f[m - 1], h[m]>>] ELSE f[i]]
  <2>2. m \in Nat /\ m - 1 \in Nat /\ f[m - 1] \in D /\ h[m] \in L
    BY <1>1
  <2>3. step[<<f[m - 1], h[m]>>] \in D
    BY <2>2
  <2>4. g \in [0 .. m -> D]
    BY <2>2, <2>3
  <2>5. \A i \in 0 .. m - 1 : g[i] = f[i]
    BY <2>2
  <2>6. g[m] = step[<<g[m - 1], h[m]>>]
    BY <2>2, <2>5
  <2>7. Fold(g, m)
    <3>1. g[0] = e
      BY <2>1, <2>2, <2>5
    <3>2. ASSUME NEW i \in 1 .. m PROVE g[i] = step[<<g[i - 1], h[i]>>]
      <4>1. CASE i = m
        BY <2>6, <4>1
      <4>2. CASE i # m
        <5>1. i \in 1 .. m - 1 /\ i \in 0 .. m - 1 /\ i - 1 \in 0 .. m - 1
          BY <2>2, <4>2
        <5>2. f[i] = step[<<f[i - 1], h[i]>>]
          BY <2>1, <5>1
        <5> HIDE DEF g
        <5> QED BY <2>5, <5>1, <5>2
      <4> QED BY <4>1, <4>2
    <3> HIDE DEF g
    <3> QED BY <3>1, <3>2
  <2> HIDE DEF g, Fold
  <2> QED BY <1>1, <2>4, <2>7
<1>4. N \in P
  <2>1. \A i \in 0 .. N : i \in P
    <3> HIDE DEF P
    <3> QED BY <1>1, <1>2, <1>3, FromStart
  <2> HIDE DEF P
  <2> QED BY <1>1, <2>1
<1>5. \E f \in [0 .. N -> D] : Fold(f, N)
  BY <1>4, Zenon
<1> QED BY <1>5 DEF IsFold

-----------------------------------------------------------------------------
(* reconstruct_store, line by line.                                        *)

LEMMA EmptyStoreType == EmptyStore \in StoreRecord
<1>1. "none" \in TaskPhases
  BY DEF TaskPhases
<1> QED BY <1>1 DEF EmptyStore, StoreRecord

\* The store after finalize_transition is a store.
LEMMA FinalizeType ==
    ASSUME NEW s \in StoreRecord, NEW q \in Requests
    PROVE  Finalize(s, q) \in StoreRecord
<1>1. /\ q.cmd \in DOMAIN Edge \cup {"createDraft"} /\ q.task \in Tasks
      /\ q.revision \in Nat /\ q.token \in Tokens \cup {None}
  BY RequestsAssumption DEF Envelope
<1>2. /\ s.rev \in Nat /\ s.receipts \in SUBSET Requests
      /\ s.tokens \in SUBSET (Tokens \cup {None})
      /\ s.task \in [Tasks -> [phase : TaskPhases, revision : Nat, token : Tokens \cup {None}]]
  BY DEF StoreRecord
<1> DEFINE old == s.task[q.task]
           new == IF q.cmd = "createDraft"
                  THEN [phase |-> "draft", revision |-> q.revision, token |-> None]
                  ELSE [old EXCEPT !.phase = Edge[q.cmd][2],
                                   !.token = IF q.cmd = "publish" THEN q.token ELSE old.token]
<1>3. old \in [phase : TaskPhases, revision : Nat, token : Tokens \cup {None}]
  BY <1>1, <1>2
<1>4. "draft" \in TaskPhases /\ (q.cmd # "createDraft" => Edge[q.cmd][2] \in TaskPhases)
  BY <1>1 DEF TaskPhases
<1>5. new \in [phase : TaskPhases, revision : Nat, token : Tokens \cup {None}]
  BY <1>1, <1>3, <1>4
<1>6. [s.task EXCEPT ![q.task] = new]
         \in [Tasks -> [phase : TaskPhases, revision : Nat, token : Tokens \cup {None}]]
  BY <1>1, <1>2, <1>5
<1>7. Finalize(s, q) = [rev |-> s.rev + 1, receipts |-> s.receipts \cup {q},
                        tokens |-> IF q.cmd = "publish" THEN s.tokens \cup {q.token} ELSE s.tokens,
                        task |-> [s.task EXCEPT ![q.task] = new]]
  BY DEF Finalize
<1> HIDE DEF new, old
<1>8. s.rev + 1 \in Nat /\ s.receipts \cup {q} \in SUBSET Requests
      /\ (IF q.cmd = "publish" THEN s.tokens \cup {q.token} ELSE s.tokens)
            \in SUBSET (Tokens \cup {None})
  BY <1>1, <1>2
<1> QED BY <1>6, <1>7, <1>8 DEF StoreRecord

LEMMA ReplayType ==
    ASSUME NEW s \in StoreRecord \cup {None}, NEW l \in Line
    PROVE  Replay(s, l) \in StoreRecord \cup {None}
<1>1. l.of \in Requests
  BY DEF Line
<1>2. s # None => Finalize(s, l.of) \in StoreRecord
  BY <1>1, FinalizeType
<1> QED BY <1>2 DEF Replay

\* f lists the store, or None, after each line of h.
Replays(f, h) ==
    /\ f \in [0 .. Len(h) -> StoreRecord \cup {None}]
    /\ f[0] = EmptyStore
    /\ \A i \in 1 .. Len(h) : f[i] = Replay(f[i - 1], h[i])

\* reconstruct_store ends with the last of them.
LEMMA ReconstructFold ==
    ASSUME NEW h \in Seq(Line)
    PROVE  \E f : Replays(f, h) /\ Reconstruct(h) = f[Len(h)]
<1> DEFINE D == StoreRecord \cup {None}
           N == Len(h)
           step == [x \in D \X Line |-> Replay(x[1], x[2])]
           Def(g, i) == IF i = 0 THEN EmptyStore ELSE Replay(g[i - 1], h[i])
<1>0. N \in Nat /\ \A i \in 1 .. N : h[i] \in Line
  OBVIOUS
<1>1. step \in [D \X Line -> D] /\ EmptyStore \in D
  <2>1. \A x \in D \X Line : Replay(x[1], x[2]) \in D
    BY ReplayType
  <2> HIDE DEF D
  <2>2. step \in [D \X Line -> D]
    BY <2>1
  <2> QED BY <2>2, EmptyStoreType DEF D
<1>2. \A s \in D, l \in Line : step[<<s, l>>] = Replay(s, l)
  <2> HIDE DEF D
  <2> QED OBVIOUS
<1> HIDE DEF D, step
<1> HIDE DEF N
<1>a. PICK f : IsFold(f, D, EmptyStore, step, h)
  BY <1>1, FoldExists
<1>3. /\ f \in [0 .. N -> D] /\ f[0] = EmptyStore
      /\ \A i \in 1 .. N : f[i] = step[<<f[i - 1], h[i]>>]
  BY <1>a DEF IsFold, N
<1>4. \A i \in 1 .. N : f[i] = Replay(f[i - 1], h[i])
  <2> TAKE i \in 1 .. N
  <2>1. f[i - 1] \in D /\ h[i] \in Line
    BY <1>0, <1>3
  <2> QED BY <1>2, <1>3, <2>1
<1>5. Replays(f, h)
  BY <1>3, <1>4 DEF Replays, D, N
<1> DEFINE S == CHOOSE g : g = [i \in 0 .. N |-> Def(g, i)]
<1>6. S = [i \in 0 .. N |-> Def(S, i)]
  <2>1. f = [i \in 0 .. N |-> Def(f, i)]
    BY <1>0, <1>3, <1>4
  <2> HIDE DEF Def
  <2> QED BY <2>1
<1>7. Reconstruct(h) = S[N]
  BY DEF Reconstruct, N
<1> HIDE DEF S
<1>8. \A i \in 0 .. N : S[i] = Def(S, i)
  <2> HIDE DEF Def
  <2> QED BY <1>6
<1>9. S[N] = f[N]
  <2> DEFINE P == {i \in 0 .. N : S[i] = f[i]}
  <2>1. 0 \in P
    BY <1>0, <1>3, <1>8
  <2>2. ASSUME NEW i \in 1 .. N, i - 1 \in P PROVE i \in P
    <3>1. S[i] = Replay(S[i - 1], h[i]) /\ S[i - 1] = f[i - 1]
      BY <1>0, <1>8, <2>2
    <3> QED BY <1>0, <1>4, <3>1
  <2>3. \A i \in 0 .. N : i \in P
    <3> HIDE DEF P, N
    <3> QED BY <1>0, <2>1, <2>2, FromStart
  <2> QED BY <1>0, <2>3
<1> QED BY <1>5, <1>7, <1>9 DEF N

\* Journals that agree on their first n lines have the same stores up to there.
LEMMA ReplaysAgree ==
    ASSUME NEW h \in Seq(Line), NEW k \in Seq(Line), NEW f, NEW g, Replays(f, h), Replays(g, k),
           NEW n \in Nat, n <= Len(h), n <= Len(k), \A i \in 1 .. n : h[i] = k[i]
    PROVE  \A i \in 0 .. n : f[i] = g[i]
<1> DEFINE P == {i \in 0 .. n : f[i] = g[i]}
<1>1. 0 \in P
  BY DEF Replays
<1>2. ASSUME NEW i \in 1 .. n, i - 1 \in P PROVE i \in P
  <2>1. i \in 1 .. Len(h) /\ i \in 1 .. Len(k)
    OBVIOUS
  <2>2. f[i] = Replay(f[i - 1], h[i]) /\ g[i] = Replay(g[i - 1], k[i])
    BY <2>1 DEF Replays
  <2> QED BY <1>2, <2>2
<1>3. \A i \in 0 .. n : i \in P
  <2> HIDE DEF P
  <2> QED BY <1>1, <1>2, FromStart
<1> QED BY <1>3

LEMMA ReconstructType ==
    ASSUME NEW h \in Seq(Line)
    PROVE  Reconstruct(h) \in StoreRecord \cup {None}
<1>1. PICK f : Replays(f, h) /\ Reconstruct(h) = f[Len(h)]
  BY ReconstructFold
<1> QED BY <1>1 DEF Replays

LEMMA ReconstructEmpty == Reconstruct(<<>>) = EmptyStore
<1>1. <<>> \in Seq(Line) /\ Len(<<>>) = 0
  OBVIOUS
<1>2. PICK f : Replays(f, <<>>) /\ Reconstruct(<<>>) = f[Len(<<>>)]
  BY <1>1, ReconstructFold
<1> QED BY <1>1, <1>2 DEF Replays

\* One more line is one more Replay.
LEMMA ReconstructAppend ==
    ASSUME NEW h \in Seq(Line), NEW l \in Line
    PROVE  Reconstruct(Append(h, l)) = Replay(Reconstruct(h), l)
<1> DEFINE k == Append(h, l)
           n == Len(h)
<1>1. /\ k \in Seq(Line) /\ Len(k) = n + 1 /\ k[n + 1] = l /\ n \in Nat
      /\ \A i \in 1 .. n : h[i] = k[i]
  OBVIOUS
<1> HIDE DEF k
<1>2. PICK f : Replays(f, h) /\ Reconstruct(h) = f[n]
  BY ReconstructFold
<1>3. PICK g : Replays(g, k) /\ Reconstruct(k) = g[Len(k)]
  BY <1>1, ReconstructFold
<1>4. \A i \in 0 .. n : f[i] = g[i]
  <2>1. n <= Len(h) /\ n <= Len(k)
    BY <1>1
  <2> QED BY <1>1, <1>2, <1>3, <2>1, ReplaysAgree
<1>5. g[n + 1] = Replay(g[n + 1 - 1], k[n + 1]) /\ n + 1 - 1 = n
  BY <1>1, <1>3 DEF Replays
<1>6. g[n] = f[n]
  BY <1>1, <1>4
<1> QED BY <1>1, <1>2, <1>3, <1>5, <1>6 DEF k

\* A journal that replays does so up to every line.
LEMMA ReconstructPrefix ==
    ASSUME NEW h \in Seq(Line), NEW n \in 0 .. Len(h), Reconstruct(h) # None
    PROVE  Reconstruct(SubSeq(h, 1, n)) # None
<1> DEFINE k == SubSeq(h, 1, n)
           N == Len(h)
<1>1. /\ k \in Seq(Line) /\ Len(k) = n /\ n \in Nat /\ N \in Nat /\ n <= N
      /\ \A i \in 1 .. n : h[i] = k[i]
  OBVIOUS
<1> HIDE DEF k
<1>2. PICK f : Replays(f, h) /\ Reconstruct(h) = f[N]
  BY ReconstructFold
<1>3. PICK g : Replays(g, k) /\ Reconstruct(k) = g[n]
  BY <1>1, ReconstructFold
<1>4. f[n] = g[n]
  <2>1. \A i \in 0 .. n : f[i] = g[i]
    BY <1>1, <1>2, <1>3, ReplaysAgree
  <2> QED BY <1>1, <2>1
<1>5. ASSUME f[n] = None PROVE FALSE
  <2> DEFINE P == {i \in n .. N : f[i] = None}
  <2>1. n \in P
    BY <1>1, <1>5
  <2>2. ASSUME NEW i \in n + 1 .. N, i - 1 \in P PROVE i \in P
    <3>1. i \in 1 .. N /\ f[i - 1] = None
      BY <1>1, <2>2
    <3>2. f[i] = Replay(None, h[i])
      BY <1>2, <3>1 DEF Replays
    <3>3. f[i] = None
      BY <3>2 DEF Replay
    <3> QED BY <1>1, <3>3
  <2>3. \A i \in n .. N : i \in P
    <3> HIDE DEF P, N
    <3> QED BY <1>1, <2>1, <2>2, UpTo
  <2> QED BY <1>1, <1>2, <2>3
<1> QED BY <1>3, <1>4, <1>5 DEF k

\* Every transition that was replayed has left its receipt.
LEMMA ReceiptsKept ==
    ASSUME NEW h \in Seq(Line), Reconstruct(h) # None, NEW i \in 1 .. Len(h), h[i].loss = 0
    PROVE  h[i].of \in Reconstruct(h).receipts
<1> DEFINE N == Len(h)
<1>1. i \in Nat /\ N \in Nat /\ i <= N /\ \A j \in 1 .. N : h[j] \in Line
  OBVIOUS
<1>2. PICK f : Replays(f, h) /\ Reconstruct(h) = f[N]
  BY ReconstructFold
<1>3. /\ f \in [0 .. N -> StoreRecord \cup {None}]
      /\ \A j \in 1 .. N : f[j] = Replay(f[j - 1], h[j])
  BY <1>2 DEF Replays
<1> HIDE DEF N
<1> DEFINE P == {j \in i .. N : f[j] = None \/ h[i].of \in f[j].receipts}
<1>4. i \in P
  <2>1. f[i] = Replay(f[i - 1], h[i])
    BY <1>1, <1>3
  <2>2. ~(h[i].loss > 0)
    OBVIOUS
  <2>3. f[i] = None \/ f[i] = Finalize(f[i - 1], h[i].of)
    BY <2>1, <2>2 DEF Replay
  <2>4. h[i].of \in Finalize(f[i - 1], h[i].of).receipts
    BY DEF Finalize
  <2> QED BY <1>1, <2>3, <2>4
<1>5. ASSUME NEW j \in i + 1 .. N, j - 1 \in P PROVE j \in P
  <2>1. j \in 1 .. N /\ j \in i .. N /\ (f[j - 1] = None \/ h[i].of \in f[j - 1].receipts)
    BY <1>1, <1>5
  <2>2. f[j] = Replay(f[j - 1], h[j])
    BY <1>3, <2>1
  <2>3. f[j] = None \/ (f[j - 1] # None /\ f[j] \in {f[j - 1], Finalize(f[j - 1], h[j].of)})
    BY <2>2 DEF Replay
  <2>4. f[j - 1].receipts \subseteq Finalize(f[j - 1], h[j].of).receipts
    BY DEF Finalize
  <2>5. f[j] = None \/ h[i].of \in f[j].receipts
    BY <2>1, <2>3, <2>4
  <2> QED BY <2>1, <2>5
<1>6. \A j \in i .. N : j \in P
  <2> HIDE DEF P
  <2> QED BY <1>1, <1>4, <1>5, UpTo
<1>7. N \in i .. N
  BY <1>1
<1> QED BY <1>2, <1>6, <1>7

-----------------------------------------------------------------------------
(* The transitions of a journal, line by line.                             *)

\* f lists the transitions up to each line of h.
Collects(f, h) ==
    /\ f \in [0 .. Len(h) -> Seq(Requests)]
    /\ f[0] = <<>>
    /\ \A i \in 1 .. Len(h) : f[i] = IF h[i].loss > 0 THEN f[i - 1] ELSE Append(f[i - 1], h[i].of)

LEMMA TransitionsFold ==
    ASSUME NEW h \in Seq(Line)
    PROVE  \E f : Collects(f, h) /\ Transitions(h) = f[Len(h)]
<1> DEFINE D == Seq(Requests)
           N == Len(h)
           One(s, l) == IF l.loss > 0 THEN s ELSE Append(s, l.of)
           step == [x \in D \X Line |-> One(x[1], x[2])]
           Def(g, i) == IF i = 0 THEN <<>> ELSE IF h[i].loss > 0 THEN g[i - 1] ELSE Append(g[i - 1], h[i].of)
<1>0. N \in Nat /\ \A i \in 1 .. N : h[i] \in Line
  OBVIOUS
<1>1. step \in [D \X Line -> D] /\ <<>> \in D
  <2>1. \A x \in D \X Line : One(x[1], x[2]) \in D
    BY DEF Line
  <2> HIDE DEF One, D
  <2>2. step \in [D \X Line -> D]
    BY <2>1
  <2> QED BY <2>2 DEF D
<1>2. \A s \in D, l \in Line : step[<<s, l>>] = One(s, l)
  <2> HIDE DEF D, One
  <2> QED OBVIOUS
<1> HIDE DEF D, step, N
<1>3. PICK f : IsFold(f, D, <<>>, step, h)
  BY <1>1, FoldExists
<1>4. /\ f \in [0 .. N -> D] /\ f[0] = <<>>
      /\ \A i \in 1 .. N : f[i] = step[<<f[i - 1], h[i]>>]
  BY <1>3 DEF IsFold, N
<1>5. \A i \in 1 .. N : f[i] = IF h[i].loss > 0 THEN f[i - 1] ELSE Append(f[i - 1], h[i].of)
  <2> TAKE i \in 1 .. N
  <2>1. f[i - 1] \in D /\ h[i] \in Line
    BY <1>0, <1>4
  <2> QED BY <1>2, <1>4, <2>1
<1>6. Collects(f, h)
  BY <1>4, <1>5 DEF Collects, D, N
<1> DEFINE T == CHOOSE g : g = [i \in 0 .. N |-> Def(g, i)]
<1>7. T = [i \in 0 .. N |-> Def(T, i)]
  <2>1. f = [i \in 0 .. N |-> Def(f, i)]
    <3>1. f = [i \in 0 .. N |-> f[i]]
      BY <1>4
    <3>2. \A i \in 0 .. N : f[i] = Def(f, i)
      <4> TAKE i \in 0 .. N
      <4>1. CASE i = 0
        BY <1>4, <4>1
      <4>2. CASE i # 0
        BY <1>0, <1>5, <4>2
      <4> QED BY <4>1, <4>2
    <3> HIDE DEF Def
    <3> QED BY <3>1, <3>2
  <2> HIDE DEF Def
  <2> QED BY <2>1
<1>8. Transitions(h) = T[N]
  BY DEF Transitions, N
<1> HIDE DEF T
<1>9. \A i \in 0 .. N : T[i] = Def(T, i)
  <2> HIDE DEF Def
  <2> QED BY <1>7
<1>10. T[N] = f[N]
  <2> DEFINE P == {i \in 0 .. N : T[i] = f[i]}
  <2>1. 0 \in P
    BY <1>0, <1>4, <1>9
  <2>2. ASSUME NEW i \in 1 .. N, i - 1 \in P PROVE i \in P
    <3>1. i \in 0 .. N /\ T[i] = Def(T, i) /\ T[i - 1] = f[i - 1] /\ i # 0
      BY <1>0, <1>9, <2>2
    <3> QED BY <1>5, <3>1
  <2>3. \A i \in 0 .. N : i \in P
    <3> HIDE DEF P
    <3> QED BY <1>0, <2>1, <2>2, FromStart
  <2> QED BY <1>0, <2>3
<1> QED BY <1>6, <1>8, <1>10 DEF N

LEMMA CollectsAgree ==
    ASSUME NEW h \in Seq(Line), NEW k \in Seq(Line), NEW f, NEW g, Collects(f, h), Collects(g, k),
           NEW n \in Nat, n <= Len(h), n <= Len(k), \A i \in 1 .. n : h[i] = k[i]
    PROVE  \A i \in 0 .. n : f[i] = g[i]
<1> DEFINE P == {i \in 0 .. n : f[i] = g[i]}
<1>1. 0 \in P
  BY DEF Collects
<1>2. ASSUME NEW i \in 1 .. n, i - 1 \in P PROVE i \in P
  <2>1. i \in 1 .. Len(h) /\ i \in 1 .. Len(k)
    OBVIOUS
  <2>2. /\ f[i] = IF h[i].loss > 0 THEN f[i - 1] ELSE Append(f[i - 1], h[i].of)
        /\ g[i] = IF k[i].loss > 0 THEN g[i - 1] ELSE Append(g[i - 1], k[i].of)
    BY <2>1 DEF Collects
  <2> QED BY <1>2, <2>2
<1>3. \A i \in 0 .. n : i \in P
  <2> HIDE DEF P
  <2> QED BY <1>1, <1>2, FromStart
<1> QED BY <1>3

LEMMA TransitionsEmpty == Transitions(<<>>) = <<>>
<1>1. <<>> \in Seq(Line) /\ Len(<<>>) = 0
  OBVIOUS
<1>2. PICK f : Collects(f, <<>>) /\ Transitions(<<>>) = f[Len(<<>>)]
  BY <1>1, TransitionsFold
<1> QED BY <1>1, <1>2 DEF Collects

\* A recovery record adds no transition, a transition adds itself.
LEMMA TransitionsAppend ==
    ASSUME NEW h \in Seq(Line), NEW l \in Line
    PROVE  Transitions(Append(h, l)) =
              IF l.loss > 0 THEN Transitions(h) ELSE Append(Transitions(h), l.of)
<1> DEFINE k == Append(h, l)
           n == Len(h)
<1>1. /\ k \in Seq(Line) /\ Len(k) = n + 1 /\ k[n + 1] = l /\ n \in Nat
      /\ \A i \in 1 .. n : h[i] = k[i]
  OBVIOUS
<1> HIDE DEF k
<1>2. PICK f : Collects(f, h) /\ Transitions(h) = f[n]
  BY TransitionsFold
<1>3. PICK g : Collects(g, k) /\ Transitions(k) = g[Len(k)]
  BY <1>1, TransitionsFold
<1>4. \A i \in 0 .. n : f[i] = g[i]
  <2>1. n <= Len(h) /\ n <= Len(k)
    BY <1>1
  <2> QED BY <1>1, <1>2, <1>3, <2>1, CollectsAgree
<1>5. n + 1 \in 1 .. Len(k) /\ n + 1 - 1 = n
  BY <1>1
<1>6. g[n + 1] = IF k[n + 1].loss > 0 THEN g[n + 1 - 1] ELSE Append(g[n + 1 - 1], k[n + 1].of)
  BY <1>3, <1>5 DEF Collects
<1>7. g[n] = f[n]
  BY <1>1, <1>4
<1> QED BY <1>1, <1>2, <1>3, <1>5, <1>6, <1>7 DEF k

LEMMA TransitionsType ==
    ASSUME NEW h \in Seq(Line)
    PROVE  Transitions(h) \in Seq(Requests)
<1>1. PICK f : Collects(f, h) /\ Transitions(h) = f[Len(h)]
  BY TransitionsFold
<1> QED BY <1>1 DEF Collects

LEMMA AppendKeepsPrefix ==
    ASSUME NEW S, NEW s \in Seq(S), NEW a \in S, NEW m \in 0 .. Len(s)
    PROVE  SubSeq(Append(s, a), 1, m) = SubSeq(s, 1, m)
<1>1. /\ Append(s, a) \in Seq(S) /\ Len(Append(s, a)) = Len(s) + 1
      /\ \A i \in 1 .. m : Append(s, a)[i] = s[i]
  OBVIOUS
<1> QED BY <1>1

LEMMA FullPrefix ==
    ASSUME NEW S, NEW s \in Seq(S)
    PROVE  SubSeq(s, 1, Len(s)) = s
OBVIOUS

\* A shorter journal has a prefix of the transitions.
LEMMA TransitionsPrefix ==
    ASSUME NEW h \in Seq(Line), NEW n \in 0 .. Len(h)
    PROVE  \E m \in 0 .. Len(Transitions(h)) :
              Transitions(SubSeq(h, 1, n)) = SubSeq(Transitions(h), 1, m)
<1> DEFINE k == SubSeq(h, 1, n)
           N == Len(h)
<1>1. /\ k \in Seq(Line) /\ Len(k) = n /\ n \in Nat /\ N \in Nat /\ n <= N
      /\ \A i \in 1 .. n : h[i] = k[i]
      /\ \A i \in 1 .. N : h[i].of \in Requests
  <2>1. \A i \in 1 .. N : h[i] \in Line
    OBVIOUS
  <2>2. \A i \in 1 .. N : h[i].of \in Requests
    BY <2>1 DEF Line
  <2> QED BY <2>2
<1> HIDE DEF k
<1>2. PICK f : Collects(f, h) /\ Transitions(h) = f[N]
  BY TransitionsFold
<1>3. PICK g : Collects(g, k) /\ Transitions(k) = g[n]
  BY <1>1, TransitionsFold
<1>4. f[n] = g[n]
  <2>1. \A i \in 0 .. n : f[i] = g[i]
    BY <1>1, <1>2, <1>3, CollectsAgree
  <2> QED BY <1>1, <2>1
<1>5. /\ f \in [0 .. N -> Seq(Requests)]
      /\ \A i \in 1 .. N : f[i] = IF h[i].loss > 0 THEN f[i - 1] ELSE Append(f[i - 1], h[i].of)
  BY <1>2 DEF Collects
<1> HIDE DEF N
<1> DEFINE m == Len(f[n])
           P == {i \in n .. N : m <= Len(f[i]) /\ f[n] = SubSeq(f[i], 1, m)}
<1>6. f[n] \in Seq(Requests) /\ m \in Nat
  BY <1>1, <1>5
<1>7. n \in P
  <2>1. f[n] = SubSeq(f[n], 1, Len(f[n]))
    BY <1>6, FullPrefix
  <2> QED BY <1>1, <1>6, <2>1
<1> HIDE DEF m
<1>8. ASSUME NEW i \in n + 1 .. N, i - 1 \in P PROVE i \in P
  <2>1. /\ i \in 1 .. N /\ i \in n .. N /\ f[i - 1] \in Seq(Requests)
        /\ m <= Len(f[i - 1]) /\ f[n] = SubSeq(f[i - 1], 1, m) /\ h[i].of \in Requests
    BY <1>1, <1>5, <1>8
  <2>2. CASE h[i].loss > 0
    BY <1>5, <2>1, <2>2
  <2>3. CASE ~(h[i].loss > 0)
    <3>1. f[i] = Append(f[i - 1], h[i].of)
      BY <1>5, <2>1, <2>3
    <3>2. m \in 0 .. Len(f[i - 1]) /\ Len(f[i]) = Len(f[i - 1]) + 1 /\ Len(f[i - 1]) \in Nat
      BY <1>6, <2>1, <3>1
    <3>3. SubSeq(f[i], 1, m) = SubSeq(f[i - 1], 1, m)
      BY <2>1, <3>1, <3>2, AppendKeepsPrefix
    <3> QED BY <1>6, <2>1, <3>2, <3>3
  <2> QED BY <2>2, <2>3
<1>9. \A i \in n .. N : i \in P
  <2> HIDE DEF P
  <2> QED BY <1>1, <1>7, <1>8, UpTo
<1>10. N \in P
  <2> HIDE DEF P
  <2> QED BY <1>1, <1>9
<1>11. f[N] \in Seq(Requests) /\ m <= Len(f[N]) /\ f[n] = SubSeq(f[N], 1, m)
  BY <1>1, <1>5, <1>10
<1>12. m \in 0 .. Len(f[N])
  BY <1>6, <1>11
<1> QED BY <1>2, <1>3, <1>4, <1>11, <1>12 DEF k

LEMMA AppliedAppend ==
    ASSUME NEW s \in Seq(Requests), NEW a \in Requests
    PROVE  Durable!Applied(Append(s, a)) = Durable!Applied(s) \cup {a}
<1>1. /\ Len(Append(s, a)) = Len(s) + 1 /\ Len(s) \in Nat
      /\ \A i \in 1 .. Len(s) : Append(s, a)[i] = s[i]
      /\ Append(s, a)[Len(s) + 1] = a
  OBVIOUS
<1>2. 1 .. Len(s) + 1 = (1 .. Len(s)) \cup {Len(s) + 1}
  BY <1>1
<1> QED BY <1>1, <1>2 DEF Durable!Applied

\* What the transitions hold is what the journal's transition lines hold.
LEMMA TransitionsApplied ==
    ASSUME NEW h \in Seq(Line)
    PROVE  Durable!Applied(Transitions(h)) = {h[j].of : j \in {i \in 1 .. Len(h) : h[i].loss = 0}}
<1> DEFINE N == Len(h)
           Plain(i) == {j \in 1 .. i : h[j].loss = 0}
<1>1. N \in Nat /\ \A i \in 1 .. N : h[i].of \in Requests /\ h[i].loss \in Nat
  <2>1. N \in Nat /\ \A i \in 1 .. N : h[i] \in Line
    OBVIOUS
  <2> QED BY <2>1 DEF Line
<1>2. PICK f : Collects(f, h) /\ Transitions(h) = f[N]
  BY TransitionsFold
<1>3. /\ f \in [0 .. N -> Seq(Requests)] /\ f[0] = <<>>
      /\ \A i \in 1 .. N : f[i] = IF h[i].loss > 0 THEN f[i - 1] ELSE Append(f[i - 1], h[i].of)
  BY <1>2 DEF Collects
<1> HIDE DEF N
<1> DEFINE P == {i \in 0 .. N : Durable!Applied(f[i]) = {h[j].of : j \in Plain(i)}}
<1>4. 0 \in P
  <2>1. Durable!Applied(f[0]) = {}
    BY <1>3 DEF Durable!Applied
  <2>2. Plain(0) = {}
    OBVIOUS
  <2> QED BY <1>1, <2>1, <2>2
<1>5. ASSUME NEW i \in 1 .. N, i - 1 \in P PROVE i \in P
  <2>1. /\ i \in 0 .. N /\ f[i - 1] \in Seq(Requests) /\ h[i].of \in Requests /\ h[i].loss \in Nat
        /\ Durable!Applied(f[i - 1]) = {h[j].of : j \in Plain(i - 1)}
    BY <1>1, <1>3, <1>5
  <2>2. 1 .. i = (1 .. i - 1) \cup {i}
    BY <1>1
  <2>3. CASE h[i].loss > 0
    <3>1. Plain(i) = Plain(i - 1)
      BY <2>1, <2>2, <2>3
    <3>2. f[i] = f[i - 1]
      BY <1>3, <2>3
    <3> HIDE DEF Plain
    <3> QED BY <2>1, <3>1, <3>2
  <2>4. CASE ~(h[i].loss > 0)
    <3>1. Plain(i) = Plain(i - 1) \cup {i}
      BY <2>1, <2>2, <2>4
    <3>2. f[i] = Append(f[i - 1], h[i].of)
      BY <1>3, <2>4
    <3>3. Durable!Applied(f[i]) = Durable!Applied(f[i - 1]) \cup {h[i].of}
      BY <2>1, <3>2, AppliedAppend
    <3> HIDE DEF Plain
    <3>4. {h[j].of : j \in Plain(i)} = {h[j].of : j \in Plain(i - 1)} \cup {h[i].of}
      BY <3>1
    <3> QED BY <2>1, <3>3, <3>4
  <2> QED BY <2>3, <2>4
<1>6. \A i \in 0 .. N : i \in P
  <2> HIDE DEF P
  <2> QED BY <1>1, <1>4, <1>5, FromStart
<1>7. N \in P
  <2> HIDE DEF P
  <2> QED BY <1>1, <1>6
<1> QED BY <1>2, <1>7 DEF N

-----------------------------------------------------------------------------
(* Types, and what holds between two file operations of a call.            *)

Pcs == {"idle", "load", "intent", "intentSync", "truncate", "record", "recordSync", "snapshot",
        "snapshotSync", "unlink", "unlinkSync", "loaded", "reloaded", "ready", "sync", "replace",
        "replaceSync"}

Watch == [on : BOOLEAN, task : Tasks \cup {None}, cursor : Nat, queue : Seq(Nat), resync : BOOLEAN]

FileTypes ==
    /\ log \in Seq(Line) /\ tail \in Torso \cup {None}
    /\ snap \in Nat /\ intent \in Intent \cup {None}
    /\ synced \in 0 .. Len(log) /\ media \in [snap : Nat, intent : Intent \cup {None}]

CallTypes ==
    /\ holder \in Procs \cup {None} /\ pc \in Pcs
    /\ req \in Requests \cup {None} /\ recovered \in BOOLEAN
    /\ holder = None <=> pc = "idle"

WatchTypes == observed \in [Procs -> Nat] /\ watch \in [Procs -> Watch]

HistoryTypes ==
    /\ confirmed \in SUBSET Requests /\ losses \in Nat
    /\ trusted \in BOOLEAN /\ lostBet \in BOOLEAN
    /\ faults \in Nat /\ powerLosses \in Nat

TypeInv == FileTypes /\ CallTypes /\ WatchTypes /\ HistoryTypes

\* The line the call has appended is the last one.
Written == Len(log) > 0 /\ log[Len(log)] = [of |-> req, loss |-> 0]

\* What each file operation of a call finds.
CallInv ==
    /\ pc \in {"intent", "intentSync", "truncate", "record", "recordSync", "unlink"} => recovered = TRUE
    /\ pc = "intent" => tail # None /\ intent = None
    /\ pc = "intentSync" => intent # None /\ Len(log) = intent.prefix
    /\ pc = "truncate" => intent # None /\ Len(log) = intent.prefix
    /\ pc = "record" => intent # None /\ Len(log) = intent.prefix /\ tail = None
    /\ pc = "recordSync" => intent # None /\ Recorded(intent)
    /\ pc \in {"snapshot", "snapshotSync"} =>
         tail = None /\ (recovered = TRUE <=> intent # None) /\ (intent # None => Recorded(intent))
    /\ pc = "unlink" => intent # None /\ Recorded(intent)
    /\ pc \in {"unlinkSync", "loaded", "reloaded", "ready", "sync", "replace", "replaceSync"} =>
         tail = None /\ intent = None
    /\ pc \in {"ready", "sync", "replace", "replaceSync"} => req # None
    /\ pc \in {"sync", "replace", "replaceSync"} => Written
    /\ pc \in {"replace", "replaceSync"} => synced = Len(log)

\* The inductive core: everything else is proved on top of it.
Core == TypeInv /\ CallInv

LEMMA NoneIsApart ==
    /\ None \notin Requests /\ None \notin Procs /\ None \notin Torso /\ None \notin Intent
    /\ None \notin StoreRecord
BY RepositoryAssumption, NoneAssumption

LEMMA LossRecordType ==
    ASSUME NEW i \in Intent
    PROVE  /\ LossRecord(i) \in Line /\ LossRecord(i).loss > 0
           /\ i.prefix \in Nat /\ i.lost \in Torso /\ i.lost.line \in Line
<1>1. i.prefix \in Nat /\ i.lost \in Torso
  BY DEF Intent
<1>2. i.lost.line \in Line
  BY <1>1 DEF Torso
<1>3. i.lost.line.of \in Requests /\ i.lost.line.loss \in Nat
  BY <1>2 DEF Line
<1>4. LossRecord(i) \in Line
  BY <1>3 DEF LossRecord, Line
<1>5. LossRecord(i).loss > 0
  BY <1>3 DEF LossRecord
<1> QED BY <1>1, <1>2, <1>4, <1>5

LEMMA TornType ==
    ASSUME NEW l \in Line, NEW n \in {1, 2}
    PROVE  [line |-> l, len |-> n] \in Torso
BY DEF Torso

LEMMA NoWatchType == NoWatch \in Watch
BY DEF NoWatch, Watch

LEMMA MarkAllType ==
    ASSUME NEW w \in Watch
    PROVE  MarkAll(w) \in Watch
BY DEF MarkAll, Watch

LEMMA BroadcastType ==
    ASSUME NEW w \in Watch, NEW n \in Nat
    PROVE  Broadcast(w, n) \in Watch
<1>1. w.queue \in Seq(Nat)
  BY DEF Watch
<1>2. Append(w.queue, n) \in Seq(Nat)
  BY <1>1
<1>3. [w EXCEPT !.queue = Append(@, n)] \in Watch
  BY <1>2 DEF Watch
<1>4. [w EXCEPT !.resync = TRUE] \in Watch
  BY DEF Watch
<1>5. Broadcast(w, n) \in {w, [w EXCEPT !.queue = Append(@, n)], [w EXCEPT !.resync = TRUE]}
  BY DEF Broadcast
<1> QED BY <1>3, <1>4, <1>5

\* Where a page to the head continues: nothing deliverable lies between the
\* continuation and the head.
LEMMA ContinuationIsLast ==
    ASSUME FileTypes, NEW start \in 0 .. Len(log), NEW t
    PROVE  /\ Continuation(start, t) \in start .. Len(log)
           /\ \A n \in Continuation(start, t) + 1 .. Len(log) : ~Deliverable(log[n], t)
<1> DEFINE seen == {n \in start + 1 .. Len(log) : Deliverable(log[n], t)}
<1>1. Len(log) \in Nat
  BY DEF FileTypes
<1>2. CASE seen = {}
  <2>1. Continuation(start, t) = start
    BY <1>2 DEF Continuation
  <2> QED BY <1>1, <1>2, <2>1
<1>3. CASE seen # {}
  <2>1. seen \in SUBSET (0 .. Len(log))
    BY <1>1
  <2> DEFINE c == CHOOSE n \in seen : \A m \in seen : m <= n
  <2>2. Continuation(start, t) = c
    BY <1>3 DEF Continuation
  <2> HIDE DEF seen
  <2>3. \E n \in seen : \A m \in seen : m <= n
    BY <1>1, <1>3, <2>1, LastPosition
  <2>4. c \in seen /\ \A m \in seen : m <= c
    BY <2>3
  <2> HIDE DEF c
  <2>5. c \in start + 1 .. Len(log)
    BY <2>4 DEF seen
  <2>6. \A n \in c + 1 .. Len(log) : n \notin seen
    BY <1>1, <2>4, <2>5
  <2>7. \A n \in c + 1 .. Len(log) : n \in start + 1 .. Len(log)
    BY <1>1, <2>5
  <2>8. \A n \in c + 1 .. Len(log) : ~Deliverable(log[n], t)
    BY <2>6, <2>7 DEF seen
  <2>9. c \in start .. Len(log)
    BY <1>1, <2>5
  <2> QED BY <2>2, <2>8, <2>9
<1> QED BY <1>2, <1>3

LEMMA LoadEffectsType ==
    ASSUME WatchTypes, NEW p \in Procs, NEW replayed, Len(log) \in Nat, LoadEffects(p, replayed)
    PROVE  WatchTypes'
<1>1. MarkAll(watch[p]) \in Watch
  BY MarkAllType DEF WatchTypes
<1>2. watch' \in {[watch EXCEPT ![p] = MarkAll(@)], watch}
  BY DEF LoadEffects
<1>3. observed' = [observed EXCEPT ![p] = Len(log)]
  BY DEF LoadEffects
<1>4. [watch EXCEPT ![p] = MarkAll(@)] \in [Procs -> Watch]
  BY <1>1 DEF WatchTypes
<1> QED BY <1>2, <1>3, <1>4 DEF WatchTypes

LEMMA CoreLoadRefused ==
    ASSUME Core, LoadRefused PROVE Core'
<1>0. FileTypes /\ CallTypes /\ WatchTypes /\ HistoryTypes /\ CallInv
  BY DEF Core, TypeInv
<1>1. FileTypes'
  BY <1>0 DEF LoadRefused, FileTypes, files, medium
<1>2. CallTypes'
  BY <1>0, NoneIsApart DEF LoadRefused, CallTypes, Pcs, Release
<1>3. WatchTypes'
  <2>1. watch' = [watch EXCEPT ![holder] = MarkAll(@)] /\ observed' = observed /\ holder \in Procs
    BY <1>0 DEF LoadRefused, CallTypes
  <2>2. MarkAll(watch[holder]) \in Watch
    BY <1>0, <2>1, MarkAllType DEF WatchTypes
  <2> QED BY <1>0, <2>1, <2>2 DEF WatchTypes
<1>4. HistoryTypes'
  BY <1>0 DEF LoadRefused, HistoryTypes, history
<1>5. CallInv'
  BY <1>0, NoneIsApart DEF LoadRefused, CallInv, Written, Recorded, FileTypes, files, medium, Release
<1> QED BY <1>1, <1>2, <1>3, <1>4, <1>5 DEF Core, TypeInv

LEMMA CoreLoad ==
    ASSUME Core, Load PROVE Core'
<1>0. FileTypes /\ CallTypes /\ WatchTypes /\ HistoryTypes /\ CallInv
  BY DEF Core, TypeInv
<1>1. FileTypes'
  BY <1>0 DEF Load, FileTypes, files, medium
<1>2. CallTypes'
  BY <1>0, NoneIsApart DEF Load, CallTypes, Pcs
<1>3. WatchTypes'
  BY <1>0 DEF Load, WatchTypes, hubs
<1>4. HistoryTypes'
  BY <1>0 DEF Load, HistoryTypes, history
<1>5. CallInv'
  <2>1. UNCHANGED <<log, tail, intent, synced, req>>
    BY DEF Load, files, medium
  <2>2. intent # None /\ ~Recorded(intent) => Len(log) = intent.prefix
    BY DEF Load, Accepts, Resumable
  <2>3. CASE tail = None /\ intent = None /\ pc' = "snapshot" /\ recovered' = FALSE
    BY <1>0, <2>1, <2>3 DEF CallInv
  <2>4. CASE tail # None /\ intent = None /\ pc' = "intent" /\ recovered' = TRUE
    BY <1>0, <2>1, <2>4 DEF CallInv
  <2>5. CASE intent # None /\ Recorded(intent) /\ pc' = "snapshot" /\ recovered' = TRUE
    BY <1>0, <2>1, <2>5 DEF CallInv, Recorded
  <2>6. CASE /\ intent # None /\ ~Recorded(intent)
             /\ pc' = (IF tail = None THEN "record" ELSE "truncate") /\ recovered' = TRUE
    BY <1>0, <2>1, <2>2, <2>6 DEF CallInv
  <2> QED BY <2>3, <2>4, <2>5, <2>6 DEF Load
<1> QED BY <1>1, <1>2, <1>3, <1>4, <1>5 DEF Core, TypeInv

LEMMA CoreWriteIntent ==
    ASSUME Core, WriteIntent PROVE Core'
<1>0. FileTypes /\ CallTypes /\ WatchTypes /\ HistoryTypes /\ CallInv
  BY DEF Core, TypeInv
<1>1. FileTypes'
  <2>1. tail \in Torso /\ Len(log) \in Nat
    BY <1>0 DEF WriteIntent, CallInv, FileTypes
  <2>2. intent' \in Intent
    BY <2>1 DEF WriteIntent, Intent
  <2> QED BY <1>0, <2>2 DEF WriteIntent, FileTypes, medium
<1>2. CallTypes'
  BY <1>0, NoneIsApart DEF WriteIntent, CallTypes, Pcs
<1>3. WatchTypes'
  BY <1>0 DEF WriteIntent, WatchTypes, hubs
<1>4. HistoryTypes'
  BY <1>0 DEF WriteIntent, HistoryTypes, history
<1>5. CallInv'
  <2>1. tail \in Torso /\ Len(log) \in Nat
    BY <1>0 DEF WriteIntent, CallInv, FileTypes
  <2>2. intent' \in Intent /\ intent'.prefix = Len(log)
    BY <2>1 DEF WriteIntent, Intent
  <2>3. pc' = "intentSync" /\ recovered' = recovered /\ log' = log /\ pc = "intent"
    BY DEF WriteIntent
  <2> QED BY <1>0, <2>2, <2>3, NoneIsApart DEF CallInv
<1> QED BY <1>1, <1>2, <1>3, <1>4, <1>5 DEF Core, TypeInv

LEMMA CoreSyncIntent ==
    ASSUME Core, SyncIntent PROVE Core'
<1>0. FileTypes /\ CallTypes /\ WatchTypes /\ HistoryTypes /\ CallInv
  BY DEF Core, TypeInv
<1>1. FileTypes'
  BY <1>0 DEF SyncIntent, FileTypes, SyncRoot, files
<1>2. CallTypes'
  BY <1>0, NoneIsApart DEF SyncIntent, CallTypes, Pcs
<1>3. WatchTypes'
  BY <1>0 DEF SyncIntent, WatchTypes, hubs
<1>4. HistoryTypes'
  BY <1>0 DEF SyncIntent, HistoryTypes, history
<1>5. CallInv'
  BY <1>0, NoneIsApart DEF SyncIntent, CallInv, Written, Recorded, FileTypes, files
<1> QED BY <1>1, <1>2, <1>3, <1>4, <1>5 DEF Core, TypeInv

LEMMA CoreTruncate ==
    ASSUME Core, Truncate PROVE Core'
<1>0. FileTypes /\ CallTypes /\ WatchTypes /\ HistoryTypes /\ CallInv
  BY DEF Core, TypeInv
<1>1. FileTypes'
  BY <1>0 DEF Truncate, FileTypes
<1>2. CallTypes'
  BY <1>0, NoneIsApart DEF Truncate, CallTypes, Pcs
<1>3. WatchTypes'
  BY <1>0 DEF Truncate, WatchTypes, hubs
<1>4. HistoryTypes'
  BY <1>0 DEF Truncate, HistoryTypes, history
<1>5. CallInv'
  BY <1>0, NoneIsApart DEF Truncate, CallInv, Written, Recorded, FileTypes
<1> QED BY <1>1, <1>2, <1>3, <1>4, <1>5 DEF Core, TypeInv

LEMMA CoreAppendRecord ==
    ASSUME Core, AppendRecord PROVE Core'
<1>0. FileTypes /\ CallTypes /\ WatchTypes /\ HistoryTypes /\ CallInv
  BY DEF Core, TypeInv
<1>1. FileTypes'
  <2>1. intent \in Intent
    BY <1>0 DEF AppendRecord, CallInv, FileTypes
  <2>2. LossRecord(intent) \in Line
    BY <2>1, LossRecordType
  <2>3. log' \in Seq(Line) /\ Len(log') = Len(log) + 1
    BY <1>0, <2>2 DEF AppendRecord, FileTypes
  <2>4. UNCHANGED <<tail, snap, intent, synced, media>>
    BY DEF AppendRecord, medium
  <2> QED BY <1>0, <2>3, <2>4 DEF FileTypes
<1>2. CallTypes'
  BY <1>0, NoneIsApart DEF AppendRecord, CallTypes, Pcs
<1>3. WatchTypes'
  BY <1>0 DEF AppendRecord, WatchTypes, hubs
<1>4. HistoryTypes'
  BY <1>0 DEF AppendRecord, HistoryTypes, history
<1>5. CallInv'
  BY <1>0, NoneIsApart DEF AppendRecord, CallInv, Written, Recorded, FileTypes, medium
<1> QED BY <1>1, <1>2, <1>3, <1>4, <1>5 DEF Core, TypeInv

LEMMA CoreSyncRecord ==
    ASSUME Core, SyncRecord PROVE Core'
<1>0. FileTypes /\ CallTypes /\ WatchTypes /\ HistoryTypes /\ CallInv
  BY DEF Core, TypeInv
<1>1. FileTypes'
  BY <1>0 DEF SyncRecord, FileTypes, files
<1>2. CallTypes'
  BY <1>0, NoneIsApart DEF SyncRecord, CallTypes, Pcs
<1>3. WatchTypes'
  BY <1>0 DEF SyncRecord, WatchTypes, hubs
<1>4. HistoryTypes'
  BY <1>0 DEF SyncRecord, HistoryTypes, history
<1>5. CallInv'
  BY <1>0, NoneIsApart DEF SyncRecord, CallInv, Written, Recorded, FileTypes, files
<1> QED BY <1>1, <1>2, <1>3, <1>4, <1>5 DEF Core, TypeInv

LEMMA CoreWriteSnapshot ==
    ASSUME Core, WriteSnapshot PROVE Core'
<1>0. FileTypes /\ CallTypes /\ WatchTypes /\ HistoryTypes /\ CallInv
  BY DEF Core, TypeInv
<1>1. FileTypes'
  BY <1>0 DEF WriteSnapshot, FileTypes, medium
<1>2. CallTypes'
  BY <1>0, NoneIsApart DEF WriteSnapshot, CallTypes, Pcs
<1>3. WatchTypes'
  BY <1>0 DEF WriteSnapshot, WatchTypes, hubs
<1>4. HistoryTypes'
  BY <1>0 DEF WriteSnapshot, HistoryTypes, history
<1>5. CallInv'
  BY <1>0, NoneIsApart DEF WriteSnapshot, CallInv, Written, Recorded, FileTypes, medium
<1> QED BY <1>1, <1>2, <1>3, <1>4, <1>5 DEF Core, TypeInv

LEMMA CoreSyncSnapshot ==
    ASSUME Core, SyncSnapshot PROVE Core'
<1>0. FileTypes /\ CallTypes /\ WatchTypes /\ HistoryTypes /\ CallInv
  BY DEF Core, TypeInv
<1>1. FileTypes'
  BY <1>0 DEF SyncSnapshot, FileTypes, SyncRoot, files
<1>2. CallTypes'
  BY <1>0, NoneIsApart DEF SyncSnapshot, CallTypes, Pcs
<1>3. WatchTypes'
  BY <1>0 DEF SyncSnapshot, WatchTypes, hubs
<1>4. HistoryTypes'
  BY <1>0 DEF SyncSnapshot, HistoryTypes, history
<1>5. CallInv'
  BY <1>0, NoneIsApart DEF SyncSnapshot, CallInv, Written, Recorded, FileTypes, files
<1> QED BY <1>1, <1>2, <1>3, <1>4, <1>5 DEF Core, TypeInv

LEMMA CoreKeepSnapshot ==
    ASSUME Core, KeepSnapshot PROVE Core'
<1>0. FileTypes /\ CallTypes /\ WatchTypes /\ HistoryTypes /\ CallInv
  BY DEF Core, TypeInv
<1>1. FileTypes'
  BY <1>0 DEF KeepSnapshot, FileTypes, files, medium
<1>2. CallTypes'
  BY <1>0, NoneIsApart DEF KeepSnapshot, CallTypes, Pcs
<1>3. WatchTypes'
  BY <1>0 DEF KeepSnapshot, WatchTypes, hubs
<1>4. HistoryTypes'
  BY <1>0 DEF KeepSnapshot, HistoryTypes, history
<1>5. CallInv'
  BY <1>0, NoneIsApart DEF KeepSnapshot, CallInv, Written, Recorded, FileTypes, files, medium
<1> QED BY <1>1, <1>2, <1>3, <1>4, <1>5 DEF Core, TypeInv

LEMMA CoreRemoveIntent ==
    ASSUME Core, RemoveIntent PROVE Core'
<1>0. FileTypes /\ CallTypes /\ WatchTypes /\ HistoryTypes /\ CallInv
  BY DEF Core, TypeInv
<1>1. FileTypes'
  BY <1>0 DEF RemoveIntent, FileTypes, medium
<1>2. CallTypes'
  BY <1>0, NoneIsApart DEF RemoveIntent, CallTypes, Pcs
<1>3. WatchTypes'
  BY <1>0 DEF RemoveIntent, WatchTypes, hubs
<1>4. HistoryTypes'
  BY <1>0 DEF RemoveIntent, HistoryTypes, history
<1>5. CallInv'
  BY <1>0, NoneIsApart DEF RemoveIntent, CallInv, Written, Recorded, FileTypes, medium
<1> QED BY <1>1, <1>2, <1>3, <1>4, <1>5 DEF Core, TypeInv

LEMMA CoreSyncRemoval ==
    ASSUME Core, SyncRemoval PROVE Core'
<1>0. FileTypes /\ CallTypes /\ WatchTypes /\ HistoryTypes /\ CallInv
  BY DEF Core, TypeInv
<1>1. FileTypes'
  BY <1>0 DEF SyncRemoval, FileTypes, SyncRoot, files
<1>2. CallTypes'
  BY <1>0, NoneIsApart DEF SyncRemoval, CallTypes, Pcs
<1>3. WatchTypes'
  BY <1>0 DEF SyncRemoval, WatchTypes, hubs
<1>4. HistoryTypes'
  BY <1>0 DEF SyncRemoval, HistoryTypes, history
<1>5. CallInv'
  BY <1>0, NoneIsApart DEF SyncRemoval, CallInv, Written, Recorded, FileTypes, files
<1> QED BY <1>1, <1>2, <1>3, <1>4, <1>5 DEF Core, TypeInv

LEMMA CoreEndLoad ==
    ASSUME Core, EndLoad PROVE Core'
<1>0. FileTypes /\ CallTypes /\ WatchTypes /\ HistoryTypes /\ CallInv
  BY DEF Core, TypeInv
<1>1. FileTypes'
  BY <1>0 DEF EndLoad, FileTypes, files, medium
<1>2. CallTypes'
  BY <1>0, NoneIsApart DEF EndLoad, CallTypes, Pcs, Release
<1>3. WatchTypes'
  <2>1. holder \in Procs /\ LoadEffects(holder, pc = "reloaded") /\ Len(log) \in Nat
    BY <1>0 DEF EndLoad, CallTypes, FileTypes
  <2> QED BY <1>0, <2>1, LoadEffectsType
<1>4. HistoryTypes'
  BY <1>0 DEF EndLoad, HistoryTypes, history
<1>5. CallInv'
  BY <1>0, NoneIsApart DEF EndLoad, CallInv, Written, Recorded, FileTypes, files, medium, Release
<1> QED BY <1>1, <1>2, <1>3, <1>4, <1>5 DEF Core, TypeInv

LEMMA CoreAnswerWithoutWriting ==
    ASSUME Core, AnswerWithoutWriting PROVE Core'
<1>0. FileTypes /\ CallTypes /\ WatchTypes /\ HistoryTypes /\ CallInv
  BY DEF Core, TypeInv
<1>1. FileTypes'
  BY <1>0 DEF AnswerWithoutWriting, FileTypes, files, medium
<1>2. CallTypes'
  BY <1>0, NoneIsApart DEF AnswerWithoutWriting, CallTypes, Pcs, Release
<1>3. WatchTypes'
  BY <1>0 DEF AnswerWithoutWriting, WatchTypes, hubs
<1>4. HistoryTypes'
  BY <1>0 DEF AnswerWithoutWriting, HistoryTypes, history
<1>5. CallInv'
  BY <1>0, NoneIsApart DEF AnswerWithoutWriting, CallInv, Written, Recorded, FileTypes, files, medium, Release
<1> QED BY <1>1, <1>2, <1>3, <1>4, <1>5 DEF Core, TypeInv

LEMMA CoreAppendTransition ==
    ASSUME Core, AppendTransition PROVE Core'
<1>0. FileTypes /\ CallTypes /\ WatchTypes /\ HistoryTypes /\ CallInv
  BY DEF Core, TypeInv
<1>1. FileTypes'
  <2>1. req \in Requests
    BY <1>0 DEF AppendTransition, CallInv, CallTypes
  <2>2. [of |-> req, loss |-> 0] \in Line
    BY <2>1 DEF Line
  <2>3. log' \in Seq(Line) /\ Len(log') = Len(log) + 1
    BY <1>0, <2>2 DEF AppendTransition, FileTypes
  <2>4. UNCHANGED <<tail, snap, intent, synced, media>>
    BY DEF AppendTransition, medium
  <2> QED BY <1>0, <2>3, <2>4 DEF FileTypes
<1>2. CallTypes'
  BY <1>0, NoneIsApart DEF AppendTransition, CallTypes, Pcs
<1>3. WatchTypes'
  BY <1>0 DEF AppendTransition, WatchTypes, hubs
<1>4. HistoryTypes'
  BY <1>0 DEF AppendTransition, HistoryTypes, history
<1>5. CallInv'
  BY <1>0, NoneIsApart DEF AppendTransition, CallInv, Written, Recorded, FileTypes, medium
<1> QED BY <1>1, <1>2, <1>3, <1>4, <1>5 DEF Core, TypeInv

LEMMA CoreSyncTransition ==
    ASSUME Core, SyncTransition PROVE Core'
<1>0. FileTypes /\ CallTypes /\ WatchTypes /\ HistoryTypes /\ CallInv
  BY DEF Core, TypeInv
<1>1. FileTypes'
  BY <1>0 DEF SyncTransition, FileTypes, files
<1>2. CallTypes'
  BY <1>0, NoneIsApart DEF SyncTransition, CallTypes, Pcs
<1>3. WatchTypes'
  BY <1>0 DEF SyncTransition, WatchTypes, hubs
<1>4. HistoryTypes'
  BY <1>0 DEF SyncTransition, HistoryTypes, history
<1>5. CallInv'
  BY <1>0, NoneIsApart DEF SyncTransition, CallInv, Written, Recorded, FileTypes, files
<1> QED BY <1>1, <1>2, <1>3, <1>4, <1>5 DEF Core, TypeInv

LEMMA CoreReplaceSnapshot ==
    ASSUME Core, ReplaceSnapshot PROVE Core'
<1>0. FileTypes /\ CallTypes /\ WatchTypes /\ HistoryTypes /\ CallInv
  BY DEF Core, TypeInv
<1>1. FileTypes'
  BY <1>0 DEF ReplaceSnapshot, FileTypes, medium
<1>2. CallTypes'
  BY <1>0, NoneIsApart DEF ReplaceSnapshot, CallTypes, Pcs
<1>3. WatchTypes'
  BY <1>0 DEF ReplaceSnapshot, WatchTypes, hubs
<1>4. HistoryTypes'
  BY <1>0 DEF ReplaceSnapshot, HistoryTypes, history
<1>5. CallInv'
  BY <1>0, NoneIsApart DEF ReplaceSnapshot, CallInv, Written, Recorded, FileTypes, medium
<1> QED BY <1>1, <1>2, <1>3, <1>4, <1>5 DEF Core, TypeInv

LEMMA CoreCommit ==
    ASSUME Core, Commit PROVE Core'
<1>0. FileTypes /\ CallTypes /\ WatchTypes /\ HistoryTypes /\ CallInv
  BY DEF Core, TypeInv
<1>1. FileTypes'
  BY <1>0 DEF Commit, FileTypes, SyncRoot, files
<1>2. CallTypes'
  BY <1>0, NoneIsApart DEF Commit, CallTypes, Pcs, Release
<1>3. WatchTypes'
  <2>1. /\ watch' = [watch EXCEPT ![holder] = Broadcast(@, Len(log))] /\ holder \in Procs
        /\ observed' = [observed EXCEPT ![holder] = Len(log)] /\ Len(log) \in Nat
    BY <1>0 DEF Commit, CallTypes, FileTypes
  <2>2. Broadcast(watch[holder], Len(log)) \in Watch
    BY <1>0, <2>1, BroadcastType DEF WatchTypes
  <2> QED BY <1>0, <2>1, <2>2 DEF WatchTypes
<1>4. HistoryTypes'
  <2>1. req \in Requests
    BY <1>0 DEF Commit, CallInv, CallTypes
  <2> QED BY <1>0, <2>1 DEF Commit, HistoryTypes
<1>5. CallInv'
  BY <1>0, NoneIsApart DEF Commit, CallInv, Written, Recorded, FileTypes, files, Release
<1> QED BY <1>1, <1>2, <1>3, <1>4, <1>5 DEF Core, TypeInv

\* The files and the call are left alone.
LEMMA CoreReader ==
    ASSUME Core, UNCHANGED <<files, medium, call, history>>, WatchTypes'
    PROVE  Core'
<1>1. FileTypes'
  BY DEF Core, TypeInv, FileTypes, files, medium
<1>2. CallTypes'
  BY DEF Core, TypeInv, CallTypes, call
<1>3. HistoryTypes'
  BY DEF Core, TypeInv, HistoryTypes, history
<1>4. CallInv'
  BY DEF Core, CallInv, Written, Recorded, files, medium, call
<1> QED BY <1>1, <1>2, <1>3, <1>4 DEF Core, TypeInv

LEMMA CoreBegin ==
    ASSUME Core, NEW p \in Procs, NEW q \in Requests \cup {None}, Begin(p, q)
    PROVE  Core'
<1>0. FileTypes /\ CallTypes /\ WatchTypes /\ HistoryTypes /\ CallInv
  BY DEF Core, TypeInv
<1>1. FileTypes'
  BY <1>0 DEF Begin, FileTypes, files, medium
<1>2. CallTypes'
  BY <1>0, NoneIsApart DEF Begin, CallTypes, Pcs
<1>3. WatchTypes'
  BY <1>0 DEF Begin, WatchTypes, hubs
<1>4. HistoryTypes'
  BY <1>0 DEF Begin, HistoryTypes
<1>5. CallInv'
  BY DEF Begin, CallInv
<1> QED BY <1>1, <1>2, <1>3, <1>4, <1>5 DEF Core, TypeInv

LEMMA CoreReadRefused ==
    ASSUME Core, NEW p \in Procs, ReadRefused(p)
    PROVE  Core'
<1>1. watch' = [watch EXCEPT ![p] = MarkAll(@)] /\ observed' = observed
  BY DEF ReadRefused
<1>2. MarkAll(watch[p]) \in Watch
  BY MarkAllType DEF Core, TypeInv, WatchTypes
<1>3. WatchTypes'
  BY <1>1, <1>2 DEF Core, TypeInv, WatchTypes
<1> QED BY <1>3, CoreReader DEF ReadRefused

LEMMA CorePageEvents ==
    ASSUME Core, NEW p \in Procs, PageEvents(p)
    PROVE  Core'
<1>1. WatchTypes /\ Len(log) \in Nat
  BY DEF Core, TypeInv, FileTypes
<1>2. LoadEffects(p, snap # Len(log))
  BY DEF PageEvents
<1>3. WatchTypes'
  BY <1>1, <1>2, LoadEffectsType
<1> QED BY <1>3, CoreReader DEF PageEvents

\* A new subscription to t that continues after position c.
Fresh(t, c) == [NoWatch EXCEPT !.on = TRUE, !.task = t, !.cursor = c]

LEMMA FreshWatch ==
    ASSUME NEW t \in Tasks \cup {None}, NEW c \in Nat
    PROVE  /\ Fresh(t, c) \in Watch
           /\ Fresh(t, c).on /\ Fresh(t, c).task = t /\ Fresh(t, c).cursor = c
           /\ Fresh(t, c).queue = <<>> /\ Fresh(t, c).resync = FALSE
<1>1. ASSUME NEW w \in Watch, NEW x, x = [w EXCEPT !.on = TRUE, !.task = t, !.cursor = c]
      PROVE  /\ x \in Watch /\ x.on /\ x.task = t /\ x.cursor = c
             /\ x.queue = w.queue /\ x.resync = w.resync
  BY <1>1 DEF Watch
<1>2. NoWatch.queue = <<>> /\ NoWatch.resync = FALSE
  BY DEF NoWatch
<1> QED BY <1>1, <1>2, NoWatchType DEF Fresh

LEMMA CoreSubscribe ==
    ASSUME Core, NEW p \in Procs, NEW start \in 0 .. Len(log), NEW t \in Filters, Subscribe(p, start, t)
    PROVE  Core'
<1>1. FileTypes /\ WatchTypes /\ Len(log) \in Nat /\ t \in Tasks \cup {None}
  BY RepositoryAssumption DEF Core, TypeInv, FileTypes
<1>2. Continuation(start, t) \in Nat
  BY <1>1, ContinuationIsLast
<1>3. Fresh(t, Continuation(start, t)) \in Watch
  BY <1>1, <1>2, FreshWatch
<1>4. /\ watch' = [watch EXCEPT ![p] = Fresh(t, Continuation(start, t))]
      /\ observed' = [observed EXCEPT ![p] = Len(log)]
  BY DEF Subscribe, Fresh
<1>5. WatchTypes'
  BY <1>1, <1>3, <1>4 DEF WatchTypes
<1> QED BY <1>5, CoreReader DEF Subscribe

\* A subscription after receive_ready took the first queued event.
Taken(w) == [w EXCEPT !.cursor = Head(w.queue), !.queue = Tail(w.queue)]

LEMMA ReceiveTakes ==
    ASSUME WatchTypes, NEW p \in Procs, Receive(p)
    PROVE  /\ watch' = [watch EXCEPT ![p] = Taken(watch[p])]
           /\ Taken(watch[p]) \in Watch
<1>1. watch[p] \in Watch
  BY DEF WatchTypes
<1>2. watch[p].queue \in Seq(Nat) /\ watch[p].queue # <<>>
  BY <1>1 DEF Watch, Receive
<1>3. Head(watch[p].queue) \in Nat /\ Tail(watch[p].queue) \in Seq(Nat)
  BY <1>2
<1>4. Taken(watch[p]) \in Watch
  BY <1>1, <1>3 DEF Watch, Taken
<1>5. watch' = [watch EXCEPT ![p] = Taken(watch[p])]
  BY <1>1 DEF Receive, Taken, WatchTypes, Watch
<1> QED BY <1>4, <1>5

LEMMA CoreReceive ==
    ASSUME Core, NEW p \in Procs, Receive(p)
    PROVE  Core'
<1>1. WatchTypes /\ observed' = observed
  BY DEF Core, TypeInv, Receive
<1>2. WatchTypes'
  BY <1>1, ReceiveTakes DEF WatchTypes
<1> QED BY <1>2, CoreReader DEF Receive

LEMMA CoreUnsubscribe ==
    ASSUME Core, NEW p \in Procs, Unsubscribe(p)
    PROVE  Core'
<1>1. WatchTypes'
  BY NoWatchType DEF Core, TypeInv, WatchTypes, Unsubscribe
<1> QED BY <1>1, CoreReader DEF Unsubscribe

\* What a stop leaves: the journal's tail is part of a line or what it was.
LEMMA CutType ==
    ASSUME Core, Cut
    PROVE  tail' \in Torso \cup {None} /\ losses' \in Nat
<1>1. CASE UNCHANGED <<tail, losses>>
  BY <1>1 DEF Core, TypeInv, FileTypes, HistoryTypes
<1>2. ASSUME NEW l \in Line, Torn(l) PROVE tail' \in Torso /\ losses' \in Nat
  <2>1. tail' \in Torso
    BY <1>2, TornType DEF Torn
  <2> QED BY <1>2, <2>1 DEF Core, TypeInv, HistoryTypes, Torn
<1>3. CASE pc = "ready" /\ Torn([of |-> req, loss |-> 0])
  <2>1. req \in Requests
    BY <1>3 DEF Core, TypeInv, CallTypes, CallInv
  <2>2. [of |-> req, loss |-> 0] \in Line
    BY <2>1 DEF Line
  <2> QED BY <1>2, <1>3, <2>2
<1>4. CASE pc = "record" /\ Torn(LossRecord(intent))
  <2>1. intent \in Intent
    BY <1>4 DEF Core, TypeInv, FileTypes, CallInv
  <2> QED BY <1>2, <1>4, <2>1, LossRecordType
<1> QED BY <1>1, <1>3, <1>4 DEF Cut

\* The lock is free and no call is under way.
LEMMA CoreStopped ==
    ASSUME FileTypes', WatchTypes', HistoryTypes', Release
    PROVE  Core'
<1>1. CallTypes'
  BY DEF Release, CallTypes, Pcs
<1>2. CallInv'
  BY DEF Release, CallInv
<1> QED BY <1>1, <1>2 DEF Core, TypeInv

LEMMA CoreFail == ASSUME Core, Fail PROVE Core'
<1>0. FileTypes /\ WatchTypes /\ HistoryTypes /\ holder \in Procs
  BY DEF Core, TypeInv, CallTypes, Fail
<1>1. tail' \in Torso \cup {None} /\ losses' \in Nat
  BY CutType DEF Fail
<1>2. FileTypes'
  BY <1>0, <1>1 DEF Fail, FileTypes, medium
<1>3. WatchTypes'
  <2>1. MarkAll(watch[holder]) \in Watch
    BY <1>0, MarkAllType DEF WatchTypes
  <2>2. observed' = observed /\ watch' \in {[watch EXCEPT ![holder] = MarkAll(@)], watch}
    BY DEF Fail
  <2>3. [watch EXCEPT ![holder] = MarkAll(@)] \in [Procs -> Watch]
    BY <1>0, <2>1 DEF WatchTypes
  <2> QED BY <1>0, <2>2, <2>3 DEF WatchTypes
<1>4. HistoryTypes'
  BY <1>0, <1>1 DEF Fail, HistoryTypes
<1> QED BY <1>2, <1>3, <1>4, CoreStopped DEF Fail

LEMMA CoreDie == ASSUME Core, Die PROVE Core'
<1>0. FileTypes /\ WatchTypes /\ HistoryTypes /\ holder \in Procs
  BY DEF Core, TypeInv, CallTypes, Die
<1>1. tail' \in Torso \cup {None} /\ losses' \in Nat
  BY CutType DEF Die
<1>2. FileTypes'
  BY <1>0, <1>1 DEF Die, FileTypes, medium
<1>3. WatchTypes'
  BY <1>0, NoWatchType DEF Die, WatchTypes
<1>4. HistoryTypes'
  BY <1>0, <1>1 DEF Die, HistoryTypes
<1> QED BY <1>2, <1>3, <1>4, CoreStopped DEF Die

\* What power loss leaves of the journal, for the cut at n.
PowerCut(n) ==
    /\ n \in synced .. Len(log)
    /\ log' = SubSeq(log, 1, n) /\ synced' = n
    /\ \/ tail' = None
       \/ n < Len(log) /\ tail' = [line |-> log[n + 1], len |-> 1]
       \/ n = Len(log) /\ tail # None /\ tail' \in {tail, [tail EXCEPT !.len = 1]}

LEMMA PowerCutFiles ==
    ASSUME FileTypes, NEW n, PowerCut(n)
    PROVE  /\ n \in Nat /\ n <= Len(log) /\ synced <= n /\ log' \in Seq(Line) /\ Len(log') = n
           /\ \A i \in 1 .. n : log'[i] = log[i]
           /\ tail' \in Torso \cup {None}
           /\ tail' # None => \/ n < Len(log) /\ tail'.line = log[n + 1]
                              \/ n = Len(log) /\ tail # None /\ tail'.line = tail.line
<1>1. n \in Nat /\ n <= Len(log) /\ synced <= n
  BY DEF FileTypes, PowerCut
<1>2. log' \in Seq(Line) /\ Len(log') = n /\ \A i \in 1 .. n : log'[i] = log[i]
  BY <1>1 DEF FileTypes, PowerCut
<1>3. CASE tail' = None
  BY <1>1, <1>2, <1>3
<1>4. CASE n < Len(log) /\ tail' = [line |-> log[n + 1], len |-> 1]
  <2>1. log[n + 1] \in Line
    BY <1>1, <1>4 DEF FileTypes
  <2>2. tail' \in Torso /\ tail'.line = log[n + 1]
    BY <1>4, <2>1, TornType
  <2> QED BY <1>1, <1>2, <1>4, <2>2
<1>5. CASE n = Len(log) /\ tail # None /\ tail' \in {tail, [tail EXCEPT !.len = 1]}
  <2>1. tail \in Torso
    BY <1>5 DEF FileTypes
  <2>2. tail' \in Torso /\ tail'.line = tail.line
    BY <1>5, <2>1 DEF Torso
  <2> QED BY <1>1, <1>2, <1>5, <2>2
<1> QED BY <1>3, <1>4, <1>5 DEF PowerCut

LEMMA CoreLosePower == ASSUME Core, LosePower PROVE Core'
<1>0. FileTypes /\ HistoryTypes
  BY DEF Core, TypeInv
<1>1. PICK n : PowerCut(n)
  BY DEF LosePower, PowerCut
<1>2. n \in Nat /\ log' \in Seq(Line) /\ Len(log') = n /\ tail' \in Torso \cup {None} /\ synced' = n
  BY <1>0, <1>1, PowerCutFiles DEF PowerCut
<1>3. snap' \in Nat /\ intent' \in Intent \cup {None} /\ media' = [snap |-> snap', intent |-> intent']
  BY <1>0 DEF LosePower, FileTypes
<1>4. FileTypes'
  BY <1>2, <1>3 DEF FileTypes
<1>5. WatchTypes'
  BY NoWatchType DEF LosePower, WatchTypes
<1>6. HistoryTypes'
  <2>1. lostBet' \in BOOLEAN /\ trusted' \in BOOLEAN
    BY Zenon DEF LosePower
  <2> QED BY <1>0, <2>1 DEF LosePower, HistoryTypes
<1> QED BY <1>4, <1>5, <1>6, CoreStopped DEF LosePower

LEMMA CoreInit == Init => Core
<1> SUFFICES ASSUME Init PROVE Core
  OBVIOUS
<1>1. FileTypes
  BY DEF Init, FileTypes
<1>2. CallTypes /\ CallInv
  BY DEF Init, CallTypes, CallInv, Pcs
<1>3. WatchTypes
  BY NoWatchType DEF Init, WatchTypes
<1>4. HistoryTypes
  BY DEF Init, HistoryTypes
<1> QED BY <1>1, <1>2, <1>3, <1>4 DEF Core, TypeInv

LEMMA CoreNext == ASSUME Core, [Next]_vars PROVE Core'
<1>1. CASE UNCHANGED vars
  <2>1. UNCHANGED <<files, medium, call, history>> /\ UNCHANGED <<observed, watch>>
    BY <1>1 DEF vars, files, medium, call, history
  <2>2. WatchTypes'
    BY <2>1 DEF Core, TypeInv, WatchTypes
  <2> QED BY <2>1, <2>2, CoreReader
<1>2. CASE Step
  BY <1>2, CoreLoadRefused, CoreLoad, CoreWriteIntent, CoreSyncIntent, CoreTruncate,
     CoreAppendRecord, CoreSyncRecord, CoreWriteSnapshot, CoreSyncSnapshot, CoreKeepSnapshot,
     CoreRemoveIntent, CoreSyncRemoval, CoreEndLoad, CoreAnswerWithoutWriting,
     CoreAppendTransition, CoreSyncTransition, CoreReplaceSnapshot, CoreCommit DEF Step
<1>3. ASSUME NEW p \in Procs, NEW q \in Requests \cup {None}, Begin(p, q) PROVE Core'
  BY <1>3, CoreBegin
<1>4. ASSUME NEW p \in Procs, ReadRefused(p) \/ PageEvents(p) PROVE Core'
  BY <1>4, CoreReadRefused, CorePageEvents
<1>5. ASSUME NEW p \in Watchers, NEW start \in 0 .. Len(log), NEW t \in Filters, Subscribe(p, start, t)
      PROVE  Core'
  BY <1>5, CoreSubscribe, RepositoryAssumption
<1>6. ASSUME NEW p \in Watchers, Receive(p) \/ Unsubscribe(p) PROVE Core'
  BY <1>6, CoreReceive, CoreUnsubscribe, RepositoryAssumption
<1>7. CASE Fail \/ Die \/ LosePower
  BY <1>7, CoreFail, CoreDie, CoreLosePower
<1> QED BY <1>1, <1>2, <1>3, <1>4, <1>5, <1>6, <1>7 DEF Next

\* Every variable keeps its type, and every file operation of a call finds
\* the files as the operations before it left them (load_locked_recovering,
\* recover_journal, transition).
THEOREM TypeCorrect == Spec => []Core
<1>1. Init => Core
  BY CoreInit
<1>2. Core /\ [Next]_vars => Core'
  BY CoreNext
<1> QED BY <1>1, <1>2, PTL DEF Spec

-----------------------------------------------------------------------------
(* The journal: what is appended replays, what is confirmed stays.          *)

\* What a step does to the journal.
LEMMA JournalMoves ==
    ASSUME Core, [Next]_vars
    PROVE  \/ log' = log /\ synced' \in {synced, Len(log)} /\ (confirmed' = confirmed \/ Commit)
           \/ AppendRecord \/ AppendTransition
           \/ \E n : PowerCut(n) /\ confirmed' = confirmed
<1> DEFINE Same == log' = log /\ synced' \in {synced, Len(log)} /\ (confirmed' = confirmed \/ Commit)
<1>1. CASE UNCHANGED vars
  BY <1>1 DEF vars
<1>2. CASE LoadRefused \/ Load \/ KeepSnapshot \/ EndLoad \/ AnswerWithoutWriting
  BY <1>2 DEF LoadRefused, Load, KeepSnapshot, EndLoad, AnswerWithoutWriting, files, medium, history
<1>3. CASE WriteIntent \/ WriteSnapshot \/ RemoveIntent \/ ReplaceSnapshot
  BY <1>3 DEF WriteIntent, WriteSnapshot, RemoveIntent, ReplaceSnapshot, medium, history
<1>4. CASE SyncIntent \/ SyncSnapshot \/ SyncRemoval \/ Commit
  BY <1>4 DEF SyncIntent, SyncSnapshot, SyncRemoval, Commit, files, history
<1>5. CASE Truncate \/ SyncRecord \/ SyncTransition
  BY <1>5 DEF Truncate, SyncRecord, SyncTransition, files, history
<1>6. ASSUME NEW p \in Procs, NEW q \in Requests \cup {None}, Begin(p, q) PROVE Same
  BY <1>6 DEF Begin, files, medium
<1>7. ASSUME NEW p \in Procs, ReadRefused(p) \/ PageEvents(p) PROVE Same
  BY <1>7 DEF ReadRefused, PageEvents, files, medium, history
<1>8. ASSUME NEW p \in Watchers, NEW start \in 0 .. Len(log), NEW t \in Filters, Subscribe(p, start, t)
      PROVE  Same
  BY <1>8 DEF Subscribe, files, medium, history
<1>9. ASSUME NEW p \in Watchers, Receive(p) \/ Unsubscribe(p) PROVE Same
  BY <1>9 DEF Receive, Unsubscribe, files, medium, history
<1>10. CASE Fail \/ Die
  BY <1>10 DEF Fail, Die, medium
<1>11. CASE LosePower
  <2>1. confirmed' = confirmed /\ \E n : PowerCut(n)
    BY <1>11 DEF LosePower, PowerCut
  <2> QED BY <2>1
<1> HIDE DEF Same
<1>12. CASE Next
  BY <1>2, <1>3, <1>4, <1>5, <1>6, <1>7, <1>8, <1>9, <1>10, <1>11, <1>12 DEF Next, Step, Same
<1> QED BY <1>1, <1>12

\* The journal replays, and every confirmed request is a line on the medium.
Kept == \A r \in confirmed : \E i \in 1 .. synced : log[i] = [of |-> r, loss |-> 0]
JournalInv == Store # None /\ Kept

LEMMA StoreOfAppend ==
    ASSUME FileTypes, NEW l \in Line, log' = Append(log, l)
    PROVE  Store' = Replay(Store, l)
<1>1. Store' = Reconstruct(Append(log, l))
  BY DEF Store
<1> QED BY <1>1, ReconstructAppend DEF Store, FileTypes

LEMMA StoreNext ==
    ASSUME Core, Store # None, [Next]_vars
    PROVE  Store' # None
<1>0. FileTypes
  BY DEF Core, TypeInv
<1>1. CASE log' = log
  BY <1>1 DEF Store
<1>2. CASE AppendRecord
  <2>1. intent \in Intent
    BY <1>2 DEF Core, TypeInv, FileTypes, CallInv, AppendRecord
  <2>2. LossRecord(intent) \in Line /\ LossRecord(intent).loss > 0
    BY <2>1, LossRecordType
  <2>3. Store' = Replay(Store, LossRecord(intent))
    BY <1>0, <1>2, <2>2, StoreOfAppend DEF AppendRecord
  <2>4. Replay(Store, LossRecord(intent)) = Store
    BY <2>2 DEF Replay
  <2> QED BY <2>3, <2>4
<1>3. CASE AppendTransition
  <2> DEFINE l == [of |-> req, loss |-> 0]
  <2>1. req \in Requests
    BY <1>3 DEF AppendTransition, Core, TypeInv, CallTypes, CallInv
  <2>2. l \in Line /\ l.of = req /\ ~(l.loss > 0)
    BY <2>1 DEF Line
  <2>3. log' = Append(log, l) /\ SameReceipt(Store, req) = {} /\ req.expected = Store.rev /\ Plans(Store, req)
    BY <1>3 DEF AppendTransition
  <2> HIDE DEF l
  <2>4. Store' = Replay(Store, l)
    BY <1>0, <2>2, <2>3, StoreOfAppend
  <2>5. Replay(Store, l) = Finalize(Store, req)
    BY <2>2, <2>3 DEF Replay
  <2>6. Store \in StoreRecord
    BY <1>0, ReconstructType DEF Store, FileTypes
  <2>7. Finalize(Store, req) \in StoreRecord
    BY <2>1, <2>6, FinalizeType
  <2> QED BY <2>4, <2>5, <2>7, NoneIsApart
<1>4. CASE \E n : PowerCut(n)
  <2>1. PICK n : PowerCut(n)
    BY <1>4
  <2>2. log \in Seq(Line) /\ n \in 0 .. Len(log) /\ log' = SubSeq(log, 1, n)
    BY <1>0, <2>1, PowerCutFiles DEF FileTypes, PowerCut
  <2>3. Store' = Reconstruct(SubSeq(log, 1, n))
    BY <2>2 DEF Store
  <2> QED BY <2>2, <2>3, ReconstructPrefix DEF Store
<1> QED BY <1>1, <1>2, <1>3, <1>4, JournalMoves

LEMMA KeptNext ==
    ASSUME Core, Kept, [Next]_vars
    PROVE  Kept'
<1>0. FileTypes /\ synced \in Nat /\ Len(log) \in Nat /\ synced <= Len(log)
  BY DEF Core, TypeInv, FileTypes
<1>1. CASE log' = log /\ synced' \in {synced, Len(log)} /\ confirmed' = confirmed
  BY <1>0, <1>1 DEF Kept
<1>2. CASE Commit
  <2>1. log' = log /\ synced' = synced /\ confirmed' = confirmed \cup {req}
    BY <1>2 DEF Commit, files
  <2>2. synced = Len(log) /\ Len(log) > 0 /\ log[Len(log)] = [of |-> req, loss |-> 0]
    BY <1>2 DEF Commit, Core, CallInv, Written
  <2> QED BY <1>0, <2>1, <2>2 DEF Kept
<1>3. ASSUME NEW l \in Line, log' = Append(log, l), synced' = synced, confirmed' = confirmed
      PROVE  Kept'
  <2>1. \A i \in 1 .. synced : log'[i] = log[i]
    BY <1>0, <1>3 DEF FileTypes
  <2> QED BY <1>3, <2>1 DEF Kept
<1>4. CASE AppendRecord
  <2>1. intent \in Intent
    BY <1>4 DEF Core, TypeInv, FileTypes, CallInv, AppendRecord
  <2> QED BY <1>3, <1>4, <2>1, LossRecordType DEF AppendRecord, medium, history
<1>5. CASE AppendTransition
  <2>1. req \in Requests
    BY <1>5 DEF AppendTransition, Core, TypeInv, CallTypes, CallInv
  <2>2. [of |-> req, loss |-> 0] \in Line
    BY <2>1 DEF Line
  <2> QED BY <1>3, <1>5, <2>2 DEF AppendTransition, medium, history
<1>6. CASE \E n : PowerCut(n) /\ confirmed' = confirmed
  <2>1. PICK n : PowerCut(n) /\ confirmed' = confirmed
    BY <1>6
  <2>2. n \in Nat /\ synced <= n /\ synced' = n /\ \A i \in 1 .. n : log'[i] = log[i]
    BY <1>0, <2>1, PowerCutFiles DEF PowerCut
  <2> QED BY <1>0, <2>1, <2>2 DEF Kept
<1> QED BY <1>1, <1>2, <1>4, <1>5, <1>6, JournalMoves

LEMMA JournalInit == Init => JournalInv
<1> SUFFICES ASSUME Init PROVE JournalInv
  OBVIOUS
<1>1. Store # None
  BY ReconstructEmpty, EmptyStoreType, NoneIsApart DEF Init, Store
<1> QED BY <1>1 DEF Init, JournalInv, Kept

\* The journal always replays, and every confirmed request is a line that
\* reached the medium (reconstruct_store, append_transition).
THEOREM JournalHolds == Spec => [](Core /\ JournalInv)
<1>1. Init => Core /\ JournalInv
  BY CoreInit, JournalInit
<1>2. Core /\ JournalInv /\ [Next]_vars => (Core /\ JournalInv)'
  BY CoreNext, StoreNext, KeptNext DEF JournalInv
<1> QED BY <1>1, <1>2, PTL DEF Spec

-----------------------------------------------------------------------------
(* The refinement of DurableLog.                                            *)

LEMMA RefinesStep ==
    ASSUME Core, JournalInv, [Next]_vars
    PROVE  [Durable!Next]_(Durable!vars)
<1> DEFINE T == Transitions(log)
<1>0. FileTypes /\ log \in Seq(Line) /\ Len(log) \in Nat
  BY DEF Core, TypeInv, FileTypes
<1>1. T' = Transitions(log')
  OBVIOUS
<1>2. CASE log' = log /\ confirmed' = confirmed
  BY <1>1, <1>2 DEF Durable!vars
<1>3. CASE Commit
  <2>1. log' = log /\ confirmed' = confirmed \cup {req} /\ req \in Requests
    BY <1>3 DEF Commit, files, Core, TypeInv, CallTypes, CallInv
  <2>2. Len(log) > 0 /\ log[Len(log)] = [of |-> req, loss |-> 0]
    BY <1>3 DEF Commit, Core, CallInv, Written
  <2>3. req \in Durable!Applied(T)
    BY <1>0, <2>2, TransitionsApplied
  <2>4. Durable!Confirm(req)
    BY <1>1, <2>1, <2>3 DEF Durable!Confirm
  <2> QED BY <2>1, <2>4 DEF Durable!Next
<1>4. CASE AppendRecord
  <2>1. intent \in Intent
    BY <1>4 DEF Core, TypeInv, FileTypes, CallInv, AppendRecord
  <2>2. LossRecord(intent) \in Line /\ LossRecord(intent).loss > 0
    BY <2>1, LossRecordType
  <2>3. log' = Append(log, LossRecord(intent)) /\ confirmed' = confirmed
    BY <1>4 DEF AppendRecord, history
  <2>4. Transitions(log') = Transitions(log)
    BY <1>0, <2>2, <2>3, TransitionsAppend
  <2> QED BY <1>1, <2>3, <2>4 DEF Durable!vars
<1>5. CASE AppendTransition
  <2> DEFINE l == [of |-> req, loss |-> 0]
  <2>1. req \in Requests
    BY <1>5 DEF AppendTransition, Core, TypeInv, CallTypes, CallInv
  <2>2. l \in Line /\ l.of = req /\ ~(l.loss > 0)
    BY <2>1 DEF Line
  <2>3. log' = Append(log, l) /\ confirmed' = confirmed /\ SameReceipt(Store, req) = {}
    BY <1>5 DEF AppendTransition, history
  <2> HIDE DEF l
  <2>4. Transitions(log') = Append(Transitions(log), req)
    BY <1>0, <2>2, <2>3, TransitionsAppend
  <2>5. req \notin Store.receipts
    BY <2>3 DEF SameReceipt
  <2>6. req \notin Durable!Applied(T)
    <3> SUFFICES ASSUME req \in Durable!Applied(T) PROVE FALSE
      OBVIOUS
    <3>1. PICK j \in 1 .. Len(log) : log[j].loss = 0 /\ log[j].of = req
      BY <1>0, TransitionsApplied
    <3>2. req \in Reconstruct(log).receipts
      BY <1>0, <3>1, ReceiptsKept DEF JournalInv, Store
    <3> QED BY <2>5, <3>2 DEF Store
  <2>7. Durable!CommitAction(req)
    BY <1>1, <2>3, <2>4, <2>6 DEF Durable!CommitAction
  <2> QED BY <2>1, <2>7 DEF Durable!Next
<1>6. CASE \E n : PowerCut(n) /\ confirmed' = confirmed
  <2>1. PICK n : PowerCut(n) /\ confirmed' = confirmed
    BY <1>6
  <2>2. /\ n \in 0 .. Len(log) /\ n \in Nat /\ synced <= n /\ log' = SubSeq(log, 1, n)
        /\ log' \in Seq(Line) /\ Len(log') = n /\ \A i \in 1 .. n : log'[i] = log[i]
    BY <1>0, <2>1, PowerCutFiles DEF PowerCut
  <2>3. PICK m \in 0 .. Len(T) : Transitions(log') = SubSeq(T, 1, m)
    BY <1>0, <2>2, TransitionsPrefix
  <2>4. confirmed \subseteq Durable!Applied(SubSeq(T, 1, m))
    <3> SUFFICES ASSUME NEW r \in confirmed PROVE r \in Durable!Applied(Transitions(log'))
      BY <2>3
    <3>1. PICK i \in 1 .. synced : log[i] = [of |-> r, loss |-> 0]
      BY DEF JournalInv, Kept
    <3>2. i \in 1 .. n /\ log'[i].of = r /\ log'[i].loss = 0
      BY <2>2, <3>1 DEF Core, TypeInv, FileTypes
    <3>3. PICK k \in Seq(Line) : k = log'
      BY <2>2
    <3>4. Durable!Applied(Transitions(k)) = {k[j].of : j \in {x \in 1 .. Len(k) : k[x].loss = 0}}
      BY TransitionsApplied
    <3> QED BY <2>2, <3>2, <3>3, <3>4
  <2>5. Durable!CutBack(m)
    BY <1>1, <2>1, <2>3, <2>4 DEF Durable!CutBack
  <2> QED BY <2>5 DEF Durable!Next
<1> QED BY <1>2, <1>3, <1>4, <1>5, <1>6, JournalMoves

\* The repository implements one growing log: a request is appended once, and
\* no power failure cuts below a request whose own transition was answered
\* Committed (transition, recover_journal).
THEOREM RepositoryRefinement == Spec => ImplementsDurableLog
<1>1. Init => Durable!Init
  BY TransitionsEmpty DEF Init, Durable!Init
<1>2. Core /\ JournalInv /\ [Next]_vars => [Durable!Next]_(Durable!vars)
  BY RefinesStep
<1> QED BY <1>1, <1>2, JournalHolds, PTL DEF Spec, ImplementsDurableLog, Durable!Spec

-----------------------------------------------------------------------------
(* Loading: the next load accepts what is on disk.                          *)

\* The snapshot is not ahead of the journal and the intent fits it, on disk.
Fits ==
    /\ snap <= Len(log) /\ media.snap <= Len(log)
    /\ intent # None => Resumable(intent)

\* The same of the intent i, wherever a power failure cuts the journal.
Settled(i) ==
    i # None => /\ i.prefix <= synced
                /\ \/ Recorded(i)
                   \/ Len(log) = i.prefix /\ (tail # None => tail.line = LossRecord(i))

Firm == snap <= synced /\ media.snap <= synced /\ Settled(intent) /\ Settled(media.intent)

\* A call that began with everything on the medium: it has nothing to cut, and
\* what it has not synced is the line it has just appended.
Clean ==
    /\ tail = None /\ pc \notin {"intent", "intentSync", "truncate"}
    /\ pc \notin {"recordSync", "sync"} => synced = Len(log)
    /\ pc \in {"load", "record", "recordSync", "snapshot", "snapshotSync", "unlink"} => media.intent = intent
    /\ pc \in {"loaded", "reloaded", "ready", "sync", "replace", "replaceSync"} => media.intent = None

LoadInv ==
    /\ ~lostBet => Fits
    /\ ~lostBet /\ ~trusted => Firm
    /\ ~trusted /\ holder # None => Clean

\* A step that loses no power and begins no call has three things to keep.
LEMMA LoadKept ==
    ASSUME LoadInv, lostBet' = lostBet, trusted' = trusted,
           ~lostBet /\ Fits => Fits',
           ~lostBet /\ ~trusted /\ Fits /\ Firm /\ (holder # None => Clean) => Firm',
           ~trusted /\ (holder # None => Clean) /\ holder' # None => Clean'
    PROVE  LoadInv'
<1>1. ~lostBet' => Fits'
  BY Zenon DEF LoadInv
<1>2. ~lostBet' /\ ~trusted' => Firm'
  BY Zenon DEF LoadInv
<1>3. ~trusted' /\ holder' # None => Clean'
  BY Zenon DEF LoadInv
<1> QED BY <1>1, <1>2, <1>3, Zenon DEF LoadInv

LEMMA LoadLoadRefused ==
    ASSUME Core, LoadInv, LoadRefused PROVE LoadInv'
<1>0. FileTypes /\ CallTypes /\ CallInv
  BY DEF Core, TypeInv
<1>1. lostBet' = lostBet /\ trusted' = trusted
  BY DEF LoadRefused, history
<1>2. ~lostBet /\ Fits => Fits'
  BY <1>0 DEF LoadRefused, Fits, Resumable, Recorded, FileTypes, CallInv, files, medium
<1>3. ~lostBet /\ ~trusted /\ Fits /\ Firm /\ (holder # None => Clean) => Firm'
  BY <1>0 DEF LoadRefused, Firm, Settled, Recorded, Clean, FileTypes, CallTypes, CallInv, files, medium
<1>4. ~trusted /\ (holder # None => Clean) /\ holder' # None => Clean'
  BY <1>0 DEF LoadRefused, Clean, CallTypes, CallInv, files, medium, Release
<1> QED BY <1>1, <1>2, <1>3, <1>4, LoadKept

LEMMA LoadLoad ==
    ASSUME Core, LoadInv, Load PROVE LoadInv'
<1>0. FileTypes /\ CallTypes /\ CallInv
  BY DEF Core, TypeInv
<1>1. lostBet' = lostBet /\ trusted' = trusted
  BY DEF Load, history
<1>2. ~lostBet /\ Fits => Fits'
  BY <1>0 DEF Load, Fits, Resumable, Recorded, FileTypes, CallInv, files, medium
<1>3. ~lostBet /\ ~trusted /\ Fits /\ Firm /\ (holder # None => Clean) => Firm'
  BY <1>0 DEF Load, Firm, Settled, Recorded, Clean, FileTypes, CallTypes, CallInv, files, medium
<1>4. ~trusted /\ (holder # None => Clean) /\ holder' # None => Clean'
  BY <1>0 DEF Load, Clean, CallTypes, CallInv, files, medium
<1> QED BY <1>1, <1>2, <1>3, <1>4, LoadKept

LEMMA LoadWriteIntent ==
    ASSUME Core, LoadInv, WriteIntent PROVE LoadInv'
<1>0. FileTypes /\ CallTypes /\ CallInv
  BY DEF Core, TypeInv
<1>1. lostBet' = lostBet /\ trusted' = trusted
  BY DEF WriteIntent, history
<1>2. ~lostBet /\ Fits => Fits'
  BY <1>0 DEF WriteIntent, Fits, Resumable, Recorded, FileTypes, CallInv, medium
<1>3. ~lostBet /\ ~trusted /\ Fits /\ Firm /\ (holder # None => Clean) => Firm'
  BY <1>0 DEF WriteIntent, Firm, Settled, Recorded, Clean, FileTypes, CallTypes, CallInv, medium
<1>4. ~trusted /\ (holder # None => Clean) /\ holder' # None => Clean'
  BY <1>0 DEF WriteIntent, Clean, CallTypes, CallInv, medium
<1> QED BY <1>1, <1>2, <1>3, <1>4, LoadKept

LEMMA LoadSyncIntent ==
    ASSUME Core, LoadInv, SyncIntent PROVE LoadInv'
<1>0. FileTypes /\ CallTypes /\ CallInv
  BY DEF Core, TypeInv
<1>1. lostBet' = lostBet /\ trusted' = trusted
  BY DEF SyncIntent, history
<1>2. ~lostBet /\ Fits => Fits'
  BY <1>0 DEF SyncIntent, Fits, Resumable, Recorded, FileTypes, CallInv, SyncRoot, files
<1>3. ~lostBet /\ ~trusted /\ Fits /\ Firm /\ (holder # None => Clean) => Firm'
  BY <1>0 DEF SyncIntent, Firm, Settled, Recorded, Clean, FileTypes, CallTypes, CallInv, SyncRoot, files
<1>4. ~trusted /\ (holder # None => Clean) /\ holder' # None => Clean'
  BY <1>0 DEF SyncIntent, Clean, CallTypes, CallInv, SyncRoot, files
<1> QED BY <1>1, <1>2, <1>3, <1>4, LoadKept

LEMMA LoadTruncate ==
    ASSUME Core, LoadInv, Truncate PROVE LoadInv'
<1>0. FileTypes /\ CallTypes /\ CallInv
  BY DEF Core, TypeInv
<1>1. lostBet' = lostBet /\ trusted' = trusted
  BY DEF Truncate, history
<1>2. ~lostBet /\ Fits => Fits'
  BY <1>0 DEF Truncate, Fits, Resumable, Recorded, FileTypes, CallInv
<1>3. ~lostBet /\ ~trusted /\ Fits /\ Firm /\ (holder # None => Clean) => Firm'
  BY <1>0 DEF Truncate, Firm, Settled, Recorded, Clean, FileTypes, CallTypes, CallInv
<1>4. ~trusted /\ (holder # None => Clean) /\ holder' # None => Clean'
  BY <1>0 DEF Truncate, Clean, CallTypes, CallInv
<1> QED BY <1>1, <1>2, <1>3, <1>4, LoadKept

LEMMA LoadAppendRecord ==
    ASSUME Core, LoadInv, AppendRecord PROVE LoadInv'
<1>0. FileTypes /\ CallTypes /\ CallInv
  BY DEF Core, TypeInv
<1>1. lostBet' = lostBet /\ trusted' = trusted
  BY DEF AppendRecord, history
<1>2. ~lostBet /\ Fits => Fits'
  BY <1>0 DEF AppendRecord, Fits, Resumable, Recorded, FileTypes, CallInv, medium
<1>3. ~lostBet /\ ~trusted /\ Fits /\ Firm /\ (holder # None => Clean) => Firm'
  BY <1>0 DEF AppendRecord, Firm, Settled, Recorded, Clean, FileTypes, CallTypes, CallInv, medium
<1>4. ~trusted /\ (holder # None => Clean) /\ holder' # None => Clean'
  BY <1>0 DEF AppendRecord, Clean, CallTypes, CallInv, medium
<1> QED BY <1>1, <1>2, <1>3, <1>4, LoadKept

LEMMA LoadSyncRecord ==
    ASSUME Core, LoadInv, SyncRecord PROVE LoadInv'
<1>0. FileTypes /\ CallTypes /\ CallInv
  BY DEF Core, TypeInv
<1>1. lostBet' = lostBet /\ trusted' = trusted
  BY DEF SyncRecord, history
<1>2. ~lostBet /\ Fits => Fits'
  BY <1>0 DEF SyncRecord, Fits, Resumable, Recorded, FileTypes, CallInv, files
<1>3. ~lostBet /\ ~trusted /\ Fits /\ Firm /\ (holder # None => Clean) => Firm'
  <2> SUFFICES ASSUME Firm PROVE Firm'
    OBVIOUS
  <2>1. UNCHANGED <<log, tail, snap, intent, media>> /\ synced' = Len(log) /\ synced <= Len(log)
    BY <1>0 DEF SyncRecord, files, FileTypes
  <2>2. /\ snap \in Nat /\ media.snap \in Nat /\ synced \in Nat /\ Len(log) \in Nat
        /\ \A i \in {intent, media.intent} : i # None => i.prefix \in Nat
    BY <1>0, LossRecordType DEF FileTypes
  <2>3. snap <= Len(log) /\ media.snap <= Len(log)
    BY <2>1, <2>2 DEF Firm
  <2>4. Settled(intent)' /\ Settled(media.intent)'
    BY <2>1, <2>2 DEF Firm, Settled, Recorded
  <2> QED BY <2>1, <2>3, <2>4 DEF Firm
<1>4. ~trusted /\ (holder # None => Clean) /\ holder' # None => Clean'
  BY <1>0 DEF SyncRecord, Clean, CallTypes, CallInv, files
<1> QED BY <1>1, <1>2, <1>3, <1>4, LoadKept

LEMMA LoadWriteSnapshot ==
    ASSUME Core, LoadInv, WriteSnapshot PROVE LoadInv'
<1>0. FileTypes /\ CallTypes /\ CallInv
  BY DEF Core, TypeInv
<1>1. lostBet' = lostBet /\ trusted' = trusted
  BY DEF WriteSnapshot, history
<1>2. ~lostBet /\ Fits => Fits'
  BY <1>0 DEF WriteSnapshot, Fits, Resumable, Recorded, FileTypes, CallInv, medium
<1>3. ~lostBet /\ ~trusted /\ Fits /\ Firm /\ (holder # None => Clean) => Firm'
  BY <1>0 DEF WriteSnapshot, Firm, Settled, Recorded, Clean, FileTypes, CallTypes, CallInv, medium
<1>4. ~trusted /\ (holder # None => Clean) /\ holder' # None => Clean'
  BY <1>0 DEF WriteSnapshot, Clean, CallTypes, CallInv, medium
<1> QED BY <1>1, <1>2, <1>3, <1>4, LoadKept

LEMMA LoadSyncSnapshot ==
    ASSUME Core, LoadInv, SyncSnapshot PROVE LoadInv'
<1>0. FileTypes /\ CallTypes /\ CallInv
  BY DEF Core, TypeInv
<1>1. lostBet' = lostBet /\ trusted' = trusted
  BY DEF SyncSnapshot, history
<1>2. ~lostBet /\ Fits => Fits'
  BY <1>0 DEF SyncSnapshot, Fits, Resumable, Recorded, FileTypes, CallInv, SyncRoot, files
<1>3. ~lostBet /\ ~trusted /\ Fits /\ Firm /\ (holder # None => Clean) => Firm'
  BY <1>0 DEF SyncSnapshot, Firm, Settled, Recorded, Clean, FileTypes, CallTypes, CallInv, SyncRoot, files
<1>4. ~trusted /\ (holder # None => Clean) /\ holder' # None => Clean'
  BY <1>0 DEF SyncSnapshot, Clean, CallTypes, CallInv, SyncRoot, files
<1> QED BY <1>1, <1>2, <1>3, <1>4, LoadKept

LEMMA LoadKeepSnapshot ==
    ASSUME Core, LoadInv, KeepSnapshot PROVE LoadInv'
<1>0. FileTypes /\ CallTypes /\ CallInv
  BY DEF Core, TypeInv
<1>1. lostBet' = lostBet /\ trusted' = trusted
  BY DEF KeepSnapshot, history
<1>2. ~lostBet /\ Fits => Fits'
  BY <1>0 DEF KeepSnapshot, Fits, Resumable, Recorded, FileTypes, CallInv, files, medium
<1>3. ~lostBet /\ ~trusted /\ Fits /\ Firm /\ (holder # None => Clean) => Firm'
  BY <1>0 DEF KeepSnapshot, Firm, Settled, Recorded, Clean, FileTypes, CallTypes, CallInv, files, medium
<1>4. ~trusted /\ (holder # None => Clean) /\ holder' # None => Clean'
  BY <1>0 DEF KeepSnapshot, Clean, CallTypes, CallInv, files, medium
<1> QED BY <1>1, <1>2, <1>3, <1>4, LoadKept

LEMMA LoadRemoveIntent ==
    ASSUME Core, LoadInv, RemoveIntent PROVE LoadInv'
<1>0. FileTypes /\ CallTypes /\ CallInv
  BY DEF Core, TypeInv
<1>1. lostBet' = lostBet /\ trusted' = trusted
  BY DEF RemoveIntent, history
<1>2. ~lostBet /\ Fits => Fits'
  BY <1>0 DEF RemoveIntent, Fits, Resumable, Recorded, FileTypes, CallInv, medium
<1>3. ~lostBet /\ ~trusted /\ Fits /\ Firm /\ (holder # None => Clean) => Firm'
  BY <1>0 DEF RemoveIntent, Firm, Settled, Recorded, Clean, FileTypes, CallTypes, CallInv, medium
<1>4. ~trusted /\ (holder # None => Clean) /\ holder' # None => Clean'
  BY <1>0 DEF RemoveIntent, Clean, CallTypes, CallInv, medium
<1> QED BY <1>1, <1>2, <1>3, <1>4, LoadKept

LEMMA LoadSyncRemoval ==
    ASSUME Core, LoadInv, SyncRemoval PROVE LoadInv'
<1>0. FileTypes /\ CallTypes /\ CallInv
  BY DEF Core, TypeInv
<1>1. lostBet' = lostBet /\ trusted' = trusted
  BY DEF SyncRemoval, history
<1>2. ~lostBet /\ Fits => Fits'
  BY <1>0 DEF SyncRemoval, Fits, Resumable, Recorded, FileTypes, CallInv, SyncRoot, files
<1>3. ~lostBet /\ ~trusted /\ Fits /\ Firm /\ (holder # None => Clean) => Firm'
  BY <1>0 DEF SyncRemoval, Firm, Settled, Recorded, Clean, FileTypes, CallTypes, CallInv, SyncRoot, files
<1>4. ~trusted /\ (holder # None => Clean) /\ holder' # None => Clean'
  BY <1>0 DEF SyncRemoval, Clean, CallTypes, CallInv, SyncRoot, files
<1> QED BY <1>1, <1>2, <1>3, <1>4, LoadKept

LEMMA LoadEndLoad ==
    ASSUME Core, LoadInv, EndLoad PROVE LoadInv'
<1>0. FileTypes /\ CallTypes /\ CallInv
  BY DEF Core, TypeInv
<1>1. lostBet' = lostBet /\ trusted' = trusted
  BY DEF EndLoad, history
<1>2. ~lostBet /\ Fits => Fits'
  BY <1>0 DEF EndLoad, Fits, Resumable, Recorded, FileTypes, CallInv, files, medium
<1>3. ~lostBet /\ ~trusted /\ Fits /\ Firm /\ (holder # None => Clean) => Firm'
  BY <1>0 DEF EndLoad, Firm, Settled, Recorded, Clean, FileTypes, CallTypes, CallInv, files, medium
<1>4. ~trusted /\ (holder # None => Clean) /\ holder' # None => Clean'
  BY <1>0 DEF EndLoad, Clean, CallTypes, CallInv, files, medium, Release
<1> QED BY <1>1, <1>2, <1>3, <1>4, LoadKept

LEMMA LoadAnswerWithoutWriting ==
    ASSUME Core, LoadInv, AnswerWithoutWriting PROVE LoadInv'
<1>0. FileTypes /\ CallTypes /\ CallInv
  BY DEF Core, TypeInv
<1>1. lostBet' = lostBet /\ trusted' = trusted
  BY DEF AnswerWithoutWriting, history
<1>2. ~lostBet /\ Fits => Fits'
  BY <1>0 DEF AnswerWithoutWriting, Fits, Resumable, Recorded, FileTypes, CallInv, files, medium
<1>3. ~lostBet /\ ~trusted /\ Fits /\ Firm /\ (holder # None => Clean) => Firm'
  BY <1>0 DEF AnswerWithoutWriting, Firm, Settled, Recorded, Clean, FileTypes, CallTypes, CallInv, files, medium
<1>4. ~trusted /\ (holder # None => Clean) /\ holder' # None => Clean'
  BY <1>0 DEF AnswerWithoutWriting, Clean, CallTypes, CallInv, files, medium, Release
<1> QED BY <1>1, <1>2, <1>3, <1>4, LoadKept

LEMMA LoadAppendTransition ==
    ASSUME Core, LoadInv, AppendTransition PROVE LoadInv'
<1>0. FileTypes /\ CallTypes /\ CallInv
  BY DEF Core, TypeInv
<1>1. lostBet' = lostBet /\ trusted' = trusted
  BY DEF AppendTransition, history
<1>2. ~lostBet /\ Fits => Fits'
  BY <1>0 DEF AppendTransition, Fits, Resumable, Recorded, FileTypes, CallInv, medium
<1>3. ~lostBet /\ ~trusted /\ Fits /\ Firm /\ (holder # None => Clean) => Firm'
  BY <1>0 DEF AppendTransition, Firm, Settled, Recorded, Clean, FileTypes, CallTypes, CallInv, medium
<1>4. ~trusted /\ (holder # None => Clean) /\ holder' # None => Clean'
  BY <1>0 DEF AppendTransition, Clean, CallTypes, CallInv, medium
<1> QED BY <1>1, <1>2, <1>3, <1>4, LoadKept

LEMMA LoadSyncTransition ==
    ASSUME Core, LoadInv, SyncTransition PROVE LoadInv'
<1>0. FileTypes /\ CallTypes /\ CallInv
  BY DEF Core, TypeInv
<1>1. lostBet' = lostBet /\ trusted' = trusted
  BY DEF SyncTransition, history
<1>2. ~lostBet /\ Fits => Fits'
  BY <1>0 DEF SyncTransition, Fits, Resumable, Recorded, FileTypes, CallInv, files
<1>3. ~lostBet /\ ~trusted /\ Fits /\ Firm /\ (holder # None => Clean) => Firm'
  BY <1>0 DEF SyncTransition, Firm, Settled, Recorded, Clean, FileTypes, CallTypes, CallInv, files
<1>4. ~trusted /\ (holder # None => Clean) /\ holder' # None => Clean'
  BY <1>0 DEF SyncTransition, Clean, CallTypes, CallInv, files
<1> QED BY <1>1, <1>2, <1>3, <1>4, LoadKept

LEMMA LoadReplaceSnapshot ==
    ASSUME Core, LoadInv, ReplaceSnapshot PROVE LoadInv'
<1>0. FileTypes /\ CallTypes /\ CallInv
  BY DEF Core, TypeInv
<1>1. lostBet' = lostBet /\ trusted' = trusted
  BY DEF ReplaceSnapshot, history
<1>2. ~lostBet /\ Fits => Fits'
  BY <1>0 DEF ReplaceSnapshot, Fits, Resumable, Recorded, FileTypes, CallInv, medium
<1>3. ~lostBet /\ ~trusted /\ Fits /\ Firm /\ (holder # None => Clean) => Firm'
  BY <1>0 DEF ReplaceSnapshot, Firm, Settled, Recorded, Clean, FileTypes, CallTypes, CallInv, medium
<1>4. ~trusted /\ (holder # None => Clean) /\ holder' # None => Clean'
  BY <1>0 DEF ReplaceSnapshot, Clean, CallTypes, CallInv, medium
<1> QED BY <1>1, <1>2, <1>3, <1>4, LoadKept

LEMMA LoadCommit ==
    ASSUME Core, LoadInv, Commit PROVE LoadInv'
<1>0. FileTypes /\ CallTypes /\ CallInv
  BY DEF Core, TypeInv
<1>1. lostBet' = lostBet /\ trusted' = trusted
  BY DEF Commit
<1>2. ~lostBet /\ Fits => Fits'
  BY <1>0 DEF Commit, Fits, Resumable, Recorded, FileTypes, CallInv, SyncRoot, files
<1>3. ~lostBet /\ ~trusted /\ Fits /\ Firm /\ (holder # None => Clean) => Firm'
  BY <1>0 DEF Commit, Firm, Settled, Recorded, Clean, FileTypes, CallTypes, CallInv, SyncRoot, files
<1>4. ~trusted /\ (holder # None => Clean) /\ holder' # None => Clean'
  BY <1>0 DEF Commit, Clean, CallTypes, CallInv, SyncRoot, files, Release
<1> QED BY <1>1, <1>2, <1>3, <1>4, LoadKept

LEMMA LoadReader ==
    ASSUME Core, LoadInv, UNCHANGED <<files, medium, call, history>>
    PROVE  LoadInv'
<1>1. lostBet' = lostBet /\ trusted' = trusted
  BY DEF history
<1>2. Fits => Fits'
  BY DEF Fits, Resumable, Recorded, files, medium
<1>3. Firm => Firm'
  BY DEF Firm, Settled, Recorded, files, medium
<1>4. Clean /\ holder' = holder => Clean'
  BY DEF Clean, files, medium, call
<1>5. holder' = holder
  BY DEF call
<1> QED BY <1>1, <1>2, <1>3, <1>4, <1>5, LoadKept

\* A load that finds everything on the medium has nothing to lose.
LEMMA LoadBegin ==
    ASSUME Core, LoadInv, NEW p \in Procs, NEW q, Begin(p, q)
    PROVE  LoadInv'
<1>0. FileTypes
  BY DEF Core, TypeInv
<1>1. UNCHANGED <<log, tail, snap, intent, synced, media, lostBet>> /\ pc' = "load"
  BY DEF Begin, files, medium
<1>2. trusted' <=> ~Synced
  BY DEF Begin
<1>3. Fits => Fits'
  BY <1>1 DEF Fits, Resumable, Recorded
<1>4. Fits /\ Synced => Firm'
  <2> SUFFICES ASSUME Fits, Synced PROVE Firm'
    OBVIOUS
  <2>1. /\ synced = Len(log) /\ tail = None /\ media.snap = snap /\ media.intent = intent
        /\ Len(log) \in Nat
    BY <1>0 DEF Synced, FileTypes
  <2>2. intent # None => intent.prefix \in Nat
    BY <1>0, LossRecordType DEF FileTypes
  <2>3. Settled(intent)
    BY <2>1, <2>2 DEF Fits, Resumable, Recorded, Settled
  <2> QED BY <1>1, <2>1, <2>3 DEF Fits, Firm, Settled, Recorded
<1>5. Synced => Clean'
  BY <1>1 DEF Synced, Clean
<1>6. ~lostBet' => Fits'
  BY <1>1, <1>3 DEF LoadInv
<1>7. ~lostBet' /\ ~trusted' => Firm'
  BY <1>1, <1>2, <1>4 DEF LoadInv
<1> QED BY <1>2, <1>5, <1>6, <1>7 DEF LoadInv

\* A stop, with or without part of a line.
LEMMA LoadStopped ==
    ASSUME Core, LoadInv, Cut, holder # None, Release, UNCHANGED <<log, snap, intent, synced, media>>,
           lostBet' = lostBet, trusted' = trusted
    PROVE  LoadInv'
<1>0. FileTypes /\ CallInv
  BY DEF Core, TypeInv
<1>1. \/ tail' = tail
      \/ pc = "ready" /\ tail' # None /\ tail'.line = [of |-> req, loss |-> 0]
      \/ pc = "record" /\ tail' # None /\ tail'.line = LossRecord(intent)
  <2>1. CASE tail' = tail
    BY <2>1
  <2>2. ASSUME NEW l \in Line, Torn(l) PROVE tail' # None /\ tail'.line = l
    <3>1. tail' = [line |-> l, len |-> 2]
      BY <2>2 DEF Torn
    <3>2. [line |-> l, len |-> 2] \in Torso
      BY TornType
    <3> QED BY <3>1, <3>2, NoneIsApart
  <2>3. CASE pc = "ready" /\ Torn([of |-> req, loss |-> 0])
    <3>1. req \in Requests
      BY <2>3 DEF Core, TypeInv, CallTypes, CallInv
    <3>2. [of |-> req, loss |-> 0] \in Line
      BY <3>1 DEF Line
    <3> QED BY <2>2, <2>3, <3>2
  <2>4. CASE pc = "record" /\ Torn(LossRecord(intent))
    <3>1. intent \in Intent
      BY <2>4 DEF Core, TypeInv, FileTypes, CallInv
    <3> QED BY <2>2, <2>4, <3>1, LossRecordType
  <2> QED BY <2>1, <2>3, <2>4 DEF Cut
<1>2. CASE tail' = tail
  <2>1. Fits => Fits'
    BY <1>2 DEF Fits, Resumable, Recorded
  <2>2. Firm => Firm'
    BY <1>2 DEF Firm, Settled, Recorded
  <2> QED BY <2>1, <2>2, LoadKept DEF Release
<1>3. CASE pc = "ready" /\ tail' # None
  <2>1. intent = None
    BY <1>0, <1>3 DEF CallInv
  <2>2. Fits => Fits'
    BY <2>1 DEF Fits
  <2>3. Firm /\ Clean => Firm'
    BY <1>3, <2>1 DEF Firm, Clean, Settled
  <2> QED BY <2>2, <2>3, LoadKept DEF Release
<1>4. CASE pc = "record" /\ tail' # None /\ tail'.line = LossRecord(intent)
  <2>1. Len(log) = intent.prefix /\ intent # None
    BY <1>0, <1>4 DEF CallInv
  <2>2. LossRecord(intent)' = LossRecord(intent)
    BY DEF LossRecord
  <2>3. Fits => Fits'
    BY <1>4, <2>1, <2>2 DEF Fits, Resumable
  <2>4. Firm /\ Clean => Firm'
    <3> SUFFICES ASSUME Firm, Clean PROVE Firm'
      OBVIOUS
    <3>1. media.intent = intent /\ intent.prefix <= synced
      BY <1>4, <2>1 DEF Clean, Firm, Settled
    <3>2. Settled(intent)'
      BY <1>4, <2>1, <2>2, <3>1 DEF Settled
    <3>3. media'.intent = intent'
      BY <3>1
    <3>4. Settled(media.intent)'
      BY <3>2, <3>3 DEF Settled, Recorded
    <3> QED BY <3>2, <3>4 DEF Firm
  <2> QED BY <2>3, <2>4, LoadKept DEF Release
<1> QED BY <1>1, <1>2, <1>3, <1>4

\* Power is lost while nothing unsynced had been trusted.
LEMMA SettledCut ==
    ASSUME FileTypes, NEW n, PowerCut(n), NEW i \in Intent \cup {None}, Settled(i)
    PROVE  i # None => /\ i.prefix <= n
                       /\ \/ Len(log') = i.prefix + 1 /\ log'[Len(log')] = LossRecord(i) /\ tail' = None
                          \/ Len(log') = i.prefix /\ (tail' # None => tail'.line = LossRecord(i))
<1> SUFFICES ASSUME i # None
             PROVE  /\ i.prefix <= n
                    /\ \/ Len(log') = i.prefix + 1 /\ log'[Len(log')] = LossRecord(i) /\ tail' = None
                       \/ Len(log') = i.prefix /\ (tail' # None => tail'.line = LossRecord(i))
  OBVIOUS
<1>1. /\ n \in Nat /\ n <= Len(log) /\ synced <= n /\ Len(log') = n
      /\ \A j \in 1 .. n : log'[j] = log[j]
      /\ tail' # None => \/ n < Len(log) /\ tail'.line = log[n + 1]
                         \/ n = Len(log) /\ tail # None /\ tail'.line = tail.line
  BY PowerCutFiles
<1>2. i.prefix \in Nat /\ synced \in Nat /\ Len(log) \in Nat /\ i.prefix <= synced
  BY LossRecordType DEF FileTypes, Settled
<1>3. i.prefix <= n
  BY <1>1, <1>2
<1>4. CASE Recorded(i)
  <2>1. Len(log) = i.prefix + 1 /\ log[i.prefix + 1] = LossRecord(i) /\ tail = None
    BY <1>4 DEF Recorded
  <2>2. CASE n = Len(log)
    BY <1>1, <1>2, <1>3, <2>1, <2>2
  <2>3. CASE n # Len(log)
    <3>1. n = i.prefix
      BY <1>1, <1>2, <1>3, <2>1, <2>3
    <3> QED BY <1>1, <1>2, <1>3, <2>1, <3>1
  <2> QED BY <2>2, <2>3
<1>5. CASE Len(log) = i.prefix /\ (tail # None => tail.line = LossRecord(i))
  <2>1. n = Len(log)
    BY <1>1, <1>2, <1>3, <1>5
  <2> QED BY <1>1, <1>2, <1>3, <1>5, <2>1
<1> QED BY <1>4, <1>5 DEF Settled

LEMMA LoadLosePower == ASSUME Core, LoadInv, LosePower PROVE LoadInv'
<1>0. FileTypes
  BY DEF Core, TypeInv
<1>1. holder' = None /\ (lostBet' <=> (lostBet \/ trusted)) /\ trusted' = FALSE
  BY DEF LosePower, Release
<1>2. PICK n : PowerCut(n)
  BY DEF LosePower, PowerCut
<1>3. ASSUME Firm PROVE Fits' /\ Firm'
  <2>1. n \in Nat /\ Len(log') = n /\ synced' = n /\ synced <= n /\ synced \in Nat
    BY <1>0, <1>2, PowerCutFiles DEF PowerCut, FileTypes
  <2>2. snap' <= n /\ snap' \in Nat
    BY <1>0, <1>3, <2>1 DEF Firm, FileTypes, LosePower
  <2>3. PICK i \in {intent, media.intent} : intent' = i
    BY DEF LosePower
  <2>4. media'.snap = snap' /\ media'.intent = i
    BY <2>3 DEF LosePower
  <2>5. i \in Intent \cup {None} /\ Settled(i)
    BY <1>0, <1>3, <2>3 DEF Firm, FileTypes
  <2>6. i # None => /\ i.prefix <= n
                    /\ \/ Len(log') = i.prefix + 1 /\ log'[Len(log')] = LossRecord(i) /\ tail' = None
                       \/ Len(log') = i.prefix /\ (tail' # None => tail'.line = LossRecord(i))
    BY <1>0, <1>2, <2>5, SettledCut
  <2>7. LossRecord(i) = LossRecord(intent)' /\ LossRecord(i) = LossRecord(media.intent)'
    BY <2>3, <2>4 DEF LossRecord
  <2>8. Settled(intent)' /\ Settled(media.intent)'
    BY <2>1, <2>3, <2>4, <2>6, <2>7 DEF Settled, Recorded
  <2>9. (intent # None => Resumable(intent))'
    BY <2>1, <2>3, <2>6, <2>7 DEF Resumable, Recorded
  <2> QED BY <2>1, <2>2, <2>4, <2>8, <2>9 DEF Fits, Firm
<1> QED BY <1>1, <1>3 DEF LoadInv

LEMMA LoadInit == Init => LoadInv
BY DEF Init, LoadInv, Fits, Firm, Settled

LEMMA LoadNext == ASSUME Core, LoadInv, [Next]_vars PROVE LoadInv'
<1>1. CASE UNCHANGED vars
  BY <1>1, LoadReader DEF vars, files, medium, call, history
<1>2. CASE Step
  BY <1>2, LoadLoadRefused, LoadLoad, LoadWriteIntent, LoadSyncIntent, LoadTruncate,
     LoadAppendRecord, LoadSyncRecord, LoadWriteSnapshot, LoadSyncSnapshot, LoadKeepSnapshot,
     LoadRemoveIntent, LoadSyncRemoval, LoadEndLoad, LoadAnswerWithoutWriting,
     LoadAppendTransition, LoadSyncTransition, LoadReplaceSnapshot, LoadCommit DEF Step
<1>3. ASSUME NEW p \in Procs, NEW q \in Requests \cup {None}, Begin(p, q) PROVE LoadInv'
  BY <1>3, LoadBegin
<1>4. ASSUME NEW p \in Procs, ReadRefused(p) \/ PageEvents(p) PROVE LoadInv'
  BY <1>4, LoadReader DEF ReadRefused, PageEvents
<1>5. ASSUME NEW p \in Watchers, NEW start \in 0 .. Len(log), NEW t \in Filters, Subscribe(p, start, t)
      PROVE  LoadInv'
  BY <1>5, LoadReader DEF Subscribe
<1>6. ASSUME NEW p \in Watchers, Receive(p) \/ Unsubscribe(p) PROVE LoadInv'
  BY <1>6, LoadReader DEF Receive, Unsubscribe
<1>7. CASE Fail \/ Die
  <2>1. /\ Cut /\ holder # None /\ Release /\ UNCHANGED <<log, snap, intent, synced, media>>
        /\ lostBet' = lostBet /\ trusted' = trusted
    BY <1>7 DEF Fail, Die, medium
  <2> QED BY <2>1, LoadStopped
<1>8. CASE LosePower
  BY <1>8, LoadLosePower
<1> QED BY <1>1, <1>2, <1>3, <1>4, <1>5, <1>6, <1>7, <1>8 DEF Next

\* Wherever a process stops, and wherever a power failure cuts what was not
\* synced, the next load accepts the files, unless power was lost after a load
\* that took unsynced files for durable (load_locked_recovering).
THEOREM AlwaysLoadable == Spec => []Loadable
<1>1. Init => Core /\ JournalInv /\ LoadInv
  BY CoreInit, JournalInit, LoadInit
<1>2. Core /\ JournalInv /\ LoadInv /\ [Next]_vars => (Core /\ JournalInv /\ LoadInv)'
  BY CoreNext, StoreNext, KeptNext, LoadNext DEF JournalInv
<1>3. JournalInv /\ LoadInv => Loadable
  BY DEF JournalInv, LoadInv, Fits, Loadable, Accepts
<1> QED BY <1>1, <1>2, <1>3, PTL DEF Spec

-----------------------------------------------------------------------------
(* Losses: every torn append is recorded once.                              *)

\* The positions of the recovery records of h.
RecordsOf(h) == {n \in 1 .. Len(h) : h[n].loss > 0}

\* A torn append whose recovery is not finished.
Waiting == \/ tail # None /\ tail.line.loss = 0
           \/ intent # None /\ ~Recorded(intent)

\* What is torn before an intent is written is a transition; and the count.
LossInv ==
    powerLosses = 0 => /\ tail # None /\ intent = None => tail.line.loss = 0
                       /\ losses = Cardinality(RecordsOf(log)) + (IF Waiting THEN 1 ELSE 0)

LEMMA RecordsFinite ==
    ASSUME NEW h \in Seq(Line)
    PROVE  IsFiniteSet(RecordsOf(h)) /\ Cardinality(RecordsOf(h)) \in Nat
<1>1. Len(h) \in Nat /\ RecordsOf(h) \subseteq 1 .. Len(h)
  BY DEF RecordsOf
<1>2. IsFiniteSet(1 .. Len(h))
  BY <1>1, FS_Interval
<1>3. IsFiniteSet(RecordsOf(h))
  BY <1>1, <1>2, FS_Subset
<1> QED BY <1>3, FS_CardinalityType

\* A recovery record adds one, a transition none.
LEMMA RecordsAppend ==
    ASSUME NEW h \in Seq(Line), NEW l \in Line
    PROVE  Cardinality(RecordsOf(Append(h, l))) =
              Cardinality(RecordsOf(h)) + (IF l.loss > 0 THEN 1 ELSE 0)
<1> DEFINE k == Append(h, l)
           n == Len(h)
<1>1. /\ n \in Nat /\ Len(k) = n + 1 /\ k[n + 1] = l /\ \A i \in 1 .. n : k[i] = h[i]
  OBVIOUS
<1>2. 1 .. n + 1 = (1 .. n) \cup {n + 1} /\ n + 1 \notin 1 .. n
  BY <1>1
<1> HIDE DEF k
<1>3. CASE l.loss > 0
  <2>1. RecordsOf(k) = RecordsOf(h) \cup {n + 1} /\ n + 1 \notin RecordsOf(h)
    BY <1>1, <1>2, <1>3 DEF RecordsOf
  <2>2. Cardinality(RecordsOf(k)) = Cardinality(RecordsOf(h)) + 1
    BY <2>1, RecordsFinite, FS_AddElement
  <2> QED BY <1>3, <2>2 DEF k
<1>4. CASE ~(l.loss > 0)
  <2>1. RecordsOf(k) = RecordsOf(h)
    BY <1>1, <1>2, <1>4 DEF RecordsOf
  <2>2. Cardinality(RecordsOf(h)) \in Nat
    BY RecordsFinite
  <2> QED BY <1>4, <2>1, <2>2 DEF k
<1> QED BY <1>3, <1>4

\* The steps that touch the tail, the intent or the count.
LEMMA LossMoves ==
    ASSUME Core, [Next]_vars
    PROVE  \/ UNCHANGED <<log, tail, intent, losses, powerLosses>>
           \/ WriteIntent \/ Truncate \/ AppendRecord \/ RemoveIntent \/ AppendTransition
           \/ Cut /\ UNCHANGED <<log, intent, powerLosses>>
           \/ powerLosses' # 0
<1> DEFINE Same == UNCHANGED <<log, tail, intent, losses, powerLosses>>
<1>1. CASE UNCHANGED vars
  BY <1>1 DEF vars
<1>2. CASE LoadRefused \/ Load \/ KeepSnapshot \/ EndLoad \/ AnswerWithoutWriting
  BY <1>2 DEF LoadRefused, Load, KeepSnapshot, EndLoad, AnswerWithoutWriting, files, history
<1>3. CASE WriteSnapshot \/ ReplaceSnapshot \/ SyncRecord \/ SyncTransition
  BY <1>3 DEF WriteSnapshot, ReplaceSnapshot, SyncRecord, SyncTransition, files, history
<1>4. CASE SyncIntent \/ SyncSnapshot \/ SyncRemoval \/ Commit
  BY <1>4 DEF SyncIntent, SyncSnapshot, SyncRemoval, Commit, files, history
<1>5. ASSUME NEW p \in Procs, NEW q \in Requests \cup {None}, Begin(p, q) PROVE Same
  BY <1>5 DEF Begin, files
<1>6. ASSUME NEW p \in Procs, ReadRefused(p) \/ PageEvents(p) PROVE Same
  BY <1>6 DEF ReadRefused, PageEvents, files, history
<1>7. ASSUME NEW p \in Watchers, NEW start \in 0 .. Len(log), NEW t \in Filters, Subscribe(p, start, t)
      PROVE  Same
  BY <1>7 DEF Subscribe, files, history
<1>8. ASSUME NEW p \in Watchers, Receive(p) \/ Unsubscribe(p) PROVE Same
  BY <1>8 DEF Receive, Unsubscribe, files, history
<1>9. CASE Fail \/ Die
  BY <1>9 DEF Fail, Die
<1>10. CASE LosePower
  <2>1. powerLosses \in Nat /\ powerLosses' = powerLosses + 1
    BY <1>10 DEF LosePower, Core, TypeInv, HistoryTypes
  <2> QED BY <2>1
<1> HIDE DEF Same
<1>11. CASE Next
  BY <1>2, <1>3, <1>4, <1>5, <1>6, <1>7, <1>8, <1>9, <1>10, <1>11 DEF Next, Step, Same
<1> QED BY <1>1, <1>11

LEMMA LossNext ==
    ASSUME Core, LossInv, [Next]_vars
    PROVE  LossInv'
<1>0. FileTypes /\ CallInv /\ log \in Seq(Line) /\ Len(log) \in Nat /\ losses \in Nat
  BY DEF Core, TypeInv, FileTypes, HistoryTypes
<1>1. Cardinality(RecordsOf(log)) \in Nat
  BY <1>0, RecordsFinite
<1>2. CASE UNCHANGED <<log, tail, intent, losses, powerLosses>>
  BY <1>2 DEF LossInv, Waiting, Recorded, RecordsOf
<1>3. CASE WriteIntent
  <2>1. UNCHANGED <<log, tail, losses, powerLosses>> /\ tail # None /\ intent = None
    BY <1>0, <1>3 DEF WriteIntent, CallInv, history
  <2>2. tail \in Torso /\ intent' = [prefix |-> Len(log), lost |-> tail]
    BY <1>0, <1>3, <2>1 DEF WriteIntent, FileTypes
  <2>3. intent' # None /\ intent'.prefix = Len(log)
    BY <1>0, <2>2, NoneIsApart DEF Intent
  <2>4. Waiting'
    BY <1>0, <2>1, <2>3 DEF Waiting, Recorded
  <2>5. powerLosses = 0 => Waiting
    BY <2>1 DEF LossInv, Waiting
  <2>6. RecordsOf(log)' = RecordsOf(log)
    BY <2>1 DEF RecordsOf
  <2> QED BY <2>1, <2>3, <2>4, <2>5, <2>6 DEF LossInv
<1>4. CASE Truncate
  <2>1. UNCHANGED <<log, intent, losses, powerLosses>> /\ intent # None /\ Len(log) = intent.prefix
    BY <1>0, <1>4 DEF Truncate, CallInv, history
  <2>2. Waiting /\ Waiting'
    BY <1>0, <2>1 DEF Waiting, Recorded
  <2>3. RecordsOf(log)' = RecordsOf(log)
    BY <2>1 DEF RecordsOf
  <2> QED BY <2>1, <2>2, <2>3 DEF LossInv
<1>5. CASE AppendRecord
  <2>1. /\ UNCHANGED <<tail, intent, losses, powerLosses>> /\ intent # None /\ Len(log) = intent.prefix
        /\ tail = None /\ log' = Append(log, LossRecord(intent)) /\ intent \in Intent
    BY <1>0, <1>5 DEF AppendRecord, CallInv, FileTypes, history
  <2>2. LossRecord(intent) \in Line /\ LossRecord(intent).loss > 0
    BY <2>1, LossRecordType
  <2>3. Len(log') = intent.prefix + 1 /\ log'[Len(log')] = LossRecord(intent)
    BY <1>0, <2>1, <2>2
  <2>4. LossRecord(intent)' = LossRecord(intent)
    BY <2>1 DEF LossRecord
  <2>5. Waiting /\ ~Waiting'
    BY <1>0, <2>1, <2>3, <2>4 DEF Waiting, Recorded
  <2>6. Cardinality(RecordsOf(log)') = Cardinality(RecordsOf(log)) + 1
    <3>1. RecordsOf(log)' = RecordsOf(Append(log, LossRecord(intent)))
      BY <2>1 DEF RecordsOf
    <3> QED BY <1>0, <2>2, <3>1, RecordsAppend
  <2> QED BY <1>1, <2>1, <2>5, <2>6 DEF LossInv
<1>6. CASE RemoveIntent
  <2>1. /\ UNCHANGED <<log, tail, losses, powerLosses>> /\ intent' = None
        /\ intent # None /\ Recorded(intent)
    BY <1>0, <1>6 DEF RemoveIntent, CallInv, history
  <2>2. tail = None /\ ~Waiting /\ ~Waiting'
    BY <2>1 DEF Waiting, Recorded
  <2>3. RecordsOf(log)' = RecordsOf(log)
    BY <2>1 DEF RecordsOf
  <2> QED BY <2>1, <2>2, <2>3 DEF LossInv
<1>7. CASE AppendTransition
  <2> DEFINE l == [of |-> req, loss |-> 0]
  <2>1. req \in Requests
    BY <1>7 DEF AppendTransition, Core, TypeInv, CallTypes, CallInv
  <2>2. l \in Line /\ ~(l.loss > 0)
    BY <2>1 DEF Line
  <2>3. /\ UNCHANGED <<tail, intent, losses, powerLosses>> /\ intent = None /\ tail = None
        /\ log' = Append(log, l)
    BY <1>0, <1>7 DEF AppendTransition, CallInv, history
  <2> HIDE DEF l
  <2>4. ~Waiting /\ ~Waiting'
    BY <2>3 DEF Waiting
  <2>5. Cardinality(RecordsOf(log)') = Cardinality(RecordsOf(log))
    <3>1. RecordsOf(log)' = RecordsOf(Append(log, l))
      BY <2>3 DEF RecordsOf
    <3> QED BY <1>0, <1>1, <2>2, <3>1, RecordsAppend
  <2> QED BY <1>1, <2>3, <2>4, <2>5 DEF LossInv
<1>8. CASE Cut /\ UNCHANGED <<log, intent, powerLosses>>
  <2>1. RecordsOf(log)' = RecordsOf(log)
    BY <1>8 DEF RecordsOf
  <2>2. CASE UNCHANGED <<tail, losses>>
    BY <1>2, <1>8, <2>2
  <2>3. CASE pc = "ready" /\ Torn([of |-> req, loss |-> 0])
    <3>1. tail = None /\ intent = None /\ req \in Requests
      BY <2>3 DEF Core, TypeInv, CallTypes, CallInv
    <3>2. [line |-> [of |-> req, loss |-> 0], len |-> 2] \in Torso
      BY <3>1, TornType DEF Line
    <3>3. tail' # None /\ tail'.line.loss = 0 /\ losses' = losses + 1
      BY <2>3, <3>2, NoneIsApart DEF Torn
    <3>4. ~Waiting /\ Waiting'
      BY <3>1, <3>3 DEF Waiting
    <3> QED BY <1>0, <1>1, <1>8, <2>1, <3>3, <3>4 DEF LossInv
  <2>4. CASE pc = "record" /\ Torn(LossRecord(intent))
    <3>1. intent \in Intent /\ intent # None /\ Len(log) = intent.prefix
      BY <2>4 DEF Core, TypeInv, FileTypes, CallInv
    <3>2. LossRecord(intent).loss # 0
      BY <3>1, LossRecordType
    <3>3. losses' = losses
      BY <2>4, <3>2 DEF Torn
    <3>4. Waiting /\ Waiting'
      BY <1>0, <1>8, <3>1 DEF Waiting, Recorded
    <3> QED BY <1>8, <2>1, <3>1, <3>3, <3>4 DEF LossInv
  <2> QED BY <1>8, <2>2, <2>3, <2>4 DEF Cut
<1>9. CASE powerLosses' # 0
  BY <1>9 DEF LossInv
<1> QED BY <1>2, <1>3, <1>4, <1>5, <1>6, <1>7, <1>8, <1>9, LossMoves

LEMMA LossInit == Init => LossInv
<1> SUFFICES ASSUME Init PROVE LossInv
  OBVIOUS
<1>1. RecordsOf(log) = {} /\ ~Waiting
  BY DEF Init, RecordsOf, Waiting
<1>2. Cardinality(RecordsOf(log)) = 0
  BY <1>1, FS_EmptySet
<1> QED BY <1>1, <1>2 DEF Init, LossInv

\* As long as power stays on, every append that left part of a line is
\* recorded exactly once or still waits for its recovery, however often the
\* recovery itself is stopped (recover_journal).
THEOREM TornAppendsAreRecorded == Spec => []LossesAreRecorded
<1>1. Init => Core /\ LossInv
  BY CoreInit, LossInit
<1>2. Core /\ LossInv /\ [Next]_vars => (Core /\ LossInv)'
  BY CoreNext, LossNext
<1>3. LossInv => LossesAreRecorded
  BY DEF LossInv, LossesAreRecorded, Waiting, RecordsOf
<1> QED BY <1>1, <1>2, <1>3, PTL DEF Spec

-----------------------------------------------------------------------------
(* Subscribers: no gap between what was sent and what the process has seen. *)

\* The last position handed to the subscription, and what it is owed of h.
LastOf(w) == IF w.queue = <<>> THEN w.cursor ELSE w.queue[Len(w.queue)]
Owed(h, w) == {n \in w.cursor + 1 .. Len(h) : Deliverable(h[n], w.task)}

\* The subscription w has its lines of h in order and without a gap; if it has
\* not been told to start again, it has all of them up to position seen.
Gapless(h, w, seen) ==
    /\ \A i, j \in 1 .. Len(w.queue) : i < j => w.queue[i] < w.queue[j]
    /\ {w.queue[i] : i \in 1 .. Len(w.queue)} = {n \in Owed(h, w) : n <= LastOf(w)}
    /\ ~w.resync => \A n \in Owed(h, w) : n <= seen => n <= LastOf(w)
    /\ w.cursor <= seen /\ \A i \in 1 .. Len(w.queue) : w.queue[i] <= seen

WatchInv ==
    \A p \in Procs : /\ observed[p] <= Len(log)
                     /\ watch[p].on => Gapless(log, watch[p], observed[p])

\* A transition starts from what its process has seen, and adds one line.
HubInv ==
    /\ pc = "ready" => observed[holder] = Len(log)
    /\ pc \in {"sync", "replace", "replaceSync"} => observed[holder] + 1 = Len(log)

LEMMA WatchFields ==
    ASSUME NEW w \in Watch
    PROVE  /\ w.cursor \in Nat /\ w.queue \in Seq(Nat) /\ Len(w.queue) \in Nat
           /\ \A i \in 1 .. Len(w.queue) : w.queue[i] \in Nat
<1>1. w.cursor \in Nat /\ w.queue \in Seq(Nat)
  BY DEF Watch
<1> QED BY <1>1

LEMMA LastWasSeen ==
    ASSUME NEW w \in Watch, NEW h, NEW seen \in Nat, Gapless(h, w, seen)
    PROVE  LastOf(w) \in Nat /\ LastOf(w) <= seen
<1>1. CASE w.queue = <<>>
  BY <1>1, WatchFields DEF LastOf, Gapless
<1>2. CASE w.queue # <<>>
  <2>1. Len(w.queue) \in 1 .. Len(w.queue)
    BY <1>2, WatchFields
  <2> QED BY <1>2, <2>1, WatchFields DEF LastOf, Gapless
<1> QED BY <1>1, <1>2

\* A longer journal changes nothing up to what was seen.
LEMMA GaplessAppend ==
    ASSUME NEW h \in Seq(Line), NEW l \in Line, NEW w \in Watch, NEW seen \in Nat, seen <= Len(h),
           Gapless(h, w, seen)
    PROVE  Gapless(Append(h, l), w, seen)
<1> DEFINE k == Append(h, l)
           N == Len(h)
<1>1. N \in Nat /\ Len(k) = N + 1 /\ \A i \in 1 .. N : k[i] = h[i]
  OBVIOUS
<1>2. w.cursor \in Nat /\ LastOf(w) \in Nat /\ LastOf(w) <= seen
  BY WatchFields, LastWasSeen
<1> HIDE DEF k
<1>3. ASSUME NEW n \in Nat, n <= seen PROVE n \in Owed(k, w) <=> n \in Owed(h, w)
  BY <1>1, <1>2, <1>3 DEF Owed
<1>4. Owed(k, w) \subseteq Nat /\ Owed(h, w) \subseteq Nat
  BY <1>1, <1>2 DEF Owed
<1>5. {n \in Owed(k, w) : n <= LastOf(w)} = {n \in Owed(h, w) : n <= LastOf(w)}
  <2>1. \A n \in Nat : n <= LastOf(w) => n <= seen
    BY <1>2
  <2> QED BY <1>3, <1>4, <2>1
<1>6. ~w.resync => \A n \in Owed(k, w) : n <= seen => n <= LastOf(w)
  BY <1>3, <1>4 DEF Gapless
<1> QED BY <1>5, <1>6 DEF Gapless, k

\* A subscription told to start again owes nothing beyond its queue.
LEMMA GaplessMarked ==
    ASSUME NEW h, NEW w \in Watch, NEW seen \in Nat, NEW now \in Nat, seen <= now,
           Gapless(h, w, seen)
    PROVE  Gapless(h, [w EXCEPT !.resync = TRUE], now)
<1> DEFINE v == [w EXCEPT !.resync = TRUE]
<1>1. v.cursor = w.cursor /\ v.queue = w.queue /\ v.task = w.task /\ v.resync = TRUE
  BY DEF Watch
<1> HIDE DEF v
<1>2. LastOf(v) = LastOf(w) /\ Owed(h, v) = Owed(h, w)
  BY <1>1 DEF LastOf, Owed
<1>3. w.cursor <= now /\ \A i \in 1 .. Len(w.queue) : w.queue[i] <= now
  BY WatchFields DEF Gapless
<1>4. Gapless(h, v, now)
  BY <1>1, <1>2, <1>3 DEF Gapless
<1> QED BY <1>4 DEF v

\* WatchHub::broadcast of the line after what was seen.
LEMMA GaplessBroadcast ==
    ASSUME FileTypes, NEW w \in Watch, w.on, NEW seen \in Nat, seen + 1 = Len(log),
           Gapless(log, w, seen)
    PROVE  Gapless(log, Broadcast(w, Len(log)), Len(log))
<1> DEFINE n == Len(log)
<1>0. n \in Nat /\ n = seen + 1 /\ n \in 1 .. n
  BY DEF FileTypes
<1>1. /\ w.cursor \in Nat /\ w.queue \in Seq(Nat) /\ Len(w.queue) \in Nat
      /\ LastOf(w) \in Nat /\ LastOf(w) <= seen
      /\ w.cursor <= seen /\ \A i \in 1 .. Len(w.queue) : w.queue[i] \in Nat /\ w.queue[i] <= seen
  BY WatchFields, LastWasSeen DEF Gapless
<1> HIDE DEF n
<1>2. Owed(log, w) \subseteq 1 .. n
  BY <1>0, <1>1 DEF Owed, n
<1>3. n \in Owed(log, w) <=> Deliverable(log[n], w.task)
  BY <1>0, <1>1 DEF Owed, n
<1>4. CASE w.resync
  <2>1. Broadcast(w, n) = w
    BY <1>4 DEF Broadcast
  <2>2. w.cursor <= n /\ \A i \in 1 .. Len(w.queue) : w.queue[i] <= n
    BY <1>0, <1>1
  <2> QED BY <1>4, <2>1, <2>2 DEF Gapless, n
<1>5. CASE ~w.resync /\ ~Deliverable(log[n], w.task)
  <2>1. Broadcast(w, n) = w
    BY <1>5 DEF Broadcast
  <2>2. w.cursor <= n /\ \A i \in 1 .. Len(w.queue) : w.queue[i] <= n
    BY <1>0, <1>1
  <2>3. \A m \in Owed(log, w) : m <= seen
    BY <1>0, <1>2, <1>3, <1>5
  <2>4. \A m \in Owed(log, w) : m <= LastOf(w)
    BY <1>5, <2>3 DEF Gapless
  <2> QED BY <2>1, <2>2, <2>4 DEF Gapless, n
<1>6. CASE ~w.resync /\ Deliverable(log[n], w.task) /\ Len(w.queue) < Capacity
  <2> DEFINE v == [w EXCEPT !.queue = Append(@, n)]
             L == Len(w.queue)
  <2>1. Broadcast(w, n) = v
    BY <1>6 DEF Broadcast
  <2>2. /\ v.cursor = w.cursor /\ v.task = w.task /\ v.resync = w.resync
        /\ v.queue = Append(w.queue, n)
    BY DEF Watch
  <2> HIDE DEF v
  <2>a. n \in Nat /\ w.queue \in Seq(Nat)
    BY <1>0, <1>1
  <2>3. /\ L \in Nat /\ Len(v.queue) = L + 1 /\ v.queue[L + 1] = n /\ v.queue # <<>>
        /\ \A i \in 1 .. L : v.queue[i] = w.queue[i]
    BY <2>2, <2>a
  <2>4. LastOf(v) = n /\ Owed(log, v) = Owed(log, w)
    BY <2>2, <2>3 DEF LastOf, Owed
  <2>5. \A i, j \in 1 .. Len(v.queue) : i < j => v.queue[i] < v.queue[j]
    <3> SUFFICES ASSUME NEW i \in 1 .. L + 1, NEW j \in 1 .. L + 1, i < j PROVE v.queue[i] < v.queue[j]
      BY <2>3
    <3>1. i \in 1 .. L
      BY <2>3
    <3>2. CASE j = L + 1
      <4>1. w.queue[i] \in Nat /\ w.queue[i] <= seen
        BY <1>1, <3>1
      <4>2. v.queue[i] = w.queue[i] /\ v.queue[j] = n
        BY <2>3, <3>1, <3>2
      <4> QED BY <1>0, <4>1, <4>2
    <3>3. CASE j # L + 1
      <4>1. j \in 1 .. L
        BY <2>3, <3>3
      <4> QED BY <2>3, <3>1, <4>1 DEF Gapless
    <3> QED BY <3>2, <3>3
  <2>6. {v.queue[i] : i \in 1 .. Len(v.queue)} = {m \in Owed(log, v) : m <= LastOf(v)}
    <3>1. {v.queue[i] : i \in 1 .. Len(v.queue)} = {w.queue[i] : i \in 1 .. L} \cup {n}
      <4>1. 1 .. Len(v.queue) = (1 .. L) \cup {L + 1}
        BY <2>3
      <4>2. \A i \in 1 .. Len(v.queue) : v.queue[i] \in {w.queue[k] : k \in 1 .. L} \cup {n}
        <5> SUFFICES ASSUME NEW i \in 1 .. Len(v.queue)
                     PROVE  v.queue[i] \in {w.queue[k] : k \in 1 .. L} \cup {n}
          OBVIOUS
        <5>1. CASE i = L + 1
          BY <2>3, <5>1
        <5>2. CASE i \in 1 .. L
          BY <2>3, <5>2
        <5> QED BY <4>1, <5>1, <5>2
      <4>3. n \in {v.queue[i] : i \in 1 .. Len(v.queue)}
        BY <2>3, <4>1, Zenon
      <4>4. \A k \in 1 .. L : w.queue[k] \in {v.queue[i] : i \in 1 .. Len(v.queue)}
        <5> SUFFICES ASSUME NEW k \in 1 .. L
                     PROVE  w.queue[k] \in {v.queue[i] : i \in 1 .. Len(v.queue)}
          OBVIOUS
        <5>1. k \in 1 .. Len(v.queue) /\ w.queue[k] = v.queue[k]
          BY <2>3, <4>1
        <5> QED BY <5>1, Zenon
      <4> QED BY <4>2, <4>3, <4>4, Zenon
    <3>2. \A m \in Owed(log, w) : m # n => m <= LastOf(w)
      <4>1. \A m \in Owed(log, w) : m # n => m <= seen
        BY <1>0, <1>2
      <4> QED BY <1>6, <4>1 DEF Gapless
    <3>3. \A m \in Owed(log, w) : m <= n
      BY <1>0, <1>2
    <3>4. {w.queue[i] : i \in 1 .. L} = {m \in Owed(log, w) : m <= LastOf(w)}
      BY DEF Gapless
    <3>5. n \in Owed(log, w)
      BY <1>3, <1>6
    <3>6. {m \in Owed(log, w) : m <= n} = {m \in Owed(log, w) : m <= LastOf(w)} \cup {n}
      BY <3>2, <3>3, <3>5
    <3> QED BY <2>4, <3>1, <3>4, <3>6
  <2>7. \A m \in Owed(log, v) : m <= LastOf(v)
    BY <1>0, <1>2, <2>4
  <2>8. v.cursor <= n /\ \A i \in 1 .. Len(v.queue) : v.queue[i] <= n
    <3>1. \A i \in 1 .. L + 1 : i = L + 1 \/ i \in 1 .. L
      BY <2>3
    <3> QED BY <1>0, <1>1, <2>2, <2>3, <3>1, SMTT(60)
  <2> QED BY <2>1, <2>5, <2>6, <2>7, <2>8 DEF Gapless, n
<1>7. CASE ~w.resync /\ Deliverable(log[n], w.task) /\ ~(Len(w.queue) < Capacity)
  <2>1. Broadcast(w, n) = [w EXCEPT !.resync = TRUE]
    BY <1>7 DEF Broadcast
  <2>2. seen <= n
    BY <1>0
  <2> QED BY <1>0, <2>1, <2>2, GaplessMarked DEF n
<1> QED BY <1>4, <1>5, <1>6, <1>7

\* page_and_subscribe: the page reached the head.
LEMMA GaplessFresh ==
    ASSUME FileTypes, NEW start \in 0 .. Len(log), NEW t \in Tasks \cup {None}
    PROVE  Gapless(log, Fresh(t, Continuation(start, t)), Len(log))
<1>1. PICK c \in Nat : c = Continuation(start, t) /\ c <= Len(log)
                       /\ \A n \in c + 1 .. Len(log) : ~Deliverable(log[n], t)
  BY ContinuationIsLast
<1>2. PICK v : v = Fresh(t, c)
  OBVIOUS
<1>3. v.task = t /\ v.cursor = c /\ v.queue = <<>>
  BY <1>2, FreshWatch
<1>4. Owed(log, v) = {} /\ LastOf(v) = c
  BY <1>1, <1>3 DEF Owed, LastOf
<1>5. Gapless(log, v, Len(log))
  BY <1>1, <1>3, <1>4 DEF Gapless
<1> QED BY <1>1, <1>2, <1>5

\* receive_ready: the first queued event becomes the cursor.
LEMMA GaplessTaken ==
    ASSUME NEW h, NEW w \in Watch, NEW seen \in Nat, w.queue # <<>>, Gapless(h, w, seen)
    PROVE  Gapless(h, Taken(w), seen)
<1> DEFINE v == Taken(w)
           L == Len(w.queue)
<1>1. /\ v.cursor = Head(w.queue) /\ v.queue = Tail(w.queue)
      /\ v.task = w.task /\ v.resync = w.resync
  BY DEF Taken, Watch
<1> HIDE DEF v
<1>2. /\ w.cursor \in Nat /\ w.queue \in Seq(Nat) /\ L \in Nat \ {0}
      /\ \A i \in 1 .. L : w.queue[i] \in Nat /\ w.queue[i] <= seen
  BY WatchFields DEF Gapless
<1>3. /\ v.cursor = w.queue[1] /\ Len(v.queue) = L - 1 /\ v.queue \in Seq(Nat)
      /\ \A i \in 1 .. L - 1 : v.queue[i] = w.queue[i + 1]
  BY <1>1, <1>2
<1>a. Len(w.queue) = L /\ w.queue # <<>>
  OBVIOUS
<1> HIDE DEF L
<1>4. LastOf(v) = LastOf(w) /\ LastOf(w) = w.queue[L]
  <2>1. CASE L = 1
    <3>1. v.queue = <<>>
      BY <1>3, <2>1
    <3> QED BY <1>3, <1>a, <2>1, <3>1 DEF LastOf
  <2>2. CASE L # 1
    <3>1. v.queue # <<>> /\ L - 1 \in 1 .. L - 1
      BY <1>2, <1>3, <2>2
    <3>2. v.queue[L - 1] = w.queue[L - 1 + 1] /\ L - 1 + 1 = L
      BY <1>2, <1>3, <3>1
    <3> QED BY <1>3, <1>a, <3>1, <3>2 DEF LastOf
  <2> QED BY <2>1, <2>2
<1>5. \A i, j \in 1 .. L : i < j => w.queue[i] < w.queue[j]
  BY DEF Gapless, L
<1>6. \A i, j \in 1 .. Len(v.queue) : i < j => v.queue[i] < v.queue[j]
  BY <1>2, <1>3, <1>5
<1>7. {w.queue[i] : i \in 1 .. L} = {n \in Owed(h, w) : n <= LastOf(w)}
  BY DEF Gapless, L
<1>8. w.queue[1] \in Owed(h, w)
  BY <1>2, <1>7
<1>9. w.cursor < w.queue[1] /\ w.queue[1] \in Nat
  BY <1>2, <1>8, SMTT(60) DEF Owed
<1>10. Owed(h, v) = {n \in Owed(h, w) : n > w.queue[1]}
  BY <1>1, <1>2, <1>3, <1>9 DEF Owed
<1>11. {v.queue[i] : i \in 1 .. Len(v.queue)} = {n \in Owed(h, v) : n <= LastOf(v)}
  <2>1. ASSUME NEW i \in 1 .. Len(v.queue) PROVE v.queue[i] \in {n \in Owed(h, v) : n <= LastOf(v)}
    <3>a. i \in 1 .. L - 1 /\ L \in Nat /\ L - 1 \in Nat
      BY <1>2, <1>3
    <3>1. i + 1 \in 1 .. L /\ 1 \in 1 .. L /\ 1 < i + 1 /\ v.queue[i] = w.queue[i + 1]
      BY <1>3, <3>a
    <3>2. w.queue[i + 1] \in {n \in Owed(h, w) : n <= LastOf(w)} /\ w.queue[1] < w.queue[i + 1]
      BY <1>5, <1>7, <3>1
    <3> QED BY <1>2, <1>4, <1>10, <3>1, <3>2
  <2>2. ASSUME NEW n \in {m \in Owed(h, v) : m <= LastOf(v)}
        PROVE  \E i \in 1 .. Len(v.queue) : v.queue[i] = n
    <3>1. n \in Owed(h, w) /\ n <= LastOf(w) /\ n > w.queue[1]
      BY <1>4, <1>10
    <3>2. PICK i \in 1 .. L : w.queue[i] = n
      BY <1>7, <3>1
    <3>3. i # 1
      BY <1>9, <3>1, <3>2
    <3>4. i - 1 \in 1 .. L - 1 /\ i - 1 + 1 = i
      BY <1>2, <3>3
    <3>5. v.queue[i - 1] = n
      BY <1>3, <3>2, <3>4
    <3> QED BY <1>3, <3>4, <3>5
  <2> QED BY <2>1, <2>2
<1>12. ~v.resync => \A n \in Owed(h, v) : n <= seen => n <= LastOf(v)
  BY <1>1, <1>4, <1>10 DEF Gapless
<1>13. v.cursor <= seen /\ \A i \in 1 .. Len(v.queue) : v.queue[i] <= seen
  <2>1. v.cursor <= seen
    BY <1>2, <1>3
  <2>2. ASSUME NEW i \in 1 .. L - 1 PROVE v.queue[i] <= seen
    <3>1. i + 1 \in 1 .. L
      BY <1>2
    <3> QED BY <1>2, <1>3, <3>1
  <2> QED BY <1>3, <2>1, <2>2
<1>14. Gapless(h, v, seen)
  BY <1>6, <1>11, <1>12, <1>13 DEF Gapless
<1> QED BY <1>14 DEF v

\* A step that replaces the subscription of p and what p has seen.
LEMMA WatchChange ==
    ASSUME Core, WatchInv, log' = log, NEW p \in Procs, NEW w, NEW seen,
           watch' = [watch EXCEPT ![p] = w], observed' = [observed EXCEPT ![p] = seen],
           seen <= Len(log), w.on => Gapless(log, w, seen)
    PROVE  WatchInv'
<1>1. watch \in [Procs -> Watch] /\ observed \in [Procs -> Nat]
  BY DEF Core, TypeInv, WatchTypes
<1> SUFFICES ASSUME NEW r \in Procs
             PROVE  observed'[r] <= Len(log) /\ (watch'[r].on => Gapless(log, watch'[r], observed'[r]))
  BY DEF WatchInv
<1>2. CASE r = p
  BY <1>1, <1>2
<1>3. CASE r # p
  BY <1>1, <1>3 DEF WatchInv
<1> QED BY <1>2, <1>3

LEMMA WatchSame ==
    ASSUME WatchInv, UNCHANGED <<log, observed, watch>>
    PROVE  WatchInv'
BY DEF WatchInv

\* WatchHub::mark_all, with a newer view of the journal or the same.
LEMMA WatchMark ==
    ASSUME Core, WatchInv, log' = log, NEW p \in Procs, NEW now \in Nat,
           observed[p] <= now, now <= Len(log),
           watch' = [watch EXCEPT ![p] = MarkAll(@)], observed' = [observed EXCEPT ![p] = now]
    PROVE  WatchInv'
<1>1. watch[p] \in Watch /\ observed[p] \in Nat
  BY DEF Core, TypeInv, WatchTypes
<1> DEFINE w == MarkAll(watch[p])
<1>2. ASSUME w.on PROVE Gapless(log, w, now)
  <2>1. watch[p].on /\ w = [watch[p] EXCEPT !.resync = TRUE]
    BY <1>2 DEF MarkAll
  <2> HIDE DEF w
  <2> QED BY <1>1, <2>1, GaplessMarked DEF WatchInv
<1>3. watch' = [watch EXCEPT ![p] = w]
  OBVIOUS
<1> HIDE DEF w
<1> QED BY <1>2, <1>3, WatchChange

LEMMA WatchMarkNow ==
    ASSUME Core, WatchInv, log' = log, NEW p \in Procs,
           watch' = [watch EXCEPT ![p] = MarkAll(@)], observed' = observed
    PROVE  WatchInv'
<1>1. observed \in [Procs -> Nat] /\ observed[p] \in Nat /\ observed[p] <= Len(log)
  BY DEF Core, TypeInv, WatchTypes, WatchInv
<1>2. observed' = [observed EXCEPT ![p] = observed[p]]
  BY <1>1
<1>3. observed[p] <= observed[p]
  BY <1>1
<1> QED BY <1>1, <1>2, <1>3, WatchMark

\* mark_load_effects: a view that moved tells the subscribers.
LEMMA WatchEffects ==
    ASSUME Core, WatchInv, log' = log, NEW p \in Procs, NEW replayed, LoadEffects(p, replayed)
    PROVE  WatchInv'
<1>1. /\ observed \in [Procs -> Nat] /\ observed[p] \in Nat /\ observed[p] <= Len(log)
      /\ Len(log) \in Nat
  BY DEF Core, TypeInv, WatchTypes, FileTypes, WatchInv
<1>2. observed' = [observed EXCEPT ![p] = Len(log)]
  BY DEF LoadEffects
<1>3. CASE Reloaded(p, replayed)
  <2>1. watch' = [watch EXCEPT ![p] = MarkAll(@)] /\ Len(log) <= Len(log)
    BY <1>1, <1>3 DEF LoadEffects
  <2> QED BY <1>1, <1>2, <2>1, WatchMark
<1>4. CASE ~Reloaded(p, replayed)
  <2>1. watch' = watch /\ observed[p] = Len(log)
    BY <1>4 DEF LoadEffects, Reloaded
  <2>2. observed' = observed
    BY <1>1, <1>2, <2>1
  <2> QED BY <2>1, <2>2, WatchSame
<1> QED BY <1>3, <1>4

LEMMA WatchAppend ==
    ASSUME Core, WatchInv, NEW l \in Line, log' = Append(log, l), UNCHANGED <<observed, watch>>
    PROVE  WatchInv'
<1>1. /\ log \in Seq(Line) /\ watch \in [Procs -> Watch] /\ observed \in [Procs -> Nat]
      /\ Len(log) \in Nat /\ Len(log') = Len(log) + 1
  BY DEF Core, TypeInv, FileTypes, WatchTypes
<1> SUFFICES ASSUME NEW p \in Procs
             PROVE  observed[p] <= Len(log') /\ (watch[p].on => Gapless(log', watch[p], observed[p]))
  BY DEF WatchInv
<1>2. watch[p] \in Watch /\ observed[p] \in Nat /\ observed[p] <= Len(log)
  BY <1>1 DEF WatchInv
<1>3. observed[p] <= Len(log')
  BY <1>1, <1>2
<1>4. watch[p].on => Gapless(Append(log, l), watch[p], observed[p])
  BY <1>1, <1>2, GaplessAppend DEF WatchInv
<1> QED BY <1>3, <1>4

LEMMA WatchCommit ==
    ASSUME Core, WatchInv, HubInv, Commit
    PROVE  WatchInv'
<1>1. /\ log' = log /\ holder \in Procs /\ observed[holder] + 1 = Len(log)
      /\ observed' = [observed EXCEPT ![holder] = Len(log)]
      /\ watch' = [watch EXCEPT ![holder] = Broadcast(@, Len(log))]
  BY DEF Commit, files, HubInv, Core, TypeInv, CallTypes
<1>2. /\ FileTypes /\ watch[holder] \in Watch /\ observed[holder] \in Nat
      /\ Len(log) \in Nat /\ Len(log) <= Len(log)
  BY <1>1 DEF Core, TypeInv, WatchTypes, FileTypes
<1> DEFINE w == Broadcast(watch[holder], Len(log))
<1>3. ASSUME w.on PROVE Gapless(log, w, Len(log))
  <2>1. watch[holder].on
    <3> SUFFICES ASSUME ~watch[holder].on PROVE FALSE
      OBVIOUS
    <3>1. w = watch[holder]
      BY DEF Broadcast
    <3> HIDE DEF w
    <3> QED BY <1>3, <3>1
  <2>2. Gapless(log, watch[holder], observed[holder])
    BY <1>1, <2>1 DEF WatchInv
  <2> QED BY <1>1, <1>2, <2>1, <2>2, GaplessBroadcast
<1>4. watch' = [watch EXCEPT ![holder] = w]
  BY <1>1
<1> HIDE DEF w
<1> QED BY <1>1, <1>2, <1>3, <1>4, WatchChange

LEMMA WatchSubscribe ==
    ASSUME Core, WatchInv, NEW p \in Procs, NEW start \in 0 .. Len(log), NEW t \in Filters,
           Subscribe(p, start, t)
    PROVE  WatchInv'
<1>1. FileTypes /\ t \in Tasks \cup {None} /\ Len(log) \in Nat /\ Len(log) <= Len(log)
  BY RepositoryAssumption DEF Core, TypeInv, FileTypes
<1>2. PICK w : w = Fresh(t, Continuation(start, t))
  OBVIOUS
<1>3. Gapless(log, w, Len(log))
  BY <1>1, <1>2, GaplessFresh
<1>4. log' = log /\ watch' = [watch EXCEPT ![p] = w] /\ observed' = [observed EXCEPT ![p] = Len(log)]
  BY <1>2 DEF Subscribe, Fresh, files
<1> QED BY <1>1, <1>3, <1>4, WatchChange

LEMMA WatchReceive ==
    ASSUME Core, WatchInv, NEW p \in Procs, Receive(p)
    PROVE  WatchInv'
<1>1. /\ WatchTypes /\ watch[p] \in Watch /\ observed \in [Procs -> Nat]
      /\ observed[p] \in Nat /\ observed[p] <= Len(log)
  BY DEF Core, TypeInv, WatchTypes, WatchInv
<1>2. PICK w : w = Taken(watch[p])
  OBVIOUS
<1>3. log' = log /\ watch' = [watch EXCEPT ![p] = w] /\ watch[p].queue # <<>> /\ observed' = observed
  BY <1>1, <1>2, ReceiveTakes DEF Receive, files
<1>4. observed' = [observed EXCEPT ![p] = observed[p]]
  BY <1>1, <1>3
<1>5. w.on = watch[p].on
  BY <1>1, <1>2 DEF Taken, Watch
<1>6. w.on => Gapless(log, w, observed[p])
  BY <1>1, <1>2, <1>3, <1>5, GaplessTaken DEF WatchInv
<1> QED BY <1>1, <1>3, <1>4, <1>6, WatchChange

LEMMA WatchDropped ==
    ASSUME Core, WatchInv, log' = log, NEW p \in Procs, NEW seen \in Nat, seen <= Len(log),
           watch' = [watch EXCEPT ![p] = NoWatch], observed' = [observed EXCEPT ![p] = seen]
    PROVE  WatchInv'
<1>1. ~NoWatch.on
  BY DEF NoWatch
<1> QED BY <1>1, WatchChange

LEMMA WatchNext ==
    ASSUME Core, WatchInv, HubInv, [Next]_vars
    PROVE  WatchInv'
<1>0. observed \in [Procs -> Nat] /\ Len(log) \in Nat
  BY DEF Core, TypeInv, WatchTypes, FileTypes
<1>1. CASE UNCHANGED vars
  BY <1>1, WatchSame DEF vars
<1>2. CASE Load \/ SyncIntent \/ SyncRecord \/ SyncSnapshot \/ KeepSnapshot \/ SyncRemoval
           \/ AnswerWithoutWriting \/ SyncTransition
  BY <1>2, WatchSame DEF Load, SyncIntent, SyncRecord, SyncSnapshot, KeepSnapshot, SyncRemoval,
     AnswerWithoutWriting, SyncTransition, files, hubs
<1>3. CASE WriteIntent \/ Truncate \/ WriteSnapshot \/ RemoveIntent \/ ReplaceSnapshot
  BY <1>3, WatchSame DEF WriteIntent, Truncate, WriteSnapshot, RemoveIntent, ReplaceSnapshot, hubs
<1>4. CASE LoadRefused
  <2>1. /\ log' = log /\ observed' = observed /\ watch' = [watch EXCEPT ![holder] = MarkAll(@)]
        /\ holder \in Procs
    BY <1>4 DEF LoadRefused, files, Core, TypeInv, CallTypes
  <2> QED BY <2>1, WatchMarkNow
<1>5. CASE AppendRecord
  <2>1. intent \in Intent
    BY <1>5 DEF Core, TypeInv, FileTypes, CallInv, AppendRecord
  <2> QED BY <1>5, <2>1, LossRecordType, WatchAppend DEF AppendRecord, hubs
<1>6. CASE AppendTransition
  <2>1. req \in Requests
    BY <1>6 DEF AppendTransition, Core, TypeInv, CallTypes, CallInv
  <2>2. [of |-> req, loss |-> 0] \in Line
    BY <2>1 DEF Line
  <2> QED BY <1>6, <2>2, WatchAppend DEF AppendTransition, hubs
<1>7. CASE EndLoad
  <2>1. log' = log /\ holder \in Procs /\ LoadEffects(holder, pc = "reloaded")
    BY <1>7 DEF EndLoad, files, Core, TypeInv, CallTypes
  <2> QED BY <2>1, WatchEffects
<1>8. CASE Commit
  BY <1>8, WatchCommit
<1>9. ASSUME NEW p \in Procs, NEW q \in Requests \cup {None}, Begin(p, q) PROVE WatchInv'
  BY <1>9, WatchSame DEF Begin, files, hubs
<1>10. ASSUME NEW p \in Procs, ReadRefused(p) PROVE WatchInv'
  BY <1>10, WatchMarkNow DEF ReadRefused, files
<1>11. ASSUME NEW p \in Procs, PageEvents(p) PROVE WatchInv'
  BY <1>11, WatchEffects DEF PageEvents, files
<1>12. ASSUME NEW p \in Watchers, NEW start \in 0 .. Len(log), NEW t \in Filters, Subscribe(p, start, t)
       PROVE  WatchInv'
  BY <1>12, WatchSubscribe, RepositoryAssumption
<1>13. ASSUME NEW p \in Watchers, Receive(p) PROVE WatchInv'
  BY <1>13, WatchReceive, RepositoryAssumption
<1>14. ASSUME NEW p \in Watchers, Unsubscribe(p) PROVE WatchInv'
  <2>1. p \in Procs /\ log' = log /\ watch' = [watch EXCEPT ![p] = NoWatch] /\ observed' = observed
    BY <1>14, RepositoryAssumption DEF Unsubscribe, files
  <2>2. observed' = [observed EXCEPT ![p] = observed[p]] /\ observed[p] \in Nat /\ observed[p] <= Len(log)
    BY <1>0, <2>1 DEF WatchInv
  <2> QED BY <2>1, <2>2, WatchDropped
<1>15. CASE Fail
  <2>1. /\ log' = log /\ observed' = observed /\ holder \in Procs
        /\ watch' = [watch EXCEPT ![holder] = MarkAll(@)] \/ watch' = watch
    BY <1>15 DEF Fail, Core, TypeInv, CallTypes
  <2> QED BY <2>1, WatchMarkNow, WatchSame
<1>16. CASE Die
  <2>1. /\ log' = log /\ observed' = [observed EXCEPT ![holder] = 0] /\ holder \in Procs
        /\ watch' = [watch EXCEPT ![holder] = NoWatch] /\ 0 \in Nat /\ 0 <= Len(log)
    BY <1>0, <1>16 DEF Die, Core, TypeInv, CallTypes
  <2> QED BY <2>1, WatchDropped
<1>17. CASE LosePower
  <2>1. observed' = [p \in Procs |-> 0] /\ watch' = [p \in Procs |-> NoWatch]
    BY <1>17 DEF LosePower
  <2>2. PICK n : PowerCut(n)
    BY <1>17 DEF LosePower, PowerCut
  <2>3. Len(log') \in Nat /\ ~NoWatch.on
    BY <2>2, PowerCutFiles DEF Core, TypeInv, NoWatch
  <2> QED BY <2>1, <2>3 DEF WatchInv
<1>18. CASE Step
  BY <1>2, <1>3, <1>4, <1>5, <1>6, <1>7, <1>8, <1>18 DEF Step
<1> QED BY <1>1, <1>9, <1>10, <1>11, <1>12, <1>13, <1>14, <1>15, <1>16, <1>17, <1>18 DEF Next

LEMMA HubNext ==
    ASSUME Core, HubInv, [Next]_vars
    PROVE  HubInv'
<1>0. /\ observed \in [Procs -> Nat] /\ Len(log) \in Nat /\ log \in Seq(Line)
      /\ holder \in Procs \cup {None} /\ (holder = None <=> pc = "idle")
  BY DEF Core, TypeInv, WatchTypes, FileTypes, CallTypes
<1>1. CASE UNCHANGED vars
  BY <1>1 DEF vars, HubInv
<1>2. CASE LoadRefused \/ AnswerWithoutWriting \/ Commit \/ Fail \/ Die \/ LosePower
  BY <1>2 DEF LoadRefused, AnswerWithoutWriting, Commit, Fail, Die, LosePower, Release, HubInv
<1>3. CASE Load \/ WriteIntent \/ SyncIntent \/ Truncate \/ AppendRecord \/ SyncRecord
  BY <1>3 DEF Load, WriteIntent, SyncIntent, Truncate, AppendRecord, SyncRecord, HubInv
<1>4. CASE WriteSnapshot \/ SyncSnapshot \/ KeepSnapshot \/ RemoveIntent \/ SyncRemoval
  BY <1>4 DEF WriteSnapshot, SyncSnapshot, KeepSnapshot, RemoveIntent, SyncRemoval, HubInv
<1>5. CASE EndLoad
  <2>1. /\ holder \in Procs /\ observed' = [observed EXCEPT ![holder] = Len(log)] /\ log' = log
        /\ pc' = "idle" \/ (pc' = "ready" /\ holder' = holder)
    BY <1>0, <1>5 DEF EndLoad, LoadEffects, Release, files
  <2> QED BY <1>0, <2>1 DEF HubInv
<1>6. CASE AppendTransition
  <2>1. /\ holder' = holder /\ observed' = observed /\ pc = "ready" /\ pc' = "sync"
        /\ Len(log') = Len(log) + 1 /\ holder \in Procs
    BY <1>0, <1>6 DEF AppendTransition, hubs
  <2> QED BY <1>0, <2>1 DEF HubInv
<1>7. CASE SyncTransition \/ ReplaceSnapshot
  BY <1>7 DEF SyncTransition, ReplaceSnapshot, HubInv, files, hubs
<1>8. ASSUME NEW p \in Procs, NEW q \in Requests \cup {None}, Begin(p, q) PROVE HubInv'
  BY <1>8 DEF Begin, HubInv
<1>9. ASSUME NEW p \in Procs, ReadRefused(p) PROVE HubInv'
  BY <1>9 DEF ReadRefused, HubInv, files, call
<1>10. ASSUME NEW p \in Procs, PageEvents(p) PROVE HubInv'
  BY <1>0, <1>10 DEF PageEvents, HubInv, call
<1>11. ASSUME NEW p \in Watchers, NEW start \in 0 .. Len(log), NEW t \in Filters, Subscribe(p, start, t)
       PROVE  HubInv'
  BY <1>0, <1>11 DEF Subscribe, HubInv, call
<1>12. ASSUME NEW p \in Watchers, Receive(p) \/ Unsubscribe(p) PROVE HubInv'
  BY <1>12 DEF Receive, Unsubscribe, HubInv, files, call
<1>13. CASE Step
  BY <1>2, <1>3, <1>4, <1>5, <1>6, <1>7, <1>13 DEF Step
<1> QED BY <1>1, <1>2, <1>8, <1>9, <1>10, <1>11, <1>12, <1>13 DEF Next

LEMMA WatchInit == Init => WatchInv /\ HubInv
<1>1. ~NoWatch.on
  BY DEF NoWatch
<1> QED BY <1>1 DEF Init, WatchInv, HubInv

\* A subscriber gets the lines it asked for in journal order and without a
\* gap, whatever other processes commit, recover or lose, and until it is told
\* to start again it has everything its process has seen (page_and_subscribe,
\* broadcast, mark_load_effects).
THEOREM SubscribersMissNothing == Spec => []WatchGapless
<1>1. Init => Core /\ WatchInv /\ HubInv
  BY CoreInit, WatchInit
<1>2. Core /\ WatchInv /\ HubInv /\ [Next]_vars => (Core /\ WatchInv /\ HubInv)'
  BY CoreNext, WatchNext, HubNext
<1>3. WatchInv => WatchGapless
  BY DEF WatchInv, WatchGapless, Gapless, Owed, LastOf
<1> QED BY <1>1, <1>2, <1>3, PTL DEF Spec

=============================================================================
