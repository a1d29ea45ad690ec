----------------------- MODULE ProviderJournal_proofs -----------------------
(* Theorems about the journal of the Task Service provider, for any number   *)
(* of processes, readers, actions and power losses.                          *)
EXTENDS ProviderJournal, SequenceTheorems, TLAPS

USE JournalAssumption

-----------------------------------------------------------------------------
(* The shape of the journal. *)

\* Line i is a readable state of i actions, and all lines agree on each of them.
Nested ==
    /\ journal \in Seq(Seq(Actions))
    /\ \A i \in 1 .. Len(journal) :
          /\ Len(journal[i]) = i
          /\ \A k \in 1 .. i : journal[i][k] = journal[k][k]

LEMMA LineType ==
  ASSUME Nested, NEW i \in 0 .. Len(journal)
  PROVE  /\ LineAt(i) \in Seq(Actions)
         /\ Len(LineAt(i)) = i
         /\ \A k \in 1 .. i : LineAt(i)[k] = journal[k][k]
  <1>1. CASE i = 0
    BY <1>1, EmptySeq DEF LineAt
  <1>2. CASE i # 0
    <2>1. i \in 1 .. Len(journal)
      BY <1>2, LenProperties DEF Nested
    <2>2. journal[i] \in Seq(Actions)
      BY <2>1, ElementOfSeq DEF Nested
    <2> QED
      BY <1>2, <2>1, <2>2 DEF LineAt, Nested
  <1> QED
    BY <1>1, <1>2

LEMMA LogType ==
  ASSUME Nested
  PROVE  /\ Len(journal) \in Nat
         /\ Log \in Seq(Actions)
         /\ Len(Log) = Len(journal)
         /\ \A k \in 1 .. Len(journal) : Log[k] = journal[k][k]
  <1>1. Len(journal) \in Nat
    BY LenProperties DEF Nested
  <1> QED
    BY <1>1, LineType DEF Log

LEMMA AppendedActions ==
  ASSUME NEW h \in Seq(Actions), NEW a \in Actions
  PROVE  Applied(Append(h, a)) = Applied(h) \cup {a}
  <1>1. /\ Len(h) \in Nat
        /\ Len(Append(h, a)) = Len(h) + 1
        /\ \A i \in 1 .. Len(h) : Append(h, a)[i] = h[i]
        /\ Append(h, a)[Len(h) + 1] = a
    BY LenProperties
  <1> QED
    BY <1>1 DEF Applied

\* The full recovery accepts such a journal.
LEMMA NestedChained ==
  ASSUME Nested
  PROVE  Chained
  <1> SUFFICES ASSUME NEW i \in 1 .. Len(journal)
               PROVE  \E a \in Actions : journal[i] = Append(LineAt(i - 1), a)
    BY DEF Chained, Follows
  <1>0. Len(journal) \in Nat /\ i - 1 \in 0 .. Len(journal)
    BY LogType
  <1>1. LineAt(i - 1) \in Seq(Actions) /\ Len(LineAt(i - 1)) = i - 1
    BY <1>0, LineType
  <1>2. journal[i] \in Seq(Actions) /\ Len(journal[i]) = i
    BY ElementOfSeq DEF Nested
  <1>3. journal[i][i] \in Actions
    BY <1>0, <1>2, ElementOfSeq
  <1>4. \A k \in 1 .. (i - 1) : LineAt(i - 1)[k] = journal[i][k]
    <2> SUFFICES ASSUME NEW k \in 1 .. (i - 1)
                 PROVE  LineAt(i - 1)[k] = journal[i][k]
      OBVIOUS
    <2>1. LineAt(i - 1)[k] = journal[k][k]
      BY <1>0, LineType
    <2>2. k \in 1 .. i
      BY <1>0
    <2>3. journal[i][k] = journal[k][k]
      BY <2>2 DEF Nested
    <2> QED
      BY <2>1, <2>3
  <1>5. /\ Append(LineAt(i - 1), journal[i][i]) \in Seq(Actions)
        /\ Len(Append(LineAt(i - 1), journal[i][i])) = i
        /\ \A k \in 1 .. i : Append(LineAt(i - 1), journal[i][i])[k] = journal[i][k]
    BY <1>0, <1>1, <1>3, <1>4
  <1>6. journal[i] = Append(LineAt(i - 1), journal[i][i])
    BY <1>2, <1>5, SeqEqual
  <1> QED
    BY <1>3, <1>6

\* A record written after the last one extends the journal by one line.
LEMMA NestedAppend ==
  ASSUME Nested, NEW a \in Actions, journal' = Append(journal, Append(Log, a))
  PROVE  /\ Nested'
         /\ Len(journal') = Len(journal) + 1
         /\ \A i \in 0 .. Len(journal) : LineAt(i)' = LineAt(i)
         /\ \A i \in 1 .. Len(journal) : journal'[i] = journal[i]
         /\ journal'[Len(journal) + 1] = Append(Log, a)
         /\ Log' = Append(Log, a)
  <1>1. /\ Len(journal) \in Nat
        /\ Log \in Seq(Actions)
        /\ Len(Log) = Len(journal)
        /\ \A k \in 1 .. Len(journal) : Log[k] = journal[k][k]
    BY LogType
  <1>2. /\ Append(Log, a) \in Seq(Actions)
        /\ Len(Append(Log, a)) = Len(journal) + 1
        /\ \A k \in 1 .. Len(journal) : Append(Log, a)[k] = journal[k][k]
        /\ Append(Log, a)[Len(journal) + 1] = a
    BY <1>1
  <1>3. /\ journal' \in Seq(Seq(Actions))
        /\ Len(journal') = Len(journal) + 1
        /\ \A i \in 1 .. Len(journal) : journal'[i] = journal[i]
        /\ journal'[Len(journal) + 1] = Append(Log, a)
    BY <1>1, <1>2 DEF Nested
  <1>4. ASSUME NEW i \in 1 .. Len(journal')
        PROVE  /\ Len(journal'[i]) = i
               /\ \A k \in 1 .. i : journal'[i][k] = journal'[k][k]
    <2>1. CASE i \in 1 .. Len(journal)
      <3>1. journal'[i] = journal[i] /\ Len(journal[i]) = i
        BY <1>3, <2>1 DEF Nested
      <3>2. ASSUME NEW k \in 1 .. i
            PROVE  journal'[i][k] = journal'[k][k]
        <4>1. k \in 1 .. Len(journal)
          BY <1>1, <2>1
        <4>2. journal'[k] = journal[k]
          BY <1>3, <4>1
        <4>3. journal[i][k] = journal[k][k]
          BY <2>1 DEF Nested
        <4> QED
          BY <3>1, <4>2, <4>3
      <3> QED
        BY <3>1, <3>2
    <2>2. CASE i = Len(journal) + 1
      <3>1. journal'[i] = Append(Log, a) /\ Len(journal'[i]) = i
        BY <1>2, <1>3, <2>2
      <3>2. ASSUME NEW k \in 1 .. i
            PROVE  journal'[i][k] = journal'[k][k]
        <4>1. CASE k \in 1 .. Len(journal)
          BY <1>2, <1>3, <3>1, <4>1
        <4>2. CASE k = i
          BY <4>2
        <4> QED
          BY <1>1, <2>2, <4>1, <4>2
      <3> QED
        BY <3>1, <3>2
    <2>3. Len(journal') = Len(journal) + 1
      BY <1>3
    <2>4. i \in 1 .. Len(journal) \/ i = Len(journal) + 1
      BY <1>1, <2>3
    <2> QED
      BY <2>1, <2>2, <2>4
  <1>5. Nested'
    BY <1>3, <1>4 DEF Nested
  <1>6. \A i \in 0 .. Len(journal) : LineAt(i)' = LineAt(i)
    BY <1>1, <1>3 DEF LineAt
  <1>7. Log' = Append(Log, a)
    BY <1>1, <1>3 DEF Log, LineAt
  <1> QED
    BY <1>3, <1>5, <1>6, <1>7

\* A journal cut after its first n lines.
LEMMA NestedCut ==
  ASSUME Nested, NEW n \in 0 .. Len(journal), journal' = SubSeq(journal, 1, n)
  PROVE  /\ Nested'
         /\ Len(journal') = n
         /\ \A i \in 0 .. n : LineAt(i)' = LineAt(i)
         /\ \A i \in 1 .. n : journal'[i] = journal[i]
         /\ Log' = LineAt(n)
         /\ Log' = SubSeq(Log, 1, n)
  <1>1. Len(journal) \in Nat /\ n \in Nat /\ n \in Int /\ 1 \in Int
    BY LogType
  <1>2. \A i \in 1 .. n : journal[i] \in Seq(Actions)
    BY <1>1, ElementOfSeq DEF Nested
  <1>3. /\ journal' \in Seq(Seq(Actions))
        /\ Len(journal') = IF 1 <= n THEN n - 1 + 1 ELSE 0
        /\ \A i \in 1 .. n - 1 + 1 : journal'[i] = journal[1 + i - 1]
    BY <1>1, <1>2, SubSeqProperties
  <1>4. Len(journal') = n /\ \A i \in 1 .. n : journal'[i] = journal[i]
    BY <1>1, <1>3
  <1>5. Nested'
    BY <1>1, <1>3, <1>4 DEF Nested
  <1>6. \A i \in 0 .. n : LineAt(i)' = LineAt(i)
    BY <1>1, <1>4 DEF LineAt
  <1>7. Log' = LineAt(n)
    BY <1>1, <1>4 DEF Log, LineAt
  <1>8. LineAt(n) = SubSeq(Log, 1, n)
    <2>1. /\ Log \in Seq(Actions)
          /\ \A k \in 1 .. n : Log[k] = journal[k][k] /\ Log[k] \in Actions
      BY <1>1, LogType, ElementOfSeq
    <2>2. /\ SubSeq(Log, 1, n) \in Seq(Actions)
          /\ Len(SubSeq(Log, 1, n)) = IF 1 <= n THEN n - 1 + 1 ELSE 0
          /\ \A i \in 1 .. n - 1 + 1 : SubSeq(Log, 1, n)[i] = Log[1 + i - 1]
      BY <1>1, <2>1, SubSeqProperties
    <2>3. Len(SubSeq(Log, 1, n)) = n /\ \A i \in 1 .. n : SubSeq(Log, 1, n)[i] = Log[i]
      BY <1>1, <2>2
    <2>4. /\ LineAt(n) \in Seq(Actions) /\ Len(LineAt(n)) = n
          /\ \A i \in 1 .. n : LineAt(n)[i] = SubSeq(Log, 1, n)[i]
      BY LineType, <2>1, <2>3
    <2> QED
      BY <2>2, <2>3, <2>4, SeqEqual
  <1> QED
    BY <1>4, <1>5, <1>6, <1>7, <1>8

-----------------------------------------------------------------------------
(* The inductive invariant. *)

Inside == {"truncate", "truncated", "repair", "repairing", "ready", "written", "synced",
           "published"}

\* What a process inside a call knows about the files, from the operations it has
\* done so far.
Knows(p) ==
    /\ pc[p] \in Inside => st[p] = Log
    /\ pc[p] \in Inside \ {"truncate"} => ~torn
    /\ pc[p] \in {"written", "synced", "published"} =>
          req[p] \in Actions /\ req[p] \in Applied(Log)
    /\ pc[p] \in {"synced", "published"} => synced = Len(journal)

\* No point at which power may cut the journal lies before a confirmed action.
Kept == \A i \in synced .. Len(journal) : confirmed \subseteq Applied(LineAt(i))

IInv ==
    /\ TypeOK
    /\ Nested
    /\ \A p \in Procs : Knows(p)
    /\ Kept
    /\ AppliedOnce

LEMMA InitIInv == Init => IInv
  <1> SUFFICES ASSUME Init PROVE IInv
    OBVIOUS
  <1> USE DEF Init
  <1>0. /\ <<>> \in Seq(Lines) /\ <<>> \in Seq(Actions) /\ <<>> \in Seq(Seq(Actions))
        /\ Len(journal) = 0
    BY EmptySeq
  <1>1. TypeOK
    <2>1. /\ journal \in Seq(Lines) /\ synced \in 0 .. Len(journal)
          /\ settled => synced = Len(journal)
      BY <1>0
    <2>2. /\ pc \in [Procs -> Pcs]
          /\ \A p \in Procs : pc[p] # "idle" <=> lock = p
      BY DEF Pcs
    <2>3. /\ st \in [Procs -> Seq(Actions)]
          /\ seen \in [Readers -> Seq(Actions)]
          /\ delivered \in [Readers -> Seq(Seq(Actions))]
      BY <1>0
    <2> QED
      BY <2>1, <2>2, <2>3 DEF TypeOK
  <1>2. Nested
    BY <1>0 DEF Nested
  <1>3. \A p \in Procs : Knows(p)
    BY DEF Knows, Inside
  <1>4. Kept
    BY DEF Kept
  <1>5. AppliedOnce
    BY <1>0 DEF AppliedOnce
  <1> QED
    BY <1>1, <1>2, <1>3, <1>4, <1>5 DEF IInv

-----------------------------------------------------------------------------
(* A process alone inside its call. *)

ProcsType ==
    /\ lock \in Procs \cup {None}
    /\ pc \in [Procs -> Pcs]
    /\ \A p \in Procs : pc[p] # "idle" <=> lock = p
    /\ req \in [Procs -> Actions \cup {None}]
    /\ st \in [Procs -> Seq(Actions)]

FilesType ==
    /\ journal \in Seq(Lines)
    /\ torn \in BOOLEAN
    /\ synced \in 0 .. Len(journal)
    /\ settled \in BOOLEAN
    /\ settled => synced = Len(journal)
    /\ snap \in Seq(Actions) \cup {None}
    /\ snapDurable \in Seq(Actions) \cup {None}
    /\ lockFile \in BOOLEAN

RepliesType == confirmed \subseteq Actions

ReadersType ==
    /\ rpc \in [Readers -> {"idle", "checkpoint", "journal", "watch"}]
    /\ floor \in [Readers -> SUBSET Actions]
    /\ seen \in [Readers -> Seq(Actions)]
    /\ delivered \in [Readers -> Seq(Seq(Actions))]
    /\ powerLosses \in Nat

LEMMA TypeParts == TypeOK <=> ProcsType /\ FilesType /\ RepliesType /\ ReadersType
  BY DEF TypeOK, ProcsType, FilesType, RepliesType, ReadersType

LEMMA TypePartsNext == ProcsType' /\ FilesType' /\ RepliesType' /\ ReadersType' => TypeOK'
  BY DEF TypeOK, ProcsType, FilesType, RepliesType, ReadersType

\* A call that ends leaves no process inside.
LEMMA Released ==
  ASSUME ProcsType, NEW p \in Procs, pc[p] # "idle", Release(p)
  PROVE  /\ ProcsType'
         /\ \A q \in Procs : Knows(q)'
  <1>1. /\ lock = p /\ lock' = None
        /\ pc' = [pc EXCEPT ![p] = "idle"]
        /\ req' = [req EXCEPT ![p] = None]
        /\ st' = [st EXCEPT ![p] = <<>>]
    BY DEF ProcsType, Release
  <1>2. \A q \in Procs : pc'[q] = "idle"
    BY <1>1 DEF ProcsType
  <1>3. pc' \in [Procs -> Pcs] /\ req' \in [Procs -> Actions \cup {None}]
    BY <1>1 DEF ProcsType, Pcs
  <1>4. st' \in [Procs -> Seq(Actions)]
    BY <1>1, EmptySeq DEF ProcsType
  <1>5. ProcsType'
    BY <1>1, <1>2, <1>3, <1>4 DEF ProcsType
  <1>6. \A q \in Procs : Knows(q)'
    BY <1>2 DEF Knows, Inside
  <1> QED
    BY <1>5, <1>6

\* A call that goes on is the only one.
LEMMA Advanced ==
  ASSUME ProcsType, NEW p \in Procs, pc[p] # "idle",
         NEW x \in Pcs \ {"idle"}, pc' = [pc EXCEPT ![p] = x],
         UNCHANGED <<lock, req>>,
         st' \in [Procs -> Seq(Actions)],
         Knows(p)'
  PROVE  /\ ProcsType'
         /\ \A q \in Procs : Knows(q)'
  <1>1. \A q \in Procs : q # p => pc[q] = "idle" /\ pc'[q] = "idle"
    BY DEF ProcsType
  <1>2. pc'[p] = x /\ x # "idle" /\ lock' = p
    BY DEF ProcsType
  <1>3. pc' \in [Procs -> Pcs]
    BY DEF ProcsType
  <1>4. \A q \in Procs : pc'[q] # "idle" <=> lock' = q
    BY <1>1, <1>2
  <1>5. ProcsType'
    BY <1>3, <1>4 DEF ProcsType
  <1>6. \A q \in Procs : q # p => Knows(q)'
    BY <1>1 DEF Knows, Inside
  <1> QED
    BY <1>5, <1>6

\* What only depends on the journal and on the confirmed actions.
LEMMA SameJournal ==
  ASSUME UNCHANGED journal
  PROVE  /\ Log' = Log
         /\ Nested => Nested'
         /\ AppliedOnce => AppliedOnce'
         /\ Kept /\ UNCHANGED <<synced, confirmed>> => Kept'
  <1>1. \A i : LineAt(i)' = LineAt(i)
    BY DEF LineAt
  <1>2. Log' = Log
    BY DEF Log, LineAt
  <1> QED
    BY <1>1, <1>2 DEF Nested, AppliedOnce, Kept

-----------------------------------------------------------------------------
(* Every step of a call preserves the invariant. *)

LEMMA CallIInv ==
  ASSUME IInv, NEW p \in Procs,
         \/ \E a \in Actions \cup {None} : Begin(p, a)
         \/ Step(p) \/ WritePartly(p) \/ Abandon(p)
  PROVE  IInv'
  <1>0. /\ ProcsType /\ FilesType /\ RepliesType /\ ReadersType
        /\ Nested /\ Knows(p) /\ Kept /\ AppliedOnce
    BY TypeParts DEF IInv
  <1>1. /\ Len(journal) \in Nat /\ Log \in Seq(Actions) /\ Len(Log) = Len(journal)
        /\ synced \in Nat /\ synced <= Len(journal)
    BY <1>0, LogType DEF FilesType
  <1>r. ASSUME UNCHANGED readers, UNCHANGED powerLosses PROVE ReadersType'
    BY <1>0, <1>r DEF readers, ReadersType
  \* The steps that leave journal, synced lines and confirmations alone.
  <1>q. ASSUME UNCHANGED <<journal, synced, confirmed, readers, powerLosses>>,
               ProcsType', FilesType', \A q \in Procs : Knows(q)'
        PROVE  IInv'
    BY <1>0, <1>q, <1>r, SameJournal, TypePartsNext DEF IInv, RepliesType
  <1>2. CASE \E a \in Actions \cup {None} : Begin(p, a)
    <2> PICK a \in Actions \cup {None} : Begin(p, a)
      BY <1>2
    <2>1. /\ pc[p] = "idle" /\ lock = None /\ lock' = p /\ lockFile' = TRUE
          /\ pc' = [pc EXCEPT ![p] = "locked"] /\ req' = [req EXCEPT ![p] = a]
          /\ UNCHANGED <<st, disk, confirmed, readers, powerLosses>>
      BY DEF Begin
    <2>2. \A q \in Procs : pc[q] = "idle"
      BY <1>0, <2>1 DEF ProcsType
    <2>3. \A q \in Procs : pc'[q] = IF q = p THEN "locked" ELSE "idle"
      BY <1>0, <2>1, <2>2 DEF ProcsType
    <2>4. pc' \in [Procs -> Pcs] /\ req' \in [Procs -> Actions \cup {None}]
      BY <1>0, <2>1 DEF ProcsType, Pcs
    <2>5. ProcsType'
      BY <1>0, <2>1, <2>3, <2>4 DEF ProcsType
    <2>6. \A q \in Procs : Knows(q)'
      BY <2>3 DEF Knows, Inside
    <2>7. FilesType'
      BY <1>0, <2>1 DEF FilesType, disk
    <2> QED
      BY <1>q, <2>1, <2>5, <2>6, <2>7 DEF disk
  <1>3. CASE RecoverCheckpoint(p)
    <2>1. /\ pc[p] = "locked" /\ Exact
          /\ st' = [st EXCEPT ![p] = snap] /\ pc' = [pc EXCEPT ![p] = "ready"]
          /\ UNCHANGED <<disk, lockFile, lock, req, confirmed, readers, powerLosses>>
      BY <1>3 DEF RecoverCheckpoint
    <2>2. FilesType'
      BY <1>0, <2>1 DEF FilesType, disk
    <2>3. st' \in [Procs -> Seq(Actions)]
      BY <1>0, <1>1, <2>1 DEF ProcsType, Exact
    <2>4. Log' = Log /\ torn' = torn
      BY <2>1, SameJournal DEF disk
    <2>5. pc'[p] = "ready" /\ st'[p] = snap
      BY <1>0, <2>1 DEF ProcsType
    <2>6. Knows(p)'
      BY <2>1, <2>4, <2>5 DEF Knows, Exact
    <2>7. ProcsType' /\ \A q \in Procs : Knows(q)'
      BY <1>0, <2>1, <2>3, <2>6, Advanced DEF Pcs
    <2> QED
      BY <1>q, <2>1, <2>2, <2>7 DEF disk
  <1>4. CASE ReadJournal(p)
    <2>1. /\ pc[p] = "locked"
          /\ st' = [st EXCEPT ![p] = Log]
          /\ pc' = [pc EXCEPT ![p] = IF torn THEN "truncate" ELSE "repair"]
          /\ UNCHANGED <<disk, lockFile, lock, req, confirmed, readers, powerLosses>>
      BY <1>4 DEF ReadJournal
    <2>2. FilesType'
      BY <1>0, <2>1 DEF FilesType, disk
    <2>3. st' \in [Procs -> Seq(Actions)]
      BY <1>0, <1>1, <2>1 DEF ProcsType
    <2>4. Log' = Log /\ torn' = torn
      BY <2>1, SameJournal DEF disk
    <2>5. pc'[p] = (IF torn THEN "truncate" ELSE "repair") /\ st'[p] = Log
      BY <1>0, <2>1 DEF ProcsType
    <2>6. Knows(p)'
      BY <2>1, <2>4, <2>5 DEF Knows
    <2>7. ProcsType' /\ \A q \in Procs : Knows(q)'
      BY <1>0, <2>1, <2>3, <2>6, Advanced DEF Pcs
    <2> QED
      BY <1>q, <2>1, <2>2, <2>7 DEF disk
  <1>5. CASE Truncate(p)
    <2>1. /\ pc[p] = "truncate" /\ torn' = FALSE /\ settled' = FALSE
          /\ pc' = [pc EXCEPT ![p] = "truncated"]
          /\ UNCHANGED <<journal, synced, snap, snapDurable, lockFile, lock, req, st, confirmed,
                         readers, powerLosses>>
      BY <1>5 DEF Truncate, CutTail
    <2>2. FilesType'
      BY <1>0, <2>1 DEF FilesType
    <2>3. pc'[p] = "truncated" /\ st'[p] = Log'
      BY <1>0, <2>1, SameJournal DEF ProcsType, Knows, Inside
    <2>4. Knows(p)'
      BY <2>1, <2>3 DEF Knows
    <2>5. ProcsType' /\ \A q \in Procs : Knows(q)'
      BY <1>0, <2>1, <2>4, Advanced DEF Pcs, ProcsType
    <2> QED
      BY <1>q, <2>1, <2>2, <2>5
  <1>6. CASE SyncTruncated(p)
    <2>1. /\ pc[p] = "truncated" /\ synced' = Len(journal) /\ settled' = TRUE
          /\ pc' = [pc EXCEPT ![p] = "repair"]
          /\ UNCHANGED <<journal, torn, snap, snapDurable, lockFile, lock, req, st, confirmed,
                         readers, powerLosses>>
      BY <1>6 DEF SyncTruncated, SyncJournal
    <2>2. FilesType'
      BY <1>0, <1>1, <2>1 DEF FilesType
    <2>3. pc'[p] = "repair" /\ st'[p] = Log' /\ ~torn'
      BY <1>0, <2>1, SameJournal DEF ProcsType, Knows, Inside
    <2>4. Knows(p)'
      BY <2>3 DEF Knows
    <2>5. ProcsType' /\ \A q \in Procs : Knows(q)'
      BY <1>0, <2>1, <2>4, Advanced DEF Pcs, ProcsType
    <2>6. Kept'
      <3>1. confirmed \subseteq Applied(LineAt(Len(journal)))
        BY <1>0, <1>1 DEF Kept
      <3>2. \A i \in synced' .. Len(journal') : i = Len(journal)
        BY <1>1, <2>1
      <3> QED
        BY <2>1, <3>1, <3>2 DEF Kept, LineAt
    <2>7. RepliesType' /\ Nested' /\ AppliedOnce'
      BY <1>0, <2>1, SameJournal DEF RepliesType
    <2> QED
      BY <1>r, <2>1, <2>2, <2>5, <2>6, <2>7, TypePartsNext DEF IInv
  <1>7. CASE Repair(p)
    <2>1. /\ pc[p] = "repair" /\ snap' = st[p]
          /\ pc' = [pc EXCEPT ![p] = IF snap = st[p] THEN "ready" ELSE "repairing"]
          /\ UNCHANGED <<journal, torn, synced, settled, snapDurable, lockFile, lock, req, st,
                         confirmed, readers, powerLosses>>
      BY <1>7 DEF Repair
    <2>2. FilesType'
      BY <1>0, <2>1 DEF FilesType, ProcsType
    <2>3. pc'[p] \in {"ready", "repairing"} /\ st'[p] = Log' /\ ~torn'
      BY <1>0, <2>1, SameJournal DEF ProcsType, Knows, Inside
    <2>4. Knows(p)'
      BY <2>3 DEF Knows
    <2>5. ProcsType' /\ \A q \in Procs : Knows(q)'
      BY <1>0, <2>1, <2>4, Advanced DEF Pcs, ProcsType
    <2> QED
      BY <1>q, <2>1, <2>2, <2>5
  <1>8. CASE SyncRepaired(p)
    <2>1. /\ pc[p] = "repairing" /\ snapDurable' = snap
          /\ pc' = [pc EXCEPT ![p] = "ready"]
          /\ UNCHANGED <<journal, torn, synced, settled, snap, lockFile, lock, req, st, confirmed,
                         readers, powerLosses>>
      BY <1>8 DEF SyncRepaired
    <2>2. FilesType'
      BY <1>0, <2>1 DEF FilesType
    <2>3. pc'[p] = "ready" /\ st'[p] = Log' /\ ~torn'
      BY <1>0, <2>1, SameJournal DEF ProcsType, Knows, Inside
    <2>4. Knows(p)'
      BY <2>3 DEF Knows
    <2>5. ProcsType' /\ \A q \in Procs : Knows(q)'
      BY <1>0, <2>1, <2>4, Advanced DEF Pcs, ProcsType
    <2> QED
      BY <1>q, <2>1, <2>2, <2>5
  <1>9. CASE RecoverReturns(p) \/ Refuse(p) \/ Abandon(p)
    <2>1. /\ pc[p] # "idle" /\ Release(p)
          /\ UNCHANGED <<disk, lockFile, confirmed, readers, powerLosses>>
      BY <1>9 DEF RecoverReturns, Refuse, Abandon
    <2>2. FilesType'
      BY <1>0, <2>1 DEF FilesType, disk
    <2>3. ProcsType' /\ \A q \in Procs : Knows(q)'
      BY <1>0, <2>1, Released
    <2> QED
      BY <1>q, <2>1, <2>2, <2>3 DEF disk
  <1>10. CASE Replay(p)
    <2>1. /\ pc[p] # "idle" /\ Release(p) /\ req[p] # None
          /\ UNCHANGED <<disk, lockFile, confirmed, readers, powerLosses>>
      BY <1>10 DEF Replay
    <2>2. FilesType'
      BY <1>0, <2>1 DEF FilesType, disk
    <2>3. ProcsType' /\ \A q \in Procs : Knows(q)'
      BY <1>0, <2>1, Released
    <2>4. RepliesType'
      BY <1>0, <2>1 DEF RepliesType, ProcsType
    <2>5. Nested' /\ Kept' /\ AppliedOnce'
      BY <1>0, <2>1, SameJournal DEF disk
    <2> QED
      BY <1>r, <2>1, <2>2, <2>3, <2>4, <2>5, TypePartsNext DEF IInv
  <1>11. CASE WriteRecord(p)
    <2>1. /\ pc[p] = "ready" /\ req[p] # None /\ req[p] \notin Applied(st[p])
          /\ st' = [st EXCEPT ![p] = Append(@, req[p])]
          /\ journal' = Append(journal, IF torn THEN Unreadable ELSE st'[p])
          /\ torn' = FALSE /\ settled' = FALSE
          /\ pc' = [pc EXCEPT ![p] = "written"]
          /\ UNCHANGED <<synced, snap, snapDurable, lockFile, lock, req, confirmed, readers,
                         powerLosses>>
      BY <1>11 DEF WriteRecord, Fresh
    <2> DEFINE a == req[p]
    <2>2. a \in Actions /\ a \notin Applied(Log) /\ st[p] = Log /\ ~torn
      BY <1>0, <2>1 DEF ProcsType, Knows, Inside
    <2>3. st'[p] = Append(Log, a) /\ st' \in [Procs -> Seq(Actions)] /\ pc'[p] = "written"
      BY <1>0, <1>1, <2>1, <2>2 DEF ProcsType
    <2>4. journal' = Append(journal, Append(Log, a))
      BY <2>1, <2>2, <2>3
    <2> HIDE DEF a
    <2>5. /\ Nested'
          /\ Len(journal') = Len(journal) + 1
          /\ \A i \in 0 .. Len(journal) : LineAt(i)' = LineAt(i)
          /\ \A i \in 1 .. Len(journal) : journal'[i] = journal[i]
          /\ journal'[Len(journal) + 1] = Append(Log, a)
          /\ Log' = Append(Log, a)
      BY <1>0, <2>2, <2>4, NestedAppend
    <2>6. Applied(Log') = Applied(Log) \cup {a}
      BY <1>1, <2>2, <2>5, AppendedActions
    <2>7. Knows(p)'
      BY <2>1, <2>2, <2>3, <2>5, <2>6 DEF Knows, a
    <2>8. ProcsType' /\ \A q \in Procs : Knows(q)'
      BY <1>0, <2>1, <2>3, <2>7, Advanced DEF Pcs
    <2>9. FilesType'
      <3>1. journal' \in Seq(Lines)
        BY <2>5, SeqMonotonic DEF Nested, Lines
      <3>2. synced' \in 0 .. Len(journal')
        BY <1>1, <2>1, <2>5
      <3> QED
        BY <1>0, <2>1, <3>1, <3>2 DEF FilesType
    <2>10. Kept'
      <3> SUFFICES ASSUME NEW i \in synced' .. Len(journal')
                   PROVE  confirmed' \subseteq Applied(LineAt(i)')
        BY DEF Kept
      <3>1. CASE i \in synced .. Len(journal)
        BY <1>0, <1>1, <2>1, <2>5, <3>1 DEF Kept
      <3>2. CASE i = Len(journal')
        <4>1. confirmed \subseteq Applied(Log)
          BY <1>0, <1>1 DEF Kept, Log
        <4>2. LineAt(i)' = Log'
          BY <3>2 DEF Log
        <4> QED
          BY <2>1, <2>6, <4>1, <4>2
      <3>3. i \in synced .. Len(journal) \/ i = Len(journal')
        BY <1>1, <2>1, <2>5
      <3> QED
        BY <3>1, <3>2, <3>3
    <2>11. AppliedOnce'
      <3> SUFFICES ASSUME NEW i \in 1 .. Len(journal'), NEW j \in 1 .. Len(journal'), i < j
                   PROVE  journal'[i][i] # journal'[j][j]
        BY DEF AppliedOnce
      <3>1. i \in 1 .. Len(journal) /\ journal'[i] = journal[i]
        BY <1>1, <2>5
      <3>2. CASE j \in 1 .. Len(journal)
        BY <1>0, <2>5, <3>1, <3>2 DEF AppliedOnce
      <3>3. CASE j = Len(journal) + 1
        <4>1. journal'[j][j] = a
          BY <1>1, <2>2, <2>5, <3>3
        <4>2. journal[i][i] \in Applied(Log)
          BY <1>0, <1>1, <3>1, LogType DEF Applied
        <4> QED
          BY <2>2, <3>1, <4>1, <4>2
      <3>4. j \in 1 .. Len(journal) \/ j = Len(journal) + 1
        BY <1>1, <2>5, SMTT(60)
      <3> QED
        BY <3>2, <3>3, <3>4
    <2>12. RepliesType'
      BY <1>0, <2>1 DEF RepliesType
    <2> QED
      BY <1>r, <2>1, <2>5, <2>8, <2>9, <2>10, <2>11, <2>12, TypePartsNext DEF IInv
  <1>12. CASE WritePartly(p)
    <2>1. /\ pc[p] # "idle" /\ Release(p) /\ torn' = TRUE /\ settled' = FALSE
          /\ UNCHANGED <<journal, synced, snap, snapDurable, lockFile, confirmed, readers,
                         powerLosses>>
      BY <1>12 DEF WritePartly
    <2>2. FilesType'
      BY <1>0, <2>1 DEF FilesType
    <2>3. ProcsType' /\ \A q \in Procs : Knows(q)'
      BY <1>0, <2>1, Released
    <2> QED
      BY <1>q, <2>1, <2>2, <2>3
  <1>13. CASE SyncRecord(p)
    <2>1. /\ pc[p] = "written" /\ synced' = Len(journal) /\ settled' = TRUE
          /\ pc' = [pc EXCEPT ![p] = "synced"]
          /\ UNCHANGED <<journal, torn, snap, snapDurable, lockFile, lock, req, st, confirmed,
                         readers, powerLosses>>
      BY <1>13 DEF SyncRecord, SyncJournal
    <2>2. FilesType'
      BY <1>0, <1>1, <2>1 DEF FilesType
    <2>3. /\ pc'[p] = "synced" /\ st'[p] = Log' /\ ~torn' /\ synced' = Len(journal')
          /\ req'[p] \in Actions /\ req'[p] \in Applied(Log')
      BY <1>0, <2>1, SameJournal DEF ProcsType, Knows, Inside
    <2>4. Knows(p)'
      BY <2>3 DEF Knows
    <2>5. ProcsType' /\ \A q \in Procs : Knows(q)'
      BY <1>0, <2>1, <2>4, Advanced DEF Pcs, ProcsType
    <2>6. Kept'
      <3>1. confirmed \subseteq Applied(LineAt(Len(journal)))
        BY <1>0, <1>1 DEF Kept
      <3>2. \A i \in synced' .. Len(journal') : i = Len(journal)
        BY <1>1, <2>1
      <3> QED
        BY <2>1, <3>1, <3>2 DEF Kept, LineAt
    <2>7. RepliesType' /\ Nested' /\ AppliedOnce'
      BY <1>0, <2>1, SameJournal DEF RepliesType
    <2> QED
      BY <1>r, <2>1, <2>2, <2>5, <2>6, <2>7, TypePartsNext DEF IInv
  <1>14. CASE Publish(p)
    <2>1. /\ pc[p] = "synced" /\ snap' = st[p]
          /\ pc' = [pc EXCEPT ![p] = "published"]
          /\ UNCHANGED <<journal, torn, synced, settled, snapDurable, lockFile, lock, req, st,
                         confirmed, readers, powerLosses>>
      BY <1>14 DEF Publish
    <2>2. FilesType'
      BY <1>0, <2>1 DEF FilesType, ProcsType
    <2>3. /\ pc'[p] = "published" /\ st'[p] = Log' /\ ~torn' /\ synced' = Len(journal')
          /\ req'[p] \in Actions /\ req'[p] \in Applied(Log')
      BY <1>0, <2>1, SameJournal DEF ProcsType, Knows, Inside
    <2>4. Knows(p)'
      BY <2>3 DEF Knows
    <2>5. ProcsType' /\ \A q \in Procs : Knows(q)'
      BY <1>0, <2>1, <2>4, Advanced DEF Pcs, ProcsType
    <2> QED
      BY <1>q, <2>1, <2>2, <2>5
  <1>15. CASE Return(p)
    <2>1. /\ pc[p] = "published" /\ Release(p) /\ snapDurable' = snap
          /\ confirmed' = confirmed \cup {req[p]}
          /\ UNCHANGED <<journal, torn, synced, settled, snap, lockFile, readers,
                         powerLosses>>
      BY <1>15 DEF Return
    <2>2. FilesType'
      BY <1>0, <2>1 DEF FilesType
    <2>3. ProcsType' /\ \A q \in Procs : Knows(q)'
      BY <1>0, <2>1, Released
    <2>4. req[p] \in Actions /\ req[p] \in Applied(Log) /\ synced = Len(journal)
      BY <1>0, <2>1 DEF Knows
    <2>5. RepliesType'
      BY <1>0, <2>1, <2>4 DEF RepliesType
    <2>6. Kept'
      <3>1. confirmed' \subseteq Applied(LineAt(Len(journal)))
        BY <1>0, <1>1, <2>1, <2>4 DEF Kept, Log
      <3>2. \A i \in synced' .. Len(journal') : i = Len(journal)
        BY <1>1, <2>1, <2>4
      <3> QED
        BY <2>1, <3>1, <3>2 DEF Kept, LineAt
    <2>7. Nested' /\ AppliedOnce'
      BY <1>0, <2>1, SameJournal
    <2> QED
      BY <1>r, <2>1, <2>2, <2>3, <2>5, <2>6, <2>7, TypePartsNext DEF IInv
  <1> QED
    BY <1>2, <1>3, <1>4, <1>5, <1>6, <1>7, <1>8, <1>9, <1>10, <1>11, <1>12, <1>13, <1>14,
       <1>15 DEF Step

-----------------------------------------------------------------------------
(* Readers change nothing but what they know, and power takes nothing that   *)
(* was synced.                                                               *)

Reading(r) ==
    \/ BeginQuery(r) \/ CaptureCheckpoint(r) \/ CaptureJournal(r) \/ GiveUp(r)
    \/ \E limit \in 1 .. WatchLimit : Watch(r, limit) \/ ReadUnlocked(r, limit)
    \/ WatchUnlocked(r)

LEMMA PageType ==
  ASSUME Nested, NEW after \in 0 .. Len(journal), NEW limit \in 1 .. WatchLimit
  PROVE  /\ Page(after, limit) \in Seq(Seq(Actions))
         /\ after + Len(Page(after, limit)) <= Len(journal)
         /\ \A k \in 1 .. Len(Page(after, limit)) :
               Page(after, limit)[k] = journal[after + k]
  <1> DEFINE last == IF after + limit < Len(journal) THEN after + limit ELSE Len(journal)
  <1>1. /\ Len(journal) \in Nat /\ after \in Nat /\ after + 1 \in Int /\ last \in Int
        /\ after <= last /\ last <= Len(journal)
    BY LogType
  <1>2. Page(after, limit) = SubSeq(journal, after + 1, last)
    BY DEF Page
  <1> HIDE DEF last
  <1>3. \A i \in (after + 1) .. last : journal[i] \in Seq(Actions)
    <2> TAKE i \in (after + 1) .. last
    <2>1. i \in 1 .. Len(journal)
      BY <1>1
    <2> QED
      BY <2>1, ElementOfSeq DEF Nested
  <1>4. /\ SubSeq(journal, after + 1, last) \in Seq(Seq(Actions))
        /\ Len(SubSeq(journal, after + 1, last)) =
              IF after + 1 <= last THEN last - (after + 1) + 1 ELSE 0
        /\ \A i \in 1 .. last - (after + 1) + 1 :
              SubSeq(journal, after + 1, last)[i] = journal[after + 1 + i - 1]
    BY <1>1, <1>3, SubSeqProperties
  <1>5. Len(SubSeq(journal, after + 1, last)) = last - after
    BY <1>1, <1>4
  <1>6. \A k \in 1 .. last - after : SubSeq(journal, after + 1, last)[k] = journal[after + k]
    <2> TAKE k \in 1 .. last - after
    <2>1. k \in 1 .. last - (after + 1) + 1 /\ after + 1 + k - 1 = after + k
      BY <1>1
    <2> QED
      BY <1>4, <2>1
  <1> QED
    BY <1>1, <1>2, <1>4, <1>5, <1>6

\* What a reader was told: the actions confirmed before its query began, a state
\* and events that are beginnings of the journal.
Informed(r) ==
    /\ floor[r] \subseteq confirmed
    /\ rpc[r] \in {"idle", "watch"} => floor[r] \subseteq Applied(seen[r])
    /\ Len(seen[r]) <= Len(journal)
    /\ \A k \in 1 .. Len(seen[r]) : seen[r][k] = journal[k][k]
    /\ Len(delivered[r]) <= Len(journal)
    /\ \A k \in 1 .. Len(delivered[r]) : delivered[r][k] = journal[k]

LEMMA ReadingIInv ==
  ASSUME IInv, \A r \in Readers : Informed(r), NEW r \in Readers, Reading(r)
  PROVE  /\ IInv'
         /\ UNCHANGED <<journal, confirmed>>
         /\ \A x \in Readers : Informed(x)'
         /\ seen'[r] = seen[r] \/ seen'[r] = Log
         /\ \A x \in Readers : x # r => seen'[x] = seen[x]
  <1>0. /\ ProcsType /\ FilesType /\ RepliesType /\ ReadersType
        /\ Nested /\ Kept /\ AppliedOnce
        /\ \A p \in Procs : Knows(p)
    BY TypeParts DEF IInv
  <1>1. /\ Len(journal) \in Nat /\ Log \in Seq(Actions) /\ Len(Log) = Len(journal)
        /\ \A k \in 1 .. Len(journal) : Log[k] = journal[k][k]
    BY <1>0, LogType
  <1>2. /\ UNCHANGED <<disk, lock, pc, req, st, confirmed, powerLosses>>
        /\ lockFile' \in {lockFile, TRUE}
    BY DEF Reading, BeginQuery, CaptureCheckpoint, CaptureJournal, GiveUp, Watch,
           ReadUnlocked, WatchUnlocked, ReadEvents, procs
  <1>3. ProcsType' /\ FilesType' /\ RepliesType' /\ Nested' /\ Kept' /\ AppliedOnce'
    BY <1>0, <1>2, SameJournal DEF ProcsType, FilesType, RepliesType, disk
  <1>4. \A p \in Procs : Knows(p)'
    BY <1>0, <1>2, SameJournal DEF Knows, disk
  <1>5. UNCHANGED <<journal, confirmed>> /\ powerLosses' = powerLosses
    BY <1>2 DEF disk
  <1>6. confirmed \subseteq Applied(Log)
    BY <1>0, <1>1 DEF Kept, Log, FilesType
  \* What a step tells the reader, and that the others learn nothing.
  <1> DEFINE Told == /\ rpc'[r] \in {"idle", "checkpoint", "journal", "watch"}
                     /\ floor'[r] \in SUBSET Actions
                     /\ seen'[r] \in Seq(Actions)
                     /\ delivered'[r] \in Seq(Seq(Actions))
                     /\ Informed(r)'
                     /\ seen'[r] = seen[r] \/ seen'[r] = Log
             Alone == /\ rpc' = [rpc EXCEPT ![r] = rpc'[r]]
                      /\ floor' = [floor EXCEPT ![r] = floor'[r]]
                      /\ seen' = [seen EXCEPT ![r] = seen'[r]]
                      /\ delivered' = [delivered EXCEPT ![r] = delivered'[r]]
  <1>7. Alone
    BY <1>0 DEF Reading, BeginQuery, CaptureCheckpoint, CaptureJournal, GiveUp, Watch,
           ReadUnlocked, WatchUnlocked, ReadEvents, Answer, ReadersType
  <1>8. Told
    <2>0. /\ rpc[r] \in {"idle", "checkpoint", "journal", "watch"}
          /\ floor[r] \in SUBSET Actions /\ seen[r] \in Seq(Actions)
          /\ delivered[r] \in Seq(Seq(Actions)) /\ confirmed \subseteq Actions
          /\ Informed(r)
      BY <1>0 DEF ReadersType, RepliesType
    <2>1. ASSUME Answer(r, Log), UNCHANGED <<floor, delivered>>
          PROVE  Told
      <3>1. rpc'[r] = "idle" /\ seen'[r] = Log
        BY <1>0, <2>1 DEF Answer, ReadersType
      <3>2. floor'[r] = floor[r] /\ delivered'[r] = delivered[r]
        BY <2>1
      <3>3. floor'[r] \subseteq confirmed' /\ floor'[r] \subseteq Applied(seen'[r])
        BY <1>5, <1>6, <2>0, <3>1, <3>2 DEF Informed
      <3>4. /\ Len(seen'[r]) <= Len(journal')
            /\ \A k \in 1 .. Len(seen'[r]) : seen'[r][k] = journal'[k][k]
        BY <1>1, <1>5, <3>1
      <3>5. /\ Len(delivered'[r]) <= Len(journal')
            /\ \A k \in 1 .. Len(delivered'[r]) : delivered'[r][k] = journal'[k]
        BY <1>5, <2>0, <3>2 DEF Informed
      <3>6. Informed(r)'
        BY <3>3, <3>4, <3>5 DEF Informed
      <3> QED
        BY <1>1, <2>0, <3>1, <3>2, <3>6
    <2>2. CASE BeginQuery(r)
      <3>1. /\ rpc'[r] = "checkpoint" /\ floor'[r] = confirmed
            /\ UNCHANGED <<seen, delivered>>
        BY <1>0, <2>2 DEF BeginQuery, ReadersType
      <3> QED
        BY <1>5, <2>0, <3>1 DEF Informed
    <2>3. CASE CaptureCheckpoint(r)
      <3>1. CASE Answer(r, snap) /\ Exact
        <4>1. snap = Log
          BY <3>1 DEF Exact
        <4> QED
          BY <2>1, <2>3, <3>1, <4>1 DEF CaptureCheckpoint
      <3>2. CASE rpc' = [rpc EXCEPT ![r] = "journal"] /\ UNCHANGED seen
        <4>1. rpc'[r] = "journal" /\ UNCHANGED <<floor, seen, delivered>>
          BY <1>0, <2>3, <3>2 DEF CaptureCheckpoint, ReadersType
        <4> QED
          BY <1>5, <2>0, <4>1 DEF Informed
      <3> QED
        BY <2>3, <3>1, <3>2 DEF CaptureCheckpoint
    <2>4. CASE CaptureJournal(r)
      BY <2>1, <2>4 DEF CaptureJournal
    <2>5. CASE GiveUp(r)
      <3>1. rpc'[r] = "idle" /\ floor'[r] = {} /\ UNCHANGED <<seen, delivered>>
        BY <1>0, <2>5 DEF GiveUp, ReadersType
      <3> QED
        BY <1>5, <2>0, <3>1 DEF Informed
    <2>6. ASSUME NEW limit \in 1 .. WatchLimit, Watch(r, limit) \/ ReadUnlocked(r, limit)
          PROVE  Told
      <3> DEFINE old == delivered[r]
                 page == Page(Len(old), limit)
      <3>1. /\ rpc[r] \in {"idle", "watch"} /\ rpc'[r] = "idle"
            /\ UNCHANGED <<floor, seen>>
            /\ delivered'[r] = old \o page
        BY <1>0, <2>6 DEF Watch, ReadUnlocked, ReadEvents, ReadersType
      <3>2. /\ Len(old) \in Nat /\ Len(old) \in 0 .. Len(journal)
            /\ \A k \in 1 .. Len(old) : old[k] = journal[k]
        BY <1>1, <2>0, LenProperties DEF Informed
      <3>3. /\ page \in Seq(Seq(Actions)) /\ Len(old) + Len(page) <= Len(journal)
            /\ \A k \in 1 .. Len(page) : page[k] = journal[Len(old) + k]
        BY <1>0, <3>2, PageType
      <3> HIDE DEF page
      <3>4. /\ old \o page \in Seq(Seq(Actions))
            /\ Len(old \o page) = Len(old) + Len(page)
            /\ \A i \in 1 .. Len(old) + Len(page) :
                  (old \o page)[i] = IF i <= Len(old) THEN old[i] ELSE page[i - Len(old)]
        BY <2>0, <3>3, ConcatProperties
      <3>5. Len(page) \in Nat
        BY <3>3, LenProperties
      <3>6. \A k \in 1 .. Len(old) + Len(page) : (old \o page)[k] = journal[k]
        <4> TAKE k \in 1 .. Len(old) + Len(page)
        <4>1. CASE k <= Len(old)
          BY <3>2, <3>4, <3>5, <4>1
        <4>2. CASE ~(k <= Len(old))
          <5>1. k - Len(old) \in 1 .. Len(page) /\ Len(old) + (k - Len(old)) = k
            BY <3>2, <3>5, <4>2
          <5> QED
            BY <3>3, <3>4, <4>2, <5>1
        <4> QED
          BY <4>1, <4>2
      <3> HIDE DEF old
      <3>7. /\ delivered'[r] \in Seq(Seq(Actions))
            /\ Len(delivered'[r]) <= Len(journal)
            /\ \A k \in 1 .. Len(delivered'[r]) : delivered'[r][k] = journal[k]
        BY <3>1, <3>3, <3>4, <3>6
      <3> QED
        BY <1>5, <2>0, <3>1, <3>7 DEF Informed
    <2>7. CASE WatchUnlocked(r)
      <3>1. rpc[r] = "idle" /\ rpc'[r] = "watch" /\ UNCHANGED <<floor, seen, delivered>>
        BY <1>0, <2>7 DEF WatchUnlocked, ReadersType
      <3> QED
        BY <1>5, <2>0, <3>1 DEF Informed
    <2> QED
      BY <2>2, <2>3, <2>4, <2>5, <2>6, <2>7 DEF Reading
  <1>9. ReadersType'
    BY <1>0, <1>5, <1>7, <1>8 DEF ReadersType
  <1>10. \A x \in Readers : x # r => /\ rpc'[x] = rpc[x] /\ floor'[x] = floor[x]
                                     /\ seen'[x] = seen[x] /\ delivered'[x] = delivered[x]
    BY <1>0, <1>7 DEF ReadersType
  <1>11. \A x \in Readers : Informed(x)'
    BY <1>5, <1>8, <1>10, SMTT(60) DEF Informed
  <1> QED
    BY <1>3, <1>4, <1>5, <1>8, <1>9, <1>10, <1>11, TypePartsNext DEF IInv

LEMMA PowerLossIInv ==
  ASSUME IInv, \A r \in Readers : Informed(r), PowerLoss
  PROVE  /\ IInv'
         /\ \A r \in Readers : Informed(r)'
         /\ UNCHANGED confirmed
         /\ powerLosses' = powerLosses + 1
         /\ \E n \in 0 .. Len(Log) : /\ Log' = SubSeq(Log, 1, n)
                                     /\ confirmed \subseteq Applied(SubSeq(Log, 1, n))
  <1>0. /\ ProcsType /\ FilesType /\ RepliesType /\ ReadersType
        /\ Nested /\ Kept /\ AppliedOnce
    BY TypeParts DEF IInv
  <1>1. PICK n \in synced .. Len(journal) : journal' = SubSeq(journal, 1, n) /\ synced' = n
    BY DEF PowerLoss
  <1>2. /\ Len(journal) \in Nat /\ Len(Log) = Len(journal)
        /\ synced \in Nat /\ synced <= Len(journal) /\ n \in 0 .. Len(journal)
    BY <1>0, <1>1, LogType DEF FilesType
  <1>3. /\ Nested'
        /\ Len(journal') = n
        /\ \A i \in 0 .. n : LineAt(i)' = LineAt(i)
        /\ \A i \in 1 .. n : journal'[i] = journal[i]
        /\ Log' = LineAt(n)
        /\ Log' = SubSeq(Log, 1, n)
    BY <1>0, <1>1, <1>2, NestedCut
  <1>4. /\ torn' \in BOOLEAN /\ settled' = TRUE
        /\ snap' \in {snap, snapDurable} /\ snapDurable' = snap'
        /\ lock' = None /\ pc' = [p \in Procs |-> "idle"]
        /\ req' = [p \in Procs |-> None] /\ st' = [p \in Procs |-> <<>>]
        /\ rpc' = [r \in Readers |-> "idle"] /\ floor' = [r \in Readers |-> {}]
        /\ seen' = [r \in Readers |-> <<>>] /\ delivered' = [r \in Readers |-> <<>>]
        /\ UNCHANGED <<lockFile, confirmed>>
        /\ powerLosses' = powerLosses + 1
    BY <1>0 DEF PowerLoss, FilesType
  <1>5. /\ <<>> \in Seq(Actions) /\ <<>> \in Seq(Seq(Actions)) /\ Len(<<>>) = 0
    BY EmptySeq
  <1>6. ProcsType'
    BY <1>4, <1>5 DEF ProcsType, Pcs
  <1>7. FilesType'
    <2>1. journal' \in Seq(Lines)
      BY <1>3, SeqMonotonic DEF Nested, Lines
    <2>2. synced' \in 0 .. Len(journal') /\ synced' = Len(journal')
      BY <1>1, <1>2, <1>3
    <2> QED
      BY <1>0, <1>4, <2>1, <2>2 DEF FilesType
  <1>8. RepliesType'
    BY <1>0, <1>4 DEF RepliesType
  <1>9. ReadersType'
    BY <1>0, <1>4, <1>5 DEF ReadersType
  <1>10. \A p \in Procs : Knows(p)'
    BY <1>4 DEF Knows, Inside
  <1>11. confirmed \subseteq Applied(LineAt(n))
    BY <1>0, <1>1 DEF Kept
  <1>12. Kept'
    <2>1. \A i \in synced' .. Len(journal') : i = n
      BY <1>1, <1>2, <1>3
    <2>2. LineAt(n)' = LineAt(n)
      <3>1. n \in 0 .. n
        BY <1>2
      <3> QED
        BY <1>3, <3>1
    <2>3. \A i \in synced' .. Len(journal') : confirmed' \subseteq Applied(LineAt(i)')
      BY <1>4, <1>11, <2>1, <2>2
    <2> QED
      BY <2>3 DEF Kept
  <1>13. AppliedOnce'
    <2> SUFFICES ASSUME NEW i \in 1 .. Len(journal'), NEW j \in 1 .. Len(journal'), i < j
                 PROVE  journal'[i][i] # journal'[j][j]
      BY DEF AppliedOnce
    <2>1. /\ i \in 1 .. Len(journal) /\ j \in 1 .. Len(journal)
          /\ journal'[i] = journal[i] /\ journal'[j] = journal[j]
      BY <1>2, <1>3
    <2> QED
      BY <1>0, <2>1 DEF AppliedOnce
  <1>14. \A r \in Readers : Informed(r)'
    <2> SUFFICES ASSUME NEW r \in Readers PROVE Informed(r)'
      OBVIOUS
    <2>1. /\ rpc'[r] = "idle" /\ floor'[r] = {} /\ seen'[r] = <<>> /\ delivered'[r] = <<>>
          /\ Len(journal') \in Nat
      BY <1>2, <1>3, <1>4
    <2> QED
      BY <1>5, <2>1 DEF Informed
  <1>15. IInv'
    BY <1>3, <1>6, <1>7, <1>8, <1>9, <1>10, <1>12, <1>13, TypePartsNext DEF IInv
  <1> QED
    BY <1>2, <1>3, <1>4, <1>11, <1>14, <1>15

\* A call leaves the written lines in place and forgets no confirmation; it is
\* one step of the abstract log, or none.
LEMMA CallGrows ==
  ASSUME IInv, NEW p \in Procs,
         \/ \E a \in Actions \cup {None} : Begin(p, a)
         \/ Step(p) \/ WritePartly(p) \/ Abandon(p)
  PROVE  /\ UNCHANGED readers /\ UNCHANGED powerLosses
         /\ \/ UNCHANGED journal
            \/ \E a \in Actions : /\ a \notin Applied(Log)
                                  /\ journal' = Append(journal, Append(Log, a))
                                  /\ UNCHANGED confirmed
         /\ \/ UNCHANGED confirmed
            \/ \E a \in Actions : /\ a \in Applied(Log)
                                  /\ confirmed' = confirmed \cup {a}
  <1>0. ProcsType /\ Nested /\ Knows(p)
    BY TypeParts DEF IInv
  <1>1. CASE WriteRecord(p)
    <2>1. /\ pc[p] = "ready" /\ req[p] # None /\ req[p] \notin Applied(st[p])
          /\ st' = [st EXCEPT ![p] = Append(@, req[p])]
          /\ journal' = Append(journal, IF torn THEN Unreadable ELSE st'[p])
          /\ UNCHANGED <<confirmed, readers, powerLosses>>
      BY <1>1 DEF WriteRecord, Fresh
    <2>2. /\ req[p] \in Actions /\ req[p] \notin Applied(Log)
          /\ st'[p] = Append(Log, req[p]) /\ ~torn
      BY <1>0, <2>1 DEF ProcsType, Knows, Inside
    <2> QED
      BY <2>1, <2>2
  <1>2. CASE Return(p)
    <2>1. /\ pc[p] = "published" /\ confirmed' = confirmed \cup {req[p]}
          /\ UNCHANGED <<journal, readers, powerLosses>>
      BY <1>2 DEF Return
    <2>2. req[p] \in Actions /\ req[p] \in Applied(Log)
      BY <1>0, <2>1 DEF Knows
    <2> QED
      BY <2>1, <2>2
  <1>3. CASE \/ \E a \in Actions \cup {None} : Begin(p, a)
             \/ WritePartly(p) \/ Abandon(p)
    BY <1>3 DEF Begin, WritePartly, Abandon, disk
  <1>4. CASE Step(p) /\ ~WriteRecord(p) /\ ~Return(p)
    BY <1>4 DEF Step, RecoverCheckpoint, ReadJournal, Truncate, SyncTruncated, Repair,
                SyncRepaired, RecoverReturns, Replay, Refuse, SyncRecord, Publish, disk
  <1> QED
    BY <1>1, <1>2, <1>3, <1>4

LEMMA CallInformed ==
  ASSUME IInv, NEW p \in Procs, \A r \in Readers : Informed(r),
         \/ \E a \in Actions \cup {None} : Begin(p, a)
         \/ Step(p) \/ WritePartly(p) \/ Abandon(p)
  PROVE  \A r \in Readers : Informed(r)'
  <1>0. Nested /\ ReadersType
    BY TypeParts DEF IInv
  <1>1. /\ Len(journal) \in Nat /\ Len(journal') \in Nat /\ Len(journal) <= Len(journal')
        /\ \A k \in 1 .. Len(journal) : journal'[k] = journal[k]
    <2>0. Len(journal) \in Nat
      BY <1>0, LogType
    <2>1. CASE UNCHANGED journal
      BY <2>0, <2>1
    <2>2. CASE \E a \in Actions : journal' = Append(journal, Append(Log, a))
      <3> PICK a \in Actions : journal' = Append(journal, Append(Log, a))
        BY <2>2
      <3>1. /\ Len(journal') = Len(journal) + 1
            /\ \A k \in 1 .. Len(journal) : journal'[k] = journal[k]
        BY <1>0, NestedAppend
      <3> QED
        BY <2>0, <3>1
    <2> QED
      BY <2>1, <2>2, CallGrows
  <1>2. /\ confirmed \subseteq confirmed'
        /\ UNCHANGED <<rpc, floor, seen, delivered>>
    BY CallGrows DEF readers
  <1> SUFFICES ASSUME NEW r \in Readers PROVE Informed(r)'
    OBVIOUS
  <1>3. Informed(r) /\ Len(seen[r]) \in Nat /\ Len(delivered[r]) \in Nat
    BY <1>0, LenProperties DEF ReadersType
  <1>4. /\ floor'[r] \subseteq confirmed'
        /\ rpc'[r] \in {"idle", "watch"} => floor'[r] \subseteq Applied(seen'[r])
    BY <1>2, <1>3 DEF Informed
  <1>5. /\ Len(seen'[r]) <= Len(journal')
        /\ \A k \in 1 .. Len(seen'[r]) : seen'[r][k] = journal'[k][k]
    <2>1. Len(seen[r]) <= Len(journal)
      BY <1>3 DEF Informed
    <2>2. \A k \in 1 .. Len(seen[r]) : k \in 1 .. Len(journal) /\ seen[r][k] = journal[k][k]
      BY <1>1, <1>3, <2>1 DEF Informed
    <2> QED
      BY <1>1, <1>2, <1>3, <2>1, <2>2
  <1>6. /\ Len(delivered'[r]) <= Len(journal')
        /\ \A k \in 1 .. Len(delivered'[r]) : delivered'[r][k] = journal'[k]
    <2>1. Len(delivered[r]) <= Len(journal)
      BY <1>3 DEF Informed
    <2>2. \A k \in 1 .. Len(delivered[r]) : k \in 1 .. Len(journal)
                                            /\ delivered[r][k] = journal[k]
      BY <1>1, <1>3, <2>1 DEF Informed
    <2> QED
      BY <1>1, <1>2, <1>3, <2>1, <2>2
  <1> QED
    BY <1>4, <1>5, <1>6 DEF Informed

-----------------------------------------------------------------------------
(* The theorems. *)

FullInv == IInv /\ \A r \in Readers : Informed(r)

\* The invariant holds in every reachable state of the store: files, processes
\* and readers, across crashes, torn writes and power losses.
THEOREM JournalInvariance == Spec => []FullInv
  <1>1. Init => FullInv
    <2> SUFFICES ASSUME Init, NEW r \in Readers PROVE Informed(r)
      BY InitIInv DEF FullInv
    <2>1. /\ rpc[r] = "idle" /\ floor[r] = {} /\ seen[r] = <<>> /\ delivered[r] = <<>>
          /\ journal = <<>>
      BY DEF Init
    <2>2. Len(<<>>) = 0
      BY EmptySeq
    <2> QED
      BY <2>1, <2>2 DEF Informed
  <1>2. FullInv /\ [Next]_vars => FullInv'
    <2> SUFFICES ASSUME FullInv, [Next]_vars PROVE FullInv'
      OBVIOUS
    <2>0. IInv /\ \A r \in Readers : Informed(r)
      BY DEF FullInv
    <2>1. CASE \E p \in Procs : \/ \E a \in Actions \cup {None} : Begin(p, a)
                                \/ Step(p) \/ WritePartly(p) \/ Abandon(p)
      BY <2>0, <2>1, CallIInv, CallInformed DEF FullInv
    <2>2. CASE \E r \in Readers : Reading(r)
      BY <2>0, <2>2, ReadingIInv DEF FullInv
    <2>3. CASE PowerLoss
      BY <2>0, <2>3, PowerLossIInv DEF FullInv
    <2>4. CASE UNCHANGED vars
      <3>1. TypeOK' /\ \A p \in Procs : Knows(p)'
        BY <2>0, <2>4, SameJournal DEF IInv, vars, TypeOK, Knows
      <3>2. Nested' /\ Kept' /\ AppliedOnce'
        BY <2>0, <2>4, SameJournal DEF IInv, vars
      <3>3. \A r \in Readers : Informed(r)'
        BY <2>0, <2>4 DEF Informed, vars
      <3> QED
        BY <3>1, <3>2, <3>3 DEF FullInv, IInv
    <2> QED
      BY <2>1, <2>2, <2>3, <2>4 DEF Next, Reading
  <1> QED
    BY <1>1, <1>2, PTL DEF Spec

\* Type correctness of the journal model, and mutual exclusion of calls.
THEOREM JournalTypes == Spec => []TypeOK
  <1>1. FullInv => TypeOK
    BY DEF FullInv, IInv
  <1> QED
    BY <1>1, JournalInvariance, PTL

\* recover_locked and recover_records never refuse the provider's own journal.
THEOREM NeverLockedOut == Spec => []ChainIntact
  <1>1. FullInv => ChainIntact
    BY NestedChained DEF FullInv, IInv, ChainIntact
  <1> QED
    BY <1>1, JournalInvariance, PTL

\* mutate always works on the state of the last complete record, whichever of
\* its two recovery paths it took.
THEOREM MutationsStartFromTheLog == Spec => []StartsFromTheLog
  <1>1. FullInv => StartsFromTheLog
    BY DEF FullInv, IInv, Knows, Inside, StartsFromTheLog
  <1> QED
    BY <1>1, JournalInvariance, PTL

\* The receipt probe of mutate makes an action take effect once.
THEOREM ExactlyOnce == Spec => []AppliedOnce
  <1>1. FullInv => AppliedOnce
    BY DEF FullInv, IInv
  <1> QED
    BY <1>1, JournalInvariance, PTL

\* What append_and_snapshot confirmed survives every crash and power loss.
THEOREM ConfirmedAreDurable == Spec => []ConfirmedSurvive
  <1>1. FullInv => ConfirmedSurvive
    <2> SUFFICES ASSUME FullInv PROVE ConfirmedSurvive
      OBVIOUS
    <2>1. TypeOK /\ Kept /\ Nested
      BY DEF FullInv, IInv
    <2>2. synced \in synced .. Len(journal)
      BY <2>1, LogType DEF TypeOK
    <2> QED
      BY <2>1, <2>2 DEF Kept, ConfirmedSurvive
  <1> QED
    BY <1>1, JournalInvariance, PTL

\* query_cancellable misses no action confirmed before it began.
THEOREM QueriesAreFresh == Spec => []QueriesSeeConfirmed
  <1>1. FullInv => QueriesSeeConfirmed
    BY DEF FullInv, Informed, QueriesSeeConfirmed
  <1> QED
    BY <1>1, JournalInvariance, PTL

\* The pages of watch add up to the journal.
THEOREM WatchesAreGapless == Spec => []WatchGapless
  <1>1. FullInv => WatchGapless
    <2> SUFFICES ASSUME FullInv, NEW r \in Readers
                 PROVE  /\ Len(delivered[r]) <= Len(journal)
                        /\ delivered[r] = SubSeq(journal, 1, Len(delivered[r]))
      BY DEF WatchGapless
    <2> DEFINE d == delivered[r]
    <2>1. /\ Nested /\ d \in Seq(Seq(Actions)) /\ Len(d) \in Nat /\ Len(journal) \in Nat
          /\ Len(d) <= Len(journal) /\ \A k \in 1 .. Len(d) : d[k] = journal[k]
      BY LogType, LenProperties DEF FullInv, IInv, TypeOK, Informed
    <2> HIDE DEF d
    <2>2. \A i \in 1 .. Len(d) : journal[i] \in Seq(Actions)
      BY <2>1, ElementOfSeq DEF Nested
    <2>3. /\ SubSeq(journal, 1, Len(d)) \in Seq(Seq(Actions))
          /\ Len(SubSeq(journal, 1, Len(d))) = IF 1 <= Len(d) THEN Len(d) - 1 + 1 ELSE 0
          /\ \A i \in 1 .. Len(d) - 1 + 1 :
                SubSeq(journal, 1, Len(d))[i] = journal[1 + i - 1]
      BY <2>1, <2>2, SubSeqProperties
    <2>4. /\ Len(SubSeq(journal, 1, Len(d))) = Len(d)
          /\ \A i \in 1 .. Len(d) : SubSeq(journal, 1, Len(d))[i] = d[i]
      BY <2>1, <2>3
    <2>5. d = SubSeq(journal, 1, Len(d))
      BY <2>1, <2>3, <2>4, SeqEqual
    <2> QED
      BY <2>1, <2>5 DEF d
  <1> QED
    BY <1>1, JournalInvariance, PTL

\* Queries and watches together, which is what a client of the store relies on.
THEOREM ReadersAreServed == Spec => []ReadersSeeTheLog
  BY QueriesAreFresh, WatchesAreGapless, PTL DEF ReadersSeeTheLog

\* Between power losses the answers of query_cancellable to one reader only grow.
THEOREM QueriesNeverGoBack == Spec => ReadsNeverGoBack
  <1>1. FullInv /\ [Next]_vars => [ReadersAdvance]_vars
    <2> SUFFICES ASSUME FullInv, Next PROVE ReadersAdvance
      OBVIOUS
    <2>0. IInv /\ Nested /\ TypeOK /\ \A r \in Readers : Informed(r)
      BY DEF FullInv, IInv
    <2>1. ASSUME NEW r \in Readers, seen'[r] = seen[r] PROVE ReaderAdvances(r)
      <3>1. seen[r] \in Seq(Actions) /\ Len(seen[r]) \in Nat
        BY <2>0, LenProperties DEF TypeOK
      <3>2. SubSeq(seen[r], 1, Len(seen[r])) = seen[r]
        BY <3>1, SubSeqFull
      <3> QED
        BY <2>1, <3>1, <3>2 DEF ReaderAdvances
    <2>2. ASSUME NEW r \in Readers, seen'[r] = Log PROVE ReaderAdvances(r)
      <3> DEFINE h == seen[r]
      <3>1. /\ h \in Seq(Actions) /\ Len(h) \in Nat /\ Len(h) \in 0 .. Len(journal)
            /\ \A k \in 1 .. Len(h) : h[k] = journal[k][k]
        BY <2>0, LogType, LenProperties DEF TypeOK, Informed
      <3>2. /\ Log \in Seq(Actions) /\ Len(Log) = Len(journal) /\ Len(journal) \in Nat
            /\ \A k \in 1 .. Len(journal) : Log[k] = journal[k][k]
        BY <2>0, LogType
      <3> HIDE DEF h
      <3>3. \A k \in 1 .. Len(h) : Log[k] \in Actions /\ Log[k] = h[k]
        <4> TAKE k \in 1 .. Len(h)
        <4>1. k \in 1 .. Len(Log) /\ k \in 1 .. Len(journal)
          BY <3>1, <3>2
        <4> QED
          BY <3>1, <3>2, <4>1, ElementOfSeq
      <3>4. /\ SubSeq(Log, 1, Len(h)) \in Seq(Actions)
            /\ Len(SubSeq(Log, 1, Len(h))) = IF 1 <= Len(h) THEN Len(h) - 1 + 1 ELSE 0
            /\ \A i \in 1 .. Len(h) - 1 + 1 : SubSeq(Log, 1, Len(h))[i] = Log[1 + i - 1]
        BY <3>1, <3>3, SubSeqProperties
      <3>5. /\ Len(SubSeq(Log, 1, Len(h))) = Len(h)
            /\ \A i \in 1 .. Len(h) : SubSeq(Log, 1, Len(h))[i] = h[i]
        BY <3>1, <3>3, <3>4
      <3>6. h = SubSeq(Log, 1, Len(h))
        BY <3>1, <3>4, <3>5, SeqEqual
      <3>7. Len(h) <= Len(Log)
        BY <3>1, <3>2
      <3> QED
        BY <2>2, <3>6, <3>7 DEF h, ReaderAdvances
    <2>3. ASSUME NEW p \in Procs,
                 \/ \E a \in Actions \cup {None} : Begin(p, a)
                 \/ Step(p) \/ WritePartly(p) \/ Abandon(p)
          PROVE  ReadersAdvance
      <3>1. UNCHANGED seen
        BY <2>0, <2>3, CallGrows DEF readers
      <3> QED
        BY <2>1, <3>1 DEF ReadersAdvance
    <2>4. ASSUME NEW r \in Readers, Reading(r) PROVE ReadersAdvance
      <3>1. /\ seen'[r] = seen[r] \/ seen'[r] = Log
            /\ \A x \in Readers : x # r => seen'[x] = seen[x]
        BY <2>0, <2>4, ReadingIInv
      <3> QED
        BY <2>1, <2>2, <3>1 DEF ReadersAdvance
    <2>5. CASE PowerLoss
      <3>1. powerLosses' = powerLosses + 1 /\ powerLosses \in Nat
        BY <2>0, <2>5, PowerLossIInv DEF TypeOK
      <3> QED
        BY <3>1 DEF ReadersAdvance
    <2> QED
      BY <2>3, <2>4, <2>5 DEF Next, Reading
  <1> QED
    BY <1>1, JournalInvariance, PTL DEF Spec, ReadsNeverGoBack

\* Files, locks, crashes and recovery implement one growing log that keeps every
\* confirmed action.
THEOREM JournalRefinement == Spec => ImplementsDurableLog
  <1>1. Init => Abstract!Init
    BY EmptySeq DEF Init, Abstract!Init, Log, LineAt
  <1>2. FullInv /\ [Next]_vars => [Abstract!Next]_(Abstract!vars)
    <2> SUFFICES ASSUME FullInv, [Next]_vars PROVE [Abstract!Next]_(Abstract!vars)
      OBVIOUS
    <2>0. IInv /\ Nested /\ \A r \in Readers : Informed(r)
      BY DEF FullInv, IInv
    <2>a. \A h : Abstract!Applied(h) = Applied(h)
      BY DEF Abstract!Applied, Applied
    <2>1. ASSUME NEW p \in Procs,
                 \/ \E a \in Actions \cup {None} : Begin(p, a)
                 \/ Step(p) \/ WritePartly(p) \/ Abandon(p)
          PROVE  [Abstract!Next]_(Abstract!vars)
      <3>1. CASE \E a \in Actions : /\ a \notin Applied(Log)
                                    /\ journal' = Append(journal, Append(Log, a))
                                    /\ UNCHANGED confirmed
        <4> PICK a \in Actions : /\ a \notin Applied(Log)
                                 /\ journal' = Append(journal, Append(Log, a))
                                 /\ UNCHANGED confirmed
          BY <3>1
        <4>1. Log' = Append(Log, a)
          BY <2>0, NestedAppend
        <4>2. Abstract!CommitAction(a)
          BY <2>a, <4>1 DEF Abstract!CommitAction
        <4> QED
          BY <4>2 DEF Abstract!Next
      <3>2. CASE UNCHANGED journal /\ UNCHANGED confirmed
        BY <3>2, SameJournal DEF Abstract!vars
      <3>3. CASE /\ UNCHANGED journal
                 /\ \E a \in Actions : a \in Applied(Log) /\ confirmed' = confirmed \cup {a}
        <4> PICK a \in Actions : a \in Applied(Log) /\ confirmed' = confirmed \cup {a}
          BY <3>3
        <4>1. Log' = Log
          BY <3>3, SameJournal
        <4>2. Abstract!Confirm(a)
          BY <2>a, <4>1 DEF Abstract!Confirm
        <4> QED
          BY <4>2 DEF Abstract!Next
      <3> QED
        BY <2>0, <2>1, <3>1, <3>2, <3>3, CallGrows
    <2>2. CASE \E r \in Readers : Reading(r)
      <3>1. UNCHANGED <<journal, confirmed>>
        BY <2>0, <2>2, ReadingIInv
      <3> QED
        BY <3>1, SameJournal DEF Abstract!vars
    <2>3. CASE PowerLoss
      <3>1. UNCHANGED confirmed
        BY <2>0, <2>3, PowerLossIInv
      <3>2. PICK n \in 0 .. Len(Log) : /\ Log' = SubSeq(Log, 1, n)
                                       /\ confirmed \subseteq Applied(SubSeq(Log, 1, n))
        BY <2>0, <2>3, PowerLossIInv
      <3>3. Abstract!CutBack(n)
        BY <2>a, <3>1, <3>2 DEF Abstract!CutBack
      <3> QED
        BY <3>2, <3>3 DEF Abstract!Next
    <2>4. CASE UNCHANGED vars
      BY <2>4, SameJournal DEF Abstract!vars, vars
    <2> QED
      BY <2>1, <2>2, <2>3, <2>4 DEF Next, Reading
  <1> QED
    BY <1>1, <1>2, JournalInvariance, PTL DEF Spec, ImplementsDurableLog, Abstract!Spec
=============================================================================
