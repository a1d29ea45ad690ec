----------------------- MODULE ReleaseRotation_proofs -----------------------
(***************************************************************************)
(* Proofs about the release rotation: OneStory and BoundariesAreTrue for   *)
(* every number of sessions, rotations, frames, binds, restarts and faults. *)
(***************************************************************************)
EXTENDS ReleaseRotation, TLAPS

SessionsOrNone == Sessions \cup {None}
Occupancy == [who : SessionsOrNone, epoch : Nat]
Reasons == {"none", "external_step_failed", "restart_external_outcome_unknown",
            "restart_between_boundaries"}
Record == [st : {"none", "running", "blocked", "complete"}, bd : 0 .. 7, pend : BOOLEAN,
           reason : Reasons, dir : SessionsOrNone, pred : SessionsOrNone, epoch : Nat,
           tmpl : Nat, succ : SessionsOrNone, thread : SessionsOrNone, succEpoch : Nat]
Call == [pc : {"idle", "begin", "boundary", "external", "starting", "landed", "failed", "correct"},
         a : Rotations \cup {None}, rec : Record, req : Request \cup {NoRequest},
         succ : SessionsOrNone, thread : SessionsOrNone]
Session == [st : {"active", "retired", "absent"}, tmpl : Nat, thread : BOOLEAN, claim : BOOLEAN,
            runtime : BOOLEAN, online : BOOLEAN]

-----------------------------------------------------------------------------
(* The inductive invariant.                                                 *)

Types ==
    /\ occ \in [director : Occupancy, release : Occupancy]
    /\ vacancy \in [a : Rotations \cup {None}, pred : SessionsOrNone, epoch : Nat]
    /\ active \in Rotations \cup {None}
    /\ rot \in [Rotations -> Record]
    /\ sess \in [Sessions -> Session]
    /\ got \in [Rotations -> Nat]
    /\ frame \in [Frames -> Call]

Begun(a) == rot[a].st # "none"

\* What the fields of one record say of each other: a step is pending only at
\* a boundary that has one, and an external failure clears what was pending.
RecordsAgree ==
    \A a \in Rotations :
        /\ rot[a].st = "none" => rot[a] = NoRotation
        /\ Begun(a) => rot[a].pred \in Sessions
        /\ rot[a].st = "complete" <=> rot[a].bd = DirectorMessageDelivered
        /\ rot[a].pend => rot[a].bd \notin {SuccessorRuntimeOnline, DirectorMessageDelivered}
        /\ rot[a].pend => rot[a].reason # "external_step_failed"
        /\ rot[a].bd >= SuccessorSessionCreated => rot[a].succ \in Sessions

\* The copy of the record a frame works on may be old, but only older: its
\* rotation has begun, is at least as far, and has kept what the copy knows.
CopyIsOld(c) ==
    /\ c.a \in Rotations /\ Begun(c.a) /\ c.rec.st # "none"
    /\ c.rec.pred = rot[c.a].pred /\ c.rec.tmpl = rot[c.a].tmpl
    /\ c.rec.bd <= rot[c.a].bd
    /\ c.rec.bd >= SuccessorSessionCreated => c.rec.succ = rot[c.a].succ

Underway(c) == c.pc \notin {"idle", "begin"}

CopyOK(c) ==
    /\ c.pc = "begin" => c.a \in Rotations /\ c.req \in Request
    /\ Underway(c) => CopyIsOld(c)
    /\ c.pc \in {"begin", "boundary", "external", "starting"} => c.succ = None /\ c.thread = None
    /\ c.pc \in {"external", "landed"} =>
            c.rec.bd \notin {SuccessorRuntimeOnline, DirectorMessageDelivered}
    /\ c.pc = "starting" => c.rec.bd = SuccessorSessionCreated

\* What a frame is about to write into the record is true of the world: the
\* report of an external step, or a correction the operator named.
HasThread(c) == c.thread = c.rec.succ /\ sess[c.rec.succ].thread
IsMade(c) == /\ c.succ \in Sessions /\ c.succ # c.rec.pred
             /\ sess[c.succ].st # "absent" /\ sess[c.succ].tmpl = c.rec.tmpl
ReportOK(c) ==
    /\ c.pc = "landed" =>
         /\ c.succ # None <=> c.rec.bd = PredecessorRetired
         /\ c.thread # None <=> c.rec.bd = SuccessorSessionCreated
         /\ c.rec.bd = PredecessorOfflined => sess[c.rec.pred].st = "retired"
         /\ c.rec.bd = SuccessorBound => got[c.a] > 0
    /\ c.pc \in {"landed", "correct"} =>
         /\ c.succ # None => c.rec.bd = PredecessorRetired /\ IsMade(c)
         /\ c.thread # None => c.rec.bd = SuccessorSessionCreated /\ HasThread(c)

\* No successor that is still to be written down is, or was, the predecessor
\* of a rotation; a recorded one that became a predecessor has its thread.
NewOK(c) ==
    c.pc \in {"landed", "correct"} /\ c.succ # None /\ rot[c.a].bd = PredecessorRetired
        => \A b \in Rotations : Begun(b) => rot[b].pred # c.succ
Heirs ==
    \A a, b \in Rotations :
        rot[a].bd >= SuccessorSessionCreated /\ Begun(b) /\ rot[b].pred = rot[a].succ
            => sess[rot[a].succ].thread

\* A retired session is down, and no thread start will bring it up.
Dead == \A s \in Sessions : sess[s].st = "retired" => ~sess[s].runtime
StartOK(c) ==
    c.pc = "starting" /\ sess[c.rec.succ].st = "retired" => sess[c.rec.succ].thread

CallOK(c) == CopyOK(c) /\ ReportOK(c) /\ NewOK(c) /\ StartOK(c)
Calls == \A f \in Frames : CallOK(frame[f])

IInv == /\ Types /\ RecordsAgree /\ Calls /\ Heirs /\ Dead
        /\ OneStory /\ BoundariesAreTrue

-----------------------------------------------------------------------------
(* Steps and what they never undo.                                          *)

\* Records only move on.
Onward ==
    \A a \in Rotations : Begun(a) =>
        /\ Begun(a)'
        /\ rot'[a].pred = rot[a].pred /\ rot'[a].tmpl = rot[a].tmpl
        /\ rot[a].bd <= rot'[a].bd
        /\ rot[a].bd >= SuccessorSessionCreated => rot'[a].succ = rot[a].succ

\* A rotation begins only when none is active.
BeginsAlone == active # None => \A a \in Rotations : Begun(a)' => Begun(a)

\* Sessions stay, and keep their template and thread; the only sessions that
\* retire are predecessors.
Lasting ==
    /\ \A s \in Sessions :
        /\ sess[s].st # "absent" => sess'[s].st # "absent" /\ sess'[s].tmpl = sess[s].tmpl
        /\ sess[s].thread => sess'[s].thread
        /\ sess[s].st = "retired" => sess'[s].st = "retired"
        /\ sess'[s].st = "retired" => \/ sess[s].st = "retired"
                                      \/ \E b \in Rotations : Begun(b) /\ rot[b].pred = s
    /\ \A a \in Rotations : got'[a] >= got[a]

\* The fields of the records, the sessions and the calls, one by one.
RecordFields(r) ==
    /\ r.st \in {"none", "running", "blocked", "complete"} /\ r.bd \in 0 .. 7
    /\ r.pend \in BOOLEAN /\ r.reason \in Reasons
    /\ r.dir \in SessionsOrNone /\ r.pred \in SessionsOrNone /\ r.epoch \in Nat /\ r.tmpl \in Nat
    /\ r.succ \in SessionsOrNone /\ r.thread \in SessionsOrNone /\ r.succEpoch \in Nat
CallFields(c) ==
    /\ c.a \in Rotations \cup {None} /\ c.succ \in SessionsOrNone /\ c.thread \in SessionsOrNone
    /\ c.rec \in Record /\ RecordFields(c.rec)
LEMMA Fields == /\ \A r \in Record : RecordFields(r)
                /\ \A c \in Call : CallFields(c)
<1>1. \A r \in Record : RecordFields(r)
  BY DEF Record, RecordFields
<1> QED BY <1>1 DEF Call, CallFields

\* What a frame holds stays true while others act.
LEMMA OthersKeep ==
    ASSUME IInv, Types', Onward, BeginsAlone, Lasting,
           NEW g \in Frames, frame'[g] = frame[g]
    PROVE  CallOK(frame[g])'
<1> DEFINE c == frame[g]
<1>0. CallFields(c) /\ c' = c
  BY Fields DEF IInv, Types
<1>r. \A a \in Rotations : RecordFields(rot[a]) /\ RecordFields(rot'[a])
  BY Fields DEF IInv, Types
<1>1. CallOK(c)
  BY DEF IInv, Calls
<1>2. CopyOK(c)'
  <2>1. CASE Underway(c)
    <3>1. c.a \in Rotations /\ Begun(c.a) /\ c.rec.bd \in 0 .. 7 /\ rot[c.a].bd \in 0 .. 7
          /\ rot'[c.a].bd \in 0 .. 7
      BY <1>0, <1>1, <1>r, <2>1 DEF CallOK, CopyOK, CopyIsOld, CallFields, RecordFields
    <3>2. CopyIsOld(c)'
      BY <1>0, <1>1, <2>1, <3>1 DEF CallOK, CopyOK, CopyIsOld, Onward, SuccessorSessionCreated
    <3> QED BY <1>0, <1>1, <2>1, <3>2 DEF CallOK, CopyOK, Underway
  <2>2. CASE ~Underway(c)
    BY <1>0, <1>1, <2>2 DEF CallOK, CopyOK, Underway
  <2> QED BY <2>1, <2>2
<1>3. c.pc \in {"landed", "correct", "starting"} => c.a \in Rotations /\ c.rec.pred \in Sessions
        /\ (c.rec.bd >= SuccessorSessionCreated => c.rec.succ \in Sessions)
  <2> SUFFICES ASSUME c.pc \in {"landed", "correct", "starting"}
               PROVE  c.a \in Rotations /\ c.rec.pred \in Sessions
                      /\ (c.rec.bd >= SuccessorSessionCreated => c.rec.succ \in Sessions)
    OBVIOUS
  <2>1. CopyIsOld(c)
    BY <1>1 DEF CallOK, CopyOK, Underway
  <2>2. c.rec.bd \in 0 .. 7 /\ rot[c.a].bd \in 0 .. 7
    BY <1>0, <1>r, <2>1 DEF CallFields, RecordFields, CopyIsOld
  <2> QED BY <2>1, <2>2 DEF CopyIsOld, IInv, RecordsAgree, SuccessorSessionCreated
<1>4. ReportOK(c)'
  BY <1>0, <1>1, <1>3 DEF CallOK, ReportOK, Lasting, IsMade, HasThread, IInv, Types,
     SuccessorSessionCreated, PredecessorRetired, PredecessorOfflined, SuccessorBound, Session
<1>5. NewOK(c)'
  <2> SUFFICES ASSUME c.pc \in {"landed", "correct"}, c.succ # None,
                      rot'[c.a].bd = PredecessorRetired,
                      NEW b \in Rotations, Begun(b)'
               PROVE  rot'[b].pred # c.succ
    BY <1>0 DEF NewOK
  <2>1. c.a \in Rotations /\ Begun(c.a) /\ c.rec.bd = PredecessorRetired /\ c.rec.bd <= rot[c.a].bd
    BY <1>1 DEF CallOK, CopyOK, CopyIsOld, Underway, ReportOK
  <2>2. rot[c.a].bd = PredecessorRetired
    BY <1>r, <2>1 DEF Onward, RecordFields, PredecessorRetired
  <2>3. active # None
    <3>1. rot[c.a].st \in {"running", "blocked"}
      BY <1>r, <2>1, <2>2 DEF IInv, RecordsAgree, RecordFields, Begun,
         PredecessorRetired, DirectorMessageDelivered
    <3> QED BY <2>1, <3>1, SessionsAssumption DEF IInv, OneStory
  <2>4. Begun(b) /\ rot'[b].pred = rot[b].pred
    BY <2>3 DEF BeginsAlone, Onward
  <2> QED BY <2>2, <2>4, <1>1 DEF CallOK, NewOK
<1>6. StartOK(c)'
  <2> SUFFICES ASSUME c.pc = "starting", sess'[c.rec.succ].st = "retired"
               PROVE  sess'[c.rec.succ].thread
    BY <1>0 DEF StartOK
  <2>1. c.a \in Rotations /\ c.rec.bd = SuccessorSessionCreated /\ c.rec.succ = rot[c.a].succ
        /\ rot[c.a].bd >= SuccessorSessionCreated /\ c.rec.succ \in Sessions
    BY <1>0, <1>1, <1>3 DEF CallOK, CopyOK, CopyIsOld, Underway, IInv, Types, Record,
       SuccessorSessionCreated
  <2>2. CASE sess[c.rec.succ].st = "retired"
    BY <1>1, <2>1, <2>2 DEF CallOK, StartOK, Lasting
  <2>3. CASE \E b \in Rotations : Begun(b) /\ rot[b].pred = c.rec.succ
    BY <2>1, <2>3 DEF IInv, Heirs, Lasting
  <2> QED BY <2>1, <2>2, <2>3 DEF Lasting
<1> QED BY <1>2, <1>4, <1>5, <1>6 DEF CallOK

\* A step that leaves the seat store alone.
LEMMA WorldStep ==
    ASSUME IInv, Types', UNCHANGED store, Lasting, Dead',
           \A g \in Frames : frame'[g] = frame[g] \/ CallOK(frame[g])'
    PROVE  IInv' /\ Onward
<1>0. rot' = rot /\ active' = active /\ vacancy' = vacancy /\ occ' = occ
  BY DEF store
<1>1. Onward /\ BeginsAlone
  BY <1>0 DEF Onward, BeginsAlone, Begun, IInv, Types, Record
<1>2. Calls'
  BY <1>1, OthersKeep DEF Calls
<1>3. RecordsAgree'
  BY <1>0 DEF IInv, RecordsAgree, Begun
<1>4. OneStory'
  BY <1>0 DEF IInv, OneStory
<1>5. Heirs'
  BY <1>0 DEF IInv, Heirs, Lasting, RecordsAgree, Begun
<1>6. BoundariesAreTrue'
  <2> SUFFICES ASSUME NEW a \in Rotations
               PROVE  LET r == rot[a]
                      IN  /\ r.bd >= PredecessorRetired =>
                                sess'[r.pred].st = "retired" /\ ~sess'[r.pred].runtime
                          /\ r.bd >= SuccessorSessionCreated =>
                                r.succ # r.pred /\ sess'[r.succ].st # "absent" /\ sess'[r.succ].tmpl = r.tmpl
                          /\ r.bd >= SuccessorThreadStarted => r.thread = r.succ /\ sess'[r.succ].thread
                          /\ r.st = "complete" => got'[a] > 0
    BY <1>0 DEF BoundariesAreTrue
  <2>1. rot[a].bd >= PredecessorRetired => rot[a].pred \in Sessions
    BY DEF IInv, RecordsAgree, Begun, NoRotation, PredecessorRetired, SeatRevoked
  <2>2. rot[a].bd >= SuccessorSessionCreated => rot[a].succ \in Sessions
    BY DEF IInv, RecordsAgree
  <2>3. rot[a].bd >= SuccessorThreadStarted => rot[a].bd >= SuccessorSessionCreated
    <3>1. rot[a] \in Record
      BY DEF IInv, Types
    <3>2. rot[a].bd \in 0 .. 7
      BY <3>1 DEF Record
    <3> QED BY <3>2 DEF SuccessorThreadStarted, SuccessorSessionCreated
  <2>4. got'[a] \in Nat /\ got[a] \in Nat /\ got'[a] >= got[a]
    BY DEF Lasting, IInv, Types
  <2> QED BY <2>1, <2>2, <2>3, <2>4 DEF IInv, BoundariesAreTrue, Lasting, Dead
<1> QED BY <1>1, <1>2, <1>3, <1>4, <1>5, <1>6 DEF IInv

\* A step that leaves the world alone.
LEMMA StoreStep ==
    ASSUME IInv, Types', UNCHANGED world, Onward, BeginsAlone, RecordsAgree', Heirs',
           OneStory', BoundariesAreTrue',
           \A g \in Frames : frame'[g] = frame[g] \/ CallOK(frame[g])'
    PROVE  IInv' /\ Onward
<1>1. Lasting
  BY DEF Lasting, world, IInv, Types
<1>2. Dead'
  BY DEF IInv, Dead, world
<1>3. Calls'
  BY <1>1, OthersKeep DEF Calls
<1> QED BY <1>2, <1>3 DEF IInv

-----------------------------------------------------------------------------
(* The calls that end, and those that fail.                                 *)

LEMMA IdleIsCall == Idle \in Call /\ NoRotation \in Record /\ Idle.pc = "idle"
<1>1. NoRotation \in Record
  BY DEF NoRotation, Record, SessionsOrNone, Reasons, SeatRevoked
<1> QED BY <1>1 DEF Idle, Call, SessionsOrNone

LEMMA AnswerOK ==
    ASSUME Types, NEW f \in Frames, Answer(f)
    PROVE  /\ frame' \in [Frames -> Call]
           /\ CallOK(frame[f])'
           /\ \A g \in Frames \ {f} : frame'[g] = frame[g]
<1>1. frame' \in [Frames -> Call] /\ frame'[f] = Idle /\ \A g \in Frames \ {f} : frame'[g] = frame[g]
  BY IdleIsCall DEF Answer, Types
<1>2. frame'[f].pc = "idle"
  BY <1>1, IdleIsCall
<1>3. CallOK(frame[f])'
  BY <1>2 DEF CallOK, CopyOK, ReportOK, NewOK, StartOK, Underway
<1> QED BY <1>1, <1>3

Failing(f) == frame' = [frame EXCEPT ![f].pc = "failed"]
LEMMA FailOK ==
    ASSUME IInv, NEW f \in Frames, Underway(frame[f]), rot' = rot, Failing(f)
    PROVE  /\ frame' \in [Frames -> Call]
           /\ CallOK(frame[f])'
           /\ \A g \in Frames \ {f} : frame'[g] = frame[g]
<1>1. /\ frame' \in [Frames -> Call]
      /\ frame'[f].pc = "failed" /\ frame'[f].a = frame[f].a /\ frame'[f].rec = frame[f].rec
      /\ \A g \in Frames \ {f} : frame'[g] = frame[g]
  BY DEF IInv, Types, Call, Failing
<1>2. CopyIsOld(frame[f])
  BY DEF IInv, Calls, CallOK, CopyOK
<1>3. CopyIsOld(frame[f])'
  BY <1>1, <1>2 DEF CopyIsOld, Begun
<1>4. CallOK(frame[f])'
  BY <1>1, <1>3 DEF CallOK, CopyOK, ReportOK, NewOK, StartOK
<1> QED BY <1>1, <1>4

\* Steps that only end a call or make it fail.
LEMMA FrameStep ==
    ASSUME IInv, UNCHANGED <<store, world>>, NEW f \in Frames,
           Answer(f) \/ (Underway(frame[f]) /\ Failing(f))
    PROVE  IInv' /\ Onward
<1>1. /\ frame' \in [Frames -> Call]
      /\ \A g \in Frames : frame'[g] = frame[g] \/ CallOK(frame[g])'
  BY AnswerOK, FailOK DEF IInv, store
<1>2. Types'
  BY <1>1 DEF IInv, Types, store, world
<1>3. Lasting /\ Dead'
  BY DEF Lasting, world, IInv, Types, Dead
<1> QED BY <1>1, <1>2, <1>3, WorldStep

LEMMA FrameActions ==
    ASSUME IInv, NEW f \in Frames,
           Finished(f) \/ ThreadUnreadable(f) \/ StepFails(f) \/ StoreFails(f)
    PROVE  IInv' /\ Onward
<1>1. CASE Finished(f)
  BY <1>1, FrameStep DEF Finished
<1>2. CASE ThreadUnreadable(f)
  BY <1>2, FrameStep DEF ThreadUnreadable, Failing, Underway
<1>3. CASE StepFails(f)
  BY <1>3, FrameStep DEF StepFails, Failing, Underway
<1>4. CASE StoreFails(f)
  BY <1>4, FrameStep DEF StoreFails
<1> QED BY <1>1, <1>2, <1>3, <1>4

LEMMA RequestStep ==
    ASSUME IInv, NEW f \in Frames, NEW a \in Rotations, NEW req \in Request,
           RequestDirector(f, a, req)
    PROVE  IInv' /\ Onward
<1>1. /\ frame' \in [Frames -> Call]
      /\ frame'[f].pc = "begin" /\ frame'[f].a = a /\ frame'[f].req = req
      /\ frame'[f].succ = None /\ frame'[f].thread = None
      /\ \A g \in Frames \ {f} : frame'[g] = frame[g]
  BY IdleIsCall DEF RequestDirector, IInv, Types, Call, Idle
<1>2. CallOK(frame[f])'
  BY <1>1 DEF CallOK, CopyOK, ReportOK, NewOK, StartOK, Underway
<1>3. Types'
  BY <1>1 DEF IInv, Types, store, world, RequestDirector
<1>4. Lasting /\ Dead'
  BY DEF Lasting, world, IInv, Types, Dead, RequestDirector
<1>5. UNCHANGED store
  BY DEF RequestDirector
<1> QED BY <1>1, <1>2, <1>3, <1>4, <1>5, WorldStep

\* While one rotation is active, the others have retired their predecessors
\* and given their successors a thread.
LEMMA OthersComplete ==
    ASSUME IInv, NEW a \in Rotations, rot[a].st \in {"running", "blocked"},
           NEW b \in Rotations, Begun(b), b # a
    PROVE  /\ rot[b].st = "complete" /\ rot[b].bd = 7
           /\ rot[b].pred \in Sessions /\ sess[rot[b].pred].st = "retired"
           /\ rot[b].succ \in Sessions /\ sess[rot[b].succ].thread
<1>1. rot[b].st = "complete"
  <2>1. rot[b].st \in {"none", "running", "blocked", "complete"}
    BY Fields DEF IInv, Types, RecordFields
  <2> QED BY <2>1 DEF IInv, OneStory, Begun
<1>2. rot[b].bd = 7
  BY <1>1 DEF IInv, RecordsAgree, DirectorMessageDelivered
<1>3. rot[b].pred \in Sessions /\ rot[b].succ \in Sessions
  BY <1>2 DEF IInv, RecordsAgree, SuccessorSessionCreated
<1>4. sess[rot[b].pred].st = "retired" /\ sess[rot[b].succ].thread
  BY <1>2 DEF IInv, BoundariesAreTrue, PredecessorRetired, SuccessorThreadStarted
<1> QED BY <1>1, <1>2, <1>3, <1>4

LEMMA RetryStep ==
    ASSUME IInv, NEW f \in Frames, NEW a \in Rotations,
           NEW cs \in SessionsOrNone, NEW ct \in SessionsOrNone, RetryRoot(f, a, cs, ct)
    PROVE  IInv' /\ Onward
<1> DEFINE r == rot[a]
<1>0. r.st = "blocked" /\ RecordFields(r)
  BY Fields DEF RetryRoot, IInv, Types
<1>1. /\ cs # None => r.bd = PredecessorRetired /\ IsCleanSuccessor(r, cs)
      /\ ct # None => r.bd = SuccessorSessionCreated /\ IsSuccessorThread(r, ct)
  <2>1. r.pend => r.reason # "external_step_failed"
    BY DEF IInv, RecordsAgree
  <2> QED BY <1>0, <2>1, SMTT(60) DEF RetryRoot, Uncorrected, RecordFields,
       PredecessorRetired, SuccessorSessionCreated
<1>2. /\ frame' \in [Frames -> Call]
      /\ frame'[f].pc = "correct" /\ frame'[f].a = a /\ frame'[f].rec = r
      /\ frame'[f].succ = cs /\ frame'[f].thread = ct
      /\ \A g \in Frames \ {f} : frame'[g] = frame[g]
  <2>1. r \in Record
    BY DEF IInv, Types
  <2> HIDE DEF r
  <2>2. frame' = [frame EXCEPT ![f] =
                [Idle EXCEPT !.pc = "correct", !.a = a, !.rec = r, !.succ = cs, !.thread = ct]]
    BY DEF RetryRoot, r
  <2> QED BY <2>1, <2>2, IdleIsCall DEF IInv, Types, Call, Idle
<1>3. UNCHANGED <<store, world>> /\ rot' = rot /\ sess' = sess
  BY DEF RetryRoot, store, world
<1>4. CopyOK(frame[f])'
  BY <1>0, <1>2, <1>3 DEF CopyOK, CopyIsOld, Underway, Begun, RecordFields
<1>5. ReportOK(frame[f])'
  <2>1. cs # None => cs \in Sessions
    BY DEF SessionsOrNone
  <2> QED BY <1>1, <1>2, <1>3, <2>1 DEF ReportOK, IsMade, HasThread, IsCleanSuccessor, IsSuccessorThread
<1>6. NewOK(frame[f])'
  <2> SUFFICES ASSUME cs # None, NEW b \in Rotations, Begun(b)
               PROVE  rot[b].pred # cs
    BY <1>2, <1>3 DEF NewOK, Begun
  <2>1. sess[cs].st = "active" /\ cs # r.pred
    BY <1>1 DEF IsCleanSuccessor
  <2> QED BY <1>0, <2>1, OthersComplete
<1>7. CallOK(frame[f])'
  BY <1>2, <1>4, <1>5, <1>6 DEF CallOK, StartOK
<1>8. Types'
  BY <1>2, <1>3 DEF IInv, Types, store, world
<1>9. Lasting /\ Dead'
  BY <1>3 DEF Lasting, world, IInv, Types, Dead
<1> QED BY <1>2, <1>3, <1>7, <1>8, <1>9, WorldStep

-----------------------------------------------------------------------------
(* The external steps.                                                      *)

\* What happens to a session's record.
Down(x) == [x EXCEPT !.runtime = FALSE, !.online = FALSE]
Gone(x) == [x EXCEPT !.runtime = FALSE, !.online = FALSE, !.st = "retired"]
Up(x) == [x EXCEPT !.runtime = TRUE, !.online = TRUE]
Threaded(x) == [x EXCEPT !.claim = FALSE, !.thread = TRUE, !.runtime = TRUE]
Claimed(x) == [x EXCEPT !.claim = TRUE]
Unclaimed(x) == [x EXCEPT !.claim = FALSE]
Online(x) == [x EXCEPT !.online = TRUE]
LEMMA SessionUpdates ==
    ASSUME NEW x \in Session
    PROVE  /\ {Down(x), Gone(x), Up(x), Threaded(x), Claimed(x), Unclaimed(x), Online(x)} \subseteq Session
           /\ \A y \in {Down(x), Up(x), Threaded(x), Claimed(x), Unclaimed(x), Online(x)} : y.st = x.st
           /\ \A y \in {Down(x), Gone(x), Up(x), Claimed(x), Unclaimed(x), Online(x)} : y.thread = x.thread
           /\ \A y \in {Down(x), Gone(x), Up(x), Threaded(x), Claimed(x), Unclaimed(x), Online(x)} :
                    y.tmpl = x.tmpl
           /\ Gone(x).st = "retired" /\ ~Gone(x).runtime /\ ~Down(x).runtime /\ Threaded(x).thread
           /\ \A y \in {Claimed(x), Unclaimed(x), Online(x)} : y.runtime = x.runtime
  BY ZenonT(60) DEF Session, Down, Gone, Up, Threaded, Claimed, Unclaimed, Online

LEMMA SetSession ==
    ASSUME IInv, NEW s \in Sessions, NEW x \in Session, sess' = [sess EXCEPT ![s] = x]
    PROVE  /\ sess' \in [Sessions -> Session] /\ sess'[s] = x
           /\ \A t \in Sessions \ {s} : sess'[t] = sess[t]
  BY DEF IInv, Types

\* A session that is not made, retired or given a thread.
LEMMA SmallChange ==
    ASSUME IInv, UNCHANGED <<store, got>>, sess' \in [Sessions -> Session],
           NEW p \in Sessions, \A s \in Sessions \ {p} : sess'[s] = sess[s],
           sess'[p].tmpl = sess[p].tmpl, sess[p].thread => sess'[p].thread,
           \/ sess'[p].st = sess[p].st /\ (sess'[p].runtime => sess[p].runtime \/ sess[p].st = "active")
           \/ /\ sess'[p].st = "retired" /\ ~sess'[p].runtime
              /\ \E b \in Rotations : Begun(b) /\ rot[b].pred = p
    PROVE  Lasting /\ Dead'
<1>1. \A a \in Rotations : got'[a] >= got[a]
  BY DEF IInv, Types
<1>2. Lasting
  BY <1>1 DEF Lasting
<1>3. Dead'
  BY DEF Dead, IInv
<1> QED BY <1>2, <1>3

\* Steps of the sessions with no frame behind them.
LEMMA SessionStep ==
    ASSUME IInv, UNCHANGED <<store, got, frame>>, Lasting, Dead',
           sess' \in [Sessions -> Session]
    PROVE  IInv' /\ Onward
<1>1. Types'
  BY DEF IInv, Types, store
<1> QED BY <1>1, WorldStep

LEMMA SessionActions ==
    ASSUME IInv, NEW s \in Sessions, RuntimeDies(s) \/ BringOnline(s)
    PROVE  IInv' /\ Onward
<1>1. UNCHANGED <<store, got, frame>>
  BY DEF RuntimeDies, BringOnline, store
<1>2. /\ sess' \in [Sessions -> Session]
      /\ sess'[s].tmpl = sess[s].tmpl /\ sess'[s].thread = sess[s].thread
      /\ sess'[s].st = sess[s].st
      /\ sess'[s].runtime => sess[s].st = "active"
      /\ \A t \in Sessions \ {s} : sess'[t] = sess[t]
  <2>0. sess[s] \in Session /\ sess \in [Sessions -> Session]
    BY DEF IInv, Types
  <2>1. CASE RuntimeDies(s)
    <3>1. sess' = [sess EXCEPT ![s] = Down(sess[s])]
      BY <2>0, <2>1 DEF RuntimeDies, Down
    <3> QED BY <2>0, <3>1, SessionUpdates, SetSession
  <2>2. CASE BringOnline(s)
    <3>1. sess' = [sess EXCEPT ![s] = Up(sess[s])] /\ sess[s].st = "active"
      BY <2>0, <2>2 DEF BringOnline, Up
    <3> QED BY <2>0, <3>1, SessionUpdates, SetSession
  <2> QED BY <2>1, <2>2
<1>3. Lasting /\ Dead'
  BY <1>1, <1>2, SmallChange
<1> QED BY <1>1, <1>2, <1>3, SessionStep

LEMMA ProvideThreadStep ==
    ASSUME IInv, NEW a \in Rotations, ProvideThread(a)
    PROVE  IInv' /\ Onward
<1> DEFINE s == rot[a].succ
<1>1. UNCHANGED <<store, got, frame>>
  BY DEF ProvideThread, store
<1>2. s \in Sessions
  BY DEF ProvideThread, IInv, RecordsAgree, SuccessorSessionCreated
<1>3. /\ sess' \in [Sessions -> Session]
      /\ sess'[s].tmpl = sess[s].tmpl /\ sess'[s].thread
      /\ sess'[s].st = sess[s].st /\ sess[s].st = "active"
      /\ \A t \in Sessions \ {s} : sess'[t] = sess[t]
  <2>0. sess[s] \in Session /\ sess \in [Sessions -> Session]
    BY <1>2 DEF IInv, Types
  <2>1. sess[s].st = "active" /\ sess' = [sess EXCEPT ![s] = Threaded(sess[s])]
    BY <1>2, <2>0 DEF ProvideThread, Threaded
  <2> HIDE DEF s
  <2> QED BY <1>2, <2>0, <2>1, SessionUpdates, SetSession
<1>4. Lasting /\ Dead'
  BY <1>1, <1>2, <1>3, SmallChange
<1> QED BY <1>1, <1>3, <1>4, SessionStep

\* A session made where there was none.
LEMMA MakeSession ==
    ASSUME IInv, UNCHANGED <<store, got>>, NEW s \in Sessions, sess[s] = Absent,
           NEW v \in Nat, sess' = [sess EXCEPT ![s] = NewSession(v)]
    PROVE  /\ Lasting /\ Dead' /\ sess' \in [Sessions -> Session]
           /\ sess'[s].st = "active" /\ sess'[s].tmpl = v
<1>1. sess[s].st = "absent" /\ sess[s].thread = FALSE
  BY DEF Absent, NewSession
<1>2. sess' \in [Sessions -> Session] /\ sess'[s].st = "active" /\ sess'[s].tmpl = v
      /\ sess'[s].runtime = FALSE /\ \A t \in Sessions \ {s} : sess'[t] = sess[t]
  BY DEF NewSession, IInv, Types, Session
<1>3. \A a \in Rotations : got'[a] >= got[a]
  BY DEF IInv, Types
<1>4. Lasting
  BY <1>1, <1>2, <1>3 DEF Lasting
<1>5. Dead'
  BY <1>2 DEF Dead, IInv
<1> QED BY <1>2, <1>4, <1>5

LEMMA ProvideSessionStep ==
    ASSUME IInv, NEW a \in Rotations, NEW s \in Sessions, ProvideSession(a, s)
    PROVE  IInv' /\ Onward
<1>1. rot[a].tmpl \in Nat
  BY Fields DEF IInv, Types, RecordFields
<1>2. UNCHANGED <<store, got, frame>> /\ sess[s] = Absent
      /\ sess' = [sess EXCEPT ![s] = NewSession(rot[a].tmpl)]
  BY DEF ProvideSession
<1> QED BY <1>1, <1>2, MakeSession, SessionStep

\* An external step whose report, if it comes, is true.
LEMMA ReportStep ==
    ASSUME IInv, NEW f \in Frames, NEW succ \in SessionsOrNone,
           frame[f].pc = "external", Reported(f, succ, None),
           frame[f].rec.bd # SuccessorSessionCreated,
           succ # None <=> frame[f].rec.bd = PredecessorRetired,
           frame[f].rec.bd = PredecessorOfflined => sess'[frame[f].rec.pred].st = "retired",
           frame[f].rec.bd = SuccessorBound => got'[frame[f].a] > 0,
           succ # None => /\ succ # frame[f].rec.pred
                          /\ sess'[succ].st # "absent" /\ sess'[succ].tmpl = frame[f].rec.tmpl,
           rot[frame[f].a].bd = PredecessorRetired =>
                \A b \in Rotations : Begun(b) => rot[b].pred # succ,
           sess' \in [Sessions -> Session], got' \in [Rotations -> Nat], Lasting, Dead'
    PROVE  IInv' /\ Onward
<1> DEFINE c == frame[f]
<1>1. UNCHANGED store /\ rot' = rot
  BY DEF Reported, store
<1>2. CallOK(c)
  BY DEF IInv, Calls
<1>3. CopyIsOld(c) /\ c.rec.bd \notin {SuccessorRuntimeOnline, DirectorMessageDelivered}
  BY <1>2 DEF CallOK, CopyOK, Underway
<1>4. CASE Failing(f)
  <2>1. /\ frame' \in [Frames -> Call]
        /\ CallOK(frame[f])'
        /\ \A g \in Frames \ {f} : frame'[g] = frame[g]
    BY <1>1, <1>4, FailOK DEF Underway
  <2>2. Types'
    BY <1>1, <2>1 DEF IInv, Types, store
  <2> QED BY <1>1, <2>1, <2>2, WorldStep
<1>5. CASE frame' = [frame EXCEPT ![f].pc = "landed", ![f].succ = succ, ![f].thread = None]
  <2>0. c \in Call
    BY DEF IInv, Types
  <2>1. frame' = [frame EXCEPT ![f] = [c EXCEPT !.pc = "landed", !.succ = succ, !.thread = None]]
    BY <1>5 DEF IInv, Types
  <2>2. LET d == [c EXCEPT !.pc = "landed", !.succ = succ, !.thread = None]
        IN  /\ d \in Call /\ d.pc = "landed" /\ d.succ = succ /\ d.thread = None
            /\ d.a = c.a /\ d.rec = c.rec
    <3> HIDE DEF c
    <3> QED BY <2>0 DEF Call, SessionsOrNone
  <2>3. /\ frame' \in [Frames -> Call]
        /\ frame'[f].pc = "landed" /\ frame'[f].succ = succ /\ frame'[f].thread = None
        /\ frame'[f].a = c.a /\ frame'[f].rec = c.rec
        /\ \A g \in Frames \ {f} : frame'[g] = frame[g]
    BY <2>1, <2>2 DEF IInv, Types
  <2>4. CopyOK(frame[f])'
    BY <1>1, <1>3, <2>3 DEF CopyOK, CopyIsOld, Underway, Begun
  <2>5. ReportOK(frame[f])'
    <3>1. succ # None => succ \in Sessions
      BY DEF SessionsOrNone
    <3> QED BY <2>3, <3>1 DEF ReportOK, IsMade
  <2>6. NewOK(frame[f])'
    BY <1>1, <2>3 DEF NewOK, Begun
  <2>7. CallOK(frame[f])'
    BY <2>3, <2>4, <2>5, <2>6 DEF CallOK, StartOK
  <2>8. Types'
    BY <1>1, <2>3 DEF IInv, Types, store
  <2> QED BY <1>1, <2>3, <2>7, <2>8, WorldStep
<1> QED BY <1>4, <1>5 DEF Reported, Failing

\* The sessions a frame's copy names.
LEMMA CopyNames ==
    ASSUME IInv, NEW f \in Frames, Underway(frame[f])
    PROVE  /\ frame[f].a \in Rotations /\ Begun(frame[f].a)
           /\ frame[f].rec.pred = rot[frame[f].a].pred /\ frame[f].rec.pred \in Sessions
           /\ frame[f].rec.bd \in 0 .. 7 /\ rot[frame[f].a].bd \in 0 .. 7
           /\ frame[f].rec.bd <= rot[frame[f].a].bd
           /\ frame[f].rec.tmpl \in Nat
           /\ frame[f].rec.bd >= SuccessorSessionCreated =>
                /\ frame[f].rec.succ = rot[frame[f].a].succ /\ frame[f].rec.succ \in Sessions
<1>1. CopyIsOld(frame[f]) /\ CallFields(frame[f])
  BY Fields DEF IInv, Calls, CallOK, CopyOK, Types
<1>2. frame[f].a \in Rotations /\ Begun(frame[f].a) /\ RecordFields(rot[frame[f].a])
  BY <1>1, Fields DEF CopyIsOld, IInv, Types
<1>3. frame[f].rec.bd \in 0 .. 7 /\ rot[frame[f].a].bd \in 0 .. 7 /\ frame[f].rec.tmpl \in Nat
  BY <1>1, <1>2 DEF CallFields, RecordFields
<1> QED BY <1>1, <1>2, <1>3 DEF CopyIsOld, IInv, RecordsAgree, SuccessorSessionCreated

LEMMA PredecessorSteps ==
    ASSUME IInv, NEW f \in Frames, OfflinePredecessor(f) \/ RetirePredecessor(f)
    PROVE  IInv' /\ Onward
<1> DEFINE p == frame[f].rec.pred
<1>0. frame[f].pc = "external" /\ Reported(f, None, None) /\ UNCHANGED <<store, got>>
  BY DEF OfflinePredecessor, RetirePredecessor, Executing, Reported
<1>1. p \in Sessions /\ frame[f].a \in Rotations /\ Begun(frame[f].a) /\ p = rot[frame[f].a].pred
  BY <1>0, CopyNames DEF Underway
<1>2. sess[p] \in Session /\ sess \in [Sessions -> Session]
  BY <1>1 DEF IInv, Types
<1>3. \/ frame[f].rec.bd = SeatRevoked /\ sess' = [sess EXCEPT ![p] = Down(sess[p])]
      \/ frame[f].rec.bd = PredecessorOfflined /\ sess' = [sess EXCEPT ![p] = Gone(sess[p])]
  BY <1>1, <1>2 DEF OfflinePredecessor, RetirePredecessor, Executing, Down, Gone
<1> HIDE DEF p
<1>4. /\ sess' \in [Sessions -> Session] /\ Lasting /\ Dead'
      /\ frame[f].rec.bd = PredecessorOfflined => sess'[p].st = "retired"
  <2>1. CASE frame[f].rec.bd = SeatRevoked /\ sess' = [sess EXCEPT ![p] = Down(sess[p])]
    <3>1. sess' \in [Sessions -> Session] /\ sess'[p] = Down(sess[p])
          /\ \A s \in Sessions \ {p} : sess'[s] = sess[s]
      <4>1. Down(sess[p]) \in Session
        BY <1>2, SessionUpdates
      <4> QED BY <1>1, <1>2, <2>1, <4>1, SetSession
    <3>2. /\ sess'[p].tmpl = sess[p].tmpl /\ sess'[p].thread = sess[p].thread
          /\ sess'[p].st = sess[p].st /\ ~sess'[p].runtime
      BY <1>2, <3>1, SessionUpdates
    <3>3. Lasting /\ Dead'
      BY <1>0, <1>1, <3>1, <3>2, SmallChange
    <3> QED BY <2>1, <3>1, <3>3 DEF SeatRevoked, PredecessorOfflined
  <2>2. CASE sess' = [sess EXCEPT ![p] = Gone(sess[p])]
    <3>1. sess' \in [Sessions -> Session] /\ sess'[p] = Gone(sess[p])
          /\ \A s \in Sessions \ {p} : sess'[s] = sess[s]
      <4>1. Gone(sess[p]) \in Session
        BY <1>2, SessionUpdates
      <4> QED BY <1>1, <1>2, <2>2, <4>1, SetSession
    <3>2. /\ sess'[p].tmpl = sess[p].tmpl /\ sess'[p].thread = sess[p].thread
          /\ sess'[p].st = "retired" /\ ~sess'[p].runtime
      BY <1>2, <3>1, SessionUpdates
    <3>3. Lasting /\ Dead'
      BY <1>0, <1>1, <3>1, <3>2, SmallChange
    <3> QED BY <3>1, <3>2, <3>3
  <2> QED BY <1>3, <2>1, <2>2
<1>5. got' \in [Rotations -> Nat] /\ None \in SessionsOrNone
  BY <1>0 DEF IInv, Types, SessionsOrNone
<1>6. /\ frame[f].rec.bd # SuccessorSessionCreated /\ frame[f].rec.bd # PredecessorRetired
      /\ frame[f].rec.bd # SuccessorBound
      /\ \A b \in Rotations : Begun(b) => rot[b].pred # None
  BY <1>3, SessionsAssumption DEF IInv, RecordsAgree, SeatRevoked, PredecessorOfflined, SuccessorSessionCreated, PredecessorRetired,
     SuccessorBound
<1> QED BY <1>0, <1>4, <1>5, <1>6, ReportStep DEF p

LEMMA CreateStep ==
    ASSUME IInv, NEW f \in Frames, NEW s \in Sessions, CreateSuccessorSession(f, s)
    PROVE  IInv' /\ Onward
<1> DEFINE c == frame[f]
<1>0. /\ c.pc = "external" /\ c.rec.bd = PredecessorRetired /\ sess[s] = Absent
      /\ sess' = [sess EXCEPT ![s] = NewSession(c.rec.tmpl)]
      /\ Reported(f, s, None) /\ UNCHANGED <<store, got>>
  BY DEF CreateSuccessorSession, Executing, Reported
<1>1. c.rec.tmpl \in Nat /\ c.a \in Rotations /\ rot[c.a].bd \in 0 .. 7 /\ rot[c.a].bd >= 2
      /\ c.rec.pred = rot[c.a].pred
  BY <1>0, CopyNames DEF Underway, PredecessorRetired
<1>2. /\ Lasting /\ Dead' /\ sess' \in [Sessions -> Session]
      /\ sess'[s].st = "active" /\ sess'[s].tmpl = c.rec.tmpl
  <2> HIDE DEF c
  <2> QED BY <1>0, <1>1, MakeSession
<1>3. sess[s].st = "absent"
  BY <1>0 DEF Absent, NewSession
<1>4. sess[c.rec.pred].st = "retired"
  BY <1>1 DEF IInv, BoundariesAreTrue, PredecessorRetired
<1>5. got' \in [Rotations -> Nat] /\ s \in SessionsOrNone /\ s # None
  BY <1>0, SessionsAssumption DEF IInv, Types, SessionsOrNone
<1>6. rot[c.a].bd = PredecessorRetired => \A b \in Rotations : Begun(b) => rot[b].pred # s
  <2> SUFFICES ASSUME rot[c.a].bd = PredecessorRetired, NEW b \in Rotations, Begun(b)
               PROVE  rot[b].pred # s
    OBVIOUS
  <2>1. CASE b = c.a
    BY <1>1, <1>3, <1>4, <2>1
  <2>2. CASE b # c.a
    <3>1. RecordFields(rot[c.a]) /\ Begun(c.a)
      BY <1>0, <1>1, CopyNames, Fields DEF Underway, IInv, Types
    <3>2. rot[c.a].st \in {"running", "blocked"}
      BY <1>1, <3>1 DEF IInv, RecordsAgree, RecordFields, Begun, PredecessorRetired,
         DirectorMessageDelivered
    <3> QED BY <1>1, <1>3, <2>2, <3>2, OthersComplete
  <2> QED BY <2>1, <2>2
<1>7. /\ c.rec.bd # SuccessorSessionCreated /\ c.rec.bd # PredecessorOfflined
      /\ c.rec.bd # SuccessorBound
  BY <1>0 DEF PredecessorOfflined, SuccessorSessionCreated, PredecessorRetired, SuccessorBound
<1> QED BY <1>0, <1>2, <1>3, <1>4, <1>5, <1>6, <1>7, ReportStep

LEMMA ClaimStep ==
    ASSUME IInv, NEW f \in Frames, ClaimThread(f)
    PROVE  IInv' /\ Onward
<1> DEFINE c == frame[f]
           s == c.rec.succ
<1>0. /\ c.pc = "external" /\ c.rec.bd = SuccessorSessionCreated /\ sess[s].st = "active"
      /\ UNCHANGED <<store, got>> /\ rot' = rot
      /\ sess' = [sess EXCEPT ![s].claim = TRUE]
      /\ frame' = [frame EXCEPT ![f].pc = "starting"]
  BY DEF ClaimThread, Executing, ThreadIsClear, store
<1>1. s \in Sessions
  BY <1>0, CopyNames DEF Underway, SuccessorSessionCreated
<1>2. /\ sess' \in [Sessions -> Session] /\ Lasting /\ Dead' /\ sess'[s].st = "active"
  <2>0. sess[s] \in Session /\ sess \in [Sessions -> Session]
    BY <1>1 DEF IInv, Types
  <2>1. sess' = [sess EXCEPT ![s] = Claimed(sess[s])]
    BY <1>0, <1>1, <2>0 DEF Claimed
  <2> HIDE DEF s
  <2>2. sess' \in [Sessions -> Session] /\ sess'[s] = Claimed(sess[s])
        /\ \A t \in Sessions \ {s} : sess'[t] = sess[t]
    BY <1>1, <2>0, <2>1, SessionUpdates, SetSession
  <2>3. /\ sess'[s].tmpl = sess[s].tmpl /\ sess'[s].thread = sess[s].thread
        /\ sess'[s].st = sess[s].st /\ sess'[s].runtime = sess[s].runtime
    BY <2>0, <2>2, SessionUpdates
  <2>4. Lasting /\ Dead'
    BY <1>0, <1>1, <2>2, <2>3, SmallChange
  <2> QED BY <1>0, <2>2, <2>3, <2>4
<1>3. /\ frame' \in [Frames -> Call]
      /\ frame'[f].pc = "starting" /\ frame'[f].a = c.a /\ frame'[f].rec = c.rec
      /\ frame'[f].succ = c.succ /\ frame'[f].thread = c.thread
      /\ \A g \in Frames \ {f} : frame'[g] = frame[g]
  BY <1>0 DEF IInv, Types, Call
<1>4. CopyOK(c)
  BY DEF IInv, Calls, CallOK
<1>5. CopyOK(frame[f])'
  BY <1>0, <1>3, <1>4 DEF CopyOK, CopyIsOld, Underway, Begun
<1>6. CallOK(frame[f])'
  BY <1>2, <1>3, <1>5 DEF CallOK, ReportOK, NewOK, StartOK
<1>7. Types'
  BY <1>0, <1>2, <1>3 DEF IInv, Types, store
<1> QED BY <1>0, <1>2, <1>3, <1>6, <1>7, WorldStep

LEMMA StartStep ==
    ASSUME IInv, NEW f \in Frames, StartSuccessorThread(f)
    PROVE  IInv' /\ Onward
<1> DEFINE c == frame[f]
           s == c.rec.succ
<1>0. c.pc = "starting" /\ UNCHANGED <<store, got>> /\ rot' = rot
  BY DEF StartSuccessorThread, store
<1>1. CopyOK(c) /\ StartOK(c)
  BY DEF IInv, Calls, CallOK
<1>2. c.rec.bd = SuccessorSessionCreated /\ s \in Sessions
  BY <1>0, <1>1, CopyNames DEF CopyOK, Underway, SuccessorSessionCreated
<1>3. sess[s] \in Session /\ sess \in [Sessions -> Session]
  BY <1>2 DEF IInv, Types
<1>4. CASE /\ sess[s].claim /\ ~sess[s].thread
           /\ sess' = [sess EXCEPT ![s].claim = FALSE, ![s].thread = TRUE, ![s].runtime = TRUE]
           /\ frame' = [frame EXCEPT ![f].pc = "landed", ![f].thread = s]
  <2>1. sess' = [sess EXCEPT ![s] = Threaded(sess[s])]
    BY <1>2, <1>3, <1>4 DEF Threaded
  <2>2. sess' \in [Sessions -> Session] /\ sess'[s] = Threaded(sess[s])
        /\ \A t \in Sessions \ {s} : sess'[t] = sess[t]
    <3> HIDE DEF s
    <3> QED BY <1>2, <1>3, <2>1, SessionUpdates, SetSession
  <2>3. /\ sess'[s].tmpl = sess[s].tmpl /\ sess'[s].thread /\ sess'[s].st = sess[s].st
    <3> HIDE DEF s
    <3> QED BY <1>3, <2>2, SessionUpdates
  <2>4. sess[s].st # "retired"
    BY <1>0, <1>1, <1>4 DEF StartOK
  <2>5. Dead'
    BY <2>2, <2>3, <2>4 DEF Dead, IInv
  <2>6. Lasting
    <3>1. \A a \in Rotations : got'[a] >= got[a]
      BY <1>0 DEF IInv, Types
    <3> HIDE DEF s
    <3> QED BY <1>2, <2>2, <2>3, <3>1 DEF Lasting
  <2>7. /\ frame' \in [Frames -> Call]
        /\ frame'[f].pc = "landed" /\ frame'[f].a = c.a /\ frame'[f].rec = c.rec
        /\ frame'[f].succ = c.succ /\ frame'[f].thread = s
        /\ \A g \in Frames \ {f} : frame'[g] = frame[g]
    <3>1. s \in SessionsOrNone /\ c \in Call
      BY <1>2 DEF SessionsOrNone, IInv, Types
    <3>2. frame' = [frame EXCEPT ![f] = [c EXCEPT !.pc = "landed", !.thread = s]]
      BY <1>4 DEF IInv, Types
    <3>3. LET d == [c EXCEPT !.pc = "landed", !.thread = s]
          IN  /\ d \in Call /\ d.pc = "landed" /\ d.succ = c.succ /\ d.thread = s
              /\ d.a = c.a /\ d.rec = c.rec
      <4> HIDE DEF s, c
      <4> QED BY <3>1 DEF Call
    <3> QED BY <3>2, <3>3 DEF IInv, Types
  <2>8. CopyOK(frame[f])'
    BY <1>0, <1>1, <1>2, <2>7 DEF CopyOK, CopyIsOld, Underway, Begun, SuccessorSessionCreated,
       SuccessorRuntimeOnline, DirectorMessageDelivered
  <2>9. ReportOK(frame[f])'
    <3>1. c.succ = None /\ s # None
      BY <1>0, <1>1, <1>2, SessionsAssumption DEF CopyOK
    <3> QED BY <1>2, <2>3, <2>7, <3>1 DEF ReportOK, HasThread, SuccessorSessionCreated,
         PredecessorRetired, PredecessorOfflined, SuccessorBound
  <2>10. CallOK(frame[f])'
    BY <1>0, <1>1, <2>7, <2>8, <2>9 DEF CallOK, NewOK, StartOK, CopyOK
  <2>11. Types'
    BY <1>0, <2>2, <2>7 DEF IInv, Types, store
  <2> QED BY <1>0, <2>5, <2>6, <2>7, <2>10, <2>11, WorldStep
<1>5. CASE sess' \in {sess, [sess EXCEPT ![s].claim = FALSE]} /\ Failing(f)
  <2>1. sess' \in [Sessions -> Session] /\ Lasting /\ Dead'
    <3>1. CASE sess' = sess
      BY <1>0, <1>3, <3>1 DEF Lasting, Dead, IInv, Types
    <3>2. CASE sess' = [sess EXCEPT ![s].claim = FALSE]
      <4>1. sess' = [sess EXCEPT ![s] = Unclaimed(sess[s])]
        BY <1>2, <1>3, <3>2 DEF Unclaimed
      <4> HIDE DEF s
      <4>2. sess' \in [Sessions -> Session] /\ sess'[s] = Unclaimed(sess[s])
            /\ \A t \in Sessions \ {s} : sess'[t] = sess[t]
        BY <1>2, <1>3, <4>1, SessionUpdates, SetSession
      <4>3. /\ sess'[s].tmpl = sess[s].tmpl /\ sess'[s].thread = sess[s].thread
            /\ sess'[s].st = sess[s].st /\ sess'[s].runtime = sess[s].runtime
        BY <1>3, <4>2, SessionUpdates
      <4>4. Lasting /\ Dead'
        BY <1>0, <1>2, <4>2, <4>3, SmallChange
      <4> QED BY <4>2, <4>4
    <3> QED BY <1>5, <3>1, <3>2
  <2>2. /\ frame' \in [Frames -> Call]
        /\ CallOK(frame[f])'
        /\ \A g \in Frames \ {f} : frame'[g] = frame[g]
    BY <1>0, <1>5, FailOK DEF Underway
  <2>3. Types'
    BY <1>0, <2>1, <2>2 DEF IInv, Types, store
  <2> QED BY <1>0, <2>1, <2>2, <2>3, WorldStep
<1> QED BY <1>4, <1>5 DEF StartSuccessorThread, Failing

LEMMA LaunchStep ==
    ASSUME IInv, NEW f \in Frames, LaunchSuccessorRuntime(f)
    PROVE  IInv' /\ Onward
<1> DEFINE s == frame[f].rec.succ
<1>0. /\ frame[f].pc = "external" /\ frame[f].rec.bd = SuccessorThreadStarted
      /\ Reported(f, None, None) /\ UNCHANGED <<store, got>>
      /\ sess' = [sess EXCEPT ![s].online = TRUE]
  BY DEF LaunchSuccessorRuntime, Executing, Reported
<1>1. s \in Sessions
  BY <1>0, CopyNames DEF Underway, SuccessorThreadStarted, SuccessorSessionCreated
<1>2. /\ sess' \in [Sessions -> Session] /\ Lasting /\ Dead'
  <2>0. sess[s] \in Session /\ sess \in [Sessions -> Session]
    BY <1>1 DEF IInv, Types
  <2>1. sess' = [sess EXCEPT ![s] = Online(sess[s])]
    BY <1>0, <1>1, <2>0 DEF Online
  <2> HIDE DEF s
  <2>2. sess' \in [Sessions -> Session] /\ sess'[s] = Online(sess[s])
        /\ \A t \in Sessions \ {s} : sess'[t] = sess[t]
    BY <1>1, <2>0, <2>1, SessionUpdates, SetSession
  <2>3. /\ sess'[s].tmpl = sess[s].tmpl /\ sess'[s].thread = sess[s].thread
        /\ sess'[s].st = sess[s].st /\ sess'[s].runtime = sess[s].runtime
    BY <2>0, <2>2, SessionUpdates
  <2>4. Lasting /\ Dead'
    BY <1>0, <1>1, <2>2, <2>3, SmallChange
  <2> QED BY <2>2, <2>4
<1>3. got' \in [Rotations -> Nat] /\ None \in SessionsOrNone
      /\ \A b \in Rotations : Begun(b) => rot[b].pred # None
  BY <1>0, SessionsAssumption DEF IInv, Types, SessionsOrNone, RecordsAgree
<1>4. /\ frame[f].rec.bd # SuccessorSessionCreated /\ frame[f].rec.bd # PredecessorRetired
      /\ frame[f].rec.bd # SuccessorBound /\ frame[f].rec.bd # PredecessorOfflined
  BY <1>0 DEF PredecessorOfflined, SuccessorSessionCreated, PredecessorRetired,
     SuccessorBound, SuccessorThreadStarted
<1> QED BY <1>0, <1>2, <1>3, <1>4, ReportStep

LEMMA DeliverStep ==
    ASSUME IInv, NEW f \in Frames, DeliverDirectorMessage(f)
    PROVE  IInv' /\ Onward
<1> DEFINE a == frame[f].a
<1>0. /\ frame[f].pc = "external" /\ frame[f].rec.bd = SuccessorBound
      /\ Reported(f, None, None) /\ UNCHANGED <<store, sess>>
      /\ got' = [got EXCEPT ![a] = @ + 1]
  BY DEF DeliverDirectorMessage, Executing, Reported
<1>1. a \in Rotations
  BY <1>0, CopyNames DEF Underway
<1>2. got' \in [Rotations -> Nat] /\ got'[a] > 0 /\ \A b \in Rotations : got'[b] >= got[b]
  <2>1. got \in [Rotations -> Nat]
    BY DEF IInv, Types
  <2> HIDE DEF a
  <2> QED BY <1>0, <1>1, <2>1
<1>3. sess' \in [Sessions -> Session] /\ Lasting /\ Dead'
  BY <1>0, <1>2 DEF Lasting, Dead, IInv, Types
<1>4. None \in SessionsOrNone
      /\ \A b \in Rotations : Begun(b) => rot[b].pred # None
  BY SessionsAssumption DEF IInv, SessionsOrNone, RecordsAgree
<1>5. /\ frame[f].rec.bd # SuccessorSessionCreated /\ frame[f].rec.bd # PredecessorRetired
      /\ frame[f].rec.bd # PredecessorOfflined
  BY <1>0 DEF PredecessorOfflined, SuccessorSessionCreated, PredecessorRetired, SuccessorBound
<1> QED BY <1>0, <1>2, <1>3, <1>4, <1>5, ReportStep

-----------------------------------------------------------------------------
(* The accesses of the seat store.                                          *)

\* A frame that holds the record as it is.
LEMMA HoldsRecord ==
    ASSUME NEW f \in Frames, NEW a \in Rotations, rot'[a] \in Record, rot'[a].st # "none",
           frame'[f].a = a, frame'[f].rec = rot'[a],
           frame'[f].succ = None, frame'[f].thread = None,
           \/ frame'[f].pc = "boundary"
           \/ /\ frame'[f].pc = "external"
              /\ rot'[a].bd \notin {SuccessorRuntimeOnline, DirectorMessageDelivered}
    PROVE  CallOK(frame[f])'
<1>1. rot'[a].bd \in 0 .. 7 /\ rot'[a].bd <= rot'[a].bd
  BY Fields DEF RecordFields
<1>2. CopyIsOld(frame[f])'
  BY <1>1 DEF CopyIsOld, Begun
<1>3. CopyOK(frame[f])'
  BY <1>2 DEF CopyOK
<1> QED BY <1>3 DEF CallOK, ReportOK, NewOK, StartOK

\* A write of the active record, up to SuccessorRuntimeOnline or beyond it.
LEMMA RecordStep ==
    ASSUME IInv, UNCHANGED world, NEW a \in Rotations, rot[a].st \in {"running", "blocked"},
           NEW r \in Record, SetRotation(a, r), r.st \in {"running", "blocked"},
           r.pred = rot[a].pred, r.tmpl = rot[a].tmpl, r.epoch = rot[a].epoch,
           rot[a].bd <= r.bd, r.bd < SuccessorBound <=> rot[a].bd < SuccessorBound,
           r.bd # DirectorMessageDelivered,
           rot[a].bd >= SuccessorSessionCreated => r.succ = rot[a].succ,
           r.pend => r.bd \notin {SuccessorRuntimeOnline, DirectorMessageDelivered},
           r.pend => r.reason # "external_step_failed",
           r.bd >= PredecessorRetired => sess[r.pred].st = "retired",
           r.bd >= SuccessorSessionCreated =>
                /\ r.succ \in Sessions /\ r.succ # r.pred
                /\ sess[r.succ].st # "absent" /\ sess[r.succ].tmpl = r.tmpl,
           r.bd >= SuccessorThreadStarted => r.thread = r.succ /\ sess[r.succ].thread,
           r.bd >= SuccessorSessionCreated /\ rot[a].bd < SuccessorSessionCreated =>
                \A b \in Rotations : Begun(b) => rot[b].pred # r.succ,
           frame' \in [Frames -> Call],
           \A g \in Frames : frame'[g] = frame[g] \/ CallOK(frame[g])'
    PROVE  IInv' /\ Onward
<1>0. /\ rot' \in [Rotations -> Record] /\ rot'[a] = r
      /\ \A b \in Rotations \ {a} : rot'[b] = rot[b]
      /\ UNCHANGED <<occ, vacancy, active, sess, got>>
  BY DEF SetRotation, world, IInv, Types
<1>1. Types'
  BY <1>0 DEF IInv, Types
<1>2. \A b \in Rotations : rot[b].bd \in 0 .. 7 /\ rot'[b].bd \in 0 .. 7
  BY <1>0, Fields DEF IInv, Types, RecordFields
<1>3. Begun(a) /\ \A b \in Rotations : Begun(b) <=> Begun(b)'
  BY <1>0 DEF Begun
<1>4. Onward /\ BeginsAlone
  BY <1>0, <1>2, <1>3 DEF Onward, BeginsAlone
<1>5. RecordsAgree'
  <2> SUFFICES ASSUME NEW b \in Rotations
               PROVE  /\ rot'[b].st = "none" => rot'[b] = NoRotation
                      /\ Begun(b)' => rot'[b].pred \in Sessions
                      /\ rot'[b].st = "complete" <=> rot'[b].bd = DirectorMessageDelivered
                      /\ rot'[b].pend => rot'[b].bd \notin {SuccessorRuntimeOnline, DirectorMessageDelivered}
                      /\ rot'[b].pend => rot'[b].reason # "external_step_failed"
                      /\ rot'[b].bd >= SuccessorSessionCreated => rot'[b].succ \in Sessions
    BY DEF RecordsAgree
  <2>1. CASE b = a
    BY <1>0, <1>3, <2>1 DEF IInv, RecordsAgree
  <2>2. CASE b # a
    BY <1>0, <1>3, <2>2 DEF IInv, RecordsAgree
  <2> QED BY <2>1, <2>2
<1>6. Heirs'
  <2> SUFFICES ASSUME NEW b \in Rotations, NEW d \in Rotations,
                      rot'[b].bd >= SuccessorSessionCreated, Begun(d), rot[d].pred = rot'[b].succ
               PROVE  sess[rot'[b].succ].thread
    <3>1. \A d \in Rotations : Begun(d) => rot'[d].pred = rot[d].pred
      BY <1>0
    <3> QED BY <1>0, <1>3, <3>1 DEF Heirs
  <2>1. CASE b = a /\ rot[a].bd < SuccessorSessionCreated
    BY <1>0, <2>1
  <2>2. CASE b = a /\ rot[a].bd >= SuccessorSessionCreated
    BY <1>0, <2>2 DEF IInv, Heirs
  <2>3. CASE b # a
    BY <1>0, <2>3 DEF IInv, Heirs
  <2> QED BY <1>2, <2>1, <2>2, <2>3 DEF SuccessorSessionCreated
<1>7. OneStory'
  <2>1. active = a /\ a # None
    BY SessionsAssumption DEF IInv, OneStory
  <2>2. \A b \in Rotations : (active = b) <=> (rot'[b].st \in {"running", "blocked"})
    BY <1>0, <2>1 DEF IInv, OneStory
  <2>3. (vacancy # NoVacancy) <=> (active # None /\ rot'[active].bd < SuccessorBound)
    BY <1>0, <2>1 DEF IInv, OneStory
  <2>4. vacancy # NoVacancy =>
            vacancy = [a |-> active, pred |-> rot'[active].pred, epoch |-> rot'[active].epoch]
    BY <1>0, <2>1 DEF IInv, OneStory
  <2> QED BY <1>0, <2>2, <2>3, <2>4 DEF IInv, OneStory
<1>8. BoundariesAreTrue'
  <2> SUFFICES ASSUME NEW b \in Rotations
               PROVE  /\ rot'[b].bd >= PredecessorRetired =>
                            sess[rot'[b].pred].st = "retired" /\ ~sess[rot'[b].pred].runtime
                      /\ rot'[b].bd >= SuccessorSessionCreated =>
                            /\ rot'[b].succ # rot'[b].pred /\ sess[rot'[b].succ].st # "absent"
                            /\ sess[rot'[b].succ].tmpl = rot'[b].tmpl
                      /\ rot'[b].bd >= SuccessorThreadStarted =>
                            rot'[b].thread = rot'[b].succ /\ sess[rot'[b].succ].thread
                      /\ rot'[b].st = "complete" => got[b] > 0
    BY <1>0 DEF BoundariesAreTrue
  <2>1. CASE b = a
    <3>1. r.pred \in Sessions
      BY <1>3 DEF IInv, RecordsAgree
    <3> QED BY <1>0, <2>1, <3>1 DEF IInv, Dead
  <2>2. CASE b # a
    BY <1>0, <2>2 DEF IInv, BoundariesAreTrue
  <2> QED BY <2>1, <2>2
<1> QED BY <1>1, <1>4, <1>5, <1>6, <1>7, <1>8, StoreStep

\* A write that stays at the same boundary.
LEMMA SameBoundary ==
    ASSUME IInv, UNCHANGED world, NEW a \in Rotations, rot[a].st \in {"running", "blocked"},
           NEW r \in Record, SetRotation(a, r), r.st \in {"running", "blocked"},
           r.pred = rot[a].pred, r.tmpl = rot[a].tmpl, r.epoch = rot[a].epoch,
           r.bd = rot[a].bd, r.succ = rot[a].succ, r.thread = rot[a].thread,
           r.pend => r.bd \notin {SuccessorRuntimeOnline, DirectorMessageDelivered},
           r.pend => r.reason # "external_step_failed",
           frame' \in [Frames -> Call],
           \A g \in Frames : frame'[g] = frame[g] \/ CallOK(frame[g])'
    PROVE  IInv' /\ Onward
<1>1. r.bd # DirectorMessageDelivered
  BY DEF IInv, RecordsAgree
<1>2. r.bd \in 0 .. 7 /\ rot[a].bd <= r.bd
      /\ ~(r.bd >= SuccessorSessionCreated /\ rot[a].bd < SuccessorSessionCreated)
  BY Fields DEF RecordFields, SuccessorSessionCreated
<1>3. /\ r.bd >= PredecessorRetired => sess[r.pred].st = "retired"
      /\ r.bd >= SuccessorSessionCreated =>
                /\ r.succ \in Sessions /\ r.succ # r.pred
                /\ sess[r.succ].st # "absent" /\ sess[r.succ].tmpl = r.tmpl
      /\ r.bd >= SuccessorThreadStarted => r.thread = r.succ /\ sess[r.succ].thread
  BY DEF IInv, RecordsAgree, BoundariesAreTrue
<1> QED BY <1>1, <1>2, <1>3, RecordStep

\* What the writes do to the fields of a record.
SamePlace(x, r) ==
    /\ x \in Record
    /\ x.pred = r.pred /\ x.tmpl = r.tmpl /\ x.epoch = r.epoch
    /\ x.bd = r.bd /\ x.succ = r.succ /\ x.thread = r.thread
LEMMA RecordUpdates ==
    ASSUME NEW r \in Record
    PROVE  /\ SamePlace(Marked(r), r) /\ SamePlace(Resumed(r), r) /\ SamePlace(Classified(r), r)
           /\ SamePlace(Blocked(r, "external_step_failed"), r)
           /\ Marked(r).st = "running" /\ Marked(r).pend = TRUE /\ Marked(r).reason = "none"
           /\ Resumed(r).st = "running" /\ Resumed(r).pend = FALSE
           /\ Blocked(r, "external_step_failed").st = "blocked"
           /\ Blocked(r, "external_step_failed").pend = FALSE
           /\ Classified(r).pend = r.pend
           /\ r.st # "running" => Classified(r) = r
           /\ r.st = "running" => /\ Classified(r).st = "blocked"
                                  /\ Classified(r).reason # "external_step_failed"
<1>1. SamePlace(Marked(r), r)
  BY DEF Marked, Record, Reasons, SamePlace
<1>2. SamePlace(Resumed(r), r)
  BY DEF Resumed, Record, Reasons, SamePlace
<1>3. SamePlace(Classified(r), r)
  BY DEF Classified, Record, Reasons, SamePlace
<1>4. SamePlace(Blocked(r, "external_step_failed"), r)
  BY DEF Blocked, Record, Reasons, SamePlace
<1>6. /\ Marked(r).st = "running" /\ Marked(r).pend = TRUE /\ Marked(r).reason = "none"
      /\ Resumed(r).st = "running" /\ Resumed(r).pend = FALSE
      /\ Blocked(r, "external_step_failed").st = "blocked"
      /\ Blocked(r, "external_step_failed").pend = FALSE
  BY DEF Marked, Resumed, Blocked, Record
<1>7. /\ Classified(r).pend = r.pend
      /\ r.st # "running" => Classified(r) = r
      /\ r.st = "running" => /\ Classified(r).st = "blocked"
                             /\ Classified(r).reason # "external_step_failed"
  BY DEF Classified, Record
<1> QED BY <1>1, <1>2, <1>3, <1>4, <1>6, <1>7

LEMMA MarkStep ==
    ASSUME IInv, NEW f \in Frames, MarkPending(f)
    PROVE  IInv' /\ Onward
<1> DEFINE c == frame[f]
           r == rot[c.a]
<1>0. /\ c.pc = "boundary" /\ c.rec.bd \notin {SuccessorRuntimeOnline, DirectorMessageDelivered}
      /\ UNCHANGED world
  BY DEF MarkPending
<1>1. c.a \in Rotations /\ r \in Record /\ RecordFields(r) /\ CopyOK(c)
  BY <1>0, CopyNames, Fields DEF Underway, IInv, Types, Calls, CallOK
<1>2. CASE Answer(f) /\ UNCHANGED store
  BY <1>0, <1>2, FrameStep
<1>3. CASE /\ r.st # "complete" /\ r.bd = c.rec.bd
           /\ SetRotation(c.a, Marked(r)) /\ Go(f, "external", Marked(r))
  <2>1. r.st \in {"running", "blocked"}
    BY <1>0, <1>1, <1>3, CopyNames DEF Underway, Begun, RecordFields
  <2>2. /\ Marked(r) \in Record /\ Marked(r).st = "running" /\ Marked(r).reason = "none"
        /\ Marked(r).pred = r.pred /\ Marked(r).tmpl = r.tmpl /\ Marked(r).epoch = r.epoch
        /\ Marked(r).bd = r.bd /\ Marked(r).succ = r.succ /\ Marked(r).thread = r.thread
    BY <1>1, RecordUpdates, ZenonT(60) DEF SamePlace
  <2> DEFINE m == Marked(r)
  <2>3. c.succ = None /\ c.thread = None
    BY <1>0, <1>1 DEF CopyOK
  <2>4. /\ frame' \in [Frames -> Call]
        /\ frame'[f].pc = "external" /\ frame'[f].a = c.a /\ frame'[f].rec = m
        /\ frame'[f].succ = None /\ frame'[f].thread = None
        /\ \A g \in Frames \ {f} : frame'[g] = frame[g]
    <3>0. frame \in [Frames -> Call] /\ c \in Call /\ m \in Record
      BY <2>2 DEF IInv, Types
    <3>1. frame' = [frame EXCEPT ![f] = [c EXCEPT !.pc = "external", !.rec = m]]
      BY <1>3, <3>0 DEF Go
    <3>2. LET d == [c EXCEPT !.pc = "external", !.rec = m]
          IN  /\ d \in Call /\ d.pc = "external" /\ d.succ = c.succ /\ d.thread = c.thread
              /\ d.a = c.a /\ d.rec = m
      <4> HIDE DEF c, m
      <4> QED BY <3>0 DEF Call
    <3> QED BY <2>3, <3>0, <3>1, <3>2
  <2>5. rot'[c.a] = m /\ rot'[c.a] \in Record /\ rot'[c.a].st # "none"
    <3>1. rot'[c.a] = m
      BY <1>1, <1>3 DEF SetRotation, IInv, Types
    <3>2. rot'[c.a].st # "none"
      BY <2>2, <3>1
    <3> QED BY <2>2, <3>1, <3>2
  <2>6. rot'[c.a].bd \notin {SuccessorRuntimeOnline, DirectorMessageDelivered}
    BY <1>0, <1>3, <2>2, <2>5
  <2>7. CallOK(frame[f])'
    BY <1>1, <2>4, <2>5, <2>6, HoldsRecord
  <2> QED BY <1>0, <1>1, <1>3, <2>1, <2>2, <2>4, <2>5, <2>6, <2>7, SameBoundary
<1> QED BY <1>2, <1>3 DEF MarkPending

LEMMA BlockStep ==
    ASSUME IInv, NEW f \in Frames, Block(f)
    PROVE  IInv' /\ Onward
<1> DEFINE c == frame[f]
           r == rot[c.a]
           x == Blocked(r, "external_step_failed")
<1>0. c.pc = "failed" /\ UNCHANGED world /\ Answer(f)
  BY DEF Block
<1>1. CASE r.st = "complete"
  BY <1>0, <1>1, FrameStep DEF Block
<1>2. CASE r.st # "complete"
  <2>1. c.a \in Rotations /\ r \in Record /\ RecordFields(r) /\ Begun(c.a)
    BY <1>0, CopyNames, Fields DEF Underway, IInv, Types
  <2>2. r.st \in {"running", "blocked"}
    BY <1>2, <2>1 DEF Begun, RecordFields
  <2>3. SetRotation(c.a, x)
    BY <1>2 DEF Block
  <2>4. /\ x \in Record /\ x.st = "blocked" /\ x.pend = FALSE
        /\ x.pred = r.pred /\ x.tmpl = r.tmpl /\ x.epoch = r.epoch
        /\ x.bd = r.bd /\ x.succ = r.succ /\ x.thread = r.thread
    BY <2>1, RecordUpdates, ZenonT(60) DEF SamePlace
  <2>5. frame' \in [Frames -> Call] /\ \A g \in Frames : frame'[g] = frame[g] \/ CallOK(frame[g])'
    BY <1>0, AnswerOK DEF IInv
  <2> HIDE DEF x
  <2> QED BY <1>0, <2>1, <2>2, <2>3, <2>4, <2>5, SameBoundary
<1> QED BY <1>1, <1>2

\* A frame that starts over at the boundary it has just written.
ToBoundary(f, a, next) ==
    frame' = [frame EXCEPT ![f] = [Idle EXCEPT !.pc = "boundary", !.a = a, !.rec = next]]
LEMMA AtBoundary ==
    ASSUME IInv, NEW f \in Frames, NEW a \in Rotations, NEW next \in Record,
           SetRotation(a, next), next.st # "none", ToBoundary(f, a, next)
    PROVE  /\ frame' \in [Frames -> Call]
           /\ \A g \in Frames : frame'[g] = frame[g] \/ CallOK(frame[g])'
<1>1. /\ frame' \in [Frames -> Call]
      /\ frame'[f].pc = "boundary" /\ frame'[f].a = a /\ frame'[f].rec = next
      /\ frame'[f].succ = None /\ frame'[f].thread = None
      /\ \A g \in Frames \ {f} : frame'[g] = frame[g]
  BY IdleIsCall DEF ToBoundary, IInv, Types, Call, Idle
<1>2. rot'[a] = next
  BY DEF SetRotation, IInv, Types
<1>3. CallOK(frame[f])'
  BY <1>1, <1>2, HoldsRecord
<1> QED BY <1>1, <1>3

IsAdvanced(x, r, succ, thread) ==
    /\ x \in Record /\ x.st = "running" /\ x.pend = FALSE /\ x.bd = r.bd + 1
    /\ x.pred = r.pred /\ x.tmpl = r.tmpl /\ x.epoch = r.epoch
    /\ x.succ = IF succ # None THEN succ ELSE r.succ
    /\ x.thread = IF thread # None THEN thread ELSE r.thread
LEMMA AdvancedFields ==
    ASSUME NEW r \in Record, r.bd \in 0 .. 6, NEW succ \in SessionsOrNone, NEW thread \in SessionsOrNone
    PROVE  IsAdvanced(Advanced(r, succ, thread), r, succ, thread)
<1>1. r.bd + 1 \in 0 .. 7
  OBVIOUS
<1>2. (IF succ # None THEN succ ELSE r.succ) \in SessionsOrNone
  BY DEF Record
<1>3. (IF thread # None THEN thread ELSE r.thread) \in SessionsOrNone
  BY DEF Record
<1> QED BY <1>1, <1>2, <1>3 DEF Advanced, Record, Reasons, IsAdvanced

\* The record moves over the next boundary with what the frame knows.
LEMMA AdvanceStep ==
    ASSUME IInv, NEW f \in Frames, UNCHANGED world,
           frame[f].pc \in {"landed", "correct"},
           rot[frame[f].a].st \in {"running", "blocked"},
           rot[frame[f].a].bd = frame[f].rec.bd,
           frame[f].rec.bd \in 0 .. 4,
           frame[f].rec.bd = PredecessorOfflined => sess[frame[f].rec.pred].st = "retired",
           frame[f].rec.bd = PredecessorRetired => frame[f].succ # None,
           frame[f].rec.bd = SuccessorSessionCreated => frame[f].thread # None,
           SetRotation(frame[f].a, Advanced(rot[frame[f].a], frame[f].succ, frame[f].thread)),
           ToBoundary(f, frame[f].a, Advanced(rot[frame[f].a], frame[f].succ, frame[f].thread))
    PROVE  IInv' /\ Onward
<1> DEFINE c == frame[f]
           a == c.a
           r == rot[a]
           x == Advanced(r, c.succ, c.thread)
<1>1. CallOK(c) /\ CallFields(c) /\ a \in Rotations /\ r \in Record /\ c.rec.pred = r.pred
  BY CopyNames, Fields DEF Underway, IInv, Types, Calls
<1>2. CopyIsOld(c) /\ ReportOK(c) /\ NewOK(c)
  BY <1>1 DEF CallOK, CopyOK, Underway
<1>3. r.bd \in 0 .. 4 /\ r.bd = c.rec.bd
  OBVIOUS
<1>4. c.succ \in SessionsOrNone /\ c.thread \in SessionsOrNone
  BY <1>1 DEF CallFields
<1>5. /\ x \in Record /\ x.st = "running" /\ x.pend = FALSE /\ x.bd = r.bd + 1
      /\ x.pred = r.pred /\ x.tmpl = r.tmpl /\ x.epoch = r.epoch
      /\ x.succ = IF c.succ # None THEN c.succ ELSE r.succ
      /\ x.thread = IF c.thread # None THEN c.thread ELSE r.thread
  <2>1. r.bd \in 0 .. 6
    BY <1>3
  <2> HIDE DEF c, r
  <2>2. IsAdvanced(x, r, c.succ, c.thread)
    BY <1>1, <1>4, <2>1, AdvancedFields
  <2> QED BY <2>2 DEF IsAdvanced
<1>6. /\ c.succ # None => r.bd = PredecessorRetired /\ IsMade(c)
      /\ c.thread # None => r.bd = SuccessorSessionCreated /\ HasThread(c)
  BY <1>2, <1>3 DEF ReportOK
<1>7. rot[a].bd <= x.bd /\ x.bd \in 1 .. 5
      /\ (x.bd < SuccessorBound <=> rot[a].bd < SuccessorBound) /\ x.bd # DirectorMessageDelivered
  BY <1>3, <1>5 DEF SuccessorBound, DirectorMessageDelivered
<1>8. rot[a].bd >= SuccessorSessionCreated => x.succ = rot[a].succ
  BY <1>3, <1>5, <1>6 DEF SuccessorSessionCreated, PredecessorRetired
<1>9. x.bd >= PredecessorRetired => sess[x.pred].st = "retired"
  <2>1. CASE r.bd = PredecessorOfflined
    BY <1>1, <1>3, <1>5, <2>1
  <2>2. CASE r.bd >= PredecessorRetired
    BY <1>1, <1>5, <2>2 DEF IInv, BoundariesAreTrue
  <2> QED BY <1>3, <1>5, <2>1, <2>2 DEF PredecessorRetired, PredecessorOfflined
<1>10. x.bd >= SuccessorSessionCreated =>
                /\ x.succ \in Sessions /\ x.succ # x.pred
                /\ sess[x.succ].st # "absent" /\ sess[x.succ].tmpl = x.tmpl
  <2>1. CASE r.bd = PredecessorRetired
    BY <1>1, <1>2, <1>3, <1>5, <1>6, <2>1 DEF IsMade, CopyIsOld
  <2>2. CASE r.bd >= SuccessorSessionCreated
    <3>1. x.succ = r.succ /\ x.pred = r.pred /\ x.tmpl = r.tmpl
      BY <1>5, <1>8, <2>2
    <3>2. r.succ \in Sessions
      BY <1>1, <2>2 DEF IInv, RecordsAgree
    <3>3. r.succ # r.pred /\ sess[r.succ].st # "absent" /\ sess[r.succ].tmpl = r.tmpl
      BY <1>1, <2>2 DEF IInv, BoundariesAreTrue
    <3> HIDE DEF x, r
    <3> QED BY <3>1, <3>2, <3>3
  <2>3. x.bd >= SuccessorSessionCreated => r.bd = PredecessorRetired \/ r.bd >= SuccessorSessionCreated
    <3> HIDE DEF x, r
    <3> QED BY <1>3, <1>5 DEF PredecessorRetired, SuccessorSessionCreated
  <2> QED BY <2>1, <2>2, <2>3
<1>11. x.bd >= SuccessorThreadStarted => x.thread = x.succ /\ sess[x.succ].thread
  <2>1. CASE r.bd = SuccessorSessionCreated
    <3>1. c.thread # None /\ HasThread(c) /\ c.rec.succ = r.succ
      BY <1>2, <1>3, <1>6, <2>1 DEF CopyIsOld, SuccessorSessionCreated
    <3>2. x.succ = r.succ /\ x.thread = c.thread
      BY <1>5, <1>8, <2>1, <3>1 DEF SuccessorSessionCreated
    <3> QED BY <3>1, <3>2 DEF HasThread
  <2>2. CASE r.bd >= SuccessorThreadStarted
    <3>1. x.succ = r.succ /\ x.thread = r.thread
      BY <1>3, <1>5, <1>6, <1>8, <2>2 DEF SuccessorThreadStarted, SuccessorSessionCreated
    <3> QED BY <1>1, <2>2, <3>1 DEF IInv, BoundariesAreTrue
  <2>3. x.bd >= SuccessorThreadStarted =>
            r.bd = SuccessorSessionCreated \/ r.bd >= SuccessorThreadStarted
    <3> HIDE DEF x, r
    <3> QED BY <1>3, <1>5 DEF SuccessorThreadStarted, SuccessorSessionCreated
  <2> QED BY <2>1, <2>2, <2>3
<1>12. x.bd >= SuccessorSessionCreated /\ rot[a].bd < SuccessorSessionCreated =>
                \A b \in Rotations : Begun(b) => rot[b].pred # x.succ
  <2> SUFFICES ASSUME x.bd >= SuccessorSessionCreated, rot[a].bd < SuccessorSessionCreated
               PROVE  \A b \in Rotations : Begun(b) => rot[b].pred # x.succ
    OBVIOUS
  <2>1. r.bd = PredecessorRetired
    BY <1>3, <1>5 DEF SuccessorSessionCreated, PredecessorRetired
  <2>2. c.succ # None /\ x.succ = c.succ
    BY <1>3, <1>5, <2>1
  <2> QED BY <1>2, <2>1, <2>2 DEF NewOK
<1>13. frame' \in [Frames -> Call] /\ \A g \in Frames : frame'[g] = frame[g] \/ CallOK(frame[g])'
  <2>1. x.st # "none" /\ SetRotation(a, x) /\ ToBoundary(f, a, x)
    BY <1>5
  <2> HIDE DEF x, a
  <2> QED BY <1>1, <1>5, <2>1, AtBoundary
<1>14. SetRotation(a, x) /\ r.st \in {"running", "blocked"} /\ x.pred = rot[a].pred
       /\ x.tmpl = rot[a].tmpl /\ x.epoch = rot[a].epoch
  BY <1>5
<1> HIDE DEF x, a, r
<1> QED BY <1>1, <1>5, <1>7, <1>8, <1>9, <1>10, <1>11, <1>12, <1>13, <1>14, RecordStep DEF r

\* The rotation of a frame under way that is not complete is the active one.
LEMMA ActiveOne ==
    ASSUME IInv, NEW f \in Frames, Underway(frame[f]), rot[frame[f].a].st # "complete"
    PROVE  rot[frame[f].a].st \in {"running", "blocked"}
<1>1. frame[f].a \in Rotations /\ RecordFields(rot[frame[f].a]) /\ Begun(frame[f].a)
  BY CopyNames, Fields DEF IInv, Types
<1> QED BY <1>1 DEF RecordFields, Begun

LEMMA FinishStep ==
    ASSUME IInv, NEW f \in Frames, Finish(f)
    PROVE  IInv' /\ Onward
<1> DEFINE c == frame[f]
           r == rot[c.a]
           next == Advanced(r, c.succ, c.thread)
<1>0. c.pc = "landed" /\ UNCHANGED world
  BY DEF Finish
<1>1. CallOK(c) /\ CallFields(c) /\ c.a \in Rotations /\ r \in Record /\ RecordFields(r)
  BY <1>0, CopyNames, Fields DEF Underway, IInv, Types, Calls
<1>2. ReportOK(c) /\ CopyOK(c) /\ NewOK(c) /\ CopyIsOld(c)
  BY <1>0, <1>1 DEF CallOK, CopyOK, Underway
<1>3. c.rec.bd \in 0 .. 7 /\ c.rec.bd \notin {SuccessorRuntimeOnline, DirectorMessageDelivered}
  BY <1>0, <1>1, <1>2 DEF CallFields, RecordFields, CopyOK
<1>4. CASE Answer(f) /\ UNCHANGED store
  BY <1>0, <1>4, FrameStep
<1>5. CASE /\ r.st = "running" /\ r.bd = c.rec.bd /\ r.pend /\ r.bd # SuccessorBound
           /\ SetRotation(c.a, next) /\ ToBoundary(f, c.a, next)
  <2>1. c.rec.bd \in 0 .. 4
    BY <1>3, <1>5 DEF SuccessorBound, SuccessorRuntimeOnline, DirectorMessageDelivered
  <2>2. /\ c.rec.bd = PredecessorOfflined => sess[c.rec.pred].st = "retired"
        /\ c.rec.bd = PredecessorRetired => c.succ # None
        /\ c.rec.bd = SuccessorSessionCreated => c.thread # None
    BY <1>0, <1>2 DEF ReportOK
  <2> QED BY <1>0, <1>5, <2>1, <2>2, AdvanceStep
<1>6. CASE /\ r.st = "running" /\ r.bd = c.rec.bd /\ r.pend /\ r.bd = SuccessorBound
           /\ rot' = [rot EXCEPT ![c.a] = [next EXCEPT !.st = "complete"]]
           /\ LiftFence /\ UNCHANGED <<occ, vacancy>> /\ Answer(f)
  <2>0. c.succ = None /\ c.thread = None /\ got[c.a] > 0
    BY <1>0, <1>2, <1>6 DEF ReportOK, SuccessorBound, PredecessorRetired, SuccessorSessionCreated
  <2> DEFINE x == [next EXCEPT !.st = "complete"]
             a == c.a
  <2>1. IsAdvanced(next, r, None, None)
    <3>1. r.bd \in 0 .. 6 /\ None \in SessionsOrNone
      BY <1>6 DEF SuccessorBound, SessionsOrNone
    <3> HIDE DEF c, r
    <3> QED BY <1>1, <2>0, <3>1, AdvancedFields
  <2>2. /\ x \in Record /\ x.st = "complete" /\ x.pend = FALSE /\ x.bd = 7
        /\ x.pred = r.pred /\ x.tmpl = r.tmpl /\ x.epoch = r.epoch
        /\ x.succ = r.succ /\ x.thread = r.thread
    <3>1. next \in Record /\ next.bd = 7
      BY <1>6, <2>1 DEF IsAdvanced, SuccessorBound
    <3>2. next.pend = FALSE /\ next.pred = r.pred /\ next.tmpl = r.tmpl /\ next.epoch = r.epoch
          /\ next.succ = r.succ /\ next.thread = r.thread
      BY <2>1 DEF IsAdvanced
    <3> HIDE DEF next
    <3> QED BY <3>1, <3>2 DEF Record
  <2>3. a \in Rotations /\ rot \in [Rotations -> Record] /\ rot' = [rot EXCEPT ![a] = x]
    BY <1>1, <1>6 DEF IInv, Types
  <2>3b. r = rot[a] /\ rot[a].st = "running" /\ rot[a].bd = 6 /\ got[a] > 0
    BY <1>6, <2>0 DEF SuccessorBound
  <2> HIDE DEF x, a
  <2>4. /\ rot' \in [Rotations -> Record] /\ rot'[a] = x
        /\ \A b \in Rotations \ {a} : rot'[b] = rot[b]
    BY <2>2, <2>3
  <2>5. UNCHANGED <<sess, got, occ, vacancy>> /\ active' = None
    BY <1>0, <1>6 DEF world, LiftFence
  <2>6. frame' \in [Frames -> Call] /\ \A g \in Frames : frame'[g] = frame[g] \/ CallOK(frame[g])'
    BY <1>6, AnswerOK DEF IInv
  <2>7. Types'
    BY <2>4, <2>5, <2>6 DEF IInv, Types
  <2>8. \A b \in Rotations : Begun(b) <=> Begun(b)'
    BY <2>2, <2>3b, <2>4 DEF Begun
  <2>9. \A b \in Rotations : /\ rot'[b].pred = rot[b].pred /\ rot'[b].tmpl = rot[b].tmpl
                             /\ rot'[b].succ = rot[b].succ /\ rot'[b].thread = rot[b].thread
                             /\ rot'[b].epoch = rot[b].epoch
                             /\ rot[b].bd \in 0 .. 7 /\ rot'[b].bd \in 0 .. 7
                             /\ b # a => rot'[b].bd = rot[b].bd
    BY <2>2, <2>3, <2>3b, <2>4, Fields DEF RecordFields
  <2>10. Onward /\ BeginsAlone
    BY <2>2, <2>3b, <2>4, <2>8, <2>9 DEF Onward, BeginsAlone
  <2>11. RecordsAgree'
    <3> SUFFICES ASSUME NEW b \in Rotations
                 PROVE  /\ rot'[b].st = "none" => rot'[b] = NoRotation
                        /\ Begun(b)' => rot'[b].pred \in Sessions
                        /\ rot'[b].st = "complete" <=> rot'[b].bd = DirectorMessageDelivered
                        /\ rot'[b].pend => rot'[b].bd \notin {SuccessorRuntimeOnline, DirectorMessageDelivered}
                        /\ rot'[b].pend => rot'[b].reason # "external_step_failed"
                        /\ rot'[b].bd >= SuccessorSessionCreated => rot'[b].succ \in Sessions
      BY DEF RecordsAgree
    <3>1. CASE b = a
      BY <2>2, <2>3b, <2>4, <2>8, <2>9, <3>1 DEF IInv, RecordsAgree, DirectorMessageDelivered,
         SuccessorSessionCreated
    <3>2. CASE b # a
      BY <2>4, <2>8, <3>2 DEF IInv, RecordsAgree
    <3> QED BY <3>1, <3>2
  <2>12. Heirs'
    <3> SUFFICES ASSUME NEW b \in Rotations, NEW d \in Rotations,
                        rot'[b].bd >= SuccessorSessionCreated, Begun(d), rot[d].pred = rot[b].succ
                 PROVE  sess[rot[b].succ].thread
      BY <2>5, <2>8, <2>9 DEF Heirs
    <3>1. rot[b].bd >= SuccessorSessionCreated
      BY <2>2, <2>3b, <2>9 DEF SuccessorSessionCreated
    <3> QED BY <3>1 DEF IInv, Heirs
  <2>13. OneStory'
    <3>1. active = a /\ a # None
      BY <2>3, <2>3b, SessionsAssumption DEF IInv, OneStory
    <3>2. vacancy = NoVacancy /\ occ.release # Unbound
      BY <2>3b, <3>1 DEF IInv, OneStory, SuccessorBound
    <3>3. \A b \in Rotations : (active' = b) <=> (rot'[b].st \in {"running", "blocked"})
      BY <2>2, <2>3b, <2>4, <2>5, <3>1, SessionsAssumption DEF IInv, OneStory
    <3> QED BY <2>5, <3>2, <3>3 DEF OneStory
  <2>14. BoundariesAreTrue'
    <3> SUFFICES ASSUME NEW b \in Rotations
                 PROVE  /\ rot'[b].bd >= PredecessorRetired =>
                              sess[rot[b].pred].st = "retired" /\ ~sess[rot[b].pred].runtime
                        /\ rot'[b].bd >= SuccessorSessionCreated =>
                              /\ rot[b].succ # rot[b].pred /\ sess[rot[b].succ].st # "absent"
                              /\ sess[rot[b].succ].tmpl = rot[b].tmpl
                        /\ rot'[b].bd >= SuccessorThreadStarted =>
                              rot[b].thread = rot[b].succ /\ sess[rot[b].succ].thread
                        /\ rot'[b].st = "complete" => got[b] > 0
      BY <2>5, <2>9 DEF BoundariesAreTrue
    <3>1. CASE b = a
      BY <2>3b, <3>1 DEF IInv, BoundariesAreTrue, PredecessorRetired, SuccessorSessionCreated,
         SuccessorThreadStarted
    <3>2. CASE b # a
      BY <2>4, <3>2 DEF IInv, BoundariesAreTrue
    <3> QED BY <3>1, <3>2
  <2> QED BY <1>0, <2>6, <2>7, <2>10, <2>11, <2>12, <2>13, <2>14, StoreStep
<1> QED BY <1>4, <1>5, <1>6 DEF Finish, ToBoundary

LEMMA CorrectStep ==
    ASSUME IInv, NEW f \in Frames, Correct(f)
    PROVE  IInv' /\ Onward
<1> DEFINE c == frame[f]
           r == rot[c.a]
           a == c.a
<1>0. c.pc = "correct" /\ UNCHANGED world
  BY DEF Correct
<1>1. CallOK(c) /\ CallFields(c) /\ c.a \in Rotations /\ r \in Record /\ RecordFields(r)
  BY <1>0, CopyNames, Fields DEF Underway, IInv, Types, Calls
<1>2. ReportOK(c) /\ CopyOK(c) /\ CopyIsOld(c)
  BY <1>0, <1>1 DEF CallOK, CopyOK, Underway
<1>3. CASE Answer(f) /\ UNCHANGED store
  BY <1>0, <1>3, FrameStep
<1>4. CASE /\ Uncorrected(c.succ, c.thread)
           /\ frame' = [frame EXCEPT ![f].pc = "boundary"] /\ UNCHANGED store
  <2>1. /\ frame' \in [Frames -> Call]
        /\ frame'[f].pc = "boundary" /\ frame'[f].a = c.a /\ frame'[f].rec = c.rec
        /\ frame'[f].succ = None /\ frame'[f].thread = None
        /\ \A g \in Frames \ {f} : frame'[g] = frame[g]
    BY <1>4 DEF IInv, Types, Call, Uncorrected
  <2>2. rot' = rot
    BY <1>4 DEF store
  <2>3. CopyOK(frame[f])'
    BY <1>2, <2>1, <2>2 DEF CopyOK, CopyIsOld, Underway, Begun
  <2>4. CallOK(frame[f])'
    BY <2>1, <2>3 DEF CallOK, ReportOK, NewOK, StartOK
  <2>5. Types'
    BY <1>0, <1>4, <2>1 DEF IInv, Types, store, world
  <2>6. Lasting /\ Dead'
    BY <1>0 DEF Lasting, world, IInv, Types, Dead
  <2> QED BY <1>4, <2>1, <2>4, <2>5, <2>6, WorldStep
<1>5. CASE r.st = "blocked" /\ SetRotation(a, Resumed(r)) /\ ToBoundary(f, a, Resumed(r))
  <2> DEFINE x == Resumed(r)
  <2>1. /\ x \in Record /\ x.st = "running" /\ x.pend = FALSE
        /\ x.pred = r.pred /\ x.tmpl = r.tmpl /\ x.epoch = r.epoch
        /\ x.bd = r.bd /\ x.succ = r.succ /\ x.thread = r.thread
    BY <1>1, RecordUpdates DEF SamePlace
  <2>2. r.st \in {"running", "blocked"} /\ r = rot[a] /\ a \in Rotations
    BY <1>1, <1>5
  <2>3. SetRotation(a, x) /\ ToBoundary(f, a, x)
    BY <1>5
  <2> HIDE DEF x, a
  <2>4. frame' \in [Frames -> Call] /\ \A g \in Frames : frame'[g] = frame[g] \/ CallOK(frame[g])'
    BY <2>1, <2>2, <2>3, AtBoundary
  <2> HIDE DEF r
  <2> QED BY <1>0, <2>1, <2>2, <2>3, <2>4, SameBoundary
<1>6. CASE /\ ~Uncorrected(c.succ, c.thread) /\ Correctable(r, c.rec)
           /\ SetRotation(c.a, Advanced(r, c.succ, c.thread))
           /\ ToBoundary(f, c.a, Advanced(r, c.succ, c.thread))
  <2>1. r.st = "blocked" /\ r.bd = c.rec.bd
    BY <1>6 DEF Correctable
  <2>2. /\ c.succ # None => c.rec.bd = PredecessorRetired
        /\ c.thread # None => c.rec.bd = SuccessorSessionCreated
    BY <1>0, <1>2 DEF ReportOK
  <2>3. /\ c.rec.bd \in 0 .. 4 /\ c.rec.bd # PredecessorOfflined
        /\ c.rec.bd = PredecessorRetired => c.succ # None
        /\ c.rec.bd = SuccessorSessionCreated => c.thread # None
    BY <1>6, <2>2 DEF Uncorrected, PredecessorOfflined, PredecessorRetired, SuccessorSessionCreated
  <2> QED BY <1>0, <1>6, <2>1, <2>3, AdvanceStep
<1>7. \/ Answer(f) /\ UNCHANGED store
      \/ /\ Uncorrected(c.succ, c.thread)
         /\ frame' = [frame EXCEPT ![f].pc = "boundary"] /\ UNCHANGED store
      \/ r.st = "blocked" /\ SetRotation(a, Resumed(r)) /\ ToBoundary(f, a, Resumed(r))
      \/ /\ ~Uncorrected(c.succ, c.thread) /\ Correctable(r, c.rec)
         /\ SetRotation(c.a, Advanced(r, c.succ, c.thread))
         /\ ToBoundary(f, c.a, Advanced(r, c.succ, c.thread))
  BY DEF Correct, ToBoundary, Interrupted, CleanStart
<1> QED BY <1>3, <1>4, <1>5, <1>6, <1>7

\* Go to the boundary with a record.
LEMMA GoFields ==
    ASSUME IInv, NEW f \in Frames, NEW x \in Record, Go(f, "boundary", x)
    PROVE  /\ frame' \in [Frames -> Call]
           /\ frame'[f].pc = "boundary" /\ frame'[f].a = frame[f].a /\ frame'[f].rec = x
           /\ frame'[f].succ = frame[f].succ /\ frame'[f].thread = frame[f].thread
           /\ \A g \in Frames \ {f} : frame'[g] = frame[g]
<1> DEFINE c == frame[f]
<1>0. frame \in [Frames -> Call] /\ c \in Call
  BY DEF IInv, Types
<1>1. frame' = [frame EXCEPT ![f] = [c EXCEPT !.pc = "boundary", !.rec = x]]
  BY <1>0 DEF Go
<1>2. LET d == [c EXCEPT !.pc = "boundary", !.rec = x]
      IN  /\ d \in Call /\ d.pc = "boundary" /\ d.succ = c.succ /\ d.thread = c.thread
          /\ d.a = c.a /\ d.rec = x
  <2> HIDE DEF c
  <2> QED BY <1>0 DEF Call
<1> QED BY <1>0, <1>1, <1>2

LEMMA GoStep ==
    ASSUME IInv, NEW f \in Frames, frame[f].succ = None, frame[f].thread = None,
           NEW a \in Rotations, frame[f].a = a, rot[a].st # "none",
           Go(f, "boundary", rot[a]), UNCHANGED <<store, world>>
    PROVE  IInv' /\ Onward
<1>1. rot' = rot /\ rot[a] \in Record
  BY DEF store, IInv, Types
<1>2. /\ frame' \in [Frames -> Call]
      /\ frame'[f].pc = "boundary" /\ frame'[f].a = a /\ frame'[f].rec = rot[a]
      /\ frame'[f].succ = None /\ frame'[f].thread = None
      /\ \A g \in Frames \ {f} : frame'[g] = frame[g]
  BY <1>1, GoFields
<1>3. CallOK(frame[f])'
  BY <1>1, <1>2, HoldsRecord
<1>4. Types'
  BY <1>2 DEF IInv, Types, store, world
<1>5. Lasting /\ Dead'
  BY DEF Lasting, world, IInv, Types, Dead
<1> QED BY <1>2, <1>3, <1>4, <1>5, WorldStep

LEMMA BindSuccessorStep ==
    ASSUME IInv, NEW f \in Frames, BindSuccessor(f)
    PROVE  IInv' /\ Onward
<1> DEFINE c == frame[f]
           a == c.a
           r == rot[a]
           x == [r EXCEPT !.bd = SuccessorBound, !.succEpoch = NextEpoch(vacancy.epoch)]
<1>0. c.pc = "boundary" /\ UNCHANGED world /\ c.rec.bd = SuccessorRuntimeOnline
  BY DEF BindSuccessor
<1>1. CopyOK(c) /\ a \in Rotations /\ r \in Record /\ RecordFields(r) /\ Begun(a) /\ r.st # "none"
  BY <1>0, CopyNames, Fields DEF Underway, IInv, Types, Calls, CallOK, Begun
<1>2. c.succ = None /\ c.thread = None
  BY <1>0, <1>1 DEF CopyOK
<1>3. CASE Answer(f) /\ UNCHANGED store
  BY <1>0, <1>3, FrameStep
<1>4. CASE Go(f, "boundary", r) /\ UNCHANGED store
  BY <1>0, <1>1, <1>2, <1>4, GoStep
<1>5. CASE /\ r.bd = SuccessorRuntimeOnline /\ r.st = "running" /\ ~r.pend
           /\ occ' = [occ EXCEPT !.release = [who |-> r.succ, epoch |-> NextEpoch(vacancy.epoch)]]
           /\ vacancy' = NoVacancy
           /\ rot' = [rot EXCEPT ![a] = x]
           /\ UNCHANGED active
           /\ Go(f, "boundary", x)
  <2>1. vacancy.epoch \in Nat /\ NextEpoch(vacancy.epoch) \in Nat
    BY DEF IInv, Types, NextEpoch
  <2>2. r.succ \in Sessions /\ rot[a].bd = 5 /\ rot[a].st = "running"
    BY <1>1, <1>5 DEF IInv, RecordsAgree, SuccessorRuntimeOnline, SuccessorSessionCreated
  <2>3. /\ x \in Record /\ x.st = "running" /\ x.pend = r.pend /\ x.bd = 6
        /\ x.pred = r.pred /\ x.tmpl = r.tmpl /\ x.epoch = r.epoch
        /\ x.succ = r.succ /\ x.thread = r.thread
    <3>1. NextEpoch(vacancy.epoch) \in Nat /\ r.st = "running"
      BY <1>5, <2>1
    <3>2. SuccessorBound \in 0 .. 7 /\ SuccessorBound = 6
      BY DEF SuccessorBound
    <3> DEFINE e == NextEpoch(vacancy.epoch)
    <3>3. x = [r EXCEPT !.bd = SuccessorBound, !.succEpoch = e] /\ e \in Nat
      BY <3>1
    <3> HIDE DEF r, e, x
    <3> QED BY <1>1, <3>1, <3>2, <3>3 DEF Record
  <2>3b. rot \in [Rotations -> Record] /\ rot' = [rot EXCEPT ![a] = x] /\ ~rot[a].pend
    BY <1>5 DEF IInv, Types
  <2>3c. r = rot[a]
    OBVIOUS
  <2>3d. /\ frame' \in [Frames -> Call]
         /\ frame'[f].pc = "boundary" /\ frame'[f].a = a /\ frame'[f].rec = x
         /\ frame'[f].succ = None /\ frame'[f].thread = None
         /\ \A g \in Frames \ {f} : frame'[g] = frame[g]
    <3>1. Go(f, "boundary", x)
      BY <1>5
    <3> HIDE DEF x
    <3> QED BY <1>2, <2>3, <3>1, GoFields
  <2> HIDE DEF x, a
  <2>4. /\ rot' \in [Rotations -> Record] /\ rot'[a] = x
        /\ \A b \in Rotations \ {a} : rot'[b] = rot[b]
    BY <1>1, <2>3, <2>3b
  <2>5. UNCHANGED <<sess, got, active>> /\ vacancy' = NoVacancy
    BY <1>0, <1>5 DEF world
  <2>6. /\ occ' \in [director : Occupancy, release : Occupancy]
        /\ occ'.release # Unbound
    <3>1. [who |-> r.succ, epoch |-> NextEpoch(vacancy.epoch)] \in Occupancy
      BY <2>1, <2>2 DEF Occupancy, SessionsOrNone
    <3>2. [who |-> r.succ, epoch |-> NextEpoch(vacancy.epoch)] # Unbound
      BY <2>2, SessionsAssumption DEF Unbound
    <3>3. occ \in [director : Occupancy, release : Occupancy]
      BY DEF IInv, Types
    <3> QED BY <1>5, <3>1, <3>2, <3>3
  <2>7. NoVacancy \in [a : Rotations \cup {None}, pred : SessionsOrNone, epoch : Nat]
    BY DEF NoVacancy, SessionsOrNone
  <2>8. Types'
    BY <2>3d, <2>4, <2>5, <2>6, <2>7 DEF IInv, Types
  <2>9. \A b \in Rotations : Begun(b) <=> Begun(b)'
    BY <1>1, <2>3, <2>3c, <2>4 DEF Begun
  <2>10. \A b \in Rotations : /\ rot'[b].pred = rot[b].pred /\ rot'[b].tmpl = rot[b].tmpl
                              /\ rot'[b].succ = rot[b].succ /\ rot'[b].thread = rot[b].thread
                              /\ rot'[b].epoch = rot[b].epoch /\ rot'[b].st = rot[b].st
                              /\ rot'[b].pend = rot[b].pend
                              /\ rot[b].bd \in 0 .. 7 /\ rot'[b].bd \in 0 .. 7
                              /\ b # a => rot'[b].bd = rot[b].bd
    BY <2>2, <2>3, <2>3b, <2>3c, <2>4, Fields DEF RecordFields
  <2>11. Onward /\ BeginsAlone
    BY <2>2, <2>3, <2>4, <2>9, <2>10 DEF Onward, BeginsAlone
  <2>12. RecordsAgree'
    <3> SUFFICES ASSUME NEW b \in Rotations
                 PROVE  /\ rot'[b].st = "none" => rot'[b] = NoRotation
                        /\ Begun(b)' => rot'[b].pred \in Sessions
                        /\ rot'[b].st = "complete" <=> rot'[b].bd = DirectorMessageDelivered
                        /\ rot'[b].pend => rot'[b].bd \notin {SuccessorRuntimeOnline, DirectorMessageDelivered}
                        /\ rot'[b].pend => rot'[b].reason # "external_step_failed"
                        /\ rot'[b].bd >= SuccessorSessionCreated => rot'[b].succ \in Sessions
      BY DEF RecordsAgree
    <3>1. CASE b = a
      BY <1>1, <2>2, <2>3, <2>3b, <2>3c, <2>4, <2>9, <2>10, <3>1 DEF IInv, RecordsAgree,
         DirectorMessageDelivered, SuccessorSessionCreated
    <3>2. CASE b # a
      BY <2>4, <2>9, <3>2 DEF IInv, RecordsAgree
    <3> QED BY <3>1, <3>2
  <2>13. Heirs'
    <3> SUFFICES ASSUME NEW b \in Rotations, NEW d \in Rotations,
                        rot'[b].bd >= SuccessorSessionCreated, Begun(d), rot[d].pred = rot[b].succ
                 PROVE  sess[rot[b].succ].thread
      BY <2>5, <2>9, <2>10 DEF Heirs
    <3>1. rot[b].bd >= SuccessorSessionCreated
      BY <2>2, <2>10 DEF SuccessorSessionCreated
    <3> QED BY <3>1 DEF IInv, Heirs
  <2>14. OneStory'
    <3>1. active = a /\ a # None
      BY <1>1, <2>2, SessionsAssumption DEF IInv, OneStory
    <3>2. \A b \in Rotations : (active' = b) <=> (rot'[b].st \in {"running", "blocked"})
      BY <2>5, <2>10 DEF IInv, OneStory
    <3>3. ~(rot'[active'].bd < SuccessorBound)
      BY <2>3, <2>4, <2>5, <3>1 DEF SuccessorBound
    <3> QED BY <2>5, <2>6, <3>2, <3>3 DEF OneStory
  <2>15. BoundariesAreTrue'
    <3> SUFFICES ASSUME NEW b \in Rotations
                 PROVE  /\ rot'[b].bd >= PredecessorRetired =>
                              sess[rot[b].pred].st = "retired" /\ ~sess[rot[b].pred].runtime
                        /\ rot'[b].bd >= SuccessorSessionCreated =>
                              /\ rot[b].succ # rot[b].pred /\ sess[rot[b].succ].st # "absent"
                              /\ sess[rot[b].succ].tmpl = rot[b].tmpl
                        /\ rot'[b].bd >= SuccessorThreadStarted =>
                              rot[b].thread = rot[b].succ /\ sess[rot[b].succ].thread
                        /\ rot[b].st = "complete" => got[b] > 0
      BY <2>5, <2>10 DEF BoundariesAreTrue
    <3>1. CASE b = a
      BY <2>2, <3>1 DEF IInv, BoundariesAreTrue, PredecessorRetired, SuccessorSessionCreated,
         SuccessorThreadStarted
    <3>2. CASE b # a
      BY <2>10, <3>2 DEF IInv, BoundariesAreTrue
    <3> QED BY <3>1, <3>2
  <2>16. CallOK(frame[f])'
    <3>1. rot'[a].st # "none"
      BY <2>3, <2>4
    <3> QED BY <1>1, <2>3, <2>3d, <2>4, <3>1, HoldsRecord
  <2> QED BY <1>0, <2>3d, <2>8, <2>11, <2>12, <2>13, <2>14, <2>15, <2>16, StoreStep
<1> QED BY <1>3, <1>4, <1>5 DEF BindSuccessor

LEMMA BeginStep ==
    ASSUME IInv, NEW f \in Frames, Begin(f)
    PROVE  IInv' /\ Onward
<1> DEFINE c == frame[f]
           a == c.a
           q == c.req
           x == [NoRotation EXCEPT !.st = "running", !.dir = q.dir, !.pred = q.pred,
                                   !.epoch = q.epoch, !.tmpl = q.tmpl]
           v == [a |-> a, pred |-> q.pred, epoch |-> q.epoch]
<1>0. c.pc = "begin" /\ UNCHANGED world
  BY DEF Begin
<1>1. CopyOK(c)
  BY DEF IInv, Calls, CallOK
<1>2. a \in Rotations /\ q \in Request /\ c.succ = None /\ c.thread = None
  BY <1>0, <1>1 DEF CopyOK
<1>3. CASE Answer(f) /\ UNCHANGED store
  BY <1>0, <1>3, FrameStep
<1>4. CASE rot[a] # NoRotation /\ Go(f, "boundary", rot[a]) /\ UNCHANGED store
  <2>1. rot[a].st # "none"
    BY <1>2, <1>4 DEF IInv, RecordsAgree
  <2> QED BY <1>0, <1>2, <1>4, <2>1, GoStep
<1>5. CASE /\ rot[a] = NoRotation /\ active = None
           /\ occ' = [occ EXCEPT !.release = Unbound]
           /\ vacancy' = v /\ active' = a
           /\ rot' = [rot EXCEPT ![a] = x]
           /\ Go(f, "boundary", x)
  <2>1. q.pred \in Sessions /\ q.dir \in Sessions /\ q.epoch \in Nat /\ q.tmpl \in Nat
    BY <1>2, BoundsAssumption DEF Request
  <2>2. /\ x \in Record /\ x.st = "running" /\ x.pend = FALSE /\ x.bd = 0
        /\ x.pred = q.pred /\ x.epoch = q.epoch
    <3>1. NoRotation \in Record /\ NoRotation.pend = FALSE /\ NoRotation.bd = 0
      BY IdleIsCall DEF NoRotation, SeatRevoked
    <3>2. q.pred \in SessionsOrNone /\ q.dir \in SessionsOrNone
      BY <2>1 DEF SessionsOrNone
    <3> HIDE DEF q
    <3> QED BY <2>1, <3>1, <3>2 DEF Record
  <2>3. rot \in [Rotations -> Record] /\ rot' = [rot EXCEPT ![a] = x] /\ rot[a].st = "none"
        /\ rot[a].bd = 0
    BY <1>5 DEF IInv, Types, NoRotation, SeatRevoked
  <2>4. /\ frame' \in [Frames -> Call]
        /\ frame'[f].pc = "boundary" /\ frame'[f].a = a /\ frame'[f].rec = x
        /\ frame'[f].succ = None /\ frame'[f].thread = None
        /\ \A g \in Frames \ {f} : frame'[g] = frame[g]
    <3>1. Go(f, "boundary", x)
      BY <1>5
    <3> HIDE DEF x
    <3> QED BY <1>2, <2>2, <3>1, GoFields
  <2>5. v \in [a : Rotations \cup {None}, pred : SessionsOrNone, epoch : Nat] /\ v # NoVacancy
    <3>1. a # None
      BY <1>2, SessionsAssumption
    <3> QED BY <1>2, <2>1, <3>1 DEF NoVacancy, SessionsOrNone
  <2>6. x.pred = v.pred /\ x.epoch = v.epoch /\ v = [a |-> a, pred |-> x.pred, epoch |-> x.epoch]
    BY <2>2
  <2>7. active = None /\ active' = a /\ vacancy' = v /\ occ' = [occ EXCEPT !.release = Unbound]
    BY <1>5
  <2> HIDE DEF x, v, a, q
  <2>8. /\ rot' \in [Rotations -> Record] /\ rot'[a] = x
        /\ \A b \in Rotations \ {a} : rot'[b] = rot[b]
    BY <1>2, <2>2, <2>3
  <2>9. occ' \in [director : Occupancy, release : Occupancy] /\ occ'.release = Unbound
    <3>1. Unbound \in Occupancy
      BY DEF Unbound, Occupancy, SessionsOrNone
    <3>2. occ \in [director : Occupancy, release : Occupancy]
      BY DEF IInv, Types
    <3> QED BY <2>7, <3>1, <3>2
  <2>10. Types'
    BY <1>0, <1>2, <2>4, <2>5, <2>7, <2>8, <2>9 DEF IInv, Types, world
  <2>11. \A b \in Rotations : RecordFields(rot[b])
    BY Fields DEF IInv, Types
  <2>12. Onward /\ BeginsAlone
    <3> SUFFICES ASSUME NEW b \in Rotations, Begun(b)
                 PROVE  rot'[b] = rot[b] /\ rot[b].bd <= rot[b].bd
      BY <2>7 DEF Onward, BeginsAlone, Begun
    <3>1. b # a
      BY <2>3 DEF Begun
    <3> QED BY <2>8, <2>11, <3>1 DEF RecordFields
  <2>13. \A b \in Rotations : Begun(b) => rot[b].st = "complete"
    <3> SUFFICES ASSUME NEW b \in Rotations, Begun(b) PROVE rot[b].st = "complete"
      OBVIOUS
    <3>1. rot[b].st \notin {"running", "blocked"}
      BY <2>7, SessionsAssumption DEF IInv, OneStory
    <3> QED BY <2>11, <3>1 DEF Begun, RecordFields
  <2>14. RecordsAgree'
    <3> SUFFICES ASSUME NEW b \in Rotations
                 PROVE  /\ rot'[b].st = "none" => rot'[b] = NoRotation
                        /\ Begun(b)' => rot'[b].pred \in Sessions
                        /\ rot'[b].st = "complete" <=> rot'[b].bd = DirectorMessageDelivered
                        /\ rot'[b].pend => rot'[b].bd \notin {SuccessorRuntimeOnline, DirectorMessageDelivered}
                        /\ rot'[b].pend => rot'[b].reason # "external_step_failed"
                        /\ rot'[b].bd >= SuccessorSessionCreated => rot'[b].succ \in Sessions
      BY DEF RecordsAgree
    <3>1. CASE b = a
      BY <2>1, <2>2, <2>8, <3>1 DEF DirectorMessageDelivered, SuccessorSessionCreated
    <3>2. CASE b # a
      BY <2>8, <3>2 DEF IInv, RecordsAgree, Begun
    <3> QED BY <3>1, <3>2
  <2>15. Heirs'
    <3> SUFFICES ASSUME NEW b \in Rotations, NEW d \in Rotations,
                        rot'[b].bd >= SuccessorSessionCreated, rot'[d].pred = rot'[b].succ
                 PROVE  sess'[rot'[b].succ].thread
      BY DEF Heirs
    <3>1. b # a
      BY <2>2, <2>8 DEF SuccessorSessionCreated
    <3>2. rot'[b] = rot[b] /\ rot[b].bd >= SuccessorSessionCreated
      BY <2>8, <3>1
    <3>3. Begun(b)
      BY <3>2 DEF IInv, RecordsAgree, Begun, NoRotation, SuccessorSessionCreated, SeatRevoked
    <3>4. rot[b].bd = 7
      BY <2>13, <3>3 DEF IInv, RecordsAgree, DirectorMessageDelivered
    <3>5. sess[rot[b].succ].thread
      BY <3>4 DEF IInv, BoundariesAreTrue, SuccessorThreadStarted
    <3> QED BY <1>0, <3>2, <3>5 DEF world
  <2>16. OneStory'
    <3>1. \A b \in Rotations : (active' = b) <=> (rot'[b].st \in {"running", "blocked"})
      <4> SUFFICES ASSUME NEW b \in Rotations
                   PROVE  (a = b) <=> (rot'[b].st \in {"running", "blocked"})
        BY <2>7
      <4>1. CASE b = a
        BY <2>2, <2>8, <4>1
      <4>2. CASE b # a
        BY <2>7, <2>8, <4>2, SessionsAssumption DEF IInv, OneStory
      <4> QED BY <4>1, <4>2
    <3>2. active' # None /\ rot'[active'].bd < SuccessorBound
      BY <1>2, <2>2, <2>7, <2>8, SessionsAssumption DEF SuccessorBound
    <3>3. vacancy' = [a |-> active', pred |-> rot'[active'].pred, epoch |-> rot'[active'].epoch]
      BY <2>6, <2>7, <2>8
    <3>4. vacancy' # NoVacancy
      BY <2>5, <2>7
    <3> QED BY <2>9, <3>1, <3>2, <3>3, <3>4 DEF OneStory
  <2>17. BoundariesAreTrue'
    <3> SUFFICES ASSUME NEW b \in Rotations
                 PROVE  /\ rot'[b].bd >= PredecessorRetired =>
                              sess[rot'[b].pred].st = "retired" /\ ~sess[rot'[b].pred].runtime
                        /\ rot'[b].bd >= SuccessorSessionCreated =>
                              /\ rot'[b].succ # rot'[b].pred /\ sess[rot'[b].succ].st # "absent"
                              /\ sess[rot'[b].succ].tmpl = rot'[b].tmpl
                        /\ rot'[b].bd >= SuccessorThreadStarted =>
                              rot'[b].thread = rot'[b].succ /\ sess[rot'[b].succ].thread
                        /\ rot'[b].st = "complete" => got[b] > 0
      BY <1>0 DEF BoundariesAreTrue, world
    <3>1. CASE b = a
      BY <2>2, <2>8, <3>1 DEF PredecessorRetired, SuccessorSessionCreated, SuccessorThreadStarted
    <3>2. CASE b # a
      BY <2>8, <3>2 DEF IInv, BoundariesAreTrue
    <3> QED BY <3>1, <3>2
  <2>18. CallOK(frame[f])'
    <3>1. rot'[a].st # "none"
      BY <2>2, <2>8
    <3> QED BY <1>2, <2>2, <2>4, <2>8, <3>1, HoldsRecord
  <2> QED BY <1>0, <2>4, <2>10, <2>12, <2>14, <2>15, <2>16, <2>17, <2>18, StoreStep
<1> QED BY <1>3, <1>4, <1>5 DEF Begin

LEMMA RestartStep ==
    ASSUME IInv, Restart
    PROVE  IInv' /\ Onward
<1>0. /\ frame' = [f \in Frames |-> Idle]
      /\ rot' = [a \in Rotations |-> Classified(rot[a])]
      /\ UNCHANGED <<occ, vacancy, active, sess, got>>
  BY DEF Restart, world
<1>1. \A a \in Rotations : rot[a] \in Record /\ RecordFields(rot[a]) /\ rot'[a] = Classified(rot[a])
  BY <1>0, Fields DEF IInv, Types
<1>2. \A a \in Rotations : SamePlace(rot'[a], rot[a])
  <2> TAKE a \in Rotations
  <2>1. SamePlace(Classified(rot[a]), rot[a])
    BY <1>1, RecordUpdates
  <2> QED BY <1>1, <2>1
<1>3. \A a \in Rotations : /\ rot'[a].pend = rot[a].pend
                           /\ rot[a].st # "running" => rot'[a] = rot[a]
                           /\ rot[a].st = "running" => /\ rot'[a].st = "blocked"
                                                       /\ rot'[a].reason # "external_step_failed"
  <2> TAKE a \in Rotations
  <2> DEFINE x == Classified(rot[a])
  <2>1. /\ x.pend = rot[a].pend
        /\ rot[a].st # "running" => x = rot[a]
        /\ rot[a].st = "running" => x.st = "blocked" /\ x.reason # "external_step_failed"
    <3>1. rot[a] \in Record
      BY <1>1
    <3> QED BY <3>1, RecordUpdates, ZenonT(60)
  <2> HIDE DEF x
  <2> QED BY <1>1, <2>1 DEF x
<1>4. Types'
  <2>1. rot' \in [Rotations -> Record]
    BY <1>0, <1>1, <1>2 DEF SamePlace
  <2>2. frame' \in [Frames -> Call]
    BY <1>0, IdleIsCall
  <2> QED BY <1>0, <2>1, <2>2 DEF IInv, Types
<1>5. \A a \in Rotations : Begun(a) <=> Begun(a)'
  BY <1>3 DEF Begun
<1>6. Onward /\ BeginsAlone
  BY <1>1, <1>2, <1>5 DEF Onward, BeginsAlone, SamePlace, RecordFields
<1>7. RecordsAgree'
  <2> SUFFICES ASSUME NEW b \in Rotations
               PROVE  /\ rot'[b].st = "none" => rot'[b] = NoRotation
                      /\ Begun(b)' => rot'[b].pred \in Sessions
                      /\ rot'[b].st = "complete" <=> rot'[b].bd = DirectorMessageDelivered
                      /\ rot'[b].pend => rot'[b].bd \notin {SuccessorRuntimeOnline, DirectorMessageDelivered}
                      /\ rot'[b].pend => rot'[b].reason # "external_step_failed"
                      /\ rot'[b].bd >= SuccessorSessionCreated => rot'[b].succ \in Sessions
    BY DEF RecordsAgree
  <2>1. CASE rot[b].st = "running"
    BY <1>2, <1>3, <1>5, <2>1 DEF IInv, RecordsAgree, SamePlace
  <2>2. CASE rot[b].st # "running"
    BY <1>3, <1>5, <2>2 DEF IInv, RecordsAgree
  <2> QED BY <2>1, <2>2
<1>8. Heirs'
  BY <1>0, <1>2, <1>5 DEF IInv, Heirs, SamePlace
<1>9. OneStory'
  <2>1. \A b \in Rotations : (active' = b) <=> (rot'[b].st \in {"running", "blocked"})
    BY <1>0, <1>3 DEF IInv, OneStory
  <2>2. active # None => active \in Rotations
    BY DEF IInv, Types
  <2> QED BY <1>0, <1>2, <2>1, <2>2 DEF IInv, OneStory, SamePlace
<1>10. BoundariesAreTrue'
  <2> SUFFICES ASSUME NEW b \in Rotations
               PROVE  /\ rot'[b].bd >= PredecessorRetired =>
                            sess[rot'[b].pred].st = "retired" /\ ~sess[rot'[b].pred].runtime
                      /\ rot'[b].bd >= SuccessorSessionCreated =>
                            /\ rot'[b].succ # rot'[b].pred /\ sess[rot'[b].succ].st # "absent"
                            /\ sess[rot'[b].succ].tmpl = rot'[b].tmpl
                      /\ rot'[b].bd >= SuccessorThreadStarted =>
                            rot'[b].thread = rot'[b].succ /\ sess[rot'[b].succ].thread
                      /\ rot'[b].st = "complete" => got[b] > 0
    BY <1>0 DEF BoundariesAreTrue
  <2>1. rot'[b].st = "complete" => rot[b].st = "complete"
    BY <1>3
  <2> QED BY <1>2, <2>1 DEF IInv, BoundariesAreTrue, SamePlace
<1>11. \A g \in Frames : CallOK(frame[g])'
  BY <1>0, IdleIsCall DEF CallOK, CopyOK, ReportOK, NewOK, StartOK, Underway
<1> QED BY <1>0, <1>4, <1>6, <1>7, <1>8, <1>9, <1>10, <1>11, StoreStep DEF world

-----------------------------------------------------------------------------
(* Administrators.                                                          *)

LEMMA BindStep ==
    ASSUME IInv, NEW seat \in Seats, NEW s \in Sessions, Bind(seat, s)
    PROVE  IInv' /\ Onward
<1>0. /\ UNCHANGED <<vacancy, active, rot, sess, got, frame>>
      /\ seat = "release" => vacancy = NoVacancy
      /\ occ' = [occ EXCEPT ![seat] = [who |-> s, epoch |-> occ[seat].epoch + 1]]
  BY DEF Bind, world
<1>1. occ \in [director : Occupancy, release : Occupancy] /\ seat \in {"director", "release"}
  BY DEF IInv, Types, Seats
<1> DEFINE o == [who |-> s, epoch |-> occ[seat].epoch + 1]
<1>2. o \in Occupancy /\ o # Unbound
  <2>1. occ[seat].epoch \in Nat
    BY <1>1 DEF Occupancy
  <2> QED BY <2>1, SessionsAssumption DEF Occupancy, SessionsOrNone, Unbound
<1>3. occ' = [occ EXCEPT ![seat] = o]
  BY <1>0
<1> HIDE DEF o
<1>4. occ' \in [director : Occupancy, release : Occupancy]
      /\ (seat = "release" => occ'.release = o) /\ (seat # "release" => occ'.release = occ.release)
  BY <1>1, <1>2, <1>3
<1>5. Types'
  BY <1>0, <1>4 DEF IInv, Types
<1>6. OneStory'
  BY <1>0, <1>2, <1>4 DEF IInv, OneStory
<1>7. Onward /\ BeginsAlone
  <2>1. \A a \in Rotations : rot[a].bd <= rot[a].bd
    BY Fields DEF IInv, Types, RecordFields
  <2> QED BY <1>0, <2>1 DEF Onward, BeginsAlone, Begun
<1>8. RecordsAgree' /\ Heirs' /\ BoundariesAreTrue'
  BY <1>0 DEF IInv, RecordsAgree, Heirs, BoundariesAreTrue, Begun
<1> QED BY <1>0, <1>5, <1>6, <1>7, <1>8, StoreStep DEF world

\* A change of variables outside the invariant, and none at all.
LEMMA OutsideStep ==
    ASSUME IInv, UNCHANGED <<store, world, frame>>
    PROVE  IInv' /\ Onward
<1>1. Lasting /\ Dead'
  BY DEF Lasting, Dead, world, IInv, Types
<1> QED BY <1>1, SessionStep DEF world, IInv, Types

-----------------------------------------------------------------------------
LEMMA InitIInv == ASSUME Init PROVE IInv
<1>1. Types
  <2>1. /\ [who |-> Director, epoch |-> 1] \in Occupancy
        /\ [who |-> Predecessor, epoch |-> 1] \in Occupancy
    BY SessionsAssumption DEF Occupancy, SessionsOrNone
  <2>2. Running0 \in Session /\ Absent \in Session
    BY DEF Running0, Absent, NewSession, Session
  <2>3. NoVacancy \in [a : Rotations \cup {None}, pred : SessionsOrNone, epoch : Nat]
    BY DEF NoVacancy, SessionsOrNone
  <2>4. occ \in [director : Occupancy, release : Occupancy]
    BY <2>1 DEF Init
  <2>5. sess \in [Sessions -> Session]
    BY <2>2 DEF Init
  <2>6. got \in [Rotations -> Nat] /\ frame \in [Frames -> Call] /\ rot \in [Rotations -> Record]
    BY IdleIsCall DEF Init
  <2> QED BY <2>3, <2>4, <2>5, <2>6 DEF Init, Types
<1>2. \A a \in Rotations : rot[a] = NoRotation /\ rot[a].st = "none" /\ rot[a].bd = 0 /\ ~rot[a].pend
  BY DEF Init, NoRotation, SeatRevoked
<1>3. RecordsAgree /\ Heirs
  BY <1>2 DEF RecordsAgree, Heirs, Begun, SuccessorSessionCreated, DirectorMessageDelivered
<1>4. Calls
  BY IdleIsCall DEF Init, Calls, CallOK, CopyOK, ReportOK, NewOK, StartOK, Underway
<1>5. Dead
  BY DEF Init, Dead, Running0, Absent, NewSession
<1>6. OneStory
  <2>1. active = None /\ vacancy = NoVacancy /\ occ.release # Unbound
    BY SessionsAssumption DEF Init, Unbound
  <2> QED BY <1>2, <2>1, SessionsAssumption DEF OneStory
<1>7. BoundariesAreTrue
  BY <1>2 DEF BoundariesAreTrue, PredecessorRetired, SuccessorSessionCreated, SuccessorThreadStarted
<1> QED BY <1>1, <1>3, <1>4, <1>5, <1>6, <1>7 DEF IInv

LEMMA NextIInv == ASSUME IInv, [Next]_vars PROVE IInv' /\ Onward
<1>1. ASSUME NEW f \in Frames, Step(f) PROVE IInv' /\ Onward
  <2>1. CASE Begin(f)
    BY <2>1, BeginStep
  <2>2. CASE MarkPending(f)
    BY <2>2, MarkStep
  <2>3. CASE Finished(f) \/ StepFails(f)
    BY <2>3, FrameActions
  <2>4. CASE OfflinePredecessor(f) \/ RetirePredecessor(f)
    BY <2>4, PredecessorSteps
  <2>5. CASE \E s \in Sessions : CreateSuccessorSession(f, s)
    BY <2>5, CreateStep
  <2>6. CASE ClaimThread(f)
    BY <2>6, ClaimStep
  <2>7. CASE StartSuccessorThread(f)
    BY <2>7, StartStep
  <2>8. CASE LaunchSuccessorRuntime(f)
    BY <2>8, LaunchStep
  <2>9. CASE DeliverDirectorMessage(f)
    BY <2>9, DeliverStep
  <2>10. CASE Finish(f)
    BY <2>10, FinishStep
  <2>11. CASE Block(f)
    BY <2>11, BlockStep
  <2>12. CASE BindSuccessor(f)
    BY <2>12, BindSuccessorStep
  <2>13. CASE Correct(f)
    BY <2>13, CorrectStep
  <2> QED BY <1>1, <2>1, <2>2, <2>3, <2>4, <2>5, <2>6, <2>7, <2>8, <2>9, <2>10, <2>11, <2>12, <2>13
       DEF Step
<1>2. CASE \E f \in Frames : ThreadUnreadable(f) \/ StoreFails(f)
  BY <1>2, FrameActions
<1>3. CASE \E f \in Frames, a \in Rotations, req \in Request : RequestDirector(f, a, req)
  BY <1>3, RequestStep
<1>4. CASE \E a \in Rotations : Continue(a)
  BY <1>4, RetryStep DEF Continue, SessionsOrNone
<1>5. CASE Restart
  BY <1>5, RestartStep
<1>6. CASE Configure
  BY <1>6, OutsideStep DEF Configure
<1>7. CASE Repair
  BY <1>7, SessionActions, ProvideSessionStep, ProvideThreadStep DEF Repair
<1>8. CASE \E s \in Sessions : RuntimeDies(s)
  BY <1>8, SessionActions
<1>9. CASE \E seat \in Seats, s \in Sessions : Bind(seat, s)
  BY <1>9, BindStep
<1>10. CASE UNCHANGED vars
  BY <1>10, OutsideStep DEF vars
<1> QED BY <1>1, <1>2, <1>3, <1>4, <1>5, <1>6, <1>7, <1>8, <1>9, <1>10 DEF Next

\* Whatever frames, retries, binds, restarts and failing steps do, the seat,
\* the vacancy, the fence and the records tell one story (seat/mod.rs).
THEOREM SeatTellsOneStory == Spec => []OneStory
<1>1. Init => IInv
  BY InitIInv
<1>2. IInv /\ [Next]_vars => IInv'
  BY NextIInv
<1>3. IInv => OneStory
  BY DEF IInv
<1> QED BY <1>1, <1>2, <1>3, PTL DEF Spec

\* Every boundary a rotation record claims has been passed in the world,
\* whichever frame, retry or correction wrote it (rotation/provider.rs).
THEOREM ClaimedBoundariesPassed == Spec => []BoundariesAreTrue
<1>1. Init => IInv
  BY InitIInv
<1>2. IInv /\ [Next]_vars => IInv'
  BY NextIInv
<1>3. IInv => BoundariesAreTrue
  BY DEF IInv
<1> QED BY <1>1, <1>2, <1>3, PTL DEF Spec

\* A record never goes back over a boundary, and what it has said of its
\* predecessor, its template and its successor it keeps: the compare-and-sets
\* of seat/mod.rs against frames that work on an old copy.
THEOREM RecordsMoveOn == Spec => [][Onward]_vars
<1>1. Init => IInv
  BY InitIInv
<1>2. IInv /\ [Next]_vars => IInv' /\ Onward
  BY NextIInv
<1> QED BY <1>1, <1>2, PTL DEF Spec

=============================================================================
