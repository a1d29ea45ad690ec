----------------------- MODULE AgentManagement_proofs -----------------------
(***************************************************************************)
(* Proofs about the Agent Management provider: NoTwoAlike, NoWriteIsClean, *)
(* SurfacesAgree, OneNativePerAction, AnsweredInAgreement and              *)
(* EffectsAreAuthorized for every set of actions and requests and every    *)
(* number of sessions, crashes and administrative steps.                   *)
(***************************************************************************)
EXTENDS AgentManagement, FiniteSetTheorems, TLAPS

-----------------------------------------------------------------------------
(* The inductive invariant.                                                 *)

ActionRecords == [phase : Phases, native : Sessions \cup {None}, succ : Sessions \cup {None},
                  retry : BOOLEAN, why : Whys, resp : {"none", "complete", "no_write", "owner"}]
Asks == [caller : Sessions, req : Requests, epoch : Nat, grantRev : Nat]
Reviews == {"reconcile", "finish", "verify"}
Pcs == SimpleOps \cup Reviews \cup
    {"check", "ran", "closing", "retire", "mark", "closed", "complete", "create", "bootstrap",
     "notLaunched", "capture", "captureFailed", "adopted", "onlined", "observe", "message",
     "created", "recover", "transfer", "commit"}
Calls == [act : Actions, role : {"primary", "operator", "none"}, pc : Pcs, native : Sessions \cup {None}]

\* What TypeOK leaves open.
MoreTypes ==
    /\ asked \in [Actions -> Asks \cup {NoAsk}]
    /\ receipts \in [Actions -> Occupancy \cup {None}]
    /\ call \in Calls \cup {NoCall}
    /\ faults \in Nat /\ admin \in Nat /\ admin <= MaxAdmin

\* An action that has no thread, and one whose thread has become its agent.
Blank(x) == x.native = None /\ x.succ = None
Made(x) == x.native # None /\ x.succ = x.native
MadePhases == {"adopted", "configured", "online", "ready", "message_pending", "message_queued",
               "transfer"}
Final == {"complete", "no_write", "owner_action_required"}

\* The record x of an action that k asked for fits the threads la that it has
\* launched and the seat receipt rc that it has.
Fits(x, k, la, rc) ==
    /\ k = NoAsk => x.phase = "absent"
    /\ x.phase = "absent" => x = NoAction /\ la = {} /\ rc = None
    /\ x.resp = "none" <=> x.phase \notin Final
    /\ x.resp = "complete" <=> x.phase = "complete"
    /\ x.retry => x.phase = "pending" /\ la = {}
    /\ x.phase \in {"prepared", "cwd_ready", "no_write"} => Blank(x) /\ la = {}
    /\ x.phase \in {"closing", "closed"} =>
        /\ k.req.op \in {"replace", "rotate"} /\ k.req.how # "retain"
        /\ IF k.req.how = "close_after" THEN Made(x) ELSE Blank(x) /\ la = {}
    /\ x.phase \in {"pending", "owner_action_required"} => Blank(x)
    /\ x.phase = "captured" => x.native # None /\ x.succ = None
    /\ x.phase \in MadePhases => Made(x)
    /\ x.phase \in MadePhases \cup {"cwd_ready", "pending", "captured"} => k.req.op \in Creates
    /\ x.phase = "transfer" => k.req.op = "rotate"
    /\ x.phase \in {"transfer", "complete"} /\ k.req.op = "rotate" => Made(x) /\ k.caller = k.req.target
    /\ x.native # None => la = {x.native}
    /\ la = {} \/ \E n \in Sessions : la = {n}
    /\ k.caller \notin la
    /\ rc # None => x.phase \in {"transfer", "complete"} /\ k.req.op = "rotate" /\ rc.occupant = x.succ
Records == \A a \in Actions : Fits(actions[a], asked[a], launched[a], receipts[a])

\* Where a call c may be with the record x of its action, which k asked for.
Follows(c, x, k, la) ==
    /\ k # NoAsk
    /\ c.pc \in Reviews <=> x.phase = "complete"
    /\ x.phase \notin {"absent", "no_write", "owner_action_required"}
    /\ c.pc \in Reviews => k.req.op = "rotate"
    /\ c.pc \in {"query", "grant", "revoke"} => k.req.op = c.pc
    /\ c.pc \in {"online", "offline", "restart", "ran"} => k.req.op \in {"online", "offline", "restart"}
    /\ c.pc \in {"close", "retire", "mark", "closed"} =>
        \/ k.req.op = "close"
        \/ k.req.op \in {"replace", "rotate"} /\ x.phase = "closing"
    /\ c.pc = "closing" =>
        /\ k.req.op \in {"replace", "rotate"}
        /\ IF k.req.how = "close_after" THEN x.phase \in MadePhases \ {"transfer"}
           ELSE k.req.how # "retain" /\ x.phase \in {"prepared", "closing"}
    /\ c.pc = "complete" => k.req.op = "replace" /\ x.phase = "closed"
    /\ c.pc = "create" => k.req.op \in Creates
    /\ c.pc \in {"bootstrap", "notLaunched"} => x.phase = "pending" /\ ~x.retry /\ la = {}
    /\ c.pc \in {"capture", "captureFailed"} => x.phase = "pending" /\ ~x.retry /\ la = {c.native}
                                                /\ c.native # None
    /\ c.pc = "adopted" => x.phase = "captured"
    /\ c.pc = "onlined" => x.phase = "configured"
    /\ c.pc = "observe" => x.phase \in {"online", "ready", "message_pending", "message_queued"}
    /\ c.pc \in {"message", "created"} => x.phase \in {"ready", "message_pending", "message_queued"}
    /\ c.pc = "recover" => \/ x.phase = "transfer"
                           \/ k.req.op = "replace" /\ x.phase \in {"closing", "closed"}
    /\ c.pc \in {"transfer", "commit"} => x.phase = "transfer"
CallFollows == call # NoCall => Follows(call, actions[Act], asked[Act], launched[Act])

\* The sessions that anybody has to do with exist.
SessionsExist ==
    \A a \in Actions : /\ asked[a] # NoAsk => life[asked[a].caller] # "absent"
                       /\ \A n \in launched[a] : life[n] # "absent"
                       /\ a \in inbox => asked[a] # NoAsk

\* A call works with its caller's authority, and a rotation under the
\* authority it names.
Working == call # NoCall /\ call.pc \notin Reviews
Authorized ==
    /\ Working => Allowed(Act)
    /\ Working /\ call.pc # "check" /\ R.op = "rotate" => AuthorityHolds /\ asked[Act].caller = R.target
    /\ call.pc \in {"finish", "verify"} => authority.director = A.succ
    /\ call.pc = "commit" => fence = Act /\ receipts[Act] # None

\* Unresolved actions keep their names apart; one that passed the collision
\* check and has not registered its agent yet still has its name free.
NamesApart ==
    \A a, b \in Actions :
        /\ a # b /\ actions[a].phase \notin Resolved /\ actions[b].phase \notin Resolved
        /\ asked[a].req.op \in Creates /\ asked[b].req.op \in Creates
        => asked[a].req.spec # asked[b].req.spec
NeedsName(x) ==
    \/ x.phase \in {"cwd_ready", "pending", "captured"}
    \/ x.phase = "owner_action_required" /\ x.why \in {"unknown", "ambiguous"}
NamesFree ==
    \A a \in Actions : NeedsName(actions[a]) =>
        /\ asked[a].req.op \in Creates
        /\ \A s \in Sessions : Active(s) => agents[s].spec # asked[a].req.spec

\* A seat receipt of an unfinished rotation is fenced.
FencedReceipts == \A a \in Actions : actions[a].phase = "transfer" /\ receipts[a] # None => fence = a

IInv == /\ TypeOK /\ MoreTypes /\ Records /\ CallFollows /\ SessionsExist /\ Authorized
        /\ NamesApart /\ NamesFree /\ NoTwoAlike /\ FencedReceipts /\ SurfacesAgree

-----------------------------------------------------------------------------
(* What a step needs that leaves the stores alone.                          *)

AgentRecords == [own : {"none", "active", "retired"}, spec : Specs \cup {DirectorSpec, None}]
LifeStates == {"absent", "native", "offline", "online", "retired"}
LifeOnward ==
    /\ life' \in [Sessions -> LifeStates]
    /\ \A s \in Sessions : life[s] # "absent" => life'[s] # "absent"

LEMMA SameLife == IInv /\ UNCHANGED life => LifeOnward
  BY DEF IInv, TypeOK, LifeOnward, LifeStates

LEMMA CallFacts ==
    ASSUME IInv, call # NoCall
    PROVE  /\ call \in Calls /\ Act \in Actions /\ A \in ActionRecords /\ asked[Act] \in Asks
           /\ R \in Requests /\ asked[Act].caller \in Sessions
           /\ Fits(A, asked[Act], launched[Act], receipts[Act])
           /\ Follows(call, A, asked[Act], launched[Act])
<1>1. call \in Calls /\ Act \in Actions
  BY DEF IInv, MoreTypes, Calls, Act
<1>2. A \in ActionRecords
  BY <1>1 DEF IInv, TypeOK, ActionRecords, A
<1>3. Fits(A, asked[Act], launched[Act], receipts[Act]) /\ Follows(call, A, asked[Act], launched[Act])
  BY <1>1 DEF IInv, Records, CallFollows, A
<1>4. asked[Act] \in Asks
  BY <1>1, <1>3 DEF Follows, IInv, MoreTypes
<1>5. R \in Requests /\ asked[Act].caller \in Sessions
  BY <1>4 DEF R, Asks
<1> QED BY <1>1, <1>2, <1>3, <1>4, <1>5

\* The action ids of the calls, told apart from no call.
LEMMA NoCallFacts ==
    /\ NoCall \notin Calls /\ NoCall.pc = "idle" /\ NoCall.act = None /\ "idle" \notin Pcs
    /\ \A c \in Calls : c.act \in Actions /\ c.pc \in Pcs /\ c.pc # "idle" /\ c # NoCall
<1>1. "idle" \notin Pcs
  BY DEF Pcs, SimpleOps, Reviews
<1>2. NoCall.pc = "idle" /\ NoCall.act = None
  BY DEF NoCall
<1>3. \A c \in Calls : c.act \in Actions /\ c.pc \in Pcs
  BY DEF Calls
<1> QED BY <1>1, <1>2, <1>3

LEMMA AllowedSame ==
    ASSUME UNCHANGED <<authority, agents, grants, asked>>, NEW a
    PROVE  Allowed(a)' <=> Allowed(a)
  BY DEF Allowed, Role, Active

\* A step of the running call on its action's record and threads, on agents,
\* grants and lives.
LEMMA TurnWide ==
    ASSUME IInv, call # NoCall, NEW y \in ActionRecords, NEW c \in Calls \cup {NoCall},
           NEW la \in SUBSET Sessions,
           actions' = [actions EXCEPT ![Act] = y], call' = c, launched' = [launched EXCEPT ![Act] = la],
           UNCHANGED <<authority, seat, receipts, fence, asked, admin>>,
           agents' \in [Sessions -> AgentRecords], grants' \subseteq Sessions, grantRev' \in Nat,
           authority.director \notin grants',
           LifeOnward, \A n \in la : life'[n] # "absent",
           inbox' \subseteq inbox, faults' \in Nat, answered' \subseteq Actions,
           Fits(y, asked[Act], la, receipts[Act]),
           A.phase \in {"transfer", "complete"} => y = A,
           y.phase \notin Resolved => A.phase \notin Resolved,
           c # NoCall => c.act = Act /\ Follows(c, y, asked[Act], la),
           Authorized', NamesFree', NoTwoAlike'
    PROVE  IInv'
<1>0. Act \in Actions /\ call \in Calls /\ A \in ActionRecords /\ A = actions[Act]
      /\ actions \in [Actions -> ActionRecords] /\ launched \in [Actions -> SUBSET Sessions]
  BY CallFacts DEF A, IInv, TypeOK, ActionRecords
<1>1. actions' \in [Actions -> ActionRecords] /\ actions'[Act] = y
      /\ \A a \in Actions : a # Act => actions'[a] = actions[a]
  BY <1>0
<1>2. launched' \in [Actions -> SUBSET Sessions] /\ launched'[Act] = la
      /\ \A a \in Actions : a # Act => launched'[a] = launched[a]
  BY <1>0
<1>3. TypeOK'
  BY <1>1, <1>2 DEF IInv, TypeOK, ActionRecords, AgentRecords, LifeOnward, LifeStates
<1>4. MoreTypes'
  BY DEF IInv, MoreTypes
<1>5. Records'
  <2> SUFFICES ASSUME NEW a \in Actions PROVE Fits(actions'[a], asked[a], launched'[a], receipts[a])
    BY DEF Records
  <2> QED BY <1>1, <1>2 DEF IInv, Records
<1>6. CallFollows'
  <2>1. c # NoCall => Follows(c, actions'[Act], asked[Act], launched'[Act]) /\ c.act = Act
    BY <1>1, <1>2
  <2> QED BY <2>1 DEF CallFollows, Act
<1>7. SessionsExist'
  <2>1. \A a \in Actions : asked[a] # NoAsk => asked[a].caller \in Sessions
    BY DEF IInv, MoreTypes, Asks
  <2>2. \A a \in Actions : \A n \in launched'[a] : life'[n] # "absent"
    BY <1>0, <1>2 DEF IInv, SessionsExist, LifeOnward
  <2> QED BY <2>1, <2>2 DEF IInv, SessionsExist, LifeOnward
<1>8. NamesApart'
  <2>1. \A a \in Actions : actions'[a].phase \notin Resolved => actions[a].phase \notin Resolved
    BY <1>0, <1>1
  <2> QED BY <2>1 DEF IInv, NamesApart
<1>9. FencedReceipts'
  <2>1. ASSUME actions'[Act].phase = "transfer", receipts[Act] # None PROVE fence = Act
    BY <1>0, <1>1, <2>1 DEF IInv, FencedReceipts, Records, Fits
  <2> QED BY <1>1, <2>1 DEF IInv, FencedReceipts
<1>10. SurfacesAgree'
  <2>1. \A a \in Actions : actions[a].phase \in {"transfer", "complete"} => actions'[a] = actions[a]
    BY <1>0, <1>1
  <2>2. fence # None => fence \in Actions
    BY DEF IInv, TypeOK
  <2>3. FenceHoldsSeat'
    BY <2>1, <2>2 DEF IInv, SurfacesAgree, FenceHoldsSeat
  <2>4. \A a \in Actions : Between(a) => Between(a)'
    BY <2>1 DEF Between
  <2> QED BY <2>3, <2>4 DEF IInv, SurfacesAgree
<1> QED BY <1>3, <1>4, <1>5, <1>6, <1>7, <1>8, <1>9, <1>10 DEF IInv

\* A step of the running call that touches only its action's record and the
\* lives of sessions.
LEMMA Turn ==
    ASSUME IInv, call # NoCall, NEW y \in ActionRecords, NEW c \in Calls \cup {NoCall},
           actions' = [actions EXCEPT ![Act] = y], call' = c,
           UNCHANGED <<authority, agents, grants, grantRev, seat, receipts, fence, launched, asked, admin>>,
           LifeOnward, inbox' \subseteq inbox, faults' \in Nat, answered' \subseteq Actions,
           Fits(y, asked[Act], launched[Act], receipts[Act]),
           A.phase \in {"transfer", "complete"} => y = A,
           y.phase \notin Resolved => A.phase \notin Resolved,
           NeedsName(y) => NeedsName(A) \/ (R.op \in Creates /\ ~Collides(R.spec, None)),
           c # NoCall => c.act = Act /\ Follows(c, y, asked[Act], launched[Act]),
           c # NoCall /\ c.pc \notin Reviews => call.pc \notin Reviews,
           c # NoCall /\ c.pc \notin Reviews /\ c.pc # "check" /\ call.pc = "check" /\ R.op = "rotate"
               => AuthorityHolds /\ asked[Act].caller = R.target,
           c.pc = "commit" => fence = Act /\ receipts[Act] # None,
           c.pc \in {"finish", "verify"} => authority.director = y.succ
    PROVE  IInv'
<1>0. Act \in Actions /\ call \in Calls /\ A \in ActionRecords /\ A = actions[Act]
      /\ actions \in [Actions -> ActionRecords]
  BY CallFacts DEF A, IInv, TypeOK, ActionRecords
<1>1. actions' \in [Actions -> ActionRecords] /\ actions'[Act] = y
      /\ \A a \in Actions : a # Act => actions'[a] = actions[a]
  BY <1>0
<1>2. Authorized'
  <2>0. CASE c = NoCall
    BY <2>0, NoCallFacts DEF Authorized, Working
  <2>1. CASE c # NoCall
    <3>1. c \in Calls /\ Act' = Act /\ R' = R /\ A' = y
      BY <1>1, <2>1 DEF Act, A, R
    <3>2. AuthorityHolds' <=> AuthorityHolds
      BY <3>1 DEF AuthorityHolds
    <3>3. Allowed(Act)' <=> Allowed(Act)
      BY <3>1, AllowedSame
    <3>4. c.pc \notin Reviews => Working
      BY <2>1 DEF Working
    <3>5. Working' => Allowed(Act)'
      BY <3>3, <3>4 DEF Working, IInv, Authorized
    <3>6. Working' /\ c.pc # "check" /\ R'.op = "rotate" => AuthorityHolds' /\ asked[Act].caller = R.target
      BY <2>1, <3>1, <3>2, <3>4 DEF Working, IInv, Authorized
    <3> QED BY <3>1, <3>5, <3>6 DEF Authorized
  <2> QED BY <2>0, <2>1
<1>3. NamesFree'
  <2> SUFFICES ASSUME NEW a \in Actions, NeedsName(actions'[a])
               PROVE  /\ asked[a].req.op \in Creates
                      /\ \A s \in Sessions : Active(s)' => agents[s].spec # asked[a].req.spec
    BY DEF NamesFree
  <2>1. \A s \in Sessions : Active(s)' <=> Active(s)
    BY DEF Active
  <2>2. CASE NeedsName(actions[a])
    BY <2>1, <2>2 DEF IInv, NamesFree
  <2>3. CASE ~NeedsName(actions[a])
    <3>1. a = Act /\ R.op \in Creates /\ ~Collides(R.spec, None)
      BY <1>0, <1>1, <2>3
    <3>2. \A s \in Sessions : s # None
      BY NoneAssumption
    <3> QED BY <2>1, <3>1, <3>2 DEF Collides, R
  <2> QED BY <2>2, <2>3
<1>4. NoTwoAlike'
  BY DEF IInv, NoTwoAlike, Active
<1>5. launched[Act] \in SUBSET Sessions /\ launched' = [launched EXCEPT ![Act] = launched[Act]]
       /\ \A n \in launched[Act] : life'[n] # "absent"
  BY <1>0 DEF IInv, TypeOK, SessionsExist, LifeOnward
<1>6. /\ agents' \in [Sessions -> AgentRecords] /\ grants' \subseteq Sessions /\ grantRev' \in Nat
       /\ authority.director \notin grants'
  BY DEF IInv, TypeOK, AgentRecords, SurfacesAgree
<1> QED BY <1>2, <1>3, <1>4, <1>5, <1>6, TurnWide

-----------------------------------------------------------------------------
(* How a call moves on and how it ends.                                     *)

\* Nothing but the record, the call, lives and the fault budget changes.
Quiet ==
    /\ UNCHANGED <<authority, agents, grants, grantRev, seat, receipts, fence, launched, asked, admin>>
    /\ inbox' \subseteq inbox /\ faults' \in Nat /\ answered' \subseteq Actions

LEMMA QuietStep ==
    ASSUME IInv, UNCHANGED <<store, seats, launched, clients, admin>>,
           UNCHANGED faults \/ (faults > 0 /\ faults' = faults - 1)
    PROVE  Quiet
<1>1. faults' \in Nat
  BY DEF IInv, MoreTypes
<1>2. answered' \subseteq Actions
  BY DEF IInv, TypeOK, clients
<1> QED BY <1>1, <1>2 DEF Quiet, store, seats, clients

\* A record that differs in its phase, and perhaps in its answer.
Rephased(y, x, p, r, w) ==
    /\ y \in ActionRecords /\ y.phase = p /\ y.resp = r /\ y.why = w
    /\ y.native = x.native /\ y.succ = x.succ /\ y.retry = x.retry

LEMMA PhaseSet ==
    ASSUME NEW x \in ActionRecords, NEW p \in Phases
    PROVE  Rephased([x EXCEPT !.phase = p], x, p, x.resp, x.why)
  BY DEF Rephased, ActionRecords

LEMMA AnswerSet ==
    ASSUME NEW x \in ActionRecords
    PROVE  /\ Rephased([x EXCEPT !.phase = "no_write", !.resp = "no_write"], x, "no_write", "no_write", x.why)
           /\ Rephased([x EXCEPT !.phase = "complete", !.resp = "complete"], x, "complete", "complete", x.why)
           /\ \A w \in Whys :
                Rephased([x EXCEPT !.phase = "owner_action_required", !.resp = "owner", !.why = w], x,
                         "owner_action_required", "owner", w)
<1>1. {"no_write", "complete", "owner_action_required"} \subseteq Phases
  BY DEF Phases, Resolved
<1>2. Rephased([x EXCEPT !.phase = "no_write", !.resp = "no_write"], x, "no_write", "no_write", x.why)
  BY <1>1 DEF Rephased, ActionRecords
<1>3. Rephased([x EXCEPT !.phase = "complete", !.resp = "complete"], x, "complete", "complete", x.why)
  BY <1>1 DEF Rephased, ActionRecords
<1>4. ASSUME NEW w \in Whys
      PROVE  Rephased([x EXCEPT !.phase = "owner_action_required", !.resp = "owner", !.why = w], x,
                      "owner_action_required", "owner", w)
  BY <1>1 DEF Rephased, ActionRecords
<1> QED BY <1>2, <1>3, <1>4

\* The three answers are records that fit.
LEMMA FitsRefused ==
    ASSUME NEW x \in ActionRecords, NEW y, NEW k, NEW la, NEW rc, Fits(x, k, la, rc),
           x.phase = "prepared", Rephased(y, x, "no_write", "no_write", x.why)
    PROVE  Fits(y, k, la, rc)
  BY DEF Fits, Rephased, Blank, Made, MadePhases, Final

LEMMA FitsOwner ==
    ASSUME NEW x \in ActionRecords, NEW y, NEW k, NEW la, NEW rc, NEW w, Fits(x, k, la, rc),
           x.native = None, ~x.retry, x.phase \notin {"absent", "complete", "no_write"},
           Rephased(y, x, "owner_action_required", "owner", w)
    PROVE  Fits(y, k, la, rc)
<1>1. x.succ = None /\ rc = None /\ k # NoAsk
  BY DEF Fits, Blank, Made, MadePhases, ActionRecords, Phases, Resolved
<1> QED BY <1>1 DEF Fits, Rephased, Blank, Made, MadePhases, Final

LEMMA FitsComplete ==
    ASSUME NEW x \in ActionRecords, NEW y, NEW k, NEW la, NEW rc, Fits(x, k, la, rc),
           k # NoAsk, k.req.op # "rotate", Rephased(y, x, "complete", "complete", x.why), x.phase # "pending"
    PROVE  Fits(y, k, la, rc)
  BY DEF Fits, Rephased, Blank, Made, MadePhases, Final

LEMMA WorkingFacts ==
    ASSUME IInv, Working
    PROVE  A.phase \notin {"absent", "complete", "no_write", "owner_action_required"}
  BY CallFacts DEF Working, Follows

\* A call of which only the place changes.
LEMMA Moved ==
    ASSUME NEW c \in Calls, NEW p \in Pcs
    PROVE  /\ [c EXCEPT !.pc = p] \in Calls /\ [c EXCEPT !.pc = p].pc = p
           /\ [c EXCEPT !.pc = p].act = c.act /\ [c EXCEPT !.pc = p].native = c.native
  BY DEF Calls

LEMMA EndRefused ==
    ASSUME IInv, Working, Quiet, LifeOnward, Refused
    PROVE  IInv'
<1>0. call # NoCall /\ call.pc \notin Reviews
  BY DEF Working
<1>1. /\ Act \in Actions /\ A \in ActionRecords /\ Fits(A, asked[Act], launched[Act], receipts[Act])
  BY <1>0, CallFacts
<1>2. A.phase \notin {"absent", "complete", "no_write", "owner_action_required"}
  BY WorkingFacts
<1>3. call' = NoCall
  BY DEF Refused, Return
<1>4. CASE A.phase = "prepared" /\ A.native = None /\ A.succ = None
  <2> DEFINE y == [A EXCEPT !.phase = "no_write", !.resp = "no_write"]
  <2>1. actions' = [actions EXCEPT ![Act] = y]
    BY <1>4 DEF Refused, Record
  <2>2. Rephased(y, A, "no_write", "no_write", A.why)
    BY <1>1, AnswerSet
  <2> HIDE DEF y
  <2>3. Fits(y, asked[Act], launched[Act], receipts[Act])
    BY <1>1, <1>4, <2>2, FitsRefused
  <2>4. y \in ActionRecords /\ y.phase = "no_write" /\ ~NeedsName(y) /\ y.phase \in Resolved
    BY <2>2 DEF Rephased, NeedsName, Resolved
  <2> QED BY <1>0, <1>3, <1>4, <2>1, <2>3, <2>4, Turn, NoCallFacts DEF Quiet
<1>5. CASE ~(A.phase = "prepared" /\ A.native = None /\ A.succ = None)
  <2>1. actions' = [actions EXCEPT ![Act] = A]
    BY <1>5 DEF Refused, Record
  <2> QED BY <1>0, <1>1, <1>3, <2>1, Turn, NoCallFacts DEF Quiet
<1> QED BY <1>4, <1>5

LEMMA EndOwner ==
    ASSUME IInv, Working, Quiet, LifeOnward, NEW why \in Whys, OwnerAction(why),
           why \in {"unknown", "ambiguous"} => NeedsName(A)
    PROVE  IInv'
<1>0. call # NoCall /\ call.pc \notin Reviews
  BY DEF Working
<1>1. /\ Act \in Actions /\ A \in ActionRecords /\ Fits(A, asked[Act], launched[Act], receipts[Act])
  BY <1>0, CallFacts
<1>2. A.phase \notin {"absent", "complete", "no_write", "owner_action_required"}
  BY WorkingFacts
<1>3. call' = NoCall
  BY DEF OwnerAction, Return
<1>4. CASE A.native = None /\ ~A.retry
  <2> DEFINE y == [A EXCEPT !.phase = "owner_action_required", !.resp = "owner", !.why = why]
  <2>1. actions' = [actions EXCEPT ![Act] = y]
    BY <1>4 DEF OwnerAction, Record, OwnerRecord
  <2>2. Rephased(y, A, "owner_action_required", "owner", why)
    BY <1>1, AnswerSet
  <2> HIDE DEF y
  <2>3. Fits(y, asked[Act], launched[Act], receipts[Act])
    BY <1>1, <1>2, <1>4, <2>2, FitsOwner
  <2>4. y \in ActionRecords /\ y.phase = "owner_action_required" /\ (NeedsName(y) => NeedsName(A))
    BY <2>2 DEF Rephased, NeedsName
  <2>5. A.phase \notin {"transfer", "complete"} /\ A.phase \notin Resolved
    BY <1>1, <1>2, <1>4 DEF Fits, Made, MadePhases, Resolved
  <2> QED BY <1>0, <1>3, <2>1, <2>3, <2>4, <2>5, Turn, NoCallFacts DEF Quiet
<1>5. CASE ~(A.native = None /\ ~A.retry)
  <2>1. actions' = [actions EXCEPT ![Act] = A]
    BY <1>5 DEF OwnerAction, Record, OwnerRecord
  <2> QED BY <1>0, <1>1, <1>3, <2>1, Turn, NoCallFacts DEF Quiet
<1> QED BY <1>4, <1>5

Excuses == Whys \ {"none", "unknown", "ambiguous"}
LEMMA EndExcused ==
    ASSUME IInv, Working, Quiet, LifeOnward, NEW why \in Excuses, OwnerAction(why)
    PROVE  IInv'
  BY EndOwner DEF Excuses

LEMMA EndComplete ==
    ASSUME IInv, Working, Quiet, LifeOnward, Completed, R.op # "rotate", A.phase # "pending"
    PROVE  IInv'
<1>0. call # NoCall /\ call.pc \notin Reviews
  BY DEF Working
<1>1. /\ Act \in Actions /\ A \in ActionRecords /\ Fits(A, asked[Act], launched[Act], receipts[Act])
      /\ asked[Act] # NoAsk
  BY <1>0, CallFacts DEF Follows
<1>2. A.phase \notin {"absent", "complete", "no_write", "owner_action_required"}
  BY WorkingFacts
<1> DEFINE y == [A EXCEPT !.phase = "complete", !.resp = "complete"]
<1>3. actions' = [actions EXCEPT ![Act] = y] /\ call' = NoCall
  BY DEF Completed, Record, Return
<1>4. Rephased(y, A, "complete", "complete", A.why)
  BY <1>1, AnswerSet
<1> HIDE DEF y
<1>5. Fits(y, asked[Act], launched[Act], receipts[Act])
  BY <1>1, <1>4, FitsComplete DEF R
<1>6. y \in ActionRecords /\ ~NeedsName(y) /\ y.phase \in Resolved
  BY <1>4 DEF Rephased, NeedsName, Resolved
<1>7. A.phase \notin {"transfer", "complete"}
  BY <1>1, <1>2 DEF Fits, R
<1> QED BY <1>0, <1>3, <1>5, <1>6, <1>7, Turn, NoCallFacts DEF Quiet

\* The call goes to another place, and the record keeps up with it.
LEMMA GoesOn ==
    ASSUME IInv, Working, Quiet, LifeOnward, NEW y \in ActionRecords, NEW p \in Pcs \ Reviews,
           actions' = [actions EXCEPT ![Act] = y], Go(p),
           Fits(y, asked[Act], launched[Act], receipts[Act]),
           A.phase = "transfer" => y = A, y.phase # "complete",
           NeedsName(y) => NeedsName(A) \/ (R.op \in Creates /\ ~Collides(R.spec, None)),
           \A c \in Calls : c.pc = p /\ c.act = Act /\ c.native = call.native
                            => Follows(c, y, asked[Act], launched[Act]),
           p # "check", call.pc = "check" /\ R.op = "rotate" => AuthorityHolds /\ asked[Act].caller = R.target,
           p = "commit" => fence = Act /\ receipts[Act] # None
    PROVE  IInv'
<1>0. call # NoCall /\ call.pc \notin Reviews
  BY DEF Working
<1>1. call \in Calls /\ Act = call.act
  BY <1>0, CallFacts DEF Act
<1> DEFINE c == [call EXCEPT !.pc = p]
<1>2. c \in Calls /\ c.pc = p /\ c.act = Act /\ c.native = call.native /\ call' = c
  BY <1>1, Moved DEF Go
<1> HIDE DEF c
<1>3. A.phase \notin {"absent", "complete", "no_write", "owner_action_required"}
  BY WorkingFacts
<1>4. Follows(c, y, asked[Act], launched[Act])
  BY <1>2
<1>5. c.pc \notin {"finish", "verify"} /\ c.pc \notin Reviews
  BY <1>2 DEF Reviews
<1>6. A.phase \notin Resolved
  BY <1>3 DEF Resolved
<1> QED BY <1>0, <1>2, <1>3, <1>4, <1>5, <1>6, Turn DEF Quiet

\* Only the place of the call changes, or not even that.
LEMMA Walks ==
    ASSUME IInv, Working, Quiet, LifeOnward, NEW p \in Pcs \ Reviews, UNCHANGED actions, Go(p),
           \A c \in Calls : c.pc = p /\ c.act = Act /\ c.native = call.native
                            => Follows(c, A, asked[Act], launched[Act]),
           p # "check", call.pc = "check" /\ R.op = "rotate" => AuthorityHolds /\ asked[Act].caller = R.target,
           p = "commit" => fence = Act /\ receipts[Act] # None
    PROVE  IInv'
<1>0. call # NoCall
  BY DEF Working
<1>1. Act \in Actions /\ A \in ActionRecords /\ Fits(A, asked[Act], launched[Act], receipts[Act])
      /\ A = actions[Act] /\ actions \in [Actions -> ActionRecords]
  BY <1>0, CallFacts DEF A, IInv, TypeOK, ActionRecords
<1>2. actions' = [actions EXCEPT ![Act] = A]
  BY <1>1
<1>3. A.phase # "complete"
  BY WorkingFacts
<1> QED BY <1>1, <1>2, <1>3, GoesOn

LEMMA Stays ==
    ASSUME IInv, Working, Quiet, LifeOnward, NEW p \in Phases, SetPhase(p), UNCHANGED call,
           \A y : Rephased(y, A, p, A.resp, A.why)
                    => Fits(y, asked[Act], launched[Act], receipts[Act])
                       /\ Follows(call, y, asked[Act], launched[Act]),
           A.phase # "transfer", p \notin {"complete", "owner_action_required"}, call.pc \notin {"check", "commit"},
           p \in {"cwd_ready", "pending", "captured"} =>
               NeedsName(A) \/ (R.op \in Creates /\ ~Collides(R.spec, None))
    PROVE  IInv'
<1>0. call # NoCall /\ call.pc \notin Reviews
  BY DEF Working
<1>1. Act \in Actions /\ A \in ActionRecords /\ call \in Calls /\ Act = call.act
  BY <1>0, CallFacts DEF Act
<1> DEFINE y == [A EXCEPT !.phase = p]
<1>2. actions' = [actions EXCEPT ![Act] = y]
  BY DEF SetPhase, Record
<1>3. Rephased(y, A, p, A.resp, A.why)
  BY <1>1, PhaseSet
<1> HIDE DEF y
<1>4. Fits(y, asked[Act], launched[Act], receipts[Act]) /\ Follows(call, y, asked[Act], launched[Act])
  BY <1>3
<1>5. y \in ActionRecords /\ y.phase = p /\ (NeedsName(y) => p \in {"cwd_ready", "pending", "captured"})
  BY <1>3 DEF Rephased, NeedsName
<1>6. A.phase \notin {"absent", "complete", "no_write", "owner_action_required"} /\ A.phase \notin Resolved
  BY WorkingFacts DEF Resolved
<1>7. call.pc \notin {"finish", "verify"}
  BY <1>0 DEF Reviews
<1> QED BY <1>0, <1>1, <1>2, <1>4, <1>5, <1>6, <1>7, Turn DEF Quiet

\* The place and the phase change together.
LEMMA Advances ==
    ASSUME IInv, Working, Quiet, LifeOnward, NEW p \in Phases, NEW q \in Pcs \ Reviews, SetPhase(p), Go(q),
           \A y : Rephased(y, A, p, A.resp, A.why)
                    => Fits(y, asked[Act], launched[Act], receipts[Act])
                       /\ \A c \in Calls : c.pc = q /\ c.act = Act /\ c.native = call.native
                                           => Follows(c, y, asked[Act], launched[Act]),
           A.phase # "transfer", p \notin {"complete", "owner_action_required"}, q \notin {"check", "commit"},
           call.pc # "check",
           p \in {"cwd_ready", "pending", "captured"} => NeedsName(A)
    PROVE  IInv'
<1>0. call # NoCall
  BY DEF Working
<1>1. Act \in Actions /\ A \in ActionRecords
  BY <1>0, CallFacts
<1> DEFINE y == [A EXCEPT !.phase = p]
<1>2. actions' = [actions EXCEPT ![Act] = y]
  BY DEF SetPhase, Record
<1>3. Rephased(y, A, p, A.resp, A.why)
  BY <1>1, PhaseSet
<1> HIDE DEF y
<1>4. /\ Fits(y, asked[Act], launched[Act], receipts[Act])
      /\ \A c \in Calls : c.pc = q /\ c.act = Act /\ c.native = call.native
                          => Follows(c, y, asked[Act], launched[Act])
  BY <1>3
<1>5. y \in ActionRecords /\ y.phase = p /\ (NeedsName(y) => NeedsName(A))
  BY <1>3 DEF Rephased, NeedsName
<1> QED BY <1>2, <1>4, <1>5, GoesOn

-----------------------------------------------------------------------------
(* The checks and the operations with one effect.                           *)

LEMMA RequestFacts ==
    \A r \in Requests :
        /\ r.op \in SimpleOps \cup Creates
        /\ r.op \notin {"create", "query"} => r.target \in Sessions
        /\ r.op = "rotate" => r.how \in {"close", "retain"}
        /\ r.op = "replace" => r.how \in {"close_before", "close_after", "keep"}
        /\ r.op \notin {"rotate", "replace"} => r.how = "none"
        /\ r.spec \in Specs
<1> SUFFICES ASSUME NEW r \in Requests
             PROVE  /\ r.op \in SimpleOps \cup Creates
                    /\ r.op \notin {"create", "query"} => r.target \in Sessions
                    /\ r.op = "rotate" => r.how \in {"close", "retain"}
                    /\ r.op = "replace" => r.how \in {"close_before", "close_after", "keep"}
                    /\ r.op \notin {"rotate", "replace"} => r.how = "none"
                    /\ r.spec \in Specs
  OBVIOUS
<1>1. r \in Request
  BY RequestsAssumption
<1>2. r.spec \in Specs
  BY DEF Specs
<1> QED BY <1>1, <1>2 DEF Request, SimpleOps, Creates

LEMMA AtWorking ==
    ASSUME NEW p, At(p), p \notin Reviews, p # "idle"
    PROVE  Working /\ call # NoCall /\ call.pc = p
  BY NoCallFacts DEF At, Working

LEMMA SomePcs ==
    {"check", "ran", "closing", "retire", "mark", "closed", "complete", "create", "bootstrap",
     "notLaunched", "capture", "captureFailed", "adopted", "onlined", "observe", "message",
     "created", "recover", "transfer", "commit", "query", "grant", "revoke", "online", "offline",
     "restart", "close"} \subseteq Pcs \ Reviews
  BY DEF Pcs, SimpleOps, Reviews

LEMMA CheckStep == ASSUME IInv, Check PROVE IInv'
<1>1. Working /\ call # NoCall /\ call.pc = "check"
  BY AtWorking DEF Check, Reviews
<1>2. Quiet /\ LifeOnward
  BY QuietStep, SameLife DEF Check, world, budget
<1>3. CASE Refused
  BY <1>1, <1>2, <1>3, EndRefused
<1>4. CASE OwnerAction("ownership")
  BY <1>1, <1>2, <1>4, EndExcused DEF Excuses, Whys
<1>5. CASE ~Stale /\ Go(Resume) /\ UNCHANGED actions
  <2>1. R \in Requests /\ Follows(call, A, asked[Act], launched[Act]) /\ R = asked[Act].req
    BY <1>1, CallFacts DEF R
  <2>2. R.op = "rotate" => AuthorityHolds /\ asked[Act].caller = R.target
    BY <1>5 DEF Stale, RotationCurrent
  <2>3. /\ R.op \in SimpleOps \cup Creates
        /\ R.op = "rotate" => R.how \in {"close", "retain"}
        /\ R.op = "replace" => R.how \in {"close_before", "close_after", "keep"}
        /\ R.op \notin {"rotate", "replace"} => R.how = "none"
    BY <2>1, RequestFacts
  <2>4. /\ Resume \in SimpleOps \cup {"create", "closing", "recover"}
        /\ Resume \in SimpleOps => R.op = Resume
        /\ Resume = "create" => R.op \in Creates
        /\ Resume = "closing" => R.op \in {"replace", "rotate"} /\ R.how \in {"close_before", "close"}
                                 /\ A.phase \in {"prepared", "closing"}
        /\ Resume = "recover" => \/ A.phase = "transfer"
                                 \/ R.op = "replace" /\ A.phase \in {"closing", "closed"}
    BY <2>3 DEF Resume, CloseFirst, CloseLast, SimpleOps, Creates
  <2>5. A.phase \notin {"absent", "no_write", "owner_action_required", "complete"} /\ asked[Act] # NoAsk
    BY <1>1, <2>1 DEF Follows, Reviews
  <2> DEFINE p == Resume
  <2>6. p \in Pcs \ Reviews /\ p \notin {"check", "commit"}
    BY <2>4 DEF Pcs, SimpleOps, Reviews
  <2>7. ASSUME NEW c \in Calls, c.pc = p PROVE Follows(c, A, asked[Act], launched[Act])
    <3>1. c.pc \in SimpleOps \cup {"create", "closing", "recover"}
      BY <2>4, <2>7
    <3>2. CASE c.pc \in SimpleOps
      BY <2>1, <2>4, <2>5, <2>7, <3>2 DEF Follows, SimpleOps, Reviews
    <3>3. CASE c.pc \in {"create", "closing", "recover"}
      BY <2>1, <2>4, <2>5, <2>7, <3>3 DEF Follows, Reviews
    <3> QED BY <3>1, <3>2, <3>3
  <2>8. Go(p) /\ UNCHANGED actions
    BY <1>5
  <2> HIDE DEF p
  <2> QED BY <1>1, <1>2, <2>2, <2>6, <2>7, <2>8, Walks
<1> QED BY <1>3, <1>4, <1>5 DEF Check

LEMMA QueryStep == ASSUME IInv, Query PROVE IInv'
<1>1. Working /\ call # NoCall /\ call.pc = "query"
  BY AtWorking DEF Query, Reviews
<1>2. Quiet /\ LifeOnward
  BY QuietStep, SameLife DEF Query, world, budget
<1>3. R.op = "query" /\ A.phase # "pending"
  BY <1>1, CallFacts DEF Follows, Fits, R, Creates
<1> QED BY <1>1, <1>2, <1>3, EndComplete DEF Query

\* A life that is set to a state of an existing session.
LEMMA LifeSet ==
    ASSUME IInv, NEW s \in Sessions, NEW l \in LifeStates \ {"absent"}, SetLife(s, l)
    PROVE  LifeOnward /\ UNCHANGED launched
<1>1. life \in [Sessions -> LifeStates] /\ life' = [life EXCEPT ![s] = l]
  BY DEF IInv, TypeOK, LifeStates, SetLife
<1> QED BY <1>1 DEF LifeOnward, SetLife

LEMMA RuntimeStep == ASSUME IInv, Runtime PROVE IInv'
<1>1. PICK p \in {"online", "offline", "restart"} : At(p)
  BY DEF Runtime
<1>2. Working /\ call # NoCall /\ call.pc = p
  BY <1>1, AtWorking DEF Reviews
<1>3. R.op \in {"online", "offline", "restart"} /\ R \in Requests /\ R = asked[Act].req /\ asked[Act] # NoAsk
      /\ A.phase \notin {"absent", "no_write", "owner_action_required", "complete"}
  BY <1>2, CallFacts DEF Follows, R, Reviews
<1>4. R.target \in Sessions
  BY <1>3, RequestFacts
<1>5. UNCHANGED <<store, seats, clients, budget>>
  BY DEF Runtime
<1>6. CASE OwnerAction("runtime") /\ UNCHANGED world
  <2>1. Quiet /\ LifeOnward
    BY <1>5, <1>6, QuietStep, SameLife DEF world, budget
  <2> QED BY <1>2, <1>6, <2>1, EndExcused DEF Excuses, Whys
<1>7. ASSUME NEW l \in {"offline", "online", "retired"}, NEW q \in {"ran", "online"},
             SetLife(R.target, l), Go(q), UNCHANGED actions
      PROVE  IInv'
  <2>1. LifeOnward /\ UNCHANGED launched
    BY <1>4, <1>7, LifeSet DEF LifeStates
  <2>2. Quiet
    BY <1>5, <2>1, QuietStep DEF budget
  <2>3. ASSUME NEW c \in Calls, c.pc = q PROVE Follows(c, A, asked[Act], launched[Act])
    BY <1>3, <2>3 DEF Follows, Reviews
  <2>4. q \in Pcs \ Reviews /\ q \notin {"check", "commit"}
    BY SomePcs
  <2> QED BY <1>1, <1>2, <1>7, <2>1, <2>2, <2>3, <2>4, Walks
<1>8. Stopped(R.target) \in {"offline", "retired"}
  BY DEF Stopped
<1> QED BY <1>6, <1>7, <1>8 DEF Runtime

LEMMA RanStep == ASSUME IInv, Ran PROVE IInv'
<1>1. Working /\ call # NoCall /\ call.pc = "ran"
  BY AtWorking DEF Ran, Reviews
<1>2. Quiet /\ LifeOnward
  BY QuietStep, SameLife DEF Ran, world, budget
<1>3. R.op # "rotate" /\ A.phase # "pending"
  BY <1>1, CallFacts DEF Follows, Fits, R, Creates
<1>4. CASE OwnerAction("runtime")
  BY <1>1, <1>2, <1>4, EndExcused DEF Excuses, Whys
<1> QED BY <1>1, <1>2, <1>3, <1>4, EndComplete DEF Ran

-----------------------------------------------------------------------------
(* Closing an agent.                                                        *)

LEMMA ClosingIntentStep == ASSUME IInv, ClosingIntent PROVE IInv'
<1>1. Working /\ call # NoCall /\ call.pc = "closing"
  BY AtWorking DEF ClosingIntent, Reviews
<1>2. Quiet /\ LifeOnward
  BY QuietStep, SameLife DEF ClosingIntent, world, budget
<1>3. /\ Follows(call, A, asked[Act], launched[Act]) /\ Fits(A, asked[Act], launched[Act], receipts[Act])
      /\ A \in ActionRecords
  BY <1>1, CallFacts
<1>4. "close" \in Pcs \ Reviews /\ Go("close")
  BY SomePcs DEF ClosingIntent
<1>5. CASE A.phase = "closing"
  <2>1. UNCHANGED actions
    BY <1>5 DEF ClosingIntent
  <2>2. ASSUME NEW c \in Calls, c.pc = "close" PROVE Follows(c, A, asked[Act], launched[Act])
    BY <1>1, <1>3, <1>5, <2>2 DEF Follows, Reviews
  <2> QED BY <1>1, <1>2, <1>4, <2>1, <2>2, Walks
<1>6. CASE A.phase # "closing"
  <2>1. SetPhase("closing") /\ "closing" \in Phases
    BY <1>6 DEF ClosingIntent, Phases
  <2>2. /\ asked[Act] # NoAsk /\ asked[Act].req.op \in {"replace", "rotate"} /\ A.phase # "transfer"
        /\ IF asked[Act].req.how = "close_after" THEN Made(A)
           ELSE asked[Act].req.how # "retain" /\ Blank(A) /\ launched[Act] = {}
        /\ ~A.retry /\ receipts[Act] = None /\ A.resp = "none"
    BY <1>1, <1>3, <1>6 DEF Follows, Fits, MadePhases, Final
  <2>3. ASSUME NEW y, Rephased(y, A, "closing", A.resp, A.why)
        PROVE  Fits(y, asked[Act], launched[Act], receipts[Act])
    BY <1>3, <2>2, <2>3 DEF Fits, Rephased, Made, Blank, MadePhases, Final
  <2>4. ASSUME NEW y, Rephased(y, A, "closing", A.resp, A.why), NEW c \in Calls, c.pc = "close"
        PROVE  Follows(c, y, asked[Act], launched[Act])
    BY <2>2, <2>4 DEF Follows, Rephased, Reviews
  <2> QED BY <1>1, <1>2, <1>4, <2>1, <2>2, <2>3, <2>4, Advances
<1> QED BY <1>5, <1>6

\* What the places of a close have in common.
LEMMA Closes ==
    ASSUME IInv, Working, call.pc \in {"close", "retire", "mark", "closed"}
    PROVE  /\ R.target \in Sessions /\ R = asked[Act].req /\ R \in Requests
           /\ R.op = "close" \/ (R.op \in {"replace", "rotate"} /\ A.phase = "closing")
           /\ \A c \in Calls : c.pc \in {"close", "retire", "mark", "closed"}
                               => Follows(c, A, asked[Act], launched[Act])
<1>1. R \in Requests /\ Follows(call, A, asked[Act], launched[Act]) /\ R = asked[Act].req
  BY CallFacts DEF R, Working
<1>2. R.op = "close" \/ (R.op \in {"replace", "rotate"} /\ A.phase = "closing")
  BY <1>1 DEF Follows
<1>3. R.target \in Sessions
  BY <1>1, <1>2, RequestFacts
<1>4. ASSUME NEW c \in Calls, c.pc \in {"close", "retire", "mark", "closed"}
      PROVE  Follows(c, A, asked[Act], launched[Act])
  BY <1>1, <1>2, <1>4 DEF Follows, Reviews
<1> QED BY <1>1, <1>2, <1>3, <1>4

LEMMA CloseOfflineStep == ASSUME IInv, CloseOffline PROVE IInv'
<1>1. Working /\ call # NoCall /\ call.pc = "close"
  BY AtWorking DEF CloseOffline, Reviews
<1>2. R.target \in Sessions /\ \A c \in Calls : c.pc \in {"retire", "mark", "closed"}
                               => Follows(c, A, asked[Act], launched[Act])
  BY <1>1, Closes
<1>3. UNCHANGED <<store, seats, clients, budget>>
  BY DEF CloseOffline
<1>4. CASE OwnerAction("close") /\ UNCHANGED world
  <2>1. Quiet /\ LifeOnward
    BY <1>3, <1>4, QuietStep, SameLife DEF world, budget
  <2> QED BY <1>1, <1>4, <2>1, EndExcused DEF Excuses, Whys
<1>5. ASSUME NEW q \in {"retire", "mark", "closed"}, Go(q), UNCHANGED actions,
             SetLife(R.target, "offline") \/ UNCHANGED world
      PROVE  IInv'
  <2>1. LifeOnward /\ UNCHANGED launched
    BY <1>2, <1>5, LifeSet, SameLife DEF LifeStates, world
  <2>2. Quiet
    BY <1>3, <2>1, QuietStep DEF budget
  <2>3. q \in Pcs \ Reviews /\ q \notin {"check", "commit"}
    BY SomePcs
  <2>4. \A c \in Calls : c.pc = q => Follows(c, A, asked[Act], launched[Act])
    BY <1>2
  <2> QED BY <1>1, <1>5, <2>1, <2>2, <2>3, <2>4, Walks
<1> QED BY <1>4, <1>5 DEF CloseOffline

LEMMA CloseRetireStep == ASSUME IInv, CloseRetire PROVE IInv'
<1>1. Working /\ call # NoCall /\ call.pc = "retire"
  BY AtWorking DEF CloseRetire, Reviews
<1>2. R.target \in Sessions /\ \A c \in Calls : c.pc = "mark" => Follows(c, A, asked[Act], launched[Act])
  BY <1>1, Closes
<1>3. LifeOnward /\ UNCHANGED launched
  BY <1>2, LifeSet DEF LifeStates, CloseRetire
<1>4. Quiet
  BY <1>3, QuietStep DEF budget, CloseRetire
<1>5. "mark" \in Pcs \ Reviews
  BY SomePcs
<1> QED BY <1>1, <1>2, <1>3, <1>4, <1>5, Walks DEF CloseRetire

LEMMA ClosedStep == ASSUME IInv, Closed PROVE IInv'
<1>1. Working /\ call # NoCall /\ call.pc = "closed"
  BY AtWorking DEF Closed, Reviews
<1>2. Quiet /\ LifeOnward
  BY QuietStep, SameLife DEF Closed, world, budget
<1>3. /\ R = asked[Act].req /\ R \in Requests
      /\ R.op = "close" \/ (R.op \in {"replace", "rotate"} /\ A.phase = "closing")
  BY <1>1, Closes
<1>4. /\ Follows(call, A, asked[Act], launched[Act]) /\ Fits(A, asked[Act], launched[Act], receipts[Act])
      /\ A \in ActionRecords
  BY <1>1, CallFacts
<1>5. CASE ~Predecessor /\ Completed
  <2>1. R.op # "rotate" /\ A.phase # "pending"
    BY <1>3, <1>4, <1>5 DEF Predecessor, Fits, Creates
  <2> QED BY <1>1, <1>2, <1>5, <2>1, EndComplete
<1>6. CASE Predecessor /\ SetPhase("closed") /\ Go(IF CloseLast THEN "complete" ELSE "create")
  <2>1. A.phase = "closing" /\ R.op \in {"replace", "rotate"} /\ "closed" \in Phases
    BY <1>3, <1>6 DEF Predecessor, Phases
  <2>2. PICK q \in {"complete", "create"} : Go(q) /\ (q = "complete" => R.how = "close_after")
    BY <1>6 DEF CloseLast
  <2>3. R.how = "close_after" => R.op = "replace"
    BY <1>3, RequestFacts
  <2>4. ASSUME NEW y, Rephased(y, A, "closed", A.resp, A.why)
        PROVE  Fits(y, asked[Act], launched[Act], receipts[Act])
    BY <1>4, <2>1, <2>4 DEF Fits, Rephased, Made, Blank, MadePhases, Final
  <2>5. ASSUME NEW y, Rephased(y, A, "closed", A.resp, A.why), NEW c \in Calls, c.pc = q
        PROVE  Follows(c, y, asked[Act], launched[Act])
    BY <1>3, <1>4, <2>1, <2>2, <2>3, <2>5 DEF Follows, Rephased, Reviews, Creates
  <2>6. q \in Pcs \ Reviews /\ q \notin {"check", "commit"} /\ SetPhase("closed")
    BY <1>6, SomePcs
  <2> QED BY <1>1, <1>2, <2>1, <2>2, <2>4, <2>5, <2>6, Advances
<1> QED BY <1>5, <1>6 DEF Closed

LEMMA CompleteStep == ASSUME IInv, Complete PROVE IInv'
<1>1. Working /\ call # NoCall /\ call.pc = "complete"
  BY AtWorking DEF Complete, Reviews
<1>2. Quiet /\ LifeOnward
  BY QuietStep, SameLife DEF Complete, world, budget
<1>3. R.op = "replace" /\ A.phase = "closed"
  BY <1>1, CallFacts DEF Follows, R
<1> QED BY <1>1, <1>2, <1>3, EndComplete DEF Complete

-----------------------------------------------------------------------------
(* create_steps.                                                            *)

\* Where every step of a creation starts from.
LEMMA Creating ==
    ASSUME IInv, NEW p \in Pcs \ Reviews, At(p)
    PROVE  /\ Working /\ call # NoCall /\ call.pc = p /\ call \in Calls
           /\ Act \in Actions /\ A \in ActionRecords /\ asked[Act] # NoAsk /\ R = asked[Act].req /\ R \in Requests
           /\ Fits(A, asked[Act], launched[Act], receipts[Act])
           /\ Follows(call, A, asked[Act], launched[Act])
           /\ A.resp = "none" /\ A.phase \notin {"absent", "complete", "no_write", "owner_action_required"}
           /\ A.phase # "transfer" => receipts[Act] = None
<1>1. Working /\ call # NoCall /\ call.pc = p
  BY NoCallFacts, AtWorking
<1>2. /\ call \in Calls /\ Act \in Actions /\ A \in ActionRecords /\ R = asked[Act].req /\ R \in Requests
      /\ Fits(A, asked[Act], launched[Act], receipts[Act])
      /\ Follows(call, A, asked[Act], launched[Act])
  BY <1>1, CallFacts DEF R
<1>3. A.phase \notin {"absent", "complete", "no_write", "owner_action_required"} /\ asked[Act] # NoAsk
  BY <1>1, <1>2, WorkingFacts DEF Follows
<1>4. A.resp = "none" /\ (A.phase # "transfer" => receipts[Act] = None)
  BY <1>2, <1>3 DEF Fits, Final
<1> QED BY <1>1, <1>2, <1>3, <1>4

LEMMA SomePhases ==
    {"prepared", "closing", "closed", "cwd_ready", "pending", "captured", "adopted", "configured", "online",
     "ready", "message_pending", "message_queued", "transfer"} \subseteq Phases
  BY DEF Phases

LEMMA PrepareCwdStep == ASSUME IInv, PrepareCwd PROVE IInv'
<1>0. At("create") /\ "create" \in Pcs \ Reviews
  BY SomePcs DEF PrepareCwd, InPhase
<1>1. /\ Working /\ call # NoCall /\ call.pc = "create" /\ A.resp = "none" /\ receipts[Act] = None
      /\ A \in ActionRecords /\ asked[Act] # NoAsk /\ R = asked[Act].req
      /\ Fits(A, asked[Act], launched[Act], receipts[Act]) /\ Follows(call, A, asked[Act], launched[Act])
      /\ A.phase \in {"prepared", "closed"} /\ Blank(A)
  BY <1>0, Creating DEF PrepareCwd, InPhase, Blank
<1>2. Quiet /\ LifeOnward
  BY QuietStep, SameLife DEF PrepareCwd, world, budget
<1>3. CASE Refused
  BY <1>1, <1>2, <1>3, EndRefused
<1>4. CASE ~Collides(R.spec, None) /\ SetPhase("cwd_ready") /\ UNCHANGED call
  <2>1. launched[Act] = {} /\ ~A.retry /\ R.op \in Creates
    BY <1>1 DEF Fits, Follows, Blank, Made
  <2>2. ASSUME NEW y, Rephased(y, A, "cwd_ready", A.resp, A.why)
        PROVE  Fits(y, asked[Act], launched[Act], receipts[Act])
    BY <1>1, <2>1, <2>2 DEF Fits, Rephased, Made, Blank, MadePhases, Final
  <2>3. ASSUME NEW y, Rephased(y, A, "cwd_ready", A.resp, A.why)
        PROVE  Follows(call, y, asked[Act], launched[Act])
    BY <1>1, <2>1, <2>3 DEF Follows, Rephased, Reviews
  <2>4. "cwd_ready" \in Phases
    BY SomePhases
  <2> QED BY <1>1, <1>2, <1>4, <2>1, <2>2, <2>3, <2>4, Stays
<1> QED BY <1>3, <1>4 DEF PrepareCwd

\* A record whose bootstrap begins, did not run, or has a thread.
Captured(y, x, n) ==
    /\ y \in ActionRecords /\ y.phase = "captured" /\ y.native = n
    /\ y.succ = x.succ /\ y.resp = x.resp /\ y.retry = x.retry
Adopted(y, x) ==
    /\ y \in ActionRecords /\ y.phase = "adopted" /\ y.native = x.native
    /\ y.succ = x.native /\ y.resp = x.resp /\ y.retry = x.retry

LEMMA ThreadRecords ==
    ASSUME NEW x \in ActionRecords, NEW n \in Sessions
    PROVE  /\ Captured([x EXCEPT !.phase = "captured", !.native = n], x, n)
           /\ Adopted([x EXCEPT !.phase = "adopted", !.succ = x.native], x)
  BY SomePhases DEF ActionRecords, Captured, Adopted

LEMMA BootRecords ==
    ASSUME NEW x \in ActionRecords
    PROVE  /\ [x EXCEPT !.phase = "pending", !.retry = FALSE] \in ActionRecords
           /\ [x EXCEPT !.phase = "pending", !.retry = FALSE].phase = "pending"
           /\ ~[x EXCEPT !.phase = "pending", !.retry = FALSE].retry
           /\ [x EXCEPT !.phase = "pending", !.retry = FALSE].native = x.native
           /\ [x EXCEPT !.phase = "pending", !.retry = FALSE].succ = x.succ
           /\ [x EXCEPT !.phase = "pending", !.retry = FALSE].resp = x.resp
           /\ [x EXCEPT !.retry = TRUE] \in ActionRecords
           /\ [x EXCEPT !.retry = TRUE].phase = x.phase /\ [x EXCEPT !.retry = TRUE].native = x.native
           /\ [x EXCEPT !.retry = TRUE].succ = x.succ /\ [x EXCEPT !.retry = TRUE].resp = x.resp
  BY SomePhases DEF ActionRecords

LEMMA BootstrapIntentStep == ASSUME IInv, BootstrapIntent PROVE IInv'
<1>0. At("create") /\ "create" \in Pcs \ Reviews
  BY SomePcs DEF BootstrapIntent, InPhase
<1>1. /\ Working /\ call # NoCall /\ call.pc = "create" /\ A.resp = "none" /\ receipts[Act] = None
      /\ A \in ActionRecords /\ asked[Act] # NoAsk /\ R = asked[Act].req
      /\ Fits(A, asked[Act], launched[Act], receipts[Act]) /\ Follows(call, A, asked[Act], launched[Act])
      /\ A.phase \in {"cwd_ready", "pending"}
  BY <1>0, Creating DEF BootstrapIntent, InPhase
<1>2. Quiet /\ LifeOnward
  BY QuietStep, SameLife DEF BootstrapIntent, world, budget
<1>3. CASE OwnerAction("pending")
  BY <1>1, <1>2, <1>3, EndExcused DEF Excuses, Whys
<1>4. CASE /\ A.phase = "cwd_ready" \/ A.retry
           /\ Record([A EXCEPT !.phase = "pending", !.retry = FALSE]) /\ Go("bootstrap")
  <2> DEFINE y == [A EXCEPT !.phase = "pending", !.retry = FALSE]
  <2>1. launched[Act] = {} /\ R.op \in Creates /\ Blank(A)
    BY <1>1, <1>4 DEF Fits, Follows
  <2>3. /\ y \in ActionRecords /\ y.phase = "pending" /\ ~y.retry /\ y.native = A.native
        /\ y.succ = A.succ /\ y.resp = A.resp /\ actions' = [actions EXCEPT ![Act] = y]
    BY <1>1, <1>4, BootRecords DEF Record
  <2> HIDE DEF y
  <2>4. Fits(y, asked[Act], launched[Act], receipts[Act])
    BY <1>1, <2>1, <2>3 DEF Fits, Made, Blank, MadePhases, Final
  <2>5. ASSUME NEW c \in Calls, c.pc = "bootstrap" PROVE Follows(c, y, asked[Act], launched[Act])
    BY <1>1, <2>1, <2>3, <2>5 DEF Follows, Reviews
  <2>6. NeedsName(A) /\ "bootstrap" \in Pcs \ Reviews
    BY <1>1, SomePcs DEF NeedsName
  <2> QED BY <1>1, <1>2, <1>4, <2>1, <2>3, <2>4, <2>5, <2>6, GoesOn
<1> QED BY <1>3, <1>4 DEF BootstrapIntent

LEMMA NotLaunchedStep == ASSUME IInv, NotLaunched PROVE IInv'
<1>0. At("notLaunched") /\ "notLaunched" \in Pcs \ Reviews
  BY SomePcs DEF NotLaunched
<1>1. /\ Working /\ call # NoCall /\ call.pc = "notLaunched" /\ A.resp = "none"
      /\ A \in ActionRecords /\ asked[Act] # NoAsk /\ R = asked[Act].req
      /\ Fits(A, asked[Act], launched[Act], receipts[Act]) /\ Follows(call, A, asked[Act], launched[Act])
  BY <1>0, Creating
<1>2. Quiet /\ LifeOnward
  BY QuietStep, SameLife DEF NotLaunched, world, budget
<1> DEFINE y == [A EXCEPT !.retry = TRUE]
<1>4. /\ y \in ActionRecords /\ y.phase = A.phase /\ y.native = A.native
      /\ y.succ = A.succ /\ y.resp = A.resp /\ actions' = [actions EXCEPT ![Act] = y] /\ call' = NoCall
  BY <1>1, BootRecords DEF Record, NotLaunched, Return
<1> HIDE DEF y
<1>5. A.phase = "pending" /\ launched[Act] = {}
  BY <1>1 DEF Follows
<1>6. Fits(y, asked[Act], launched[Act], receipts[Act])
  BY <1>1, <1>4, <1>5 DEF Fits, Made, Blank, MadePhases, Final
<1>7. NeedsName(A) /\ A.phase \notin {"transfer", "complete"} /\ A.phase \notin Resolved
  BY <1>5 DEF NeedsName, Resolved
<1> QED BY <1>1, <1>2, <1>4, <1>6, <1>7, Turn, NoCallFacts DEF Quiet

LEMMA CaptureStep == ASSUME IInv, Capture PROVE IInv'
<1>0. PICK p \in {"capture", "captureFailed"} : At(p) /\ p \in Pcs \ Reviews
  BY SomePcs DEF Capture
<1>1. /\ Working /\ call # NoCall /\ call.pc = p /\ A.resp = "none" /\ call \in Calls
      /\ A \in ActionRecords /\ asked[Act] # NoAsk /\ R = asked[Act].req
      /\ Fits(A, asked[Act], launched[Act], receipts[Act]) /\ Follows(call, A, asked[Act], launched[Act])
  BY <1>0, Creating
<1>2. Quiet /\ LifeOnward
  BY QuietStep, SameLife DEF Capture, world, budget
<1>3. A.phase = "pending" /\ launched[Act] = {call.native} /\ call.native # None /\ ~A.retry
  BY <1>0, <1>1 DEF Follows
<1>4. call.native \in Sessions
  BY <1>1, <1>3 DEF Calls
<1> DEFINE y == [A EXCEPT !.phase = "captured", !.native = call.native]
<1>5. actions' = [actions EXCEPT ![Act] = y]
  BY DEF Record, Capture
<1>6. Captured(y, A, call.native)
  BY <1>1, <1>4, ThreadRecords, Zenon
<1> HIDE DEF y
<1>7. /\ y \in ActionRecords /\ y.phase = "captured" /\ y.native = call.native
      /\ y.succ = A.succ /\ y.resp = A.resp /\ y.retry = A.retry /\ actions' = [actions EXCEPT ![Act] = y]
  BY <1>5, <1>6 DEF Captured
<1>8. Fits(y, asked[Act], launched[Act], receipts[Act])
  BY <1>1, <1>3, <1>4, <1>7 DEF Fits, Made, Blank, MadePhases, Final
<1>9. NeedsName(A) /\ A.phase \notin {"transfer", "complete"} /\ A.phase \notin Resolved /\ R.op \in Creates
  BY <1>1, <1>3 DEF NeedsName, Resolved, Fits
<1>10. CASE call' = NoCall
  BY <1>1, <1>2, <1>7, <1>8, <1>9, <1>10, Turn, NoCallFacts DEF Quiet
<1>11. CASE Go("create")
  <2>1. ASSUME NEW c \in Calls, c.pc = "create" PROVE Follows(c, y, asked[Act], launched[Act])
    BY <1>1, <1>7, <1>9, <2>1 DEF Follows, Reviews
  <2>2. "create" \in Pcs \ Reviews
    BY SomePcs
  <2> QED BY <1>0, <1>1, <1>2, <1>7, <1>8, <1>9, <1>11, <2>1, <2>2, GoesOn
<1> QED BY <1>10, <1>11 DEF Capture, Return

LEMMA AdoptStep == ASSUME IInv, Adopt PROVE IInv'
<1>0. At("create") /\ "create" \in Pcs \ Reviews
  BY SomePcs DEF Adopt
<1>1. /\ Working /\ call # NoCall /\ call.pc = "create" /\ A.resp = "none" /\ Act \in Actions
      /\ A \in ActionRecords /\ asked[Act] # NoAsk
      /\ A.phase \notin {"absent", "complete", "no_write", "owner_action_required"}
      /\ Fits(A, asked[Act], launched[Act], receipts[Act]) /\ Follows(call, A, asked[Act], launched[Act])
  BY <1>0, Creating
<1>2. A.native # None /\ A.succ = None /\ A.native \in Sessions
  BY <1>1 DEF Adopt, ActionRecords
<1>3. A.phase = "captured" /\ launched[Act] = {A.native}
  BY <1>1, <1>2 DEF Fits, Blank, Made, MadePhases, ActionRecords, Phases, Resolved
<1>4. life[A.native] \in LifeStates \ {"absent"}
  BY <1>1, <1>2, <1>3 DEF IInv, SessionsExist, TypeOK, LifeStates
<1>5. LifeOnward /\ UNCHANGED launched
  <2>1. PICK l \in LifeStates \ {"absent"} : SetLife(A.native, l)
    BY <1>4 DEF Adopt, LifeStates
  <2> QED BY <1>2, <2>1, LifeSet
<1>6. Quiet
  BY <1>5, QuietStep DEF Adopt, budget
<1>7. ASSUME NEW c \in Calls, c.pc = "adopted" PROVE Follows(c, A, asked[Act], launched[Act])
  BY <1>1, <1>3, <1>7 DEF Follows, Reviews
<1>8. "adopted" \in Pcs \ Reviews
  BY SomePcs
<1> QED BY <1>1, <1>5, <1>6, <1>7, <1>8, Walks DEF Adopt

LEMMA ConfigureStep == ASSUME IInv, Configure PROVE IInv'
<1>0. At("create") /\ "create" \in Pcs \ Reviews
  BY SomePcs DEF Configure, InPhase
<1>1. /\ Working /\ call # NoCall /\ call.pc = "create" /\ A.resp = "none" /\ receipts[Act] = None
      /\ A \in ActionRecords /\ asked[Act] # NoAsk /\ A.phase = "adopted"
      /\ Fits(A, asked[Act], launched[Act], receipts[Act]) /\ Follows(call, A, asked[Act], launched[Act])
  BY <1>0, Creating DEF Configure, InPhase
<1>2. Quiet /\ LifeOnward
  BY QuietStep, SameLife DEF Configure, world, budget
<1>3. CASE OwnerAction("configure")
  BY <1>1, <1>2, <1>3, EndExcused DEF Excuses, Whys
<1>4. CASE SetPhase("configured") /\ UNCHANGED call
  <2>1. ASSUME NEW y, Rephased(y, A, "configured", A.resp, A.why)
        PROVE  Fits(y, asked[Act], launched[Act], receipts[Act])
    BY <1>1, <2>1 DEF Fits, Rephased, Made, Blank, MadePhases, Final
  <2>2. ASSUME NEW y, Rephased(y, A, "configured", A.resp, A.why)
        PROVE  Follows(call, y, asked[Act], launched[Act])
    BY <1>1, <2>2 DEF Follows, Rephased, Reviews
  <2>3. "configured" \in Phases
    BY SomePhases
  <2> QED BY <1>1, <1>2, <1>4, <2>1, <2>2, <2>3, Stays
<1> QED BY <1>3, <1>4 DEF Configure

LEMMA BringOnlineStep == ASSUME IInv, BringOnline PROVE IInv'
<1>0. At("create") /\ "create" \in Pcs \ Reviews
  BY SomePcs DEF BringOnline, InPhase
<1>1. /\ Working /\ call # NoCall /\ call.pc = "create"
      /\ A \in ActionRecords /\ asked[Act] # NoAsk /\ A.phase \in {"configured", "online"}
      /\ Fits(A, asked[Act], launched[Act], receipts[Act]) /\ Follows(call, A, asked[Act], launched[Act])
  BY <1>0, Creating DEF BringOnline, InPhase
<1>2. CASE OwnerAction("online") /\ UNCHANGED world
  <2>1. Quiet /\ LifeOnward
    BY <1>2, QuietStep, SameLife DEF BringOnline, world, budget
  <2> QED BY <1>1, <1>2, <2>1, EndExcused DEF Excuses, Whys
<1>3. CASE /\ SetLife(A.succ, "online") /\ UNCHANGED actions
           /\ Go(IF A.phase = "configured" THEN "onlined" ELSE "observe")
  <2>1. A.succ \in Sessions
    BY <1>1 DEF BringOnline, ActionRecords
  <2>2. LifeOnward /\ UNCHANGED launched
    BY <1>3, <2>1, LifeSet DEF LifeStates
  <2>3. Quiet
    BY <2>2, QuietStep DEF BringOnline, budget
  <2>4. PICK q \in {"onlined", "observe"} : Go(q) /\ (q = "onlined" <=> A.phase = "configured")
    BY <1>3
  <2>5. ASSUME NEW c \in Calls, c.pc = q PROVE Follows(c, A, asked[Act], launched[Act])
    BY <1>1, <2>4, <2>5 DEF Follows, Reviews
  <2>6. q \in Pcs \ Reviews /\ q \notin {"check", "commit"}
    BY SomePcs
  <2> QED BY <1>1, <1>3, <2>2, <2>3, <2>4, <2>5, <2>6, Walks
<1> QED BY <1>2, <1>3 DEF BringOnline

LEMMA OnlinedStep == ASSUME IInv, Onlined PROVE IInv'
<1>0. At("onlined") /\ {"onlined", "observe"} \subseteq Pcs \ Reviews
  BY SomePcs DEF Onlined
<1>1. /\ Working /\ call # NoCall /\ call.pc = "onlined" /\ A.resp = "none"
      /\ A \in ActionRecords /\ asked[Act] # NoAsk
      /\ Fits(A, asked[Act], launched[Act], receipts[Act]) /\ Follows(call, A, asked[Act], launched[Act])
  BY <1>0, Creating
<1>2. Quiet /\ LifeOnward
  BY QuietStep, SameLife DEF Onlined, world, budget
<1>3. A.phase = "configured" /\ receipts[Act] = None
  BY <1>1 DEF Follows, Fits
<1>4. ASSUME NEW y, Rephased(y, A, "online", A.resp, A.why)
      PROVE  Fits(y, asked[Act], launched[Act], receipts[Act])
  BY <1>1, <1>3, <1>4 DEF Fits, Rephased, Made, Blank, MadePhases, Final
<1>5. ASSUME NEW y, Rephased(y, A, "online", A.resp, A.why), NEW c \in Calls, c.pc = "observe"
      PROVE  Follows(c, y, asked[Act], launched[Act])
  BY <1>1, <1>5 DEF Follows, Rephased, Reviews
<1>6. "online" \in Phases
  BY SomePhases
<1> QED BY <1>0, <1>1, <1>2, <1>3, <1>4, <1>5, <1>6, Advances DEF Onlined

LEMMA AlreadyReadyStep == ASSUME IInv, AlreadyReady PROVE IInv'
<1>0. At("create") /\ {"create", "observe"} \subseteq Pcs \ Reviews
  BY SomePcs DEF AlreadyReady, InPhase
<1>1. /\ Working /\ call # NoCall /\ call.pc = "create" /\ A.resp = "none"
      /\ A.phase \in {"ready", "message_pending", "message_queued"} /\ asked[Act] # NoAsk
      /\ Follows(call, A, asked[Act], launched[Act])
  BY <1>0, Creating DEF AlreadyReady, InPhase
<1>2. Quiet /\ LifeOnward
  BY QuietStep, SameLife DEF AlreadyReady, world, budget
<1>3. ASSUME NEW c \in Calls, c.pc = "observe" PROVE Follows(c, A, asked[Act], launched[Act])
  BY <1>1, <1>3 DEF Follows, Reviews
<1> QED BY <1>0, <1>1, <1>2, <1>3, Walks DEF AlreadyReady

\* A step between the phases of a finished creation.
LEMMA Readies ==
    ASSUME IInv, Working, Quiet, LifeOnward, A.phase \in {"online", "ready", "message_pending"},
           call.pc \in {"observe", "message"},
           NEW p \in {"ready", "message_pending", "message_queued"}, SetPhase(p),
           (UNCHANGED call /\ call.pc = "message") \/ Go("message") \/ Go("created")
    PROVE  IInv'
<1>1. /\ call # NoCall /\ A.resp = "none" /\ call \in Calls /\ receipts[Act] = None
      /\ A \in ActionRecords /\ asked[Act] # NoAsk
      /\ Fits(A, asked[Act], launched[Act], receipts[Act]) /\ Follows(call, A, asked[Act], launched[Act])
  <2>1. call # NoCall /\ call.pc \notin Reviews
    BY DEF Working
  <2>2. At(call.pc) /\ call.pc \in Pcs \ Reviews
    BY <2>1, CallFacts, SomePcs DEF At, Calls
  <2> QED BY <2>1, <2>2, Creating
<1>2. ASSUME NEW y, Rephased(y, A, p, A.resp, A.why)
      PROVE  Fits(y, asked[Act], launched[Act], receipts[Act])
  BY <1>1, <1>2 DEF Fits, Rephased, Made, Blank, MadePhases, Final
<1>3. ASSUME NEW y, Rephased(y, A, p, A.resp, A.why), NEW c \in Calls, c.pc \in {"message", "created"}
      PROVE  Follows(c, y, asked[Act], launched[Act])
  BY <1>1, <1>3 DEF Follows, Rephased, Reviews
<1>4. p \in Phases /\ {"message", "created"} \subseteq Pcs \ Reviews
  BY SomePhases, SomePcs
<1>5. CASE UNCHANGED call /\ call.pc = "message"
  <2>1. ASSUME NEW y, Rephased(y, A, p, A.resp, A.why)
        PROVE  Fits(y, asked[Act], launched[Act], receipts[Act]) /\ Follows(call, y, asked[Act], launched[Act])
    BY <1>1, <1>2, <1>3, <1>5, <2>1
  <2> QED BY <1>4, <1>5, <2>1, Stays
<1>6. ASSUME NEW q \in {"message", "created"}, Go(q) PROVE IInv'
  <2>1. ASSUME NEW y, Rephased(y, A, p, A.resp, A.why), NEW c \in Calls, c.pc = q
        PROVE  Follows(c, y, asked[Act], launched[Act])
    BY <1>3, <2>1
  <2>2. q \in Pcs \ Reviews /\ q \notin {"check", "commit"}
    BY <1>4
  <2> QED BY <1>2, <1>4, <1>6, <2>1, <2>2, Advances
<1> QED BY <1>5, <1>6

LEMMA ObserveStep == ASSUME IInv, Observe PROVE IInv'
<1>0. At("observe") /\ "observe" \in Pcs \ Reviews
  BY SomePcs DEF Observe
<1>1. /\ Working /\ call # NoCall /\ call.pc = "observe" /\ asked[Act] # NoAsk
      /\ Follows(call, A, asked[Act], launched[Act])
  BY <1>0, Creating
<1>2. Quiet /\ LifeOnward
  BY QuietStep, SameLife DEF Observe, world, budget
<1>3. A.phase \in {"online", "ready", "message_pending", "message_queued"}
  BY <1>1 DEF Follows
<1>4. CASE OwnerAction("observe")
  BY <1>1, <1>2, <1>4, EndExcused DEF Excuses, Whys
<1>5. CASE /\ IF A.phase = "online" THEN SetPhase("ready") ELSE UNCHANGED actions
           /\ Go(IF R.msg THEN "message" ELSE "created")
  <2>1. PICK q \in {"message", "created"} : Go(q)
    BY <1>5
  <2>2. CASE A.phase = "online"
    BY <1>1, <1>2, <1>5, <2>1, <2>2, Readies
  <2>3. CASE A.phase # "online"
    <3>1. ASSUME NEW c \in Calls, c.pc = q PROVE Follows(c, A, asked[Act], launched[Act])
      BY <1>1, <1>3, <2>3, <3>1 DEF Follows, Reviews
    <3>2. q \in Pcs \ Reviews /\ q \notin {"check", "commit"}
      BY SomePcs
    <3> QED BY <1>1, <1>2, <1>5, <2>1, <2>3, <3>1, <3>2, Walks
  <2> QED BY <2>2, <2>3
<1> QED BY <1>4, <1>5 DEF Observe

LEMMA HandoffStep == ASSUME IInv, Handoff PROVE IInv'
<1>0. At("message") /\ {"message", "created"} \subseteq Pcs \ Reviews
  BY SomePcs DEF Handoff
<1>1. /\ Working /\ call # NoCall /\ call.pc = "message" /\ asked[Act] # NoAsk
      /\ Follows(call, A, asked[Act], launched[Act])
  BY <1>0, Creating
<1>2. Quiet /\ LifeOnward
  BY QuietStep, SameLife DEF Handoff, world, budget
<1>3. CASE A.phase = "ready" /\ SetPhase("message_pending") /\ UNCHANGED call
  BY <1>1, <1>2, <1>3, Readies
<1>4. CASE A.phase = "message_pending" /\ SetPhase("message_queued") /\ Go("created")
  BY <1>1, <1>2, <1>4, Readies
<1>5. CASE A.phase = "message_queued" /\ UNCHANGED actions /\ Go("created")
  <2>1. ASSUME NEW c \in Calls, c.pc = "created" PROVE Follows(c, A, asked[Act], launched[Act])
    BY <1>1, <1>5, <2>1 DEF Follows, Reviews
  <2> QED BY <1>0, <1>1, <1>2, <1>5, <2>1, Walks
<1> QED BY <1>3, <1>4, <1>5 DEF Handoff

LEMMA CreatedStep == ASSUME IInv, Created PROVE IInv'
<1>0. At("created") /\ {"created", "closing", "transfer"} \subseteq Pcs \ Reviews
  BY SomePcs DEF Created
<1>1. /\ Working /\ call # NoCall /\ call.pc = "created" /\ asked[Act] # NoAsk /\ A.resp = "none"
      /\ A \in ActionRecords /\ R = asked[Act].req /\ R \in Requests
      /\ Fits(A, asked[Act], launched[Act], receipts[Act]) /\ Follows(call, A, asked[Act], launched[Act])
  BY <1>0, Creating
<1>2. Quiet /\ LifeOnward
  BY QuietStep, SameLife DEF Created, world, budget
<1>3. A.phase \in {"ready", "message_pending", "message_queued"} /\ receipts[Act] = None
  BY <1>1 DEF Follows, Fits
<1>4. CASE R.op = "rotate" /\ SetPhase("transfer") /\ Go("transfer")
  <2>1. asked[Act].caller = R.target
    BY <1>1, <1>4 DEF IInv, Authorized
  <2>2. ASSUME NEW y, Rephased(y, A, "transfer", A.resp, A.why)
        PROVE  Fits(y, asked[Act], launched[Act], receipts[Act])
    BY <1>1, <1>3, <1>4, <2>1, <2>2 DEF Fits, Rephased, Made, Blank, MadePhases, Final
  <2>3. ASSUME NEW y, Rephased(y, A, "transfer", A.resp, A.why), NEW c \in Calls, c.pc = "transfer"
        PROVE  Follows(c, y, asked[Act], launched[Act])
    BY <1>1, <2>3 DEF Follows, Rephased, Reviews
  <2>4. "transfer" \in Phases
    BY SomePhases
  <2> QED BY <1>0, <1>1, <1>2, <1>3, <1>4, <2>2, <2>3, <2>4, Advances
<1>5. CASE CloseLast /\ UNCHANGED actions /\ Go("closing")
  <2>1. R.how = "close_after" /\ R.op = "replace"
    BY <1>1, <1>5, RequestFacts DEF CloseLast
  <2>2. ASSUME NEW c \in Calls, c.pc = "closing" PROVE Follows(c, A, asked[Act], launched[Act])
    BY <1>1, <1>3, <2>1, <2>2 DEF Follows, Reviews, MadePhases
  <2> QED BY <1>0, <1>1, <1>2, <1>5, <2>2, Walks
<1>6. CASE R.op # "rotate" /\ Completed
  BY <1>1, <1>2, <1>3, <1>6, EndComplete
<1> QED BY <1>4, <1>5, <1>6 DEF Created

LEMMA RecoverStep == ASSUME IInv, Recover PROVE IInv'
<1>0. At("recover") /\ {"recover", "close", "complete", "transfer"} \subseteq Pcs \ Reviews
  BY SomePcs DEF Recover
<1>1. /\ Working /\ call # NoCall /\ call.pc = "recover" /\ asked[Act] # NoAsk
      /\ A \in ActionRecords /\ R = asked[Act].req /\ R \in Requests
      /\ Fits(A, asked[Act], launched[Act], receipts[Act]) /\ Follows(call, A, asked[Act], launched[Act])
  BY <1>0, Creating
<1>2. Quiet /\ LifeOnward
  BY QuietStep, SameLife DEF Recover, world, budget
<1>3. CASE OwnerAction("recover")
  BY <1>1, <1>2, <1>3, EndExcused DEF Excuses, Whys
<1>4. CASE /\ Go(IF R.op = "rotate" THEN "transfer" ELSE IF A.phase = "closing" THEN "close" ELSE "complete")
           /\ UNCHANGED actions
  <2>1. \/ A.phase = "transfer" /\ R.op = "rotate"
        \/ A.phase \in {"closing", "closed"} /\ R.op = "replace"
    BY <1>1 DEF Follows, Fits
  <2>2. PICK q \in {"transfer", "close", "complete"} :
               /\ Go(q)
               /\ q = "transfer" => A.phase = "transfer"
               /\ q = "close" => A.phase = "closing" /\ R.op = "replace"
               /\ q = "complete" => A.phase = "closed" /\ R.op = "replace"
    BY <1>4, <2>1
  <2>3. ASSUME NEW c \in Calls, c.pc = q PROVE Follows(c, A, asked[Act], launched[Act])
    BY <1>1, <2>2, <2>3 DEF Follows, Reviews
  <2>4. q \in Pcs \ Reviews /\ q \notin {"check", "commit"}
    BY <1>0
  <2> QED BY <1>1, <1>2, <1>4, <2>2, <2>3, <2>4, Walks
<1> QED BY <1>3, <1>4 DEF Recover

LEMMA LifecycleFailsStep == ASSUME IInv, LifecycleFails PROVE IInv'
<1>1. call.pc \in Fallible \cup {"create"}
  BY DEF LifecycleFails, InPhase, At
<1>2. call.pc \notin Reviews /\ call.pc # "idle"
  BY <1>1 DEF Fallible, Reviews
<1>3. Working
  BY <1>2, NoCallFacts DEF Working
<1>4. Quiet /\ LifeOnward
  BY QuietStep, SameLife DEF LifecycleFails, world, Fault
<1> QED BY <1>3, <1>4, EndExcused DEF Excuses, Whys, LifecycleFails

-----------------------------------------------------------------------------
(* Each part of the invariant stays while what it reads stays.              *)

LEMMA Frame ==
    ASSUME IInv
    PROVE  /\ UNCHANGED <<actions, asked, launched, receipts>> => Records'
           /\ LifeOnward /\ UNCHANGED <<asked, launched>>
              /\ (\A a \in inbox' : a \in inbox \/ (a \in Actions /\ asked[a] # NoAsk)) => SessionsExist'
           /\ UNCHANGED <<actions, asked>> => NamesApart'
           /\ UNCHANGED <<actions, asked, agents>> => NamesFree'
           /\ UNCHANGED agents => NoTwoAlike'
           /\ UNCHANGED <<actions, receipts, fence>> => FencedReceipts'
           /\ UNCHANGED <<authority, grants, seat, receipts, fence, actions, asked, admin>> => SurfacesAgree'
           /\ call' = NoCall => CallFollows' /\ Authorized'
           /\ UNCHANGED <<actions, asked, launched, call>> => CallFollows'
           /\ UNCHANGED <<authority, agents, grants, asked, call, actions, fence, receipts>> => Authorized'
<1>1. UNCHANGED <<actions, asked, launched, receipts>> => Records'
  BY DEF IInv, Records
<1>2. LifeOnward /\ UNCHANGED <<asked, launched>>
      /\ (\A a \in inbox' : a \in inbox \/ (a \in Actions /\ asked[a] # NoAsk)) => SessionsExist'
  <2>1. \A a \in Actions : asked[a] # NoAsk => asked[a].caller \in Sessions
    BY DEF IInv, MoreTypes, Asks
  <2>2. \A a \in Actions : launched[a] \subseteq Sessions
    BY DEF IInv, TypeOK
  <2> QED BY <2>1, <2>2 DEF IInv, SessionsExist, LifeOnward
<1>3. UNCHANGED <<actions, asked>> => NamesApart'
  BY DEF IInv, NamesApart
<1>4. UNCHANGED <<actions, asked, agents>> => NamesFree'
  BY DEF IInv, NamesFree, Active
<1>5. UNCHANGED agents => NoTwoAlike'
  BY DEF IInv, NoTwoAlike, Active
<1>6. UNCHANGED <<actions, receipts, fence>> => FencedReceipts'
  BY DEF IInv, FencedReceipts
<1>7. UNCHANGED <<authority, grants, seat, receipts, fence, actions, asked, admin>> => SurfacesAgree'
  BY DEF IInv, SurfacesAgree, FenceHoldsSeat, Between
<1>8. call' = NoCall => CallFollows' /\ Authorized'
  BY NoCallFacts DEF CallFollows, Authorized, Working
<1>9. UNCHANGED <<actions, asked, launched, call>> => CallFollows'
  BY DEF IInv, CallFollows, Act
<1>10. UNCHANGED <<authority, agents, grants, asked, call, actions, fence, receipts>> => Authorized'
  <2> SUFFICES ASSUME UNCHANGED <<authority, agents, grants, asked, call, actions, fence, receipts>>
               PROVE  Authorized'
    OBVIOUS
  <2>1. Act' = Act /\ R' = R /\ A' = A
    BY DEF Act, R, A
  <2>2. Allowed(Act)' <=> Allowed(Act)
    BY <2>1, AllowedSame
  <2>3. (AuthorityHolds' <=> AuthorityHolds) /\ (Working' <=> Working)
    BY <2>1 DEF AuthorityHolds, Working
  <2> QED BY <2>1, <2>2, <2>3 DEF IInv, Authorized
<1> QED BY <1>1, <1>2, <1>3, <1>4, <1>5, <1>6, <1>7, <1>8, <1>9, <1>10

\* A step that leaves the stores and the records alone, and at most drops the
\* call.
LEMMA Elsewhere ==
    ASSUME IInv, UNCHANGED <<authority, agents, grants, grantRev, actions, seat, receipts, fence, launched,
                             asked, answered, admin>>,
           LifeOnward, faults' \in Nat, call' = call \/ call' = NoCall,
           \A a \in inbox' : a \in inbox \/ (a \in Actions /\ asked[a] # NoAsk)
    PROVE  IInv'
<1>1. TypeOK'
  BY DEF IInv, TypeOK, LifeOnward, LifeStates
<1>2. MoreTypes'
  BY DEF IInv, MoreTypes
<1>3. CallFollows' /\ Authorized'
  BY Frame
<1> QED BY <1>1, <1>2, <1>3, Frame DEF IInv

LEMMA CrashStep == ASSUME IInv, Crash PROVE IInv'
<1>1. LifeOnward
  BY SameLife DEF Crash, world
<1>2. faults' \in Nat
  BY DEF Crash, Fault, IInv, MoreTypes
<1> QED BY <1>1, <1>2, Elsewhere DEF Crash, Fault, Return, store, seats, world

LEMMA RuntimeDiesStep == ASSUME IInv, NEW s \in Sessions, RuntimeDies(s) PROVE IInv'
<1>1. LifeOnward /\ UNCHANGED launched
  BY LifeSet DEF RuntimeDies, LifeStates
<1>2. faults' \in Nat
  BY DEF RuntimeDies, Fault, IInv, MoreTypes
<1> QED BY <1>1, <1>2, Elsewhere DEF RuntimeDies, Fault, store, seats, clients

LEMMA OwnerOnlineStep == ASSUME IInv, NEW s \in Sessions, OwnerOnline(s) PROVE IInv'
<1>1. LifeOnward /\ UNCHANGED launched
  BY LifeSet DEF OwnerOnline, LifeStates
<1>2. faults' \in Nat
  BY DEF OwnerOnline, budget, IInv, MoreTypes
<1> QED BY <1>1, <1>2, Elsewhere DEF OwnerOnline, store, seats, clients, budget

LEMMA AskAgainStep == ASSUME IInv, NEW a \in Actions, AskAgain(a) PROVE IInv'
<1>1. LifeOnward
  BY SameLife DEF AskAgain, Send, world
<1>2. faults' \in Nat
  BY DEF AskAgain, Send, budget, IInv, MoreTypes
<1> QED BY <1>1, <1>2, Elsewhere DEF AskAgain, Send, store, seats, budget, world

LEMMA BindSeatStep == ASSUME IInv, NEW s \in Sessions, BindSeat(s) PROVE IInv'
<1>0. /\ UNCHANGED <<authority, agents, grants, grantRev, actions, receipts, fence, launched, life,
                     asked, inbox, answered, call, faults>>
      /\ fence = None /\ admin > 0 /\ admin' = admin - 1
      /\ seat' = [occupant |-> s, epoch |-> seat.epoch + 1]
  BY DEF BindSeat, Admin, store, world, clients
<1>1. TypeOK'
  BY <1>0 DEF IInv, TypeOK, Occupancy
<1>2. MoreTypes' /\ admin' # MaxAdmin
  BY <1>0, SizeAssumption DEF IInv, MoreTypes
<1>3. SurfacesAgree'
  BY <1>0, <1>2 DEF IInv, SurfacesAgree, FenceHoldsSeat
<1>4. LifeOnward
  BY <1>0, SameLife
<1> QED BY <1>0, <1>1, <1>2, <1>3, <1>4, Frame DEF IInv

LEMMA BindAuthorityStep == ASSUME IInv, NEW s \in Sessions, BindAuthority(s) PROVE IInv'
<1>0. /\ UNCHANGED <<agents, grants, grantRev, actions, seat, receipts, fence, launched, life,
                     asked, inbox, answered, call, faults>>
      /\ call = NoCall /\ admin > 0 /\ admin' = admin - 1 /\ s \notin grants
      /\ authority' = [director |-> s, epoch |-> authority.epoch + 1]
  BY DEF BindAuthority, Admin, world, clients, seats
<1>1. TypeOK'
  BY <1>0 DEF IInv, TypeOK
<1>2. MoreTypes' /\ admin' # MaxAdmin
  BY <1>0, SizeAssumption DEF IInv, MoreTypes
<1>3. SurfacesAgree'
  BY <1>0, <1>2 DEF IInv, SurfacesAgree, FenceHoldsSeat
<1>4. LifeOnward
  BY <1>0, SameLife
<1> QED BY <1>0, <1>1, <1>2, <1>3, <1>4, Frame DEF IInv

LEMMA HumanOperatorStep == ASSUME IInv, NEW s \in Sessions, HumanOperator(s) PROVE IInv'
<1>0. /\ UNCHANGED <<authority, agents, actions, seat, receipts, fence, launched, life,
                     asked, inbox, answered, call, faults>>
      /\ call = NoCall /\ admin > 0 /\ admin' = admin - 1 /\ s # authority.director
      /\ grantRev' = grantRev + 1
      /\ grants' = grants \cup {s} \/ grants' = grants \ {s}
  BY DEF HumanOperator, Admin, world, clients, seats, Regrant
<1>1. TypeOK'
  BY <1>0 DEF IInv, TypeOK
<1>2. MoreTypes' /\ admin' # MaxAdmin
  BY <1>0, SizeAssumption DEF IInv, MoreTypes
<1>3. SurfacesAgree'
  BY <1>0, <1>2 DEF IInv, SurfacesAgree, FenceHoldsSeat
<1>4. LifeOnward
  BY <1>0, SameLife
<1> QED BY <1>0, <1>1, <1>2, <1>3, <1>4, Frame DEF IInv

-----------------------------------------------------------------------------
(* Requests arrive and are taken up.                                        *)

LEMMA AskStep == ASSUME IInv, NEW s \in Sessions, NEW a \in Actions, NEW r \in Requests, Ask(s, a, r) PROVE IInv'
<1> DEFINE k == [caller |-> s, req |-> r, epoch |-> authority.epoch, grantRev |-> grantRev]
<1>0. /\ UNCHANGED <<authority, agents, grants, grantRev, actions, seat, receipts, fence, life, launched,
                     call, answered, faults, admin>>
      /\ inbox' = inbox \cup {a} /\ asked' = [asked EXCEPT ![a] = k] /\ asked[a] = NoAsk /\ life[s] = "online"
  BY DEF Ask, Send, store, seats, world, budget
<1>1. k \in Asks /\ k.caller = s /\ k # NoAsk
  <2>1. authority.epoch \in Nat /\ grantRev \in Nat
    BY DEF IInv, TypeOK
  <2>2. s # None
    BY NoneAssumption
  <2> QED BY <2>1, <2>2 DEF Asks, NoAsk
<1> HIDE DEF k
<1>2. /\ asked' \in [Actions -> Asks \cup {NoAsk}] /\ asked'[a] = k
      /\ \A b \in Actions : b # a => asked'[b] = asked[b]
  BY <1>0, <1>1 DEF IInv, MoreTypes
<1>3. actions[a] = NoAction /\ launched[a] = {} /\ receipts[a] = None /\ actions[a].phase = "absent"
  BY <1>0 DEF IInv, Records, Fits
<1>4. TypeOK'
  BY <1>0 DEF IInv, TypeOK
<1>5. MoreTypes'
  BY <1>0, <1>2 DEF IInv, MoreTypes
<1>6. Records'
  <2>1. Fits(NoAction, k, {}, None)
    BY <1>1 DEF Fits, NoAction, Blank, Made, MadePhases, Final
  <2> SUFFICES ASSUME NEW b \in Actions PROVE Fits(actions[b], asked'[b], launched[b], receipts[b])
    BY <1>0 DEF Records
  <2> QED BY <1>2, <1>3, <2>1 DEF IInv, Records
<1>7. call # NoCall => Act \in Actions /\ Act # a /\ asked'[Act] = asked[Act]
  BY <1>0, <1>2, CallFacts DEF Follows
<1>8. CallFollows'
  BY <1>0, <1>7 DEF IInv, CallFollows, Act
<1>9. SessionsExist'
  BY <1>0, <1>1, <1>2 DEF IInv, SessionsExist
<1>10. Authorized'
  <2>1. CASE call = NoCall
    BY <1>0, <2>1, Frame
  <2>2. CASE call # NoCall
    <3>1. Act' = Act /\ R' = R /\ A' = A /\ asked'[Act] = asked[Act]
      BY <1>0, <1>7, <2>2 DEF Act, R, A
    <3>2. Allowed(Act)' <=> Allowed(Act)
      BY <1>0, <3>1 DEF Allowed, Role, Active
    <3>3. (AuthorityHolds' <=> AuthorityHolds) /\ (Working' <=> Working)
      BY <1>0, <3>1 DEF AuthorityHolds, Working
    <3> QED BY <1>0, <3>1, <3>2, <3>3 DEF IInv, Authorized
  <2> QED BY <2>1, <2>2
<1>11. NamesApart'
  <2>1. \A b \in Actions : actions[b].phase \notin Resolved => asked'[b] = asked[b]
    BY <1>2, <1>3 DEF Resolved
  <2> QED BY <1>0, <2>1 DEF IInv, NamesApart
<1>12. NamesFree'
  <2>1. \A b \in Actions : NeedsName(actions[b]) => asked'[b] = asked[b]
    BY <1>2, <1>3 DEF NeedsName
  <2> QED BY <1>0, <2>1 DEF IInv, NamesFree, Active
<1>13. SurfacesAgree'
  <2>1. \A b \in Actions : Between(b) => Between(b)'
    BY <1>0, <1>2, <1>3 DEF Between
  <2> QED BY <1>0, <2>1 DEF IInv, SurfacesAgree, FenceHoldsSeat
<1> QED BY <1>0, <1>4, <1>5, <1>6, <1>8, <1>9, <1>10, <1>11, <1>12, <1>13, Frame DEF IInv

\* A call starts, on a record y that is at most reopened or prepared.
LEMMA Starts ==
    ASSUME IInv, call = NoCall, NEW a \in inbox, NEW y \in ActionRecords, NEW p \in {"check", "reconcile"},
           actions' = [actions EXCEPT ![a] = y], Start(a, p), inbox' = inbox \ {a},
           UNCHANGED <<store, seats, world, asked, answered, budget>>,
           Fits(y, asked[a], launched[a], receipts[a]),
           actions[a].phase \in {"transfer", "complete"} => y = actions[a],
           y.phase # "transfer" \/ y = actions[a],
           y.phase \notin Resolved => \/ actions[a].phase \notin Resolved
                                      \/ asked[a].req.op \in Creates => ~Reserved(asked[a].req.spec),
           NeedsName(y) => NeedsName(actions[a]),
           p = "check" => Allowed(a) /\ y.phase \notin {"absent", "no_write", "owner_action_required", "complete"},
           p = "reconcile" => y.phase = "complete" /\ asked[a].req.op = "rotate"
    PROVE  IInv'
<1>0. /\ a \in Actions /\ asked[a] # NoAsk /\ actions \in [Actions -> ActionRecords]
      /\ asked[a] \in Asks
  BY DEF IInv, TypeOK, MoreTypes, SessionsExist, ActionRecords
<1>1. /\ actions' \in [Actions -> ActionRecords] /\ actions'[a] = y
      /\ \A b \in Actions : b # a => actions'[b] = actions[b]
  BY <1>0
<1>2. UNCHANGED <<authority, agents, grants, grantRev, seat, receipts, fence, life, launched, asked, answered,
                  faults, admin>>
  BY DEF store, seats, world, budget
<1>3. /\ call' \in Calls /\ call'.pc = p /\ call'.act = a
  <2>1. p \in Pcs
    BY DEF Pcs, Reviews
  <2>2. Role(asked[a].caller) \in {"primary", "operator", "none"}
    BY DEF Role
  <2> QED BY <1>0, <2>1, <2>2 DEF Start, Calls
<1>4. TypeOK'
  BY <1>1, <1>2 DEF IInv, TypeOK, ActionRecords
<1>5. MoreTypes'
  BY <1>2, <1>3 DEF IInv, MoreTypes
<1>6. Records'
  <2> SUFFICES ASSUME NEW b \in Actions PROVE Fits(actions'[b], asked[b], launched[b], receipts[b])
    BY <1>2 DEF Records
  <2> QED BY <1>1 DEF IInv, Records
<1>7. CallFollows'
  <2>1. ASSUME NEW c, c.pc = p PROVE Follows(c, y, asked[a], launched[a])
    BY <1>0, <2>1 DEF Follows, Reviews
  <2> QED BY <1>1, <1>2, <1>3, <2>1 DEF CallFollows, Act
<1>8. SessionsExist'
  <2>1. LifeOnward
    BY <1>2, SameLife
  <2> QED BY <1>2, <2>1, Frame
<1>9. Authorized'
  <2>1. Act' = a
    BY <1>3 DEF Act
  <2>2. Working' => p = "check"
    BY <1>3 DEF Working, Reviews
  <2>3. Allowed(a)' <=> Allowed(a)
    BY <1>2, AllowedSame
  <2> QED BY <1>3, <2>1, <2>2, <2>3 DEF Authorized
<1>10. NamesApart'
  <2> SUFFICES ASSUME NEW b \in Actions, NEW d \in Actions, b # d,
                      actions'[b].phase \notin Resolved, actions'[d].phase \notin Resolved,
                      asked[b].req.op \in Creates, asked[d].req.op \in Creates
               PROVE  asked[b].req.spec # asked[d].req.spec
    BY <1>2 DEF NamesApart
  <2>1. CASE actions[b].phase \notin Resolved /\ actions[d].phase \notin Resolved
    BY <2>1 DEF IInv, NamesApart
  <2>2. CASE b = a /\ actions[a].phase \in Resolved
    <3>1. ~Reserved(asked[a].req.spec) /\ actions[d].phase \notin Resolved
      BY <1>1, <2>2
    <3> QED BY <2>2, <3>1 DEF Reserved
  <2>3. CASE d = a /\ actions[a].phase \in Resolved
    <3>1. ~Reserved(asked[a].req.spec) /\ actions[b].phase \notin Resolved
      BY <1>1, <2>3
    <3> QED BY <2>3, <3>1 DEF Reserved
  <2> QED BY <1>1, <2>1, <2>2, <2>3
<1>11. NamesFree'
  <2>1. \A b \in Actions : NeedsName(actions'[b]) => NeedsName(actions[b])
    BY <1>1
  <2> QED BY <1>2, <2>1 DEF IInv, NamesFree, Active
<1>12. FencedReceipts'
  <2>1. \A b \in Actions : actions'[b].phase = "transfer" => actions[b].phase = "transfer"
    BY <1>1
  <2> QED BY <1>2, <2>1 DEF IInv, FencedReceipts
<1>13. SurfacesAgree'
  <2>1. \A b \in Actions : actions[b].phase \in {"transfer", "complete"} => actions'[b] = actions[b]
    BY <1>0, <1>1
  <2>2. fence # None => fence \in Actions
    BY DEF IInv, TypeOK
  <2>3. FenceHoldsSeat'
    BY <1>2, <2>1, <2>2 DEF IInv, SurfacesAgree, FenceHoldsSeat
  <2>4. \A b \in Actions : Between(b) => Between(b)'
    BY <1>2, <2>1 DEF Between
  <2> QED BY <1>2, <2>3, <2>4 DEF IInv, SurfacesAgree
<1> QED BY <1>2, <1>4, <1>5, <1>6, <1>7, <1>8, <1>9, <1>10, <1>11, <1>12, <1>13, Frame DEF IInv

\* A request that is dropped or answered without a call.
LEMMA Dismissed ==
    ASSUME IInv, NEW a, inbox' = inbox \ {a},
           UNCHANGED <<store, actions, seats, world, asked, call, answered, budget>>
    PROVE  IInv'
<1>1. LifeOnward
  BY SameLife DEF world
<1>2. faults' \in Nat
  BY DEF IInv, MoreTypes, budget
<1> QED BY <1>1, <1>2, Elsewhere DEF store, seats, world, budget

\* A record that is reopened, and one that is prepared.
Reopened(y, x, p, n, b) ==
    /\ y \in ActionRecords /\ y.phase = p /\ y.native = n /\ y.retry = b
    /\ y.succ = x.succ /\ y.resp = "none"

LEMMA ReopenedRecords ==
    ASSUME NEW x \in ActionRecords, NEW n \in Sessions
    PROVE  /\ Reopened([[x EXCEPT !.resp = "none", !.why = "none"] EXCEPT !.phase = "captured", !.native = n],
                       x, "captured", n, x.retry)
           /\ Reopened([[x EXCEPT !.resp = "none", !.why = "none"] EXCEPT !.phase = "pending", !.retry = TRUE],
                       x, "pending", x.native, TRUE)
<1> DEFINE z == [x EXCEPT !.resp = "none", !.why = "none"]
<1>1. z \in ActionRecords /\ z.resp = "none" /\ z.native = x.native /\ z.succ = x.succ /\ z.retry = x.retry
  BY DEF ActionRecords, Whys
<1> HIDE DEF z
<1>2. Reopened([z EXCEPT !.phase = "captured", !.native = n], x, "captured", n, x.retry)
  BY <1>1, SomePhases DEF ActionRecords, Reopened
<1>3. Reopened([z EXCEPT !.phase = "pending", !.retry = TRUE], x, "pending", x.native, TRUE)
  BY <1>1, SomePhases DEF ActionRecords, Reopened
<1> QED BY <1>2, <1>3 DEF z

LEMMA BeginStep == ASSUME IInv, NEW a \in Actions, Begin(a) PROVE IInv'
<1> DEFINE x == actions[a]
<1>1. Taken(a) /\ call = NoCall /\ a \in inbox /\ inbox' = inbox \ {a}
  BY DEF Begin, BeginRefused, BeginReplay, BeginResume, BeginReopen, BeginNew, Taken
<1>2. /\ x \in ActionRecords /\ Fits(x, asked[a], launched[a], receipts[a]) /\ asked[a] # NoAsk
      /\ actions = [actions EXCEPT ![a] = x] /\ launched[a] \subseteq Sessions
  BY <1>1 DEF IInv, TypeOK, Records, ActionRecords, SessionsExist
<1>3. CASE BeginRefused(a)
  BY <1>1, <1>3, Dismissed DEF BeginRefused
<1>4. CASE BeginReplay(a)
  <2>1. CASE asked[a].req.op = "rotate" /\ actions[a].resp = "complete"
    <3>1. x.phase = "complete"
      BY <1>2, <2>1 DEF Fits
    <3>2. /\ Start(a, "reconcile") /\ actions' = [actions EXCEPT ![a] = x]
          /\ UNCHANGED <<store, seats, world, asked, answered, budget>>
      BY <1>2, <1>4, <2>1 DEF BeginReplay
    <3>3. x.phase \in Resolved /\ x = actions[a]
      BY <3>1 DEF Resolved
    <3> HIDE DEF x
    <3> QED BY <1>1, <1>2, <2>1, <3>1, <3>2, <3>3, Starts
  <2>2. CASE ~(asked[a].req.op = "rotate" /\ actions[a].resp = "complete")
    BY <1>1, <1>4, <2>2, Dismissed DEF BeginReplay
  <2> QED BY <2>1, <2>2
<1>5. CASE BeginResume(a)
  <2>1. x.phase \notin {"absent", "no_write", "owner_action_required", "complete"} /\ x = actions[a]
    BY <1>2, <1>5 DEF BeginResume, Known, Fits, Final
  <2>2. /\ Start(a, "check") /\ actions' = [actions EXCEPT ![a] = x] /\ Allowed(a)
        /\ UNCHANGED <<store, seats, world, asked, answered, budget>>
    BY <1>2, <1>5 DEF BeginResume
  <2>3. x.phase \notin Resolved
    BY <2>1 DEF Resolved
  <2> HIDE DEF x
  <2> QED BY <1>1, <1>2, <2>1, <2>2, <2>3, Starts
<1>6. CASE BeginReopen(a)
  <2>0. /\ x.phase = "owner_action_required" /\ asked[a].req.op = "create" /\ x.why \in {"unknown", "ambiguous"}
        /\ NeedsName(x) /\ x.phase \notin Resolved /\ receipts[a] = None /\ Blank(x) /\ ~x.retry
    BY <1>2, <1>6 DEF BeginReopen, Reopenable, NeedsName, Resolved, Fits
  <2>1. UNCHANGED <<store, seats, world, asked, answered, budget>> /\ Allowed(a)
    BY <1>6 DEF BeginReopen
  <2>2. CASE UNCHANGED <<actions, call>>
    BY <1>1, <2>1, <2>2, Dismissed
  <2>3. ASSUME launched[a] = {}, Start(a, "check"),
               actions' = [actions EXCEPT ![a] = [[actions[a] EXCEPT !.resp = "none", !.why = "none"]
                                                  EXCEPT !.phase = "pending", !.retry = TRUE]]
        PROVE  IInv'
    <3> DEFINE y == [[actions[a] EXCEPT !.resp = "none", !.why = "none"] EXCEPT !.phase = "pending", !.retry = TRUE]
    <3>1. 0 \in Sessions
      BY SizeAssumption DEF Sessions
    <3>2. Reopened(y, x, "pending", x.native, TRUE) /\ actions' = [actions EXCEPT ![a] = y]
      BY <1>2, <2>3, <3>1, ReopenedRecords
    <3> HIDE DEF y
    <3>3. y \in ActionRecords /\ y.phase = "pending"
      BY <3>2 DEF Reopened
    <3>4. Fits(y, asked[a], launched[a], receipts[a])
      BY <1>2, <2>0, <2>3, <3>2 DEF Reopened, Fits, Blank, Made, MadePhases, Final, Creates
    <3>5. x = actions[a]
      OBVIOUS
    <3> HIDE DEF x
    <3> QED BY <1>1, <2>0, <2>1, <2>3, <3>2, <3>3, <3>4, <3>5, Starts
  <2>4. ASSUME NEW n \in launched[a], Start(a, "check"),
               actions' = [actions EXCEPT ![a] = [[actions[a] EXCEPT !.resp = "none", !.why = "none"]
                                                  EXCEPT !.phase = "captured", !.native = n]]
        PROVE  IInv'
    <3> DEFINE y == [[actions[a] EXCEPT !.resp = "none", !.why = "none"] EXCEPT !.phase = "captured", !.native = n]
    <3>1. n \in Sessions /\ n # None /\ launched[a] = {n}
      BY <1>2, NoneAssumption DEF Fits
    <3>2. Reopened(y, x, "captured", n, x.retry) /\ actions' = [actions EXCEPT ![a] = y]
      BY <1>2, <2>4, <3>1, ReopenedRecords
    <3> HIDE DEF y
    <3>3. y \in ActionRecords /\ y.phase = "captured"
      BY <3>2 DEF Reopened
    <3>4. Fits(y, asked[a], launched[a], receipts[a])
      BY <1>2, <2>0, <3>1, <3>2 DEF Reopened, Fits, Blank, Made, MadePhases, Final, Creates
    <3>5. x = actions[a]
      OBVIOUS
    <3> HIDE DEF x
    <3> QED BY <1>1, <2>0, <2>1, <2>4, <3>2, <3>3, <3>4, <3>5, Starts
  <2> QED BY <1>6, <2>2, <2>3, <2>4 DEF BeginReopen
<1>7. CASE BeginNew(a)
  <2>0. /\ UNCHANGED <<store, seats, world, asked, answered, budget>> /\ Allowed(a)
        /\ x.phase = "absent" /\ x = actions[a]
    BY <1>7 DEF BeginNew, Known
  <2>1. CASE Startable(a)
    <3> DEFINE y == [x EXCEPT !.phase = "prepared"]
    <3>1. actions' = [actions EXCEPT ![a] = y] /\ Start(a, "check")
      BY <1>2, <1>7, <2>1 DEF BeginNew
    <3>2. Rephased(y, x, "prepared", x.resp, x.why)
      BY <1>2, PhaseSet, SomePhases
    <3> HIDE DEF y
    <3>3. Fits(y, asked[a], launched[a], receipts[a])
      BY <1>2, <2>0, <3>2 DEF Rephased, Fits, NoAction, Blank, Made, MadePhases, Final
    <3>4. y \in ActionRecords /\ y.phase = "prepared" /\ ~NeedsName(y)
      BY <3>2 DEF Rephased, NeedsName
    <3>5. asked[a].req.op \in Creates => ~Reserved(asked[a].req.spec)
      BY <2>1 DEF Startable
    <3> HIDE DEF x
    <3> QED BY <1>1, <2>0, <3>1, <3>3, <3>4, <3>5, Starts
  <2>2. CASE ~Startable(a)
    BY <1>1, <1>7, <2>2, Dismissed DEF BeginNew
  <2> QED BY <2>1, <2>2
<1> QED BY <1>3, <1>4, <1>5, <1>6, <1>7 DEF Begin

-----------------------------------------------------------------------------
(* The end of a rotation.                                                   *)

LEMMA Reviewing ==
    ASSUME IInv, NEW p \in Reviews, At(p)
    PROVE  /\ call # NoCall /\ call.pc = p /\ call \in Calls /\ Act \in Actions /\ Act = call.act
           /\ A \in ActionRecords /\ asked[Act] # NoAsk /\ R = asked[Act].req /\ R.op = "rotate"
           /\ A.phase = "complete" /\ actions = [actions EXCEPT ![Act] = A] /\ A = actions[Act]
           /\ Fits(A, asked[Act], launched[Act], receipts[Act])
           /\ \A c \in Calls : c.pc \in Reviews => Follows(c, A, asked[Act], launched[Act])
<1>1. call # NoCall /\ call.pc = p
  BY NoCallFacts DEF At, Reviews
<1>2. /\ call \in Calls /\ Act \in Actions /\ A \in ActionRecords /\ R = asked[Act].req
      /\ Fits(A, asked[Act], launched[Act], receipts[Act])
      /\ Follows(call, A, asked[Act], launched[Act])
  BY <1>1, CallFacts DEF R
<1>3. asked[Act] # NoAsk /\ R.op = "rotate" /\ A.phase = "complete"
  BY <1>1, <1>2 DEF Follows
<1>4. actions = [actions EXCEPT ![Act] = A] /\ A = actions[Act] /\ Act = call.act
  BY <1>2 DEF A, Act, IInv, TypeOK
<1>5. ASSUME NEW c \in Calls, c.pc \in Reviews PROVE Follows(c, A, asked[Act], launched[Act])
  BY <1>2, <1>3, <1>5 DEF Follows, Reviews
<1> QED BY <1>1, <1>2, <1>3, <1>4, <1>5

LEMMA ReconcileStep == ASSUME IInv, Reconcile PROVE IInv'
<1>1. /\ call # NoCall /\ call.pc = "reconcile" /\ call \in Calls /\ Act \in Actions /\ Act = call.act
      /\ A \in ActionRecords /\ actions' = [actions EXCEPT ![Act] = A] /\ A.phase = "complete"
      /\ Fits(A, asked[Act], launched[Act], receipts[Act])
      /\ \A c \in Calls : c.pc \in Reviews => Follows(c, A, asked[Act], launched[Act])
  BY Reviewing DEF Reconcile, Reviews
<1>2. Quiet /\ LifeOnward
  BY QuietStep, SameLife DEF Reconcile, world, budget
<1>3. CASE call' = NoCall
  BY <1>1, <1>2, <1>3, Turn, NoCallFacts DEF Quiet
<1>4. CASE Reconciled /\ Go("finish")
  <2> DEFINE c == [call EXCEPT !.pc = "finish"]
  <2>1. "finish" \in Pcs /\ "finish" \in Reviews
    BY DEF Pcs, Reviews
  <2>2. c \in Calls /\ c.pc = "finish" /\ c.act = Act /\ call' = c
    BY <1>1, <1>4, <2>1, Moved DEF Go
  <2> HIDE DEF c
  <2>3. authority.director = A.succ
    BY <1>4 DEF Reconciled
  <2> QED BY <1>1, <1>2, <2>1, <2>2, <2>3, Turn DEF Quiet
<1> QED BY <1>3, <1>4 DEF Reconcile, Return

LEMMA VerifyStep == ASSUME IInv, Verify PROVE IInv'
<1>1. /\ call # NoCall /\ call.pc = "verify" /\ call \in Calls /\ Act \in Actions /\ Act = call.act
      /\ A \in ActionRecords /\ actions' = [actions EXCEPT ![Act] = A] /\ A.phase = "complete"
      /\ Fits(A, asked[Act], launched[Act], receipts[Act])
  BY Reviewing DEF Verify, Reviews
<1>2. LifeOnward
  BY SameLife DEF Verify, world
<1>3. answered' \subseteq Actions /\ faults' \in Nat
  BY <1>1 DEF Verify, IInv, TypeOK, MoreTypes, budget
<1> QED BY <1>1, <1>2, <1>3, Turn, NoCallFacts DEF Verify, Return, store, seats, world, budget

LEMMA FinishFenceStep == ASSUME IInv, FinishFence PROVE IInv'
<1>1. /\ call # NoCall /\ call.pc = "finish" /\ call \in Calls /\ Act \in Actions /\ Act = call.act
      /\ A \in ActionRecords /\ actions' = [actions EXCEPT ![Act] = A] /\ A.phase = "complete" /\ A = actions[Act]
      /\ Fits(A, asked[Act], launched[Act], receipts[Act])
      /\ \A c \in Calls : c.pc \in Reviews => Follows(c, A, asked[Act], launched[Act])
  BY Reviewing DEF FinishFence, Reviews
<1>2. LifeOnward
  BY SameLife DEF FinishFence, world
<1>3. CASE call' = NoCall /\ UNCHANGED fence
  <2>1. Quiet
    BY <1>3, QuietStep DEF FinishFence, world, seats, budget
  <2> QED BY <1>1, <1>2, <1>3, <2>1, Turn, NoCallFacts DEF Quiet
<1>4. CASE SeatVerified /\ fence \in {Act, None} /\ fence' = None /\ Go("verify")
  <2>0. UNCHANGED <<authority, agents, grants, grantRev, actions, seat, receipts, life, launched, asked, inbox,
                    answered, faults, admin>>
    BY DEF FinishFence, store, world, clients, budget
  <2> DEFINE c == [call EXCEPT !.pc = "verify"]
  <2>1. "verify" \in Pcs /\ "verify" \in Reviews
    BY DEF Pcs, Reviews
  <2>2. c \in Calls /\ c.pc = "verify" /\ c.act = Act /\ call' = c
    BY <1>1, <1>4, <2>1, Moved DEF Go
  <2> HIDE DEF c
  <2>3. authority.director = A.succ /\ seat.occupant = A.succ
    BY <1>1, <1>4 DEF SeatVerified, IInv, Authorized
  <2>4. TypeOK' /\ MoreTypes'
    BY <1>4, <2>0, <2>2 DEF IInv, TypeOK, MoreTypes
  <2>5. Act' = Act /\ A' = A /\ R' = R
    BY <2>0, <2>2 DEF Act, A, R
  <2>6. CallFollows'
    BY <1>1, <2>0, <2>1, <2>2, <2>5 DEF CallFollows, A
  <2>7. Authorized'
    BY <2>0, <2>1, <2>2, <2>3, <2>5 DEF Authorized, Working
  <2>8. FencedReceipts'
    BY <1>1, <1>4, <2>0, NoneAssumption DEF IInv, FencedReceipts
  <2>9. SurfacesAgree'
    BY <1>4, <2>0, <2>3 DEF IInv, SurfacesAgree, FenceHoldsSeat
  <2> QED BY <1>2, <2>0, <2>4, <2>6, <2>7, <2>8, <2>9, Frame DEF IInv
<1> QED BY <1>3, <1>4 DEF FinishFence, Return

-----------------------------------------------------------------------------
(* Grants and the registry of agents.                                       *)

\* The threads of the running action, and agents that stay.
LEMMA SameThreads ==
    ASSUME IInv, call # NoCall, UNCHANGED launched, LifeOnward
    PROVE  /\ launched[Act] \in SUBSET Sessions /\ launched' = [launched EXCEPT ![Act] = launched[Act]]
           /\ \A n \in launched[Act] : life'[n] # "absent"
  BY CallFacts DEF IInv, TypeOK, SessionsExist, LifeOnward

\* A completed grant or revocation.
LEMMA Regrants ==
    ASSUME IInv, Working, Completed, NEW gs \in SUBSET Sessions, Regrant(gs), authority.director \notin gs,
           R.op \in {"grant", "revoke"},
           UNCHANGED <<authority, agents, seats, world, clients, budget>>
    PROVE  IInv'
<1>0. UNCHANGED <<authority, agents, seat, receipts, fence, life, launched, asked, inbox, answered, faults, admin>>
      /\ grants' = gs /\ grantRev' \in Nat /\ call # NoCall
  BY DEF seats, world, clients, budget, Regrant, Working, IInv, TypeOK
<1>1. /\ Act \in Actions /\ A \in ActionRecords /\ Fits(A, asked[Act], launched[Act], receipts[Act])
      /\ asked[Act] # NoAsk /\ R = asked[Act].req /\ A.phase \notin Resolved
  BY <1>0, CallFacts, WorkingFacts DEF Follows, R, Resolved
<1> DEFINE y == [A EXCEPT !.phase = "complete", !.resp = "complete"]
<1>2. actions' = [actions EXCEPT ![Act] = y] /\ call' = NoCall
  BY DEF Completed, Record, Return
<1>3. Rephased(y, A, "complete", "complete", A.why)
  BY <1>1, AnswerSet
<1> HIDE DEF y
<1>4. A.phase \notin {"pending", "transfer", "complete"}
  BY <1>1 DEF Fits, Creates, Resolved
<1>5. Fits(y, asked[Act], launched[Act], receipts[Act])
  BY <1>1, <1>3, <1>4, FitsComplete
<1>6. y \in ActionRecords /\ ~NeedsName(y) /\ y.phase \in Resolved
  BY <1>3 DEF Rephased, NeedsName, Resolved
<1>7. LifeOnward
  BY <1>0, SameLife
<1>8. Authorized' /\ NoTwoAlike'
  BY <1>0, <1>2, Frame
<1>9. NamesFree'
  <2>1. \A a \in Actions : NeedsName(actions'[a]) => NeedsName(actions[a])
    BY <1>1, <1>2, <1>6 DEF IInv, TypeOK
  <2> QED BY <1>0, <2>1 DEF IInv, NamesFree, Active
<1>10. agents' \in [Sessions -> AgentRecords] /\ faults' \in Nat /\ answered' \subseteq Actions
  BY <1>0 DEF IInv, TypeOK, MoreTypes, AgentRecords
<1>11. /\ launched[Act] \in SUBSET Sessions /\ launched' = [launched EXCEPT ![Act] = launched[Act]]
       /\ \A n \in launched[Act] : life'[n] # "absent"
  BY <1>0, <1>7, SameThreads
<1> QED BY <1>0, <1>1, <1>2, <1>4, <1>5, <1>6, <1>7, <1>8, <1>9, <1>10, <1>11, TurnWide

LEMMA GrantStep == ASSUME IInv, Grant PROVE IInv'
<1>1. Working /\ call # NoCall /\ call.pc = "grant"
  BY AtWorking DEF Grant, Reviews
<1>2. R.op = "grant" /\ R \in Requests
  BY <1>1, CallFacts DEF Follows, R
<1>3. R.target \in Sessions
  BY <1>2, RequestFacts
<1>4. CASE Refused /\ UNCHANGED <<grants, grantRev>>
  <2>1. Quiet /\ LifeOnward
    BY <1>4, QuietStep, SameLife DEF Grant, world, budget, store
  <2> QED BY <1>1, <1>4, <2>1, EndRefused
<1>5. CASE R.target # authority.director /\ Regrant(grants \cup {R.target}) /\ Completed
  <2>1. grants \cup {R.target} \in SUBSET Sessions /\ authority.director \notin grants \cup {R.target}
    BY <1>3, <1>5 DEF IInv, TypeOK, SurfacesAgree
  <2> QED BY <1>1, <1>2, <1>5, <2>1, Regrants DEF Grant
<1> QED BY <1>4, <1>5 DEF Grant

LEMMA RevokeStep == ASSUME IInv, Revoke PROVE IInv'
<1>1. Working /\ call # NoCall /\ call.pc = "revoke"
  BY AtWorking DEF Revoke, Reviews
<1>2. R.op = "revoke"
  BY <1>1, CallFacts DEF Follows, R
<1>3. CASE Refused /\ UNCHANGED <<grants, grantRev>>
  <2>1. Quiet /\ LifeOnward
    BY <1>3, QuietStep, SameLife DEF Revoke, world, budget, store
  <2> QED BY <1>1, <1>3, <2>1, EndRefused
<1>4. CASE Regrant(grants \ {R.target}) /\ Completed
  <2>1. grants \ {R.target} \in SUBSET Sessions /\ authority.director \notin grants \ {R.target}
    BY <1>4 DEF IInv, TypeOK, SurfacesAgree
  <2> QED BY <1>1, <1>2, <1>4, <2>1, Regrants DEF Revoke
<1> QED BY <1>3, <1>4 DEF Revoke

\* The caller of a close keeps its authority: an Operator closes no Operator,
\* so not itself, and the Primary Director's role is no grant.
LEMMA CloseMarkStep == ASSUME IInv, CloseMark PROVE IInv'
<1>1. Working /\ call # NoCall /\ call.pc = "mark" /\ call \in Calls
  BY AtWorking, CallFacts DEF CloseMark, Reviews
<1>2. /\ R.target \in Sessions /\ R = asked[Act].req /\ R \in Requests
      /\ R.op = "close" \/ (R.op \in {"replace", "rotate"} /\ A.phase = "closing")
      /\ \A c \in Calls : c.pc = "closed" => Follows(c, A, asked[Act], launched[Act])
  BY <1>1, Closes
<1>3. /\ Act \in Actions /\ A \in ActionRecords /\ Fits(A, asked[Act], launched[Act], receipts[Act])
      /\ A = actions[Act] /\ asked[Act].caller \in Sessions /\ Act = call.act
  BY <1>1, CallFacts DEF A, Act
<1>4. /\ UNCHANGED <<authority, actions, seat, receipts, fence, life, launched, asked, inbox, answered, faults,
                     admin>>
      /\ actions' = [actions EXCEPT ![Act] = A]
  BY <1>3 DEF CloseMark, seats, world, clients, budget, IInv, TypeOK
<1>5. /\ agents' \in [Sessions -> AgentRecords]
      /\ \A s \in Sessions : /\ agents'[s].spec = agents[s].spec
                             /\ s # R.target => agents'[s] = agents[s]
                             /\ agents'[s].own = "active" => agents[s].own = "active"
  BY <1>2 DEF CloseMark, IInv, TypeOK, AgentRecords
<1>6. /\ grants' \subseteq grants /\ grants \ {R.target} \subseteq grants' /\ grantRev' \in Nat
  BY DEF CloseMark, Regrant, IInv, TypeOK
<1> DEFINE c == [call EXCEPT !.pc = "closed"]
<1>7. "closed" \in Pcs \ Reviews
  BY SomePcs
<1>8. c \in Calls /\ c.pc = "closed" /\ c.act = Act /\ call' = c
  BY <1>1, <1>3, <1>7, Moved DEF Go, CloseMark
<1> HIDE DEF c
<1>9. Allowed(Act) /\ (R.op = "rotate" => AuthorityHolds /\ asked[Act].caller = R.target)
  BY <1>1 DEF IInv, Authorized
<1>10. Act' = Act /\ R' = R /\ A' = A
  BY <1>4, <1>8 DEF Act, R, A
<1>11. Allowed(Act)'
  <2>0. PICK k \in Sessions : k = asked[Act].caller
    BY <1>3
  <2>1. CASE authority.director = k
    BY <1>4, <1>10, <2>0, <2>1 DEF Allowed, Role
  <2>2. CASE authority.director # k
    <3>1. /\ k \in grants /\ Active(k) /\ R.op \notin {"rotate", "grant", "revoke"}
          /\ R.op \in Targets => R.target # authority.director
          /\ R.op \in Disables => R.target \notin grants
      BY <1>2, <1>9, <2>0, <2>2 DEF Allowed, Role
    <3>2. R.op \in Disables /\ R.op \in Targets
      BY <1>2, <3>1 DEF Disables, Targets
    <3>3. k # R.target /\ R.target \notin grants' /\ k \in grants'
      BY <1>6, <3>1, <3>2
    <3>4. Active(k)'
      BY <1>5, <3>1, <3>3 DEF Active
    <3>5. Role(k)' = "operator"
      BY <1>4, <2>2, <3>3, <3>4 DEF Role
    <3> QED BY <1>2, <1>4, <1>10, <2>0, <3>1, <3>2, <3>3, <3>5 DEF Allowed
  <2> QED BY <2>1, <2>2
<1>12. AuthorityHolds' <=> AuthorityHolds
  BY <1>4, <1>10 DEF AuthorityHolds
<1>13. Authorized'
  BY <1>4, <1>8, <1>9, <1>10, <1>11, <1>12 DEF Authorized
<1>14. NamesFree'
  BY <1>4, <1>5 DEF IInv, NamesFree, Active
<1>15. NoTwoAlike'
  BY <1>5 DEF IInv, NoTwoAlike, Active
<1>16. LifeOnward
  BY <1>4, SameLife
<1>17. /\ launched[Act] \in SUBSET Sessions /\ launched' = [launched EXCEPT ![Act] = launched[Act]]
       /\ \A n \in launched[Act] : life'[n] # "absent"
  BY <1>1, <1>4, <1>16, SameThreads
<1>18. /\ faults' \in Nat /\ answered' \subseteq Actions /\ grants' \subseteq Sessions
       /\ authority.director \notin grants'
  BY <1>4, <1>6 DEF IInv, TypeOK, MoreTypes, SurfacesAgree
<1>19. Follows(c, A, asked[Act], launched[Act])
  BY <1>2, <1>8
<1> QED BY <1>1, <1>3, <1>4, <1>5, <1>6, <1>8, <1>13, <1>14, <1>15, <1>16, <1>17, <1>18, <1>19, TurnWide

\* The name of the new agent is free, because its action has reserved it since
\* before the collision check.
LEMMA CaptureAdoptedStep == ASSUME IInv, CaptureAdopted PROVE IInv'
<1>0. At("adopted") /\ {"adopted", "create"} \subseteq Pcs \ Reviews
  BY SomePcs DEF CaptureAdopted
<1>1. /\ Working /\ call # NoCall /\ call.pc = "adopted" /\ call \in Calls
      /\ Act \in Actions /\ A \in ActionRecords /\ asked[Act] # NoAsk /\ R = asked[Act].req /\ R \in Requests
      /\ Fits(A, asked[Act], launched[Act], receipts[Act]) /\ Follows(call, A, asked[Act], launched[Act])
      /\ A.resp = "none"
  BY <1>0, Creating
<1>2. /\ UNCHANGED <<authority, grants, grantRev, seat, receipts, fence, life, launched, asked, inbox, answered,
                     faults, admin>>
  BY DEF CaptureAdopted, seats, world, clients, budget
<1>3. A.phase = "captured" /\ A.native # None /\ R.op \in Creates /\ launched[Act] = {A.native}
  BY <1>1 DEF Follows, Fits
<1>4. A.native \in Sessions /\ R.spec \in Specs /\ asked[Act].caller # A.native
      /\ receipts[Act] = None /\ ~A.retry
  BY <1>1, <1>3, RequestFacts DEF ActionRecords, Fits
<1> DEFINE y == [A EXCEPT !.phase = "adopted", !.succ = A.native]
<1>5. actions' = [actions EXCEPT ![Act] = y]
  BY DEF CaptureAdopted, Record
<1>6. Adopted(y, A)
  BY <1>1, <1>4, ThreadRecords, Zenon
<1> HIDE DEF y
<1>7. y \in ActionRecords /\ y.phase = "adopted" /\ ~NeedsName(y) /\ y.phase \notin Resolved
  BY <1>6 DEF Adopted, NeedsName, Resolved
<1>8. Fits(y, asked[Act], launched[Act], receipts[Act])
  BY <1>1, <1>3, <1>4, <1>6 DEF Adopted, Fits, Blank, Made, MadePhases, Final
<1> DEFINE c == [call EXCEPT !.pc = "create"]
<1>9. c \in Calls /\ c.pc = "create" /\ c.act = Act /\ call' = c
  BY <1>0, <1>1, Moved DEF Go, CaptureAdopted, Act
<1> HIDE DEF c
<1>10. Follows(c, y, asked[Act], launched[Act])
  BY <1>1, <1>3, <1>7, <1>9 DEF Follows, Reviews
<1>11. /\ agents' \in [Sessions -> AgentRecords]
       /\ \A s \in Sessions : s # A.native => agents'[s] = agents[s]
       /\ agents'[A.native] = agents[A.native] \/ agents'[A.native].spec = R.spec
  BY <1>4 DEF CaptureAdopted, IInv, TypeOK, AgentRecords
<1>12. /\ NeedsName(A) /\ A.phase \notin Resolved /\ A = actions[Act]
       /\ \A s \in Sessions : Active(s) => agents[s].spec # R.spec
  BY <1>1, <1>3 DEF NeedsName, Resolved, A, IInv, NamesFree
<1>13. NoTwoAlike'
  BY <1>4, <1>11, <1>12 DEF IInv, NoTwoAlike, Active
<1>14. NamesFree'
  <2> SUFFICES ASSUME NEW b \in Actions, NeedsName(actions'[b])
               PROVE  /\ asked[b].req.op \in Creates
                      /\ \A s \in Sessions : Active(s)' => agents'[s].spec # asked[b].req.spec
    BY <1>2 DEF NamesFree
  <2>1. b # Act /\ actions'[b] = actions[b]
    BY <1>1, <1>5, <1>7 DEF IInv, TypeOK
  <2>2. asked[b].req.op \in Creates /\ \A s \in Sessions : Active(s) => agents[s].spec # asked[b].req.spec
    BY <2>1 DEF IInv, NamesFree
  <2>3. actions[b].phase \notin Resolved
    BY <2>1 DEF NeedsName, Resolved
  <2>4. R.spec # asked[b].req.spec
    BY <1>1, <1>3, <1>12, <2>1, <2>2, <2>3 DEF IInv, NamesApart
  <2> QED BY <1>4, <1>11, <2>2, <2>4 DEF Active
<1>15. Act' = Act /\ R' = R
  BY <1>2, <1>9 DEF Act, R
<1>16. Allowed(Act)'
  <2>1. Allowed(Act) /\ asked[Act].caller \in Sessions
    BY <1>1, CallFacts DEF IInv, Authorized
  <2>2. agents'[asked[Act].caller] = agents[asked[Act].caller]
    BY <1>4, <1>11, <2>1
  <2> QED BY <1>2, <1>15, <2>1, <2>2 DEF Allowed, Role, Active
<1>17. Authorized'
  <2>1. AuthorityHolds' <=> AuthorityHolds
    BY <1>2, <1>15 DEF AuthorityHolds
  <2>2. R.op = "rotate" => AuthorityHolds /\ asked[Act].caller = R.target
    BY <1>1 DEF IInv, Authorized
  <2> QED BY <1>2, <1>9, <1>15, <1>16, <2>1, <2>2 DEF Authorized
<1>18. LifeOnward
  BY <1>2, SameLife
<1>19. /\ launched[Act] \in SUBSET Sessions /\ launched' = [launched EXCEPT ![Act] = launched[Act]]
       /\ \A n \in launched[Act] : life'[n] # "absent"
  BY <1>1, <1>2, <1>18, SameThreads
<1>20. /\ faults' \in Nat /\ answered' \subseteq Actions /\ grants' \subseteq Sessions /\ grantRev' \in Nat
       /\ authority.director \notin grants'
  BY <1>2 DEF IInv, TypeOK, MoreTypes, SurfacesAgree
<1> QED BY <1>1, <1>2, <1>3, <1>5, <1>7, <1>8, <1>9, <1>10, <1>11, <1>12, <1>13, <1>14, <1>17, <1>18, <1>19, <1>20, TurnWide

-----------------------------------------------------------------------------
(* The launch of a native thread.                                           *)

LEMMA LeastNat ==
    ASSUME NEW T \in SUBSET Nat, T # {}
    PROVE  \E t \in T : \A u \in T : t <= u
<1> DEFINE Below == {p \in Nat \X Nat : p[1] < p[2]}
<1>1. IsWellFoundedOn(Below, Nat)
  BY NatLessThanWellFounded, Zenon DEF OpToRel
<1>2. \A m, n \in Nat : m < n => <<m, n>> \in Below
  OBVIOUS
<1> HIDE DEF Below
<1>3. PICK t \in T : \A u \in T : ~(<<u, t>> \in Below)
  BY <1>1, WFMin
<1>4. \A u \in T : ~(u < t)
  BY <1>2, <1>3
<1> QED BY <1>4

LEMMA FreshIsUnused == ASSUME Unused # {} PROVE Fresh \in Unused
<1>1. Unused \in SUBSET Nat
  BY SizeAssumption DEF Unused, Sessions
<1>2. \E s \in Unused : \A t \in Unused : s <= t
  BY <1>1, LeastNat
<1> QED BY <1>2 DEF Fresh

\* The launch gives the action its first thread, which is not its caller.
LEMMA Launches ==
    ASSUME IInv, At("bootstrap"), Launched
    PROVE  /\ Working /\ call # NoCall /\ call \in Calls /\ Act \in Actions /\ A \in ActionRecords
           /\ R = asked[Act].req /\ A = actions[Act] /\ Act = call.act /\ asked[Act] # NoAsk
           /\ A.phase = "pending" /\ ~A.retry /\ A.native = None /\ NeedsName(A)
           /\ Fits(A, asked[Act], {Fresh}, receipts[Act])
           /\ Fresh \in Sessions /\ Fresh # None
           /\ launched' = [launched EXCEPT ![Act] = {Fresh}]
           /\ LifeOnward /\ life'[Fresh] # "absent"
<1>1. /\ Working /\ call # NoCall /\ call \in Calls /\ Act \in Actions /\ A \in ActionRecords
      /\ R = asked[Act].req /\ asked[Act] # NoAsk
      /\ Fits(A, asked[Act], launched[Act], receipts[Act]) /\ Follows(call, A, asked[Act], launched[Act])
      /\ call.pc = "bootstrap"
  BY Creating, SomePcs
<1>2. A.phase = "pending" /\ ~A.retry /\ launched[Act] = {} /\ A.native = None
  BY <1>1 DEF Follows, Fits, Blank
<1>3. Fresh \in Sessions /\ life[Fresh] = "absent" /\ Fresh # None
  BY FreshIsUnused, NoneAssumption DEF Unused, Launched
<1>4. asked[Act].caller # Fresh
  BY <1>1, <1>3 DEF IInv, SessionsExist
<1>5. Fits(A, asked[Act], {Fresh}, receipts[Act])
  BY <1>1, <1>2, <1>3, <1>4 DEF Fits, Blank, Made, MadePhases, Final
<1>6. launched' = [launched EXCEPT ![Act] = {Fresh}]
  BY <1>2 DEF Launched
<1>7. LifeOnward /\ life'[Fresh] # "absent"
  <2>1. life \in [Sessions -> LifeStates] /\ life' = [life EXCEPT ![Fresh] = "native"]
    BY DEF IInv, TypeOK, LifeStates, Launched
  <2> QED BY <1>3, <2>1 DEF LifeOnward, LifeStates
<1>8. NeedsName(A) /\ A = actions[Act] /\ Act = call.act
  BY <1>2 DEF NeedsName, A, Act
<1> QED BY <1>1, <1>2, <1>3, <1>5, <1>6, <1>7, <1>8

LEMMA LaunchStep ==
    ASSUME IInv, At("bootstrap"), Launched, NEW y \in ActionRecords, NEW c \in Calls \cup {NoCall},
           actions' = [actions EXCEPT ![Act] = y], call' = c,
           UNCHANGED <<store, seats, clients, admin>>, faults' \in Nat,
           Fits(y, asked[Act], {Fresh}, receipts[Act]), NeedsName(y) => NeedsName(A),
           y.phase \in {"pending", "owner_action_required"},
           c # NoCall => /\ c.act = Act /\ c.pc \in {"capture", "captureFailed"}
                         /\ Follows(c, y, asked[Act], {Fresh})
    PROVE  IInv'
<1>1. /\ Working /\ call # NoCall /\ call \in Calls /\ Act \in Actions /\ A \in ActionRecords
      /\ A = actions[Act] /\ A.phase = "pending" /\ Fresh \in Sessions
      /\ launched' = [launched EXCEPT ![Act] = {Fresh}]
      /\ LifeOnward /\ life'[Fresh] # "absent"
  BY Launches
<1>2. UNCHANGED <<authority, agents, grants, grantRev, seat, receipts, fence, asked, inbox, answered, admin>>
  BY DEF store, seats, clients
<1>3. Authorized'
  <2>1. CASE c = NoCall
    BY <2>1, Frame
  <2>2. CASE c # NoCall
    <3>1. Act' = Act /\ R' = R
      BY <1>2, <2>2 DEF Act, R
    <3>2. Allowed(Act)' <=> Allowed(Act)
      BY <1>2, <3>1, AllowedSame
    <3>3. AuthorityHolds' <=> AuthorityHolds
      BY <1>2, <3>1 DEF AuthorityHolds
    <3>4. call.pc = "bootstrap"
      BY DEF At
    <3> QED BY <1>1, <1>2, <2>2, <3>1, <3>2, <3>3, <3>4 DEF IInv, Authorized
  <2> QED BY <2>1, <2>2
<1>4. NamesFree'
  <2>1. \A b \in Actions : NeedsName(actions'[b]) => NeedsName(actions[b])
    BY <1>1 DEF IInv, TypeOK
  <2> QED BY <1>2, <2>1 DEF IInv, NamesFree, Active
<1>5. NoTwoAlike'
  BY <1>2, Frame
<1>6. /\ agents' \in [Sessions -> AgentRecords] /\ grants' \subseteq Sessions /\ grantRev' \in Nat
      /\ authority.director \notin grants' /\ answered' \subseteq Actions
  BY <1>2 DEF IInv, TypeOK, AgentRecords, SurfacesAgree
<1>7. A.phase \notin Resolved /\ {Fresh} \in SUBSET Sessions
  BY <1>1 DEF Resolved
<1> QED BY <1>1, <1>2, <1>3, <1>4, <1>5, <1>6, <1>7, TurnWide

\* The call that has a thread in hand.
Holding(c, k, p, n) == c \in Calls /\ c.pc = p /\ c.act = k.act /\ c.native = n
LEMMA InHand ==
    ASSUME NEW k \in Calls, NEW p \in Pcs, NEW n \in Sessions
    PROVE  Holding([k EXCEPT !.pc = p, !.native = n], k, p, n)
  BY DEF Calls, Holding

LEMMA LaunchedStep ==
    ASSUME IInv, At("bootstrap"), Launched, NEW p \in {"capture", "captureFailed"},
           call' = [call EXCEPT !.pc = p, !.native = Fresh], UNCHANGED actions,
           UNCHANGED <<store, seats, clients, admin>>, faults' \in Nat
    PROVE  IInv'
<1>1. /\ call \in Calls /\ Act \in Actions /\ A \in ActionRecords /\ Act = call.act
      /\ A = actions[Act] /\ A.phase = "pending" /\ ~A.retry /\ Fresh \in Sessions /\ Fresh # None
      /\ Fits(A, asked[Act], {Fresh}, receipts[Act]) /\ asked[Act] # NoAsk
  BY Launches
<1>2. actions' = [actions EXCEPT ![Act] = A]
  BY <1>1 DEF IInv, TypeOK
<1> DEFINE c == [call EXCEPT !.pc = p, !.native = Fresh]
<1>3. p \in Pcs
  BY SomePcs
<1>4. Holding(c, call, p, Fresh)
  BY <1>1, <1>3, InHand, Zenon
<1>5. call' = c
  OBVIOUS
<1> HIDE DEF c
<1>6. c \in Calls /\ c.pc = p /\ c.act = Act /\ c.native = Fresh
  BY <1>1, <1>4 DEF Holding
<1>7. Follows(c, A, asked[Act], {Fresh})
  BY <1>1, <1>6 DEF Follows, Reviews
<1> QED BY <1>1, <1>2, <1>5, <1>6, <1>7, LaunchStep

LEMMA BootstrapStep == ASSUME IInv, Bootstrap PROVE IInv'
<1>1. faults' \in Nat /\ UNCHANGED admin
  BY DEF Bootstrap, budget, IInv, MoreTypes
<1> QED BY <1>1, LaunchedStep DEF Bootstrap

LEMMA BootstrapFailsStep == ASSUME IInv, BootstrapFails PROVE IInv'
<1>0. At("bootstrap") /\ faults' \in Nat /\ UNCHANGED <<store, seats, clients, admin>>
      /\ faults > 0 /\ faults' = faults - 1
  BY DEF BootstrapFails, Fault, IInv, MoreTypes
<1>1. /\ Working /\ call # NoCall /\ call.pc = "bootstrap" /\ A \in ActionRecords
      /\ Follows(call, A, asked[Act], launched[Act]) /\ asked[Act] # NoAsk
      /\ Fits(A, asked[Act], launched[Act], receipts[Act])
  BY <1>0, Creating, SomePcs
<1>2. NeedsName(A)
  BY <1>1 DEF Follows, NeedsName
<1>3. CASE Launched /\ call' = [call EXCEPT !.pc = "captureFailed", !.native = Fresh] /\ UNCHANGED actions
  BY <1>0, <1>3, LaunchedStep
<1>4. ASSUME NEW why \in {"unknown", "ambiguous"}, OwnerAction(why), UNCHANGED world PROVE IInv'
  <2>1. Quiet /\ LifeOnward
    BY <1>0, <1>4, QuietStep, SameLife DEF world
  <2>2. why \in Whys
    BY DEF Whys
  <2> QED BY <1>1, <1>2, <1>4, <2>1, <2>2, EndOwner
<1>5. ASSUME NEW why \in {"unknown", "ambiguous"}, OwnerAction(why), Launched PROVE IInv'
  <2>1. /\ A.phase = "pending" /\ ~A.retry /\ A.native = None
        /\ Fits(A, asked[Act], {Fresh}, receipts[Act])
    BY <1>0, <1>5, Launches
  <2> DEFINE y == [A EXCEPT !.phase = "owner_action_required", !.resp = "owner", !.why = why]
  <2>2. actions' = [actions EXCEPT ![Act] = y] /\ call' = NoCall
    BY <1>5, <2>1 DEF OwnerAction, Record, OwnerRecord, Return
  <2>3. why \in Whys
    BY DEF Whys
  <2>4. Rephased(y, A, "owner_action_required", "owner", why)
    BY <1>1, <2>3, AnswerSet
  <2> HIDE DEF y
  <2>5. Fits(y, asked[Act], {Fresh}, receipts[Act])
    BY <1>1, <2>1, <2>4, FitsOwner
  <2>6. y \in ActionRecords /\ y.phase = "owner_action_required"
    BY <2>4 DEF Rephased
  <2> QED BY <1>0, <1>2, <1>5, <2>2, <2>5, <2>6, LaunchStep
<1>6. CASE Go("notLaunched") /\ UNCHANGED <<actions, world>>
  <2>1. Quiet /\ LifeOnward
    BY <1>0, <1>6, QuietStep, SameLife DEF world
  <2>2. ASSUME NEW c \in Calls, c.pc = "notLaunched" PROVE Follows(c, A, asked[Act], launched[Act])
    BY <1>1, <2>2 DEF Follows, Reviews
  <2>3. "notLaunched" \in Pcs \ Reviews
    BY SomePcs
  <2> QED BY <1>1, <1>6, <2>1, <2>2, <2>3, Walks
<1> QED BY <1>3, <1>4, <1>5, <1>6 DEF BootstrapFails

-----------------------------------------------------------------------------
(* complete_rotation.                                                       *)

\* A rotation on its way is the caller's own, under the authority it names;
\* nobody else can have the seat's receipt or the fence without being it.
LEMMA Transferring ==
    ASSUME IInv, NEW p \in {"transfer", "commit"}, At(p)
    PROVE  /\ Working /\ call # NoCall /\ call.pc = p /\ call \in Calls /\ Act \in Actions /\ Act = call.act
           /\ A \in ActionRecords /\ A = actions[Act] /\ A.phase = "transfer" /\ asked[Act] # NoAsk
           /\ A.succ \in Sessions /\ R.target \in Sessions /\ A.succ # R.target
           /\ R = asked[Act].req /\ R \in Requests /\ R.op = "rotate" /\ asked[Act] \in Asks
           /\ AuthorityHolds /\ authority.director = R.target /\ Allowed(Act)
           /\ asked[Act].caller = R.target
           /\ Fits(A, asked[Act], launched[Act], receipts[Act])
           /\ \A c \in Calls : c.pc \in {"transfer", "commit"} => Follows(c, A, asked[Act], launched[Act])
<1>1. /\ Working /\ call # NoCall /\ call.pc = p /\ call \in Calls /\ Act \in Actions
      /\ A \in ActionRecords /\ asked[Act] # NoAsk /\ R = asked[Act].req /\ R \in Requests
      /\ Fits(A, asked[Act], launched[Act], receipts[Act]) /\ Follows(call, A, asked[Act], launched[Act])
  BY Creating, SomePcs
<1>2. A.phase = "transfer" /\ R.op = "rotate" /\ A = actions[Act] /\ Act = call.act /\ asked[Act] \in Asks
  BY <1>1, CallFacts DEF Follows, Fits, A, Act
<1>3. A.succ \in Sessions /\ asked[Act].caller # A.succ
  BY <1>1, <1>2 DEF Fits, Made, MadePhases, ActionRecords
<1>4. R.target \in Sessions
  BY <1>1, <1>2, RequestFacts
<1>5. AuthorityHolds /\ asked[Act].caller = R.target /\ Allowed(Act)
  BY <1>1, <1>2 DEF IInv, Authorized
<1>6. authority.director = R.target
  BY <1>5 DEF AuthorityHolds
<1>7. ASSUME NEW c \in Calls, c.pc \in {"transfer", "commit"} PROVE Follows(c, A, asked[Act], launched[Act])
  BY <1>1, <1>2, <1>7 DEF Follows, Reviews
<1> QED BY <1>1, <1>2, <1>3, <1>4, <1>5, <1>6, <1>7

LEMMA TransferSeatStep == ASSUME IInv, TransferSeat PROVE IInv'
<1>0. UNCHANGED <<store, world, clients, budget>> /\ "commit" \in Pcs \ Reviews
  BY SomePcs DEF TransferSeat
<1>1. /\ Working /\ call # NoCall /\ call.pc = "transfer" /\ call \in Calls /\ Act \in Actions /\ Act = call.act
      /\ A \in ActionRecords /\ A = actions[Act] /\ A.phase = "transfer" /\ asked[Act] # NoAsk
      /\ A.succ \in Sessions /\ R = asked[Act].req /\ R.op = "rotate"
      /\ AuthorityHolds /\ authority.director = R.target /\ Allowed(Act) /\ asked[Act].caller = R.target
      /\ Fits(A, asked[Act], launched[Act], receipts[Act])
      /\ \A c \in Calls : c.pc = "commit" => Follows(c, A, asked[Act], launched[Act])
  BY Transferring DEF TransferSeat
<1>2. LifeOnward
  BY <1>0, SameLife DEF world
<1>3. CASE UNCHANGED seats /\ Refused
  <2>1. Quiet
    BY <1>0, <1>3, QuietStep DEF world, budget
  <2> QED BY <1>1, <1>2, <1>3, <2>1, EndRefused
<1>4. CASE UNCHANGED seats /\ receipts[Act] # None /\ Go("commit") /\ UNCHANGED actions
  <2>1. Quiet
    BY <1>0, <1>4, QuietStep DEF world, budget
  <2>2. fence = Act
    BY <1>1, <1>4 DEF IInv, FencedReceipts
  <2> QED BY <1>0, <1>1, <1>2, <1>4, <2>1, <2>2, Walks
<1>5. CASE /\ receipts[Act] = None /\ fence = None /\ seat.occupant = R.target
           /\ seat' = [occupant |-> A.succ, epoch |-> seat.epoch + 1]
           /\ receipts' = [receipts EXCEPT ![Act] = seat']
           /\ fence' = Act
           /\ Go("commit") /\ UNCHANGED actions
  <2>0. UNCHANGED <<authority, agents, grants, grantRev, actions, life, launched, asked, inbox, answered, faults,
                    admin>>
    BY <1>0, <1>5 DEF store, world, clients, budget
  <2>1. seat' \in Occupancy /\ seat'.occupant = A.succ /\ seat' # None
    BY <1>1, <1>5, NoneAssumption DEF IInv, TypeOK, Occupancy
  <2>2. /\ receipts' \in [Actions -> Occupancy \cup {None}] /\ receipts'[Act] = seat'
        /\ \A a \in Actions : a # Act => receipts'[a] = receipts[a]
    BY <1>1, <1>5, <2>1 DEF IInv, MoreTypes
  <2> DEFINE c == [call EXCEPT !.pc = "commit"]
  <2>3. c \in Calls /\ c.pc = "commit" /\ c.act = Act /\ call' = c
    BY <1>0, <1>1, <1>5, Moved DEF Go
  <2> HIDE DEF c
  <2>4. TypeOK'
    BY <1>1, <1>5, <2>0, <2>1 DEF IInv, TypeOK
  <2>5. MoreTypes'
    BY <2>0, <2>2, <2>3 DEF IInv, MoreTypes
  <2>6. Records'
    <3>1. Fits(A, asked[Act], launched[Act], seat')
      BY <1>1, <2>1 DEF Fits
    <3> SUFFICES ASSUME NEW a \in Actions PROVE Fits(actions[a], asked[a], launched[a], receipts'[a])
      BY <2>0 DEF Records
    <3> QED BY <1>1, <2>2, <3>1 DEF IInv, Records
  <2>7. CallFollows'
    BY <1>1, <2>0, <2>3 DEF CallFollows, Act
  <2>8. Act' = Act /\ R' = R /\ A' = A
    BY <2>0, <2>3 DEF Act, R, A
  <2>9. Authorized'
    <3>1. Allowed(Act)' <=> Allowed(Act)
      BY <2>0, <2>8, AllowedSame
    <3>2. AuthorityHolds' <=> AuthorityHolds
      BY <2>0, <2>8 DEF AuthorityHolds
    <3> QED BY <1>1, <1>5, <2>0, <2>1, <2>2, <2>3, <2>8, <3>1, <3>2 DEF Authorized
  <2>10. FencedReceipts'
    BY <1>5, <2>0, <2>2, NoneAssumption DEF IInv, FencedReceipts
  <2>11. SurfacesAgree'
    <3>1. FenceHoldsSeat'
      BY <1>1, <1>5, <2>0, <2>1, <2>2 DEF FenceHoldsSeat
    <3>2. Between(Act)'
      BY <1>1, <1>5, <2>0, <2>1, <2>8 DEF Between
    <3>3. Act' \in Actions
      BY <1>1, <2>8
    <3> QED BY <1>1, <2>0, <2>8, <3>1, <3>2, <3>3 DEF IInv, SurfacesAgree
  <2> QED BY <1>2, <2>0, <2>4, <2>5, <2>6, <2>7, <2>9, <2>10, <2>11, Frame DEF IInv
<1> QED BY <1>3, <1>4, <1>5 DEF TransferSeat

\* One write moves the authority, and the surfaces agree again.
LEMMA CommitRotationStep == ASSUME IInv, CommitRotation PROVE IInv'
<1>0. UNCHANGED <<agents, seat, receipts, fence, life, launched, asked, inbox, answered, faults, admin>>
  BY DEF CommitRotation, seats, world, clients, budget
<1>1. /\ Working /\ call # NoCall /\ call.pc = "commit" /\ call \in Calls /\ Act \in Actions /\ Act = call.act
      /\ A \in ActionRecords /\ A = actions[Act] /\ A.phase = "transfer" /\ asked[Act] # NoAsk
      /\ A.succ \in Sessions /\ R.target \in Sessions /\ A.succ # R.target
      /\ R = asked[Act].req /\ R.op = "rotate" /\ asked[Act] \in Asks
      /\ asked[Act].caller = R.target
      /\ Fits(A, asked[Act], launched[Act], receipts[Act])
  BY Transferring DEF CommitRotation
<1>2. LifeOnward
  BY <1>0, SameLife
<1>3. CASE Refused /\ UNCHANGED <<authority, grants, grantRev>>
  <2>1. Quiet
    BY <1>3, QuietStep DEF CommitRotation, store, world, budget
  <2> QED BY <1>1, <1>2, <1>3, <2>1, EndRefused
<1>4. CASE /\ A.succ \notin grants
           /\ authority' = [director |-> A.succ, epoch |-> asked[Act].epoch + 1]
           /\ LET gs == IF R.how = "retain" THEN grants \cup {R.target} ELSE grants \ {R.target}
              IN IF gs = grants THEN UNCHANGED <<grants, grantRev>> ELSE Regrant(gs)
           /\ Record([A EXCEPT !.phase = "complete", !.resp = "complete"])
           /\ Go("finish")
  <2> DEFINE y == [A EXCEPT !.phase = "complete", !.resp = "complete"]
  <2>1. actions' = [actions EXCEPT ![Act] = y]
    BY <1>4 DEF Record
  <2>2. Rephased(y, A, "complete", "complete", A.why)
    BY <1>1, AnswerSet
  <2> HIDE DEF y
  <2>3. /\ y \in ActionRecords /\ y.phase = "complete" /\ y.succ = A.succ /\ ~NeedsName(y) /\ y.phase \in Resolved
    BY <2>2 DEF Rephased, NeedsName, Resolved
  <2>4. Fits(y, asked[Act], launched[Act], receipts[Act])
    BY <1>1, <2>2 DEF Rephased, Fits, Blank, Made, MadePhases, Final
  <2>5. /\ actions' \in [Actions -> ActionRecords] /\ actions'[Act] = y
        /\ \A a \in Actions : a # Act => actions'[a] = actions[a]
    BY <1>1, <2>1, <2>3 DEF IInv, TypeOK, ActionRecords
  <2>6. /\ grants' \subseteq Sessions /\ grantRev' \in Nat /\ A.succ \notin grants'
    BY <1>1, <1>4 DEF Regrant, IInv, TypeOK
  <2>7. authority' \in [director : Sessions, epoch : Nat] /\ authority'.director = A.succ
    BY <1>1, <1>4 DEF Asks
  <2> DEFINE c == [call EXCEPT !.pc = "finish"]
  <2>8. "finish" \in Pcs /\ "finish" \in Reviews
    BY DEF Pcs, Reviews
  <2>9. c \in Calls /\ c.pc = "finish" /\ c.act = Act /\ call' = c
    BY <1>1, <1>4, <2>8, Moved DEF Go
  <2> HIDE DEF c
  <2>10. TypeOK'
    BY <1>0, <2>5, <2>6, <2>7 DEF IInv, TypeOK, ActionRecords
  <2>11. MoreTypes'
    BY <1>0, <2>9 DEF IInv, MoreTypes
  <2>12. Records'
    <3> SUFFICES ASSUME NEW a \in Actions PROVE Fits(actions'[a], asked[a], launched[a], receipts[a])
      BY <1>0 DEF Records
    <3> QED BY <2>4, <2>5 DEF IInv, Records
  <2>13. CallFollows'
    <3>1. Follows(c, y, asked[Act], launched[Act])
      BY <1>1, <2>3, <2>9 DEF Follows, Reviews
    <3> QED BY <1>0, <2>5, <2>9, <3>1 DEF CallFollows, Act
  <2>14. Authorized'
    <3>1. Act' = Act /\ A' = y
      BY <2>5, <2>9 DEF Act, A
    <3>2. ~Working' /\ call'.pc # "commit"
      BY <2>8, <2>9 DEF Working
    <3> QED BY <2>3, <2>7, <3>1, <3>2 DEF Authorized
  <2>15. SessionsExist' /\ NoTwoAlike'
    BY <1>0, <1>2, Frame
  <2>16. NamesApart'
    <3>1. \A a \in Actions : actions'[a].phase \notin Resolved => actions[a].phase \notin Resolved
      BY <2>3, <2>5
    <3> QED BY <1>0, <3>1 DEF IInv, NamesApart
  <2>17. NamesFree'
    <3>1. \A a \in Actions : NeedsName(actions'[a]) => NeedsName(actions[a])
      BY <2>3, <2>5
    <3> QED BY <1>0, <3>1 DEF IInv, NamesFree, Active
  <2>18. FencedReceipts'
    BY <1>0, <2>3, <2>5 DEF IInv, FencedReceipts
  <2>19. SurfacesAgree'
    <3>1. fence = Act
      BY <1>1 DEF IInv, Authorized
    <3>2. fence # None /\ seat = receipts[Act] /\ seat.occupant = A.succ
      BY <1>1, <3>1, NoneAssumption DEF IInv, SurfacesAgree, FenceHoldsSeat
    <3>3. FenceHoldsSeat'
      BY <1>0, <2>3, <2>5, <3>1, <3>2 DEF FenceHoldsSeat
    <3> QED BY <1>0, <2>6, <2>7, <3>2, <3>3 DEF SurfacesAgree
  <2> QED BY <2>10, <2>11, <2>12, <2>13, <2>14, <2>15, <2>16, <2>17, <2>18, <2>19 DEF IInv
<1> QED BY <1>3, <1>4 DEF CommitRotation

-----------------------------------------------------------------------------
(* The invariant, and what it shows.                                        *)

LEMMA InitIInv == Init => IInv
<1> SUFFICES ASSUME Init PROVE IInv
  OBVIOUS
<1>0. 0 \in Sessions /\ MaxFaults \in Nat /\ MaxAdmin \in Nat
  BY SizeAssumption DEF Sessions
<1>1. TypeOK
  <2>1. NoAction \in ActionRecords
    BY DEF NoAction, ActionRecords, Phases, Resolved, Whys
  <2>2. actions \in [Actions -> ActionRecords]
    BY <2>1 DEF Init
  <2>3. agents \in [Sessions -> AgentRecords]
    BY DEF Init, NoAgent, AgentRecords
  <2>4. life \in [Sessions -> LifeStates]
    BY DEF Init, LifeStates
  <2>5. launched \in [Actions -> SUBSET Sessions]
    BY DEF Init
  <2>6. authority \in [director : Sessions, epoch : Nat] /\ seat \in Occupancy
    BY <1>0 DEF Init, Occupancy
  <2> QED BY <2>2, <2>3, <2>4, <2>5, <2>6 DEF Init, TypeOK, ActionRecords, AgentRecords, LifeStates
<1>2. MoreTypes
  BY <1>0 DEF Init, MoreTypes
<1>3. Records
  <2>1. Fits(NoAction, NoAsk, {}, None)
    BY DEF Fits, NoAction, NoAsk, Blank, Made, MadePhases, Final
  <2> QED BY <2>1 DEF Records, Init
<1>4. CallFollows /\ Authorized
  BY NoCallFacts DEF Init, CallFollows, Authorized, Working
<1>5. SessionsExist
  BY DEF Init, SessionsExist
<1>6. NamesApart /\ NamesFree /\ FencedReceipts
  BY DEF Init, NamesApart, NamesFree, FencedReceipts, NoAction, NeedsName, Resolved
<1>7. NoTwoAlike
  BY DEF Init, NoTwoAlike, Active, NoAgent
<1>8. SurfacesAgree
  BY DEF Init, SurfacesAgree, FenceHoldsSeat
<1> QED BY <1>1, <1>2, <1>3, <1>4, <1>5, <1>6, <1>7, <1>8 DEF IInv

LEMMA CallStepIInv == ASSUME IInv, CallStep PROVE IInv'
<1>1. CASE Check \/ Query \/ Grant \/ Revoke \/ Runtime \/ Ran
  BY <1>1, CheckStep, QueryStep, GrantStep, RevokeStep, RuntimeStep, RanStep
<1>2. CASE ClosingIntent \/ CloseOffline \/ CloseRetire \/ CloseMark \/ Closed \/ Complete
  BY <1>2, ClosingIntentStep, CloseOfflineStep, CloseRetireStep, CloseMarkStep, ClosedStep, CompleteStep
<1>3. CASE PrepareCwd \/ BootstrapIntent \/ Bootstrap \/ NotLaunched \/ Capture
  BY <1>3, PrepareCwdStep, BootstrapIntentStep, BootstrapStep, NotLaunchedStep, CaptureStep
<1>4. CASE Adopt \/ CaptureAdopted \/ Configure \/ BringOnline \/ Onlined \/ AlreadyReady
  BY <1>4, AdoptStep, CaptureAdoptedStep, ConfigureStep, BringOnlineStep, OnlinedStep, AlreadyReadyStep
<1>5. CASE Observe \/ Handoff \/ Created \/ Recover
  BY <1>5, ObserveStep, HandoffStep, CreatedStep, RecoverStep
<1>6. CASE TransferSeat \/ CommitRotation \/ Reconcile \/ FinishFence \/ Verify
  BY <1>6, TransferSeatStep, CommitRotationStep, ReconcileStep, FinishFenceStep, VerifyStep
<1> QED BY <1>1, <1>2, <1>3, <1>4, <1>5, <1>6 DEF CallStep

LEMMA StutterIInv == ASSUME IInv, UNCHANGED vars PROVE IInv'
<1>1. LifeOnward /\ faults' \in Nat
  BY SameLife DEF vars, IInv, MoreTypes
<1> QED BY <1>1, Elsewhere DEF vars

LEMMA NextIInv == IInv /\ [Next]_vars => IInv'
<1> SUFFICES ASSUME IInv, [Next]_vars PROVE IInv'
  OBVIOUS
<1>1. CASE \E a \in Actions : AskAgain(a) \/ Begin(a)
  BY <1>1, AskAgainStep, BeginStep
<1>2. CASE \E a \in Actions, s \in Sessions, r \in Requests : Ask(s, a, r)
  BY <1>2, AskStep
<1>3. CASE CallStep \/ BootstrapFails \/ Crash \/ LifecycleFails
  BY <1>3, CallStepIInv, BootstrapFailsStep, CrashStep, LifecycleFailsStep
<1>4. CASE \E s \in Sessions : RuntimeDies(s) \/ OwnerOnline(s) \/ BindSeat(s)
                                 \/ BindAuthority(s) \/ HumanOperator(s)
  BY <1>4, RuntimeDiesStep, OwnerOnlineStep, BindSeatStep, BindAuthorityStep, HumanOperatorStep
<1>5. CASE UNCHANGED vars
  BY <1>5, StutterIInv
<1> QED BY <1>1, <1>2, <1>3, <1>4, <1>5 DEF Next

(* The inductive invariant holds in every reachable state: records, threads, *)
(* seat receipts, the running call and the reservations fit each other.      *)
THEOREM Invariant == Spec => []IInv
  BY InitIInv, NextIInv, PTL DEF Spec

(* No two active agents ever share a name and a cwd, although the collision  *)
(* is checked long before the new agent is registered, with crashes, other   *)
(* creations and closes in between: reject_active_collision_except and       *)
(* operation_reservation together are enough.                                *)
THEOREM NamesStayApart == Spec => []NoTwoAlike
<1>1. IInv => NoTwoAlike
  BY DEF IInv
<1> QED BY <1>1, Invariant, PTL

(* An action that terminalize_pre_effect_no_write answered has launched no   *)
(* native thread and has moved no seat.                                      *)
THEOREM NoWriteClean == Spec => []NoWriteIsClean
<1>1. IInv => NoWriteIsClean
  BY DEF IInv, Records, Fits, NoWriteIsClean
<1> QED BY <1>1, Invariant, PTL

(* Seat and project authority name the same Director except between the two *)
(* writes of a fenced rotation, or after an administrative bind; the fence   *)
(* holds the seat for its successor; the Director is never an Operator.      *)
THEOREM SurfacesAlike == Spec => []SurfacesAgree
<1>1. IInv => SurfacesAgree
  BY DEF IInv
<1> QED BY <1>1, Invariant, PTL

(* However often a bootstrap fails, is proven not to have run, is reopened   *)
(* or crashes, an action never starts a second native thread.                *)
THEOREM OneNative == Spec => []OneNativePerAction
<1>1. IInv => OneNativePerAction
  <2> SUFFICES ASSUME IInv, NEW a \in Actions PROVE Cardinality(launched[a]) <= 1
    BY DEF OneNativePerAction
  <2>1. launched[a] = {} \/ \E n \in Sessions : launched[a] = {n}
    BY DEF IInv, Records, Fits
  <2>2. CASE launched[a] = {}
    BY <2>2, FS_EmptySet
  <2>3. ASSUME NEW n \in Sessions, launched[a] = {n} PROVE Cardinality(launched[a]) <= 1
    <3>1. Cardinality({n}) = 1
      BY FS_Singleton
    <3> QED BY <2>3, <3>1
  <2> QED BY <2>1, <2>2, <2>3
<1> QED BY <1>1, Invariant, PTL

\* Who may add to the answered rotations.
LEMMA AnsweredBy ==
    ASSUME [Next]_vars, answered' # answered
    PROVE  Verify
<1>1. Next
  BY DEF vars
<1>2. CASE CallStep
  BY <1>2 DEF CallStep, Check, Query, Grant, Revoke, Runtime, Ran, ClosingIntent, CloseOffline,
     CloseRetire, CloseMark, Closed, Complete, PrepareCwd, BootstrapIntent, Bootstrap, NotLaunched, Capture,
     Adopt, CaptureAdopted, Configure, BringOnline, Onlined, AlreadyReady, Observe, Handoff, Created,
     Recover, TransferSeat, CommitRotation, Reconcile, FinishFence, clients
<1>3. CASE \E a \in Actions : AskAgain(a) \/ Begin(a)
  BY <1>3 DEF AskAgain, Send, Begin, BeginRefused, BeginReplay, BeginResume, BeginReopen, BeginNew
<1>4. CASE \E a \in Actions, s \in Sessions, r \in Requests : Ask(s, a, r)
  BY <1>4 DEF Ask, Send
<1>5. CASE BootstrapFails \/ Crash \/ LifecycleFails
  BY <1>5 DEF BootstrapFails, Crash, LifecycleFails, clients
<1>6. CASE \E s \in Sessions : RuntimeDies(s) \/ OwnerOnline(s) \/ BindSeat(s)
                                 \/ BindAuthority(s) \/ HumanOperator(s)
  BY <1>6 DEF RuntimeDies, OwnerOnline, BindSeat, BindAuthority, HumanOperator, clients
<1> QED BY <1>1, <1>2, <1>3, <1>4, <1>5, <1>6 DEF Next

(* A rotation is answered "complete" only at a moment when both the seat and *)
(* the project authority name its successor, also when the answer is a       *)
(* replay long after the fact (verify_director_transfer).                    *)
THEOREM AnsweredAgree == Spec => AnsweredInAgreement
<1>1. ASSUME IInv, [Next]_vars PROVE [\A a \in answered' \ answered : Agreed(a)]_vars
  <2>1. CASE answered' = answered
    BY <2>1
  <2>2. CASE answered' # answered
    <3>1. Verify
      BY <1>1, <2>2, AnsweredBy
    <3>2. /\ call.pc = "verify" /\ SeatVerified /\ answered' = answered \cup {Act} /\ A = actions[Act]
      BY <2>2, <3>1 DEF Verify, At, A
    <3>3. authority.director = A.succ /\ seat.occupant = A.succ
      BY <1>1, <3>2 DEF IInv, Authorized, SeatVerified
    <3> QED BY <3>2, <3>3 DEF Agreed
  <2> QED BY <2>1, <2>2
<1> QED BY <1>1, Invariant, PTL DEF Spec, AnsweredInAgreement

\* Only the steps of a working call, and those that leave the call alone,
\* change lives or the seat.
LEMMA EffectsWork ==
    ASSUME [Next]_vars, Effect
    PROVE  Working
<1>0. /\ call' # call /\ <<life, seat>>' # <<life, seat>> /\ Next
  BY DEF Effect, vars
<1>1. ASSUME NEW p, At(p), p \in Pcs \ Reviews PROVE Working
  BY <1>1, NoCallFacts, AtWorking
<1>2. CASE \E a \in Actions : AskAgain(a) \/ Begin(a)
  BY <1>0, <1>2 DEF AskAgain, Send, Begin, BeginRefused, BeginReplay, BeginResume, BeginReopen, BeginNew,
     world, seats
<1>3. CASE \E a \in Actions, s \in Sessions, r \in Requests : Ask(s, a, r)
  BY <1>0, <1>3 DEF Ask, Send
<1>4. CASE Crash \/ LifecycleFails \/ Reconcile \/ FinishFence \/ Verify
  BY <1>0, <1>4 DEF Crash, LifecycleFails, Reconcile, FinishFence, Verify, world, seats
<1>5. CASE \E s \in Sessions : RuntimeDies(s) \/ OwnerOnline(s) \/ BindSeat(s)
                                 \/ BindAuthority(s) \/ HumanOperator(s)
  BY <1>0, <1>5 DEF RuntimeDies, OwnerOnline, BindSeat, BindAuthority, HumanOperator
<1>6. CASE Check \/ Query \/ Grant \/ Revoke \/ Runtime \/ Ran
  BY <1>1, <1>6, SomePcs DEF Check, Query, Grant, Revoke, Runtime, Ran
<1>7. CASE ClosingIntent \/ CloseOffline \/ CloseRetire \/ CloseMark \/ Closed \/ Complete
  BY <1>1, <1>7, SomePcs DEF ClosingIntent, CloseOffline, CloseRetire, CloseMark, Closed, Complete
<1>8. CASE PrepareCwd \/ BootstrapIntent \/ Bootstrap \/ NotLaunched \/ Capture \/ BootstrapFails
  BY <1>1, <1>8, SomePcs DEF PrepareCwd, BootstrapIntent, Bootstrap, NotLaunched, Capture, BootstrapFails, InPhase
<1>9. CASE Adopt \/ CaptureAdopted \/ Configure \/ BringOnline \/ Onlined \/ AlreadyReady
  BY <1>1, <1>9, SomePcs DEF Adopt, CaptureAdopted, Configure, BringOnline, Onlined, AlreadyReady, InPhase
<1>10. CASE Observe \/ Handoff \/ Created \/ Recover \/ TransferSeat \/ CommitRotation
  BY <1>1, <1>10, SomePcs DEF Observe, Handoff, Created, Recover, TransferSeat, CommitRotation
<1> QED BY <1>0, <1>2, <1>3, <1>4, <1>5, <1>6, <1>7, <1>8, <1>9, <1>10 DEF Next, CallStep

(* Whatever a call does to sessions, runtimes or the seat, its caller has   *)
(* the authority for it at that moment, not only when the call began: no     *)
(* step of another actor can take the authority away while execute holds     *)
(* its locks, and no step of the call itself does before its last effect.    *)
THEOREM EffectsAuthorized == Spec => EffectsAreAuthorized
<1>1. ASSUME IInv, [Next]_vars PROVE [Effect => Allowed(call.act)]_vars
  BY <1>1, EffectsWork DEF IInv, Authorized, Act
<1> QED BY <1>1, Invariant, PTL DEF Spec, EffectsAreAuthorized

=============================================================================
