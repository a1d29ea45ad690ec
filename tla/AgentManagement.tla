--------------------------- MODULE AgentManagement ---------------------------
(***************************************************************************)
(* The Agent Management provider (src/src/agent_management/provider.rs)    *)
(* for one project, with the two other stores it works on: the seat store  *)
(* of the Task Service (src/src/seat/mod.rs) and the durable sessions with *)
(* their runtimes (the AgentLifecycle of src/src/cli_app).                 *)
(*                                                                         *)
(* One call runs at a time: execute holds the provider's execution lock    *)
(* and the cross-process mutation lock from the first read to the answer.  *)
(* Within a call every external effect and every durable phase is a step   *)
(* of its own, so that the process may die between any two of them; the    *)
(* caller then sends the exact request again.  Administrative seat binds   *)
(* take only the seat store's lock and interleave with a running call.     *)
(*                                                                         *)
(* An action id names one immutable request of one caller.  A native       *)
(* thread and the durable session that adopts it have the same name.       *)
(***************************************************************************)
EXTENDS Naturals, FiniteSets

CONSTANTS
    Actions,        \* AgentActionId
    Requests,       \* the requests callers make
    MaxSession,     \* sessions are 0 .. MaxSession; 0 is the first Director
    DirectorSpec,   \* the specification (name and cwd) of session 0
    MaxFaults,      \* bound: crashes and lifecycle failures
    MaxAdmin,       \* bound: administrative steps
    None

Sessions == 0 .. MaxSession
Specs == {r.spec : r \in Requests}
Request ==
    [op : {"create", "query"}, target : {None}, how : {"none"}, spec : Specs, msg : BOOLEAN]
    \cup [op : {"online", "offline", "restart", "close", "grant", "revoke"}, target : Sessions,
          how : {"none"}, spec : Specs, msg : BOOLEAN]
    \cup [op : {"replace"}, target : Sessions, how : {"close_before", "close_after", "keep"},
          spec : Specs, msg : BOOLEAN]
    \cup [op : {"rotate"}, target : Sessions, how : {"close", "retain"}, spec : Specs, msg : BOOLEAN]
Occupancy == [occupant : Sessions, epoch : Nat]

ASSUME RequestsAssumption == Requests \subseteq Request
ASSUME SizeAssumption == MaxSession \in Nat /\ MaxFaults \in Nat /\ MaxAdmin \in Nat
ASSUME NoneAssumption == None \notin Actions \cup Sessions \cup Occupancy

VARIABLES
    authority,  \* the ProjectAuthority: director and epoch
    agents,     \* ManagedAgentRecord per session: owned, and its specification
    grants,     \* operator_grants
    grantRev,   \* operator_grant_revisions
    actions,    \* AgentActionRecord per action id
    seat,       \* occupancy of cutex-director: occupant and epoch
    receipts,   \* seat store receipts of the transfers: the occupancy written
    fence,      \* active_director_transfer
    life,       \* per session: its durable record and its runtime
    launched,   \* per action, the native threads its bootstraps started
    asked,      \* per action, who asked for what, having read which revisions
    inbox,      \* authenticated requests waiting for the lock
    call,       \* the call that holds the locks
    answered,   \* rotations whose complete receipt has been returned
    faults, admin

store == <<authority, agents, grants, grantRev>>
seats == <<seat, receipts, fence>>
world == <<life, launched>>
clients == <<asked, inbox, answered>>
budget == <<faults, admin>>
vars == <<authority, agents, grants, grantRev, actions, seat, receipts, fence,
          life, launched, asked, inbox, call, answered, faults, admin>>

NoAction == [phase |-> "absent", native |-> None, succ |-> None, retry |-> FALSE,
             why |-> "none", resp |-> "none"]
NoAsk == [caller |-> None, req |-> None, epoch |-> 0, grantRev |-> 0]
NoCall == [act |-> None, role |-> "none", pc |-> "idle", native |-> None]
NoAgent == [own |-> "none", spec |-> None]

Init ==
    /\ authority = [director |-> 0, epoch |-> 1]
    /\ agents = [s \in Sessions |-> IF s = 0 THEN [own |-> "active", spec |-> DirectorSpec]
                                             ELSE NoAgent]
    /\ grants = {} /\ grantRev = 0
    /\ actions = [a \in Actions |-> NoAction]
    /\ seat = [occupant |-> 0, epoch |-> 1]
    /\ receipts = [a \in Actions |-> None]
    /\ fence = None
    /\ life = [s \in Sessions |-> IF s = 0 THEN "online" ELSE "absent"]
    /\ launched = [a \in Actions |-> {}]
    /\ asked = [a \in Actions |-> NoAsk]
    /\ inbox = {} /\ call = NoCall /\ answered = {}
    /\ faults = MaxFaults /\ admin = MaxAdmin

Active(s) == agents[s].own = "active"

\* The running call: its action record, its request, its predecessor or target.
Act == call.act
A == actions[Act]
R == asked[Act].req
At(pc) == call.pc = pc
Go(pc) == call' = [call EXCEPT !.pc = pc]
Return == call' = NoCall
Record(a) == actions' = [actions EXCEPT ![Act] = a]
SetPhase(p) == Record([A EXCEPT !.phase = p])

-----------------------------------------------------------------------------
(* Requests arrive.  The bus authenticates the caller as an active durable  *)
(* session whose current runtime sent the request.                          *)

Send(a) == inbox' = inbox \cup {a} /\ UNCHANGED <<store, actions, seats, world, call, answered, budget>>

\* A caller asks for something new, with the revisions it has just read.
Ask(s, a, r) ==
    /\ asked[a] = NoAsk
    /\ life[s] = "online"
    /\ asked' = [asked EXCEPT ![a] = [caller |-> s, req |-> r, epoch |-> authority.epoch,
                                      grantRev |-> grantRev]]
    /\ Send(a)

\* It sends the exact request again, not knowing what became of it.
AskAgain(a) ==
    /\ asked[a] # NoAsk /\ a \notin inbox
    /\ life[asked[a].caller] = "online"
    /\ UNCHANGED asked
    /\ Send(a)

\* project_management_role
Role(s) ==
    IF authority.director = s THEN "primary"
    ELSE IF s \in grants /\ Active(s) THEN "operator" ELSE "none"

\* authorize_operation
Targets == {"online", "offline", "restart", "close", "replace"}
Disables == Targets \ {"online"}
Allowed(a) ==
    LET r == asked[a].req
        role == Role(asked[a].caller)
    IN \/ role = "primary"
       \/ /\ role = "operator"
          /\ r.op \notin {"rotate", "grant", "revoke"}
          /\ r.op \in Targets => r.target # authority.director
          /\ r.op \in Disables => r.target \notin grants

\* operation_reservation: unresolved actions keep their name and cwd.
Creates == {"create", "replace", "rotate"}
Resolved == {"absent", "complete", "no_write"}
\* Mutant of Reserved: an action waiting for its owner gives its name back.
ReservedWhileRunning(spec) ==
    \E b \in Actions : /\ actions[b].phase \notin Resolved \cup {"owner_action_required"}
                       /\ asked[b].req.op \in Creates /\ asked[b].req.spec = spec
Reserved(spec) ==
    \E b \in Actions : /\ actions[b].phase \notin Resolved
                       /\ asked[b].req.op \in Creates /\ asked[b].req.spec = spec

\* The historical receipts of a create that evidence may reopen.
Reopenable(a) ==
    /\ actions[a].phase = "owner_action_required" /\ asked[a].req.op = "create"
    /\ actions[a].why \in {"unknown", "ambiguous"}

Known(a) == actions[a].phase # "absent"
Settled(a) == actions[a].resp # "none" /\ ~Reopenable(a)

Start(a, pc) == call' = [act |-> a, role |-> Role(asked[a].caller), pc |-> pc, native |-> None]
Taken(a) == call = NoCall /\ a \in inbox /\ inbox' = inbox \ {a}

\* The caller has no authority any more, or never had it.
BeginRefused(a) ==
    /\ Taken(a) /\ ~Settled(a) /\ ~Allowed(a)
    /\ UNCHANGED <<store, actions, seats, world, asked, call, answered, budget>>

\* An answered action replays its response; a completed rotation is
\* reconciled with both authority surfaces first.
BeginReplay(a) ==
    /\ Taken(a) /\ Settled(a)
    /\ IF asked[a].req.op = "rotate" /\ actions[a].resp = "complete"
       THEN Start(a, "reconcile") ELSE UNCHANGED call
    /\ UNCHANGED <<store, actions, seats, world, asked, answered, budget>>

\* Mutant of BeginResume: an exact replay needs no authority.
ResumeUnchecked(a) ==
    /\ Taken(a) /\ Known(a) /\ actions[a].resp = "none"
    /\ Start(a, "check")
    /\ UNCHANGED <<store, actions, seats, world, asked, answered, budget>>
BeginResume(a) ==
    /\ Taken(a) /\ Known(a) /\ actions[a].resp = "none" /\ Allowed(a)
    /\ Start(a, "check")
    /\ UNCHANGED <<store, actions, seats, world, asked, answered, budget>>

\* reconcile_pre_sid_bootstrap and reconcile_ambiguous_native_bootstrap: the
\* proof is about what really happened, and may be unavailable.
BeginReopen(a) ==
    /\ Taken(a) /\ Reopenable(a) /\ Allowed(a)
    /\ LET old == [actions[a] EXCEPT !.resp = "none", !.why = "none"] IN
       \/ UNCHANGED <<actions, call>>
       \/ /\ actions[a].why = "unknown"
          /\ launched[a] = {}
          /\ actions' = [actions EXCEPT ![a] = [old EXCEPT !.phase = "pending", !.retry = TRUE]]
          /\ Start(a, "check")
       \/ /\ actions[a].why = "ambiguous"
          /\ \E n \in launched[a] :
               actions' = [actions EXCEPT ![a] = [old EXCEPT !.phase = "captured", !.native = n]]
          /\ Start(a, "check")
    /\ UNCHANGED <<store, seats, world, asked, answered, budget>>

\* begin_action for a fresh id; refusals write nothing.
Startable(a) ==
    LET r == asked[a].req IN
    /\ (r.op = "rotate" /\ r.target = asked[a].caller /\ asked[a].epoch = authority.epoch)
         => Active(r.target)
    /\ r.op \in Creates => ~Reserved(r.spec)
BeginNew(a) ==
    /\ Taken(a) /\ ~Known(a) /\ Allowed(a)
    /\ IF Startable(a)
       THEN /\ actions' = [actions EXCEPT ![a].phase = "prepared"]
            /\ Start(a, "check")
       ELSE UNCHANGED <<actions, call>>
    /\ UNCHANGED <<store, seats, world, asked, answered, budget>>

-----------------------------------------------------------------------------
(* How a call ends. *)

\* terminalize_pre_effect_no_write: a deterministic refusal is final only
\* before the first effect.
\* Mutant of Refused: it is final at any time.
RefusedAlways == Record([A EXCEPT !.phase = "no_write", !.resp = "no_write"]) /\ Return
Refused == /\ Record(IF A.phase = "prepared" /\ A.native = None /\ A.succ = None
                     THEN [A EXCEPT !.phase = "no_write", !.resp = "no_write"] ELSE A)
           /\ Return

\* owner_action_required: final, unless the action can be continued from a
\* known native thread or a bootstrap proven not to have run.
OwnerRecord(a, why) ==
    IF a.native # None \/ a.retry THEN a
    ELSE [a EXCEPT !.phase = "owner_action_required", !.resp = "owner", !.why = why]
OwnerAction(why) == Record(OwnerRecord(A, why)) /\ Return

Completed == Record([A EXCEPT !.phase = "complete", !.resp = "complete"]) /\ Return

-----------------------------------------------------------------------------
(* execute_started: the checks before the first effect of this call.        *)

SimpleOps == {"query", "grant", "revoke", "online", "offline", "restart", "close"}
CloseFirst == R.how \in {"close_before", "close"}
CloseLast == R.how = "close_after"

\* reject_active_collision_except
Collides(spec, except) ==
    \E s \in Sessions \ {except} : Active(s) /\ agents[s].spec = spec

\* preflight_director_transfer
Preflight ==
    IF receipts[Act] # None
    THEN A.succ # None /\ receipts[Act].occupant = A.succ /\ seat = receipts[Act]
    ELSE seat.occupant = R.target
\* require_authority
AuthorityHolds == authority = [director |-> R.target, epoch |-> asked[Act].epoch]

RotationCurrent == asked[Act].caller = R.target /\ AuthorityHolds /\ Preflight
Stale == R.op = "rotate" /\ ~RotationCurrent
Clash == Collides(R.spec, IF CloseFirst THEN R.target ELSE None)

Resume ==
    IF R.op \in SimpleOps \cup {"create"} THEN R.op
    ELSE IF CloseFirst /\ A.phase \in {"prepared", "closing"} THEN "closing"
    ELSE IF CloseLast /\ A.phase \in {"closing", "closed"} THEN "recover"
    ELSE IF A.phase = "transfer" THEN "recover"
    ELSE "create"

Check ==
    /\ At("check")
    /\ LET first == R.op \in {"replace", "rotate"} /\ A.phase = "prepared" IN
       \/ Stale /\ Refused
       \/ ~Stale /\ first /\ ~Active(R.target) /\ OwnerAction("ownership")
       \/ ~Stale /\ first /\ Active(R.target) /\ Clash /\ Refused
       \/ ~Stale /\ (first => Active(R.target) /\ ~Clash) /\ Go(Resume) /\ UNCHANGED actions
    /\ UNCHANGED <<store, seats, world, clients, budget>>

-----------------------------------------------------------------------------
(* Operations with one effect. *)

Query ==
    /\ At("query") /\ Completed
    /\ UNCHANGED <<store, seats, world, clients, budget>>

\* complete_operator_grant and complete_operator_revoke
Regrant(gs) == grants' = gs /\ grantRev' = grantRev + 1
Grant ==
    /\ At("grant")
    /\ IF /\ R.target # authority.director /\ Active(R.target)
          /\ asked[Act].grantRev = grantRev /\ R.target \notin grants
       THEN Regrant(grants \cup {R.target}) /\ Completed
       ELSE Refused /\ UNCHANGED <<grants, grantRev>>
    /\ UNCHANGED <<authority, agents, seats, world, clients, budget>>
Revoke ==
    /\ At("revoke")
    /\ IF asked[Act].grantRev = grantRev /\ R.target \in grants
       THEN Regrant(grants \ {R.target}) /\ Completed
       ELSE Refused /\ UNCHANGED <<grants, grantRev>>
    /\ UNCHANGED <<authority, agents, seats, world, clients, budget>>

\* online_existing, offline_existing, restart.  A retired session has no
\* runtime to stop and none can be started for it.
SetLife(s, l) == life' = [life EXCEPT ![s] = l] /\ UNCHANGED launched
Stopped(s) == IF life[s] = "retired" THEN "retired" ELSE "offline"
Runtime ==
    /\ At("online") \/ At("offline") \/ At("restart")
    /\ \/ /\ Active(R.target) /\ At("offline")
          /\ SetLife(R.target, Stopped(R.target)) /\ Go("ran") /\ UNCHANGED actions
       \/ /\ Active(R.target) /\ At("restart") /\ life[R.target] # "retired"
          /\ SetLife(R.target, "offline") /\ Go("online") /\ UNCHANGED actions
       \/ /\ Active(R.target) /\ At("online") /\ life[R.target] # "retired"
          /\ SetLife(R.target, "online") /\ Go("ran") /\ UNCHANGED actions
       \/ /\ ~Active(R.target) \/ (~At("offline") /\ life[R.target] = "retired")
          /\ OwnerAction("runtime") /\ UNCHANGED world
    /\ UNCHANGED <<store, seats, clients, budget>>

\* The observation after the effect must show what was asked for.
Ran ==
    /\ At("ran")
    /\ IF (life[R.target] = "online") <=> (R.op # "offline") THEN Completed
       ELSE OwnerAction("runtime")
    /\ UNCHANGED <<store, seats, world, clients, budget>>

-----------------------------------------------------------------------------
(* Closing an agent: offline, retire, and the ownership record follows.     *)
(* close_existing for Close; close_or_reconcile_expected_predecessor for    *)
(* Replace and Rotate, behind a durable intent.                             *)

Predecessor == R.op \in {"replace", "rotate"}

ClosingIntent ==
    /\ At("closing")
    /\ IF A.phase = "closing" THEN UNCHANGED actions ELSE SetPhase("closing")
    /\ Go("close")
    /\ UNCHANGED <<store, seats, world, clients, budget>>

CloseOffline ==
    /\ At("close")
    /\ UNCHANGED <<store, seats, clients, budget>>
    /\ \/ /\ Active(R.target) /\ life[R.target] # "retired"
          /\ SetLife(R.target, "offline") /\ Go("retire") /\ UNCHANGED actions
       \/ /\ Active(R.target) /\ life[R.target] = "retired"
          /\ Go("mark") /\ UNCHANGED <<actions, world>>
       \/ /\ ~Active(R.target) /\ Predecessor /\ life[R.target] = "retired"
          /\ Go("closed") /\ UNCHANGED <<actions, world>>
       \/ /\ ~Active(R.target) /\ (Predecessor => life[R.target] # "retired")
          /\ OwnerAction("close") /\ UNCHANGED world

CloseRetire ==
    /\ At("retire")
    /\ SetLife(R.target, "retired") /\ Go("mark")
    /\ UNCHANGED <<store, actions, seats, clients, budget>>

\* mark_expected_predecessor_retired: a Primary Director's close also takes
\* the Operator grant away.
CloseMark ==
    /\ At("mark")
    /\ agents' = [agents EXCEPT ![R.target].own = "retired"]
    /\ IF call.role = "primary" /\ R.target \in grants
       THEN Regrant(grants \ {R.target}) ELSE UNCHANGED <<grants, grantRev>>
    /\ Go("closed")
    /\ UNCHANGED <<authority, actions, seats, world, clients, budget>>

Closed ==
    /\ At("closed")
    /\ \/ Predecessor /\ SetPhase("closed") /\ Go(IF CloseLast THEN "complete" ELSE "create")
       \/ ~Predecessor /\ Completed
    /\ UNCHANGED <<store, seats, world, clients, budget>>

Complete ==
    /\ At("complete") /\ Completed
    /\ UNCHANGED <<store, seats, world, clients, budget>>

-----------------------------------------------------------------------------
(* create_steps, resumed from whatever phase is durable. *)

InPhase(ps) == At("create") /\ A.phase \in ps

PrepareCwd ==
    /\ InPhase({"prepared", "closed"}) /\ A.native = None /\ A.succ = None
    /\ IF Collides(R.spec, None) THEN Refused ELSE SetPhase("cwd_ready") /\ UNCHANGED call
    /\ UNCHANGED <<store, seats, world, clients, budget>>

\* consume_native_bootstrap_retry: the permit is gone before the launch.
\* Mutant of BootstrapIntent: the permit stays until the launch succeeds.
BootstrapKeepsPermit ==
    /\ InPhase({"cwd_ready", "pending"}) /\ A.native = None
    /\ IF A.phase = "cwd_ready" \/ A.retry
       THEN SetPhase("pending") /\ Go("bootstrap")
       ELSE OwnerAction("pending")
    /\ UNCHANGED <<store, seats, world, clients, budget>>
BootstrapIntent ==
    /\ InPhase({"cwd_ready", "pending"}) /\ A.native = None
    /\ IF A.phase = "cwd_ready" \/ A.retry
       THEN Record([A EXCEPT !.phase = "pending", !.retry = FALSE]) /\ Go("bootstrap")
       ELSE OwnerAction("pending")
    /\ UNCHANGED <<store, seats, world, clients, budget>>

\* bootstrap_native starts a native thread ...
Unused == {s \in Sessions : life[s] = "absent"}
Fresh == CHOOSE s \in Unused : \A t \in Unused : s <= t
Launched == /\ Unused # {}
            /\ life' = [life EXCEPT ![Fresh] = "native"]
            /\ launched' = [launched EXCEPT ![Act] = @ \cup {Fresh}]
Bootstrap ==
    /\ At("bootstrap") /\ Launched
    /\ call' = [call EXCEPT !.pc = "capture", !.native = Fresh]
    /\ UNCHANGED <<store, actions, seats, clients, budget>>

\* ... or fails: after creating a thread it could name, without one it could
\* name, or provably before the launch.
Fault == faults > 0 /\ faults' = faults - 1 /\ UNCHANGED admin
BootstrapFails ==
    /\ At("bootstrap") /\ Fault
    /\ \/ Launched /\ call' = [call EXCEPT !.pc = "captureFailed", !.native = Fresh]
          /\ UNCHANGED actions
       \/ /\ Launched \/ UNCHANGED world
          /\ \E why \in {"unknown", "ambiguous"} : OwnerAction(why)
       \/ Go("notLaunched") /\ UNCHANGED <<actions, world>>
    /\ UNCHANGED <<store, seats, clients>>

\* mark_native_bootstrap_retryable
NotLaunched ==
    /\ At("notLaunched")
    /\ Record([A EXCEPT !.retry = TRUE]) /\ Return
    /\ UNCHANGED <<store, seats, world, clients, budget>>

Capture ==
    /\ At("capture") \/ At("captureFailed")
    /\ Record([A EXCEPT !.phase = "captured", !.native = call.native])
    /\ IF At("capture") THEN Go("create") ELSE Return
    /\ UNCHANGED <<store, seats, world, clients, budget>>

\* adopt_native finds or makes the durable session of the thread.
Adopt ==
    /\ At("create") /\ A.native # None /\ A.succ = None
    /\ SetLife(A.native, IF life[A.native] = "native" THEN "offline" ELSE life[A.native])
    /\ Go("adopted")
    /\ UNCHANGED <<store, actions, seats, clients, budget>>

CaptureAdopted ==
    /\ At("adopted")
    /\ agents' = IF agents[A.native].own = "none"
                 THEN [agents EXCEPT ![A.native] = [own |-> "active", spec |-> R.spec]]
                 ELSE agents
    /\ Record([A EXCEPT !.phase = "adopted", !.succ = A.native]) /\ Go("create")
    /\ UNCHANGED <<authority, grants, grantRev, seats, world, clients, budget>>

Configure ==
    /\ InPhase({"adopted"}) /\ A.succ # None
    /\ IF life[A.succ] # "retired" THEN SetPhase("configured") /\ UNCHANGED call
       ELSE OwnerAction("configure")
    /\ UNCHANGED <<store, seats, world, clients, budget>>

BringOnline ==
    /\ InPhase({"configured", "online"}) /\ A.succ # None
    /\ IF Active(A.succ) /\ life[A.succ] # "retired"
       THEN /\ SetLife(A.succ, "online") /\ UNCHANGED actions
            /\ Go(IF A.phase = "configured" THEN "onlined" ELSE "observe")
       ELSE OwnerAction("online") /\ UNCHANGED world
    /\ UNCHANGED <<store, seats, clients, budget>>

Onlined ==
    /\ At("onlined") /\ SetPhase("online") /\ Go("observe")
    /\ UNCHANGED <<store, seats, world, clients, budget>>

AlreadyReady ==
    /\ InPhase({"ready", "message_pending", "message_queued"}) /\ Go("observe")
    /\ UNCHANGED <<store, actions, seats, world, clients, budget>>

\* validate_ready
Observe ==
    /\ At("observe")
    /\ IF Active(A.succ) /\ life[A.succ] = "online"
       THEN /\ IF A.phase = "online" THEN SetPhase("ready") ELSE UNCHANGED actions
            /\ Go(IF R.msg THEN "message" ELSE "created")
       ELSE OwnerAction("observe")
    /\ UNCHANGED <<store, seats, world, clients, budget>>

\* The frozen handoff message, under the action's own message id.
Handoff ==
    /\ At("message")
    /\ \/ A.phase = "ready" /\ SetPhase("message_pending") /\ UNCHANGED call
       \/ A.phase = "message_pending" /\ SetPhase("message_queued") /\ Go("created")
       \/ A.phase = "message_queued" /\ UNCHANGED actions /\ Go("created")
    /\ UNCHANGED <<store, seats, world, clients, budget>>

Created ==
    /\ At("created")
    /\ \/ R.op = "rotate" /\ SetPhase("transfer") /\ Go("transfer")
       \/ CloseLast /\ UNCHANGED actions /\ Go("closing")
       \/ R.op # "rotate" /\ ~CloseLast /\ Completed
    /\ UNCHANGED <<store, seats, world, clients, budget>>

\* recover_created_agent
Recover ==
    /\ At("recover")
    /\ IF A.succ # None /\ Active(A.succ) /\ life[A.succ] = "online"
       THEN /\ Go(IF R.op = "rotate" THEN "transfer"
                  ELSE IF A.phase = "closing" THEN "close" ELSE "complete")
            /\ UNCHANGED actions
       ELSE OwnerAction("recover")
    /\ UNCHANGED <<store, seats, world, clients, budget>>

-----------------------------------------------------------------------------
(* complete_rotation: seat, project authority, fence.                       *)

\* Mutant of TransferSeat: the transfer leaves no fence.
TransferUnfenced ==
    /\ At("transfer")
    /\ receipts[Act] = None /\ fence = None /\ seat.occupant = R.target
    /\ seat' = [occupant |-> A.succ, epoch |-> seat.epoch + 1]
    /\ receipts' = [receipts EXCEPT ![Act] = seat']
    /\ Go("commit")
    /\ UNCHANGED <<store, actions, fence, world, clients, budget>>
TransferSeat ==
    /\ At("transfer")
    /\ UNCHANGED <<store, world, clients, budget>>
    /\ \/ /\ receipts[Act] # None
          /\ IF receipts[Act].occupant = A.succ /\ seat = receipts[Act]
             THEN Go("commit") /\ UNCHANGED actions ELSE Refused
          /\ UNCHANGED seats
       \/ /\ receipts[Act] = None
          /\ fence # None \/ seat.occupant # R.target
          /\ Refused /\ UNCHANGED seats
       \/ /\ receipts[Act] = None /\ fence = None /\ seat.occupant = R.target
          /\ seat' = [occupant |-> A.succ, epoch |-> seat.epoch + 1]
          /\ receipts' = [receipts EXCEPT ![Act] = seat']
          /\ fence' = Act
          /\ Go("commit") /\ UNCHANGED actions

\* One write: the authority, the predecessor's grant, the receipt.
CommitRotation ==
    /\ At("commit")
    /\ IF AuthorityHolds /\ A.succ \notin grants
       THEN /\ authority' = [director |-> A.succ, epoch |-> asked[Act].epoch + 1]
            /\ LET gs == IF R.how = "retain" THEN grants \cup {R.target}
                         ELSE grants \ {R.target}
               IN IF gs = grants THEN UNCHANGED <<grants, grantRev>> ELSE Regrant(gs)
            /\ Record([A EXCEPT !.phase = "complete", !.resp = "complete"])
            /\ Go("finish")
       ELSE Refused /\ UNCHANGED <<authority, grants, grantRev>>
    /\ UNCHANGED <<agents, seats, world, clients, budget>>

\* reconcile_completed_rotation
\* Mutant of Reconciled: the stored receipt is believed.
ReconciledUnchecked == A.resp = "complete"
Reconciled ==
    /\ authority = [director |-> A.succ, epoch |-> asked[Act].epoch + 1]
    /\ (R.target \in grants) <=> (R.how = "retain")
    /\ A.succ \notin grants
\* Mutant of Reconcile: the replay does not finish the fence.
ReconcileUnfinished ==
    /\ At("reconcile") /\ Return
    /\ UNCHANGED <<store, actions, seats, world, clients, budget>>
Reconcile ==
    /\ At("reconcile")
    /\ IF Reconciled THEN Go("finish") ELSE Return
    /\ UNCHANGED <<store, actions, seats, world, clients, budget>>

\* verify_director_transfer_receipt
SeatVerified == receipts[Act] # None /\ receipts[Act].occupant = A.succ /\ seat = receipts[Act]

\* finish_director_transfer
FinishFence ==
    /\ At("finish")
    /\ IF SeatVerified /\ fence \in {Act, None}
       THEN fence' = None /\ Go("verify") ELSE UNCHANGED fence /\ Return
    /\ UNCHANGED <<store, actions, seat, receipts, world, clients, budget>>

\* verify_director_transfer, and the answer.
Verify ==
    /\ At("verify") /\ Return
    /\ answered' = IF SeatVerified THEN answered \cup {Act} ELSE answered
    /\ UNCHANGED <<store, actions, seats, world, asked, inbox, budget>>

-----------------------------------------------------------------------------
(* Faults and the administration. *)

\* The service dies: the call and everything that waited for it are lost.
Crash ==
    /\ call # NoCall \/ inbox # {}
    /\ Fault /\ Return /\ inbox' = {}
    /\ UNCHANGED <<store, actions, seats, world, asked, answered>>

\* A lifecycle effect fails, before or after it took hold.
Fallible == {"online", "offline", "restart", "ran", "close", "retire", "mark", "adopted",
             "onlined", "observe", "message", "recover"}
FalliblePhases == {"prepared", "closed", "captured", "adopted", "configured", "online"}
LifecycleFails ==
    /\ call.pc \in Fallible \/ InPhase(FalliblePhases)
    /\ Fault /\ OwnerAction("lifecycle")
    /\ UNCHANGED <<store, seats, world, clients>>

RuntimeDies(s) ==
    /\ life[s] = "online" /\ Fault /\ SetLife(s, "offline")
    /\ UNCHANGED <<store, actions, seats, clients, call>>

\* The Owner brings a session back up, outside Agent Management.
OwnerOnline(s) ==
    /\ life[s] = "offline" /\ SetLife(s, "online")
    /\ UNCHANGED <<store, actions, seats, clients, call, budget>>

Admin == admin > 0 /\ admin' = admin - 1 /\ UNCHANGED faults

\* bind: an administrative seat bind is refused while a transfer is fenced.
BindSeat(s) ==
    /\ fence = None /\ Admin
    /\ seat' = [occupant |-> s, epoch |-> seat.epoch + 1]
    /\ UNCHANGED <<store, actions, receipts, fence, world, clients, call>>

\* bind_project_authority
BindAuthority(s) ==
    /\ call = NoCall /\ Admin /\ s \notin grants
    /\ authority' = [director |-> s, epoch |-> authority.epoch + 1]
    /\ UNCHANGED <<agents, grants, grantRev, actions, seats, world, clients, call>>

\* execute_operator_action_for_management
HumanOperator(s) ==
    /\ call = NoCall /\ Admin /\ s # authority.director
    /\ \/ Active(s) /\ s \notin grants /\ Regrant(grants \cup {s})
       \/ s \in grants /\ Regrant(grants \ {s})
    /\ UNCHANGED <<authority, agents, actions, seats, world, clients, call>>

-----------------------------------------------------------------------------
CallStep ==
    \/ Check \/ Query \/ Grant \/ Revoke \/ Runtime \/ Ran
    \/ ClosingIntent \/ CloseOffline \/ CloseRetire \/ CloseMark \/ Closed \/ Complete
    \/ PrepareCwd \/ BootstrapIntent \/ Bootstrap \/ NotLaunched \/ Capture
    \/ Adopt \/ CaptureAdopted \/ Configure \/ BringOnline \/ Onlined \/ AlreadyReady
    \/ Observe \/ Handoff \/ Created \/ Recover
    \/ TransferSeat \/ CommitRotation \/ Reconcile \/ FinishFence \/ Verify

Begin(a) ==
    \/ BeginRefused(a) \/ BeginReplay(a) \/ BeginResume(a) \/ BeginReopen(a) \/ BeginNew(a)

Next ==
    \/ \E a \in Actions : AskAgain(a) \/ Begin(a)
    \/ \E a \in Actions, s \in Sessions, r \in Requests : Ask(s, a, r)
    \/ CallStep \/ BootstrapFails
    \/ Crash \/ LifecycleFails
    \/ \E s \in Sessions : RuntimeDies(s) \/ OwnerOnline(s) \/ BindSeat(s)
                             \/ BindAuthority(s) \/ HumanOperator(s)

Spec == Init /\ [][Next]_vars

-----------------------------------------------------------------------------
Phases == Resolved \cup {"prepared", "closing", "closed", "cwd_ready", "pending", "captured",
    "adopted", "configured", "online", "ready", "message_pending", "message_queued",
    "transfer", "owner_action_required"}

Whys == {"none", "unknown", "ambiguous", "ownership", "runtime", "close", "pending", "configure",
         "online", "observe", "recover", "lifecycle"}

(* Every variable keeps its shape. *)
TypeOK ==
    /\ authority \in [director : Sessions, epoch : Nat]
    /\ agents \in [Sessions -> [own : {"none", "active", "retired"},
                                spec : Specs \cup {DirectorSpec, None}]]
    /\ grants \subseteq Sessions /\ grantRev \in Nat
    /\ actions \in [Actions -> [phase : Phases, native : Sessions \cup {None},
                                succ : Sessions \cup {None}, retry : BOOLEAN, why : Whys,
                                resp : {"none", "complete", "no_write", "owner"}]]
    /\ seat \in Occupancy
    /\ fence \in Actions \cup {None}
    /\ life \in [Sessions -> {"absent", "native", "offline", "online", "retired"}]
    /\ launched \in [Actions -> SUBSET Sessions]
    /\ inbox \subseteq Actions /\ answered \subseteq Actions

(* However often an action is retried after whichever failure, it never has *)
(* two native threads.                                                      *)
OneNativePerAction == \A a \in Actions : Cardinality(launched[a]) <= 1

(* While a transfer is fenced the seat is its successor's, and the Primary  *)
(* Director is never one of its own Operators, although both roles change   *)
(* hands by rotations, grants and administrative binds.  The two Director   *)
(* authority surfaces differ only between the two writes of one rotation,   *)
(* which is durably fenced and knows its successor; unless the              *)
(* administration moved one of them.                                        *)
Between(a) ==
    /\ fence = a /\ actions[a].phase = "transfer"
    /\ seat.occupant = actions[a].succ
    /\ authority.director = asked[a].req.target
FenceHoldsSeat ==
    fence # None => /\ seat = receipts[fence]
                    /\ seat.occupant = actions[fence].succ
                    /\ actions[fence].phase \in {"transfer", "complete"}
SurfacesAgree ==
    /\ FenceHoldsSeat
    /\ authority.director \notin grants
    /\ admin = MaxAdmin => \/ authority.director = seat.occupant
                           \/ \E a \in Actions : Between(a)

(* A request that was answered "no write" has launched nothing and has      *)
(* moved no seat.                                                           *)
NoWriteIsClean ==
    \A a \in Actions : actions[a].phase = "no_write" => launched[a] = {} /\ receipts[a] = None

(* No two active agents have the same name or cwd. *)
NoTwoAlike ==
    \A s, t \in Sessions : Active(s) /\ Active(t) /\ agents[s].spec = agents[t].spec => s = t

(* A completed rotation is answered only while both surfaces name its       *)
(* successor.                                                               *)
Agreed(a) == authority.director = actions[a].succ /\ seat.occupant = actions[a].succ
AnsweredInAgreement == [][\A a \in answered' \ answered : Agreed(a)]_vars

(* Whatever a call does to sessions, runtimes or the seat, it does while    *)
(* its caller has the authority for it, however long ago it began: once a   *)
(* revoke or a rotation wins, no unfinished effect starts.                  *)
Effect == <<life, seat>>' # <<life, seat>> /\ call' # call
EffectsAreAuthorized == [][Effect => Allowed(call.act)]_vars

-----------------------------------------------------------------------------
(* Progress: the service keeps working, callers keep asking until they have *)
(* an answer, the Owner keeps sessions running.                             *)
Unanswered(a) == asked[a] # NoAsk /\ a \notin answered
Fairness ==
    /\ WF_vars(CallStep)
    /\ \A a \in Actions : SF_vars(Begin(a)) /\ WF_vars(Unanswered(a) /\ AskAgain(a))
    /\ \A s \in Sessions : WF_vars(OwnerOnline(s))
FairSpec == Spec /\ Fairness

\* A retired caller can ask for nothing, not even for the rest of its own
\* rotation: one that closes its predecessor retires its caller.
Orphaned(a) == life[asked[a].caller] = "retired"

\* What the exact replay looks for was changed while the transfer was fenced:
\* before the commit the authority of the predecessor or the standing of the
\* successor (require_authority, recover_created_agent, commit_rotation),
\* after it what the rotation wrote (reconcile_completed_rotation).
Displaced(a) ==
    LET succ == actions[a].succ
        r == asked[a].req
    IN \/ /\ actions[a].phase = "transfer"
          /\ \/ authority # [director |-> r.target, epoch |-> asked[a].epoch]
             \/ ~Active(succ) \/ life[succ] = "retired"
             \/ succ \in grants
       \/ /\ actions[a].phase = "complete"
          /\ \/ authority # [director |-> succ, epoch |-> asked[a].epoch + 1]
             \/ (r.target \in grants) # (r.how = "retain")
             \/ succ \in grants

(* A fenced transfer is finished by the exact replays of its caller: the    *)
(* administration is not locked out of the Director seat for ever, unless   *)
(* that caller is retired or grants, closes and binds made between a stop   *)
(* and the replay displaced the rotation, and nobody takes them back.       *)
FencesFinish == \A a \in Actions : []<>(fence # a \/ Orphaned(a) \/ Displaced(a))

(* docs/agent-management-provider.md: after a stop behind the seat transfer *)
(* "exact replay verifies that evidence, [...] and finishes the fence", in  *)
(* either mode of the rotation.                                             *)
ReplayFinishesEveryFence == \A a \in Actions : fence = a ~> fence # a
=============================================================================
