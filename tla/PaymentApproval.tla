-------------------------- MODULE PaymentApproval --------------------------
(***************************************************************************)
(* How one payment intent is created, approved by members, rejected,       *)
(* cancelled and let through the approval check of the pre-execution gate: *)
(* PaymentIntentService of services/execution with ApprovalService and     *)
(* authorizeApproval behind it.                                            *)
(*                                                                         *)
(* A request awaits the database, the policy service and the audit log     *)
(* between its steps and keeps what it read in local variables (req), so   *)
(* any other request, and the activation of a new policy version, may come *)
(* in between.  Any step may be a request's last.                          *)
(***************************************************************************)
EXTENDS Naturals, Sequences, FiniteSets

CONSTANTS
  Members,     \* users with approval authority over this intent
  RoleOf,      \* [Members -> {"admin", "approver"}]
  Cautious,    \* members whose requiresSecondApproverAboveCents is exceeded
  Policies,    \* the policy versions, in the order they are activated
  HumanFloor,  \* an allowed payment of this type needs a human signature
  Requests,    \* API requests, at most one use each
  MayCrash,    \* requests may end at any step
  NoOne        \* no member

Outcomes == {"allow", "confirm", "reject"}
Tokens == {"admin", "approver", "signer"}

ASSUME ApprovalAssumption ==
  /\ IsFiniteSet(Members) /\ NoOne \notin Members
  /\ RoleOf \in [Members -> {"admin", "approver"}]
  /\ Cautious \subseteq Members
  /\ Policies \in Seq([outcome : Outcomes, required : Seq(Tokens)]) /\ Policies # <<>>
  /\ HumanFloor \in BOOLEAN
  /\ MayCrash \in BOOLEAN

VARIABLES
  version,       \* the active policy version
  status,        \* the intent's status; "none" before it is inserted
  createdUnder,  \* the version behind the row's policy_decision_id
  ruling,        \* the audit event decision_audit_id names
  approvalIds,   \* the members whose approvals approval_ids lists
  signedAt,      \* the policy version of each member's signature, 0 if none
  stale,         \* the members whose signature is marked stale
  decisions,     \* the proposal.decided events of the audit log
  req            \* the local variables of each request

approvalRows == <<signedAt, stale>>
intentRow == <<status, createdUnder, ruling, approvalIds>>
vars == <<version, intentRow, approvalRows, decisions, req>>

Versions == 1..Len(Policies)
Open == {"pending_approval", "awaiting_second_approval"}
Statuses == Open \cup {"none", "approved", "rejected", "cancelled", "dispatching"}
Steps == {"idle", "insert", "list", "authorize", "version", "sign", "append",
          "emit", "transition", "gate", "handOff", "done"}

Events == [decision : {"approve", "reject"}, from : Statuses, to : Statuses,
           actor : Members]
NoEvent == [decision |-> "none", from |-> "none", to |-> "none", actor |-> NoOne]

\* member, the snapshot of the status, the existing approvers, the status to
\* move to and the event to log, the number of distinct approvals it takes, and
\* the policy version of the evaluation or the signature.
Locals == [step : Steps, member : Members \cup {NoOne}, seen : Statuses,
           existing : SUBSET Members, to : Statuses, needed : Nat, under : Nat]

Idle == [step |-> "idle", member |-> NoOne, seen |-> "none", existing |-> {},
         to |-> "none", needed |-> 0, under |-> 0]

Signers == {m \in Members : signedAt[m] # 0}

TypeOK ==
  /\ version \in Versions
  /\ status \in Statuses
  /\ createdUnder \in Versions \cup {0}
  /\ ruling \in Events \cup {NoEvent}
  /\ approvalIds \subseteq Signers
  /\ signedAt \in [Members -> Versions \cup {0}]
  /\ stale \subseteq Signers
  /\ decisions \subseteq Events
  /\ req \in [Requests -> Locals]

Init ==
  /\ version = 1
  /\ status = "none"
  /\ createdUnder = 0
  /\ ruling = NoEvent
  /\ approvalIds = {}
  /\ signedAt = [m \in Members |-> 0]
  /\ stale = {}
  /\ decisions = {}
  /\ req = [r \in Requests |-> Idle]

At(r, step) == req[r].step = step
Goto(r, step) == req' = [req EXCEPT ![r].step = step]
Finish(r) == req' = [req EXCEPT ![r] = [Idle EXCEPT !.step = "done"]]

----------------------------------------------------------------------------
(* Creation, with a proposal_dedup_key.                                    *)

\* requiresHardHumanApprovalFloor, for an action type without autonomous cap.
FloorApplies(v) == Policies[v].outcome = "allow" /\ HumanFloor

InitialStatus_NoFloor(v) ==
  CASE Policies[v].outcome = "reject" -> "rejected"
    [] Policies[v].outcome = "allow" -> "approved"
    [] OTHER -> "pending_approval"
InitialStatus(v) ==
  CASE Policies[v].outcome = "reject" -> "rejected"
    [] Policies[v].outcome = "allow" /\ ~FloorApplies(v) -> "approved"
    [] OTHER -> "pending_approval"

\* No intent has this dedup key yet: the policy is evaluated.  (A retry that
\* finds one returns it and changes nothing.)
Create(r) ==
  /\ At(r, "idle")
  /\ status = "none"
  /\ req' = [req EXCEPT ![r].step = "insert", ![r].under = version]
  /\ UNCHANGED <<version, intentRow, approvalRows, decisions>>

\* The partial unique index lets one of the concurrent inserts through; the
\* others return the winner's row.
Insert(r) ==
  /\ At(r, "insert")
  /\ IF status = "none"
     THEN /\ status' = InitialStatus(req[r].under)
          /\ createdUnder' = req[r].under
     ELSE UNCHANGED <<status, createdUnder>>
  /\ Finish(r)
  /\ UNCHANGED <<version, ruling, approvalIds, approvalRows, decisions>>

----------------------------------------------------------------------------
(* Approval: PaymentIntentService.approve.                                 *)

Approve(r, m) ==
  /\ At(r, "idle")
  /\ status \in Open
  /\ req' = [req EXCEPT ![r] = [Idle EXCEPT !.step = "list", !.member = m,
                                            !.seen = status]]
  /\ UNCHANGED <<version, intentRow, approvalRows, decisions>>

\* approvals.list returns every approval, stale ones included.
ListApprovals(r) ==
  /\ At(r, "list")
  /\ req' = [req EXCEPT ![r].step = "authorize", ![r].existing = Signers]
  /\ UNCHANGED <<version, intentRow, approvalRows, decisions>>

AtLeast(n, k) == IF n >= k THEN n ELSE k

\* requiredDistinctApprovals: what the policy asks for, and two for a member
\* beyond the own dual-control threshold.
Needed(m) ==
  AtLeast(Len(Policies[version].required), IF m \in Cautious THEN 2 ELSE 1)

IsAdditional_Never(existing, needed) == FALSE
IsAdditional(existing, needed) == needed > 1 /\ Cardinality(existing) + 1 < needed

\* authorizeApproval on a fresh policy evaluation.  With more than one approval
\* needed a member who signed before is refused.
Authorize(r) ==
  LET q == req[r]
      needed == Needed(q.member)
      refused == needed > 1 /\ q.member \in q.existing
  IN
  /\ At(r, "authorize")
  /\ IF refused THEN Finish(r)
     ELSE req' = [req EXCEPT ![r] =
                    [@ EXCEPT !.step = "version", !.existing = {}, !.needed = needed,
                       !.to = IF IsAdditional(q.existing, needed)
                              THEN "awaiting_second_approval" ELSE "approved"]]
  /\ UNCHANGED <<version, intentRow, approvalRows, decisions>>

\* sign first resolves the policy version the signature is made against.
ResolveVersion(r) ==
  /\ At(r, "version")
  /\ req' = [req EXCEPT ![r].step = "sign", ![r].under = version]
  /\ UNCHANGED <<version, intentRow, approvalRows, decisions>>

\* One signature per member; a second one is refused, whatever became of the
\* first.
Sign(r) ==
  LET m == req[r].member IN
  /\ At(r, "sign")
  /\ IF signedAt[m] # 0
     THEN Finish(r) /\ UNCHANGED signedAt
     ELSE /\ signedAt' = [signedAt EXCEPT ![m] = req[r].under]
          /\ req' = [req EXCEPT ![r].step = "append", ![r].under = 0]
  /\ UNCHANGED <<version, intentRow, stale, decisions>>

AppendApprovalId(r) ==
  /\ At(r, "append")
  /\ approvalIds' = approvalIds \cup {req[r].member}
  /\ Goto(r, "emit")
  /\ UNCHANGED <<version, status, createdUnder, ruling, approvalRows, decisions>>

----------------------------------------------------------------------------
(* The decision: logged first, then applied.                               *)

EventOf(r) ==
  [decision |-> IF req[r].to = "rejected" THEN "reject" ELSE "approve",
   from |-> req[r].seen, to |-> req[r].to, actor |-> req[r].member]

\* Two events share an idempotency key when decision and prior status agree.
Clash_Ignored(e) == FALSE
Clash(e) ==
  \E d \in decisions : d.decision = e.decision /\ d.from = e.from /\ d # e

\* The event the emitter returns: the one already logged under the key.
Logged(e) ==
  IF \E d \in decisions : d.decision = e.decision /\ d.from = e.from
  THEN CHOOSE d \in decisions : d.decision = e.decision /\ d.from = e.from
  ELSE e

\* The emitter refuses a key that was used for a different event.
EmitDecision(r) ==
  LET e == EventOf(r) IN
  /\ At(r, "emit")
  /\ IF Clash(e)
     THEN Finish(r) /\ UNCHANGED decisions
     ELSE Goto(r, "transition") /\ decisions' = decisions \cup {Logged(e)}
  /\ UNCHANGED <<version, intentRow, approvalRows>>

\* The status the conditional UPDATE asks for.  A first of two approvals always
\* expects pending_approval, whatever the request had seen.
From_Any(r) == status
From(r) ==
  IF req[r].to = "awaiting_second_approval" THEN "pending_approval" ELSE req[r].seen

Transition(r) ==
  /\ At(r, "transition")
  /\ IF status = From(r)
     THEN /\ status' = req[r].to
          /\ ruling' = Logged(EventOf(r))
     ELSE UNCHANGED <<status, ruling>>
  /\ Finish(r)
  /\ UNCHANGED <<version, createdUnder, approvalIds, approvalRows, decisions>>

Reject(r, m) ==
  /\ At(r, "idle")
  /\ status \in Open \cup {"approved"}
  /\ req' = [req EXCEPT ![r] = [Idle EXCEPT !.step = "emit", !.member = m,
                                            !.seen = status, !.to = "rejected"]]
  /\ UNCHANGED <<version, intentRow, approvalRows, decisions>>

Cancel(r) ==
  /\ At(r, "idle")
  /\ status = "pending_approval"
  /\ status' = "cancelled"
  /\ Finish(r)
  /\ UNCHANGED <<version, createdUnder, ruling, approvalIds, approvalRows, decisions>>

----------------------------------------------------------------------------
(* Execution, as far as approvals go: check 11 of runPreExecutionGate.     *)

Execute(r) ==
  /\ At(r, "idle")
  /\ status = "approved"
  /\ req' = [req EXCEPT ![r].step = "gate", ![r].under = version]
  /\ UNCHANGED <<version, intentRow, approvalRows, decisions>>

\* hasRequiredRoleQuorum: a named role is matched once by that role, every
\* "signer" by one of the remaining signed roles.
Quorum(required, roles) ==
  LET named == {required[n] : n \in DOMAIN required} \ {"signer"}
      slots == Cardinality({n \in DOMAIN required : required[n] = "signer"})
  IN
  /\ \A n, k \in DOMAIN required : required[n] = required[k] /\ n # k => required[n] = "signer"
  /\ named \subseteq roles
  /\ Cardinality(roles \ named) >= slots

NeedsApprovals(v) == Policies[v].outcome = "confirm" \/ FloorApplies(v)

\* markStaleForSupersededVersion, for the version the gate evaluated.
Superseded(v) == {m \in Signers : signedAt[m] # v}

\* listValidApprovals
Counted_AllRows(v) == Signers
Counted(v) == {m \in Signers \ stale : signedAt[m] = v}

Granted(v, members) ==
  LET roles == {RoleOf[m] : m \in members} IN
  /\ Policies[v].outcome # "reject"
  /\ Policies[v].outcome = "confirm" => Quorum(Policies[v].required, roles)
  /\ FloorApplies(v) => roles # {}

\* A gate that asks for the approvals first marks the superseded ones.
GateApprovals(r) ==
  LET v == req[r].under IN
  /\ At(r, "gate")
  /\ stale' = IF NeedsApprovals(v) THEN stale \cup Superseded(v) ELSE stale
  /\ IF Granted(v, Counted(v)) THEN Goto(r, "handOff") ELSE Finish(r)
  /\ UNCHANGED <<version, intentRow, signedAt, decisions>>

HandOff(r) ==
  /\ At(r, "handOff")
  /\ status' = IF status = "approved" THEN "dispatching" ELSE status
  /\ Finish(r)
  /\ UNCHANGED <<version, createdUnder, ruling, approvalIds, approvalRows, decisions>>

----------------------------------------------------------------------------
\* The tenant signs a new policy; earlier signatures are superseded.
ActivatePolicy ==
  /\ version < Len(Policies)
  /\ version' = version + 1
  /\ UNCHANGED <<intentRow, approvalRows, decisions, req>>

\* The process dies, an await throws, or the member is not authorized.
Crash(r) ==
  /\ MayCrash
  /\ req[r].step \notin {"idle", "done"}
  /\ Finish(r)
  /\ UNCHANGED <<version, intentRow, approvalRows, decisions>>

Next ==
  \/ ActivatePolicy
  \/ \E r \in Requests :
       \/ Create(r) \/ Insert(r)
       \/ \E m \in Members : Approve(r, m) \/ Reject(r, m)
       \/ ListApprovals(r) \/ Authorize(r) \/ ResolveVersion(r) \/ Sign(r)
       \/ AppendApprovalId(r) \/ EmitDecision(r) \/ Transition(r)
       \/ Cancel(r) \/ Execute(r) \/ GateApprovals(r) \/ HandOff(r) \/ Crash(r)

Spec == Init /\ [][Next]_vars

----------------------------------------------------------------------------
(* Properties.                                                             *)

\* An intent that may be executed was let through by the policy it was created
\* under, or by a decision whose signature is on record (create, approve).
ApprovedHasAuthority ==
  status \in {"approved", "dispatching"} =>
    \/ Policies[createdUnder].outcome = "allow" /\ ~FloorApplies(createdUnder)
    \/ ruling.decision = "approve" /\ ruling.actor \in approvalIds

\* When a member's decision moves the intent, the event its row names is in the
\* audit log before and names that member and the status reached: no decision is
\* booked to whoever first used its idempotency key (emitProposalDecisionAudit).
DecisionIsOnRecord ==
  [][\A r \in Requests :
       At(r, "transition") /\ req'[r] # req[r] /\ status' # status =>
         /\ ruling' \in decisions
         /\ ruling'.actor = req[r].member
         /\ ruling'.to = status']_vars

\* Approving takes as many distinct signatures as the decider's evaluation
\* demanded (authorizeApproval), though it counted them before signing.
DualControl ==
  [][status' = "approved" /\ status \in Open =>
       \E r \in Requests :
         /\ At(r, "transition")
         /\ req[r].member \in Signers
         /\ req[r].needed <= Cardinality(Signers)]_vars

\* A decision stands: a rejected or cancelled intent stays so, and an approved
\* one is never opened again, whatever requests were already under way.
DecisionsStand ==
  [][/\ status \in {"rejected", "cancelled"} => status' = status
     /\ status = "approved" => status' \in {"approved", "dispatching", "rejected"}
     /\ status = "awaiting_second_approval" => status' # "pending_approval"]_vars

\* What is handed to the outbox had the approvals its gate run asked for, all
\* made under the policy version that run evaluated (P0.4).
HandedOverWithQuorum ==
  \A r \in Requests :
    At(r, "handOff") =>
      Granted(req[r].under, {m \in Signers : signedAt[m] = req[r].under})
============================================================================
