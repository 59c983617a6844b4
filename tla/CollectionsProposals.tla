------------------------ MODULE CollectionsProposals ------------------------
(***************************************************************************)
(* The proposals about one overdue invoice of one tenant: agent runs that  *)
(* propose (AgentService.propose), the reconciler that keeps a pending     *)
(* proposal in step with the invoice (collections-proposal-reconciler),    *)
(* and members who decide (ProposalDecisionService).                       *)
(*                                                                         *)
(* All of them work in transactions of one connection pool.  Runs and      *)
(* reconcilers take the advisory lock of the invoice and then the row of   *)
(* its pending proposal, members the row alone; members and reconcilers    *)
(* emit an audit event, on a second connection, before they commit.        *)
(*                                                                         *)
(* A run proposes once, and a proposal is named by the run that inserted   *)
(* it.  Days are counted from the due date.                                *)
(***************************************************************************)
EXTENDS Naturals, FiniteSets

CONSTANTS
  Runs, Members, Reconcilers,
  LastDay,       \* bound on the days that pass
  Rules,         \* the authorities and policy outcomes the agent may be under
  Connections,   \* DATABASE_POOL_MAX
  MaxTurns,      \* bound on the changes of invoice and rules and the rollbacks
  None

Modes == {"propose", "notify_only"}
Outcomes == {"allow", "confirm", "reject"}
Days == 1..LastDay
Processes == Runs \cup Members \cup Reconcilers

ASSUME ProposalsAssumption ==
  /\ LastDay \in Nat \ {0} /\ {Connections, MaxTurns} \subseteq Nat /\ IsFiniteSet(Processes)
  /\ Rules \subseteq [authority : Modes, outcome : Outcomes]
  /\ Runs \cap Members = {} /\ Runs \cap Reconcilers = {} /\ Members \cap Reconcilers = {}
  /\ None \notin Runs

VARIABLES
  invoice,    \* ledger_invoices: "open" is collectible and overdue
  today,
  rules,      \* what the agent's authority and the policy say now
  proposal,   \* proposals: the row each run inserted
  events,     \* audit_events with a key: decisions and supersessions
  proc,       \* where each run, member and reconciler is
  turns       \* changes of the invoice and the rules, and rollbacks, so far

vars == <<invoice, today, rules, proposal, events, proc, turns>>
surroundings == <<invoice, today, rules, turns>>

Statuses == {"pending", "approved", "rejected", "acknowledged", "undone", "superseded"}
Decisions == {"approve", "reject", "acknowledge", "undo"}
\* What a row says: action.days_overdue, action.mode and policy_decision.
Contents == [days : Days, mode : Modes, outcome : Outcomes]
Rows == [status : Statuses, content : Contents, decision : Decisions \cup {None}]
Acts == Decisions \cup {"refresh", "supersede", "propose"}
Events == [row : Runs, act : Acts, before : Statuses, says : Days \X (Modes \cup Outcomes),
           actor : Members \cup {"reconciler"}]
Locals == [step : {"idle", "begun", "found", "emitted", "done"},
           row : Runs \cup {None}, act : Acts, content : Contents]

TypeOK ==
  /\ invoice \in {"open", "closed", "missing"}
  /\ today \in Days
  /\ rules \in Rules
  /\ proposal \in [Runs -> Rows \cup {None}]
  /\ events \subseteq Events
  /\ proc \in [Processes -> Locals]
  /\ turns \in 0..MaxTurns

Idle == [step |-> "idle", row |-> None, act |-> "propose",
         content |-> [days |-> 1, mode |-> "propose", outcome |-> "confirm"]]

Init ==
  /\ invoice = "open" /\ today = 1
  /\ rules \in Rules
  /\ proposal = [r \in Runs |-> None]
  /\ events = {}
  /\ proc = [q \in Processes |-> Idle]
  /\ turns = 0

Is(p, status) == proposal[p] # None /\ proposal[p].status = status
Pending == {p \in Runs : Is(p, "pending")}

\* outcomeToStatus
StatusFor(content) ==
  CASE content.mode = "notify_only" /\ content.outcome # "reject" -> "pending"
    [] content.outcome = "reject" -> "rejected"
    [] content.mode = "propose" /\ content.outcome = "allow" -> "approved"
    [] content.mode = "propose" /\ content.outcome = "confirm" -> "pending"

----------------------------------------------------------------------------
(* Transactions: withTenantScope, the advisory lock, FOR UPDATE.           *)

At(q, step) == proc[q].step = step
InTransaction(q) == proc[q].step \in {"begun", "found", "emitted"}
ClientFree == Cardinality({q \in Processes : InTransaction(q)}) < Connections

LockFree_Never == TRUE
LockFree == \A q \in Runs \cup Reconcilers : proc[q].step \notin {"found", "emitted"}

RowFree_Always(p) == TRUE
RowFree(p) == \A q \in Processes : proc[q].step \in {"found", "emitted"} => proc[q].row # p

Move(q, local) == proc' = [proc EXCEPT ![q] = local]
Return(q) == Move(q, Idle)

Begin(q, row, act, content) ==
  /\ ClientFree
  /\ Move(q, [step |-> "begun", row |-> row, act |-> act, content |-> content])

\* The pending row of the invoice, locked, or the knowledge that there is none.
Found(q, p, act, content) ==
  /\ p # None => RowFree(p)
  /\ Move(q, [step |-> "found", row |-> p, act |-> act, content |-> content])

Write(p, status, content, decision) ==
  proposal' = [proposal EXCEPT ![p] = [status |-> status, content |-> content, decision |-> decision]]

----------------------------------------------------------------------------
(* A run: AgentService.propose.                                            *)

\* The overdue scanner, a route or a ledger event starts it; the authority and
\* the policy are evaluated first, and stay as they were for the whole run.
RunBegins(r) ==
  /\ At(r, "idle") /\ invoice = "open"
  /\ Begin(r, None, "propose",
           [days |-> today, mode |-> rules.authority, outcome |-> rules.outcome])
  /\ UNCHANGED <<surroundings, proposal, events>>

RunFinds(r) ==
  /\ At(r, "begun") /\ LockFree
  /\ \/ Pending = {} /\ Found(r, None, "propose", proc[r].content)
     \/ \E p \in Pending : Found(r, p, "propose", proc[r].content)
  /\ UNCHANGED <<surroundings, proposal, events>>

\* The insert or, of a row whose content differs, the refresh; committed.
RunWrites(r) ==
  /\ At(r, "found")
  /\ Write(IF proc[r].row = None THEN r ELSE proc[r].row,
           StatusFor(proc[r].content), proc[r].content, None)
  /\ Move(r, [Idle EXCEPT !.step = "done"])
  /\ UNCHANGED <<surroundings, events>>

----------------------------------------------------------------------------
(* Keyed audit events.                                                     *)

Key(e) == <<e.row, e.act, e.before>>

\* What the event says of the row: for a decision its narrative, which tells the
\* days, and the policy's outcome; for a supersession the whole action.
Says(act, content) ==
  <<content.days, IF act = "supersede" THEN content.mode ELSE content.outcome>>

\* The event that q is about to emit for the row it holds.
EventOf(q) ==
  [row |-> proc[q].row, act |-> proc[q].act, before |-> proposal[proc[q].row].status,
   says |-> Says(proc[q].act, proc[q].content), actor |-> IF q \in Members THEN q ELSE "reconciler"]
Conflicts(q) == \E e \in events : Key(e) = Key(EventOf(q)) /\ e # EventOf(q)

\* On a connection of its own, committed whatever becomes of the transaction.
\* A key that is taken by another payload makes the transaction fail.
Emit(q) ==
  /\ ClientFree
  /\ \/ ~Conflicts(q) /\ events' = events \cup {EventOf(q)}
        /\ Move(q, [proc[q] EXCEPT !.step = "emitted"])
     \/ Conflicts(q) /\ Return(q) /\ UNCHANGED events

----------------------------------------------------------------------------
(* A member: decideAgentProposal.                                          *)

After(decision) ==
  CASE decision = "approve" -> "approved"
    [] decision = "reject" -> "rejected"
    [] decision = "acknowledge" -> "acknowledged"
    [] decision = "undo" -> "undone"

\* targetStatusForDecision
MayDecide(p, decision) ==
  \/ decision \in {"approve", "reject"} /\ Is(p, "pending")
  \/ decision \in {"reject", "undo"} /\ Is(p, "approved")
  \/ decision = "acknowledge" /\ Is(p, "pending") /\ proposal[p].content.mode = "notify_only"

Decide(m) ==
  /\ At(m, "idle")
  /\ \E p \in Runs, decision \in Decisions :
       proposal[p] # None /\ Begin(m, p, decision, Idle.content)
  /\ UNCHANGED <<surroundings, proposal, events>>

\* A decision that is already taken or no longer possible changes nothing.
MemberFinds(m) ==
  /\ At(m, "begun")
  /\ LET p == proc[m].row IN
       \/ MayDecide(p, proc[m].act) /\ Found(m, p, proc[m].act, proposal[p].content)
       \/ ~MayDecide(p, proc[m].act) /\ RowFree(p) /\ Return(m)
  /\ UNCHANGED <<surroundings, proposal, events>>

MemberEmits(m) ==
  /\ At(m, "found") /\ Emit(m)
  /\ UNCHANGED <<surroundings, proposal>>

MemberCommits(m) ==
  /\ At(m, "emitted")
  /\ LET p == proc[m].row
     IN  Write(p, After(proc[m].act), proposal[p].content, proc[m].act)
  /\ Return(m)
  /\ UNCHANGED <<surroundings, events>>

----------------------------------------------------------------------------
(* The reconciler: runCollectionsProposalReconcileCycle, reconcileOne.     *)

\* The rows the work list asks for, and that are checked again under the locks:
\* pending, with other days than the invoice or with no invoice.
Drifted_InnerJoin(p, day) ==
  /\ Is(p, "pending") /\ invoice = "open" /\ proposal[p].content.days # day
Drifted(p, day) ==
  /\ Is(p, "pending")
  /\ \/ invoice = "missing"
     \/ invoice = "open" /\ proposal[p].content.days # day

\* The invoice is on the unlocked work list; the cycle keeps the time it began at.
ReconcilerBegins(c) ==
  /\ At(c, "idle")
  /\ \E p \in Runs : Drifted(p, today)
  /\ Begin(c, None, "refresh", [Idle.content EXCEPT !.days = today])
  /\ UNCHANGED <<surroundings, proposal, events>>

Refreshed(p, day) == [proposal[p].content EXCEPT !.days = day, !.outcome = rules.outcome]

\* Everything is read again under the locks; the policy may keep the row from
\* staying pending, which leaves it alone.  (The policy is read on another
\* connection too: that wait is part of the one in ReconcilerEmits.)
ReconcilerFinds(c) ==
  /\ At(c, "begun") /\ LockFree
  /\ LET day == proc[c].content.days IN
       \/ Pending = {} /\ Return(c)
       \/ \E p \in Pending :
            \/ /\ Drifted(p, day) /\ invoice = "missing"
               /\ Found(c, p, "supersede", proposal[p].content)
            \/ /\ Drifted(p, day) /\ invoice = "open"
               /\ StatusFor(Refreshed(p, day)) = "pending"
               /\ Found(c, p, "refresh", Refreshed(p, day))
            \/ /\ Drifted(p, day) /\ invoice = "open"
               /\ StatusFor(Refreshed(p, day)) # "pending"
               /\ RowFree(p) /\ Return(c)
            \/ ~Drifted(p, day) /\ RowFree(p) /\ Return(c)
  /\ UNCHANGED <<surroundings, proposal, events>>

\* The refresh event has no key.
ReconcilerEmits(c) ==
  /\ At(c, "found")
  /\ \/ proc[c].act = "supersede" /\ Emit(c)
     \/ /\ proc[c].act = "refresh" /\ ClientFree
        /\ Move(c, [proc[c] EXCEPT !.step = "emitted"])
        /\ UNCHANGED events
  /\ UNCHANGED <<surroundings, proposal>>

ReconcilerCommits(c) ==
  /\ At(c, "emitted")
  /\ LET p == proc[c].row
     IN  Write(p, IF proc[c].act = "supersede" THEN "superseded" ELSE "pending",
               proc[c].content, proposal[p].decision)
  /\ Return(c)
  /\ UNCHANGED <<surroundings, events>>

----------------------------------------------------------------------------
(* The surroundings.                                                       *)

Turn == turns < MaxTurns /\ turns' = turns + 1

\* A transaction is rolled back: the process dies or the database refuses.
Abort(q) ==
  /\ InTransaction(q) /\ Return(q) /\ Turn
  /\ UNCHANGED <<invoice, today, rules, proposal, events>>

\* A statement that waits for a lock reaches its timeout when the holder waits
\* for a connection, which has no timeout; other transactions are shorter.
Waits(q) ==
  /\ At(q, "begun")
  /\ IF q \in Members THEN ~RowFree(proc[q].row)
                      ELSE ~LockFree \/ \E p \in Pending : ~RowFree(p)
TimesOut(q) ==
  /\ Waits(q) /\ ~ClientFree /\ Return(q)
  /\ UNCHANGED <<surroundings, proposal, events>>

DayPasses ==
  /\ today < LastDay /\ today' = today + 1
  /\ UNCHANGED <<invoice, rules, proposal, events, proc, turns>>

\* The invoice is paid, disputed, deferred, reopened, or leaves the ledger.
InvoiceChanges ==
  /\ invoice' \in {"open", "closed", "missing"} \ {invoice} /\ Turn
  /\ UNCHANGED <<today, rules, proposal, events, proc>>

RulesChange ==
  /\ rules' \in Rules \ {rules} /\ Turn
  /\ UNCHANGED <<invoice, today, proposal, events, proc>>

Run(r) == RunFinds(r) \/ RunWrites(r)
Member(m) == MemberFinds(m) \/ MemberEmits(m) \/ MemberCommits(m)
Reconciler(c) == ReconcilerFinds(c) \/ ReconcilerEmits(c) \/ ReconcilerCommits(c)

Next ==
  \/ \E r \in Runs : RunBegins(r) \/ Run(r)
  \/ \E m \in Members : Decide(m) \/ Member(m)
  \/ \E c \in Reconcilers : ReconcilerBegins(c) \/ Reconciler(c)
  \/ \E q \in Processes : Abort(q) \/ TimesOut(q)
  \/ DayPasses \/ InvoiceChanges \/ RulesChange

\* What has begun goes on: locks and connections are granted in the order they
\* are asked for, statements do time out, and not every transaction is rolled
\* back.  No fairness for members who have yet to decide, for runs that have yet
\* to start, or for the invoice, the calendar and the rules.
Fairness ==
  /\ WF_vars(\E q \in Processes : TimesOut(q))
  /\ SF_vars(\E r \in Runs : Run(r))
  /\ \A m \in Members : SF_vars(Member(m))
  /\ \A c \in Reconcilers : SF_vars(ReconcilerBegins(c) \/ Reconciler(c))

Spec == Init /\ [][Next]_vars /\ Fairness

----------------------------------------------------------------------------
(* What the proposals promise.                                             *)

\* The invoice has at most one actionable proposal, however many runs propose
\* at once, whatever was decided meanwhile.
OneActionableProposal == \A p, s \in Pending : p = s

\* A decision or supersession that stands is on record with the content that
\* the row has, and had when it was decided: no refresh slips in between.
DecidedIsOnRecord ==
  \A p \in Runs : proposal[p] # None =>
    /\ proposal[p].decision # None =>
         \E e \in events : /\ e.row = p /\ e.act = proposal[p].decision
                           /\ e.says = Says(e.act, proposal[p].content)
                           /\ After(e.act) = proposal[p].status
    /\ Is(p, "superseded") =>
         \E e \in events : e.row = p /\ e.act = "supersede" /\ e.says = Says(e.act, proposal[p].content)

\* A pending proposal that says other days than the invoice, or whose invoice is
\* gone, is brought up to date or leaves the list, even if no run ever proposes
\* again; unless the policy would not keep it pending, or a supersession that was
\* rolled back holds the event's key with other content.
Outdated(p) ==
  /\ Is(p, "pending")
  /\ \/ invoice = "missing"
     \/ invoice = "open" /\ proposal[p].content.days # today
SupersessionBlocked(p) ==
  \E e \in events : e.row = p /\ e.act = "supersede" /\ e.says # Says(e.act, proposal[p].content)
Neglected(p) ==
  /\ Outdated(p)
  /\ invoice = "open" => StatusFor(Refreshed(p, today)) = "pending"
  /\ invoice = "missing" => ~SupersessionBlocked(p)
ProposalFollowsInvoice == []<>(\A p \in Runs : ~Neglected(p))

\* A claim of withTenantScope's comment: every transaction of a member is
\* committed or rolled back, and its client released.
ClientsAreReleased == \A m \in Members : InTransaction(m) ~> ~InTransaction(m)
=============================================================================
