-------------------------- MODULE ExecutionOutbox --------------------------
(***************************************************************************)
(* The durable money mover of services/execution: PaymentIntentService     *)
(* hands an approved intent over to execution_outbox in one transaction,   *)
(* and outbox workers claim rows, call the rail and settle the intent.     *)
(*                                                                         *)
(* Every action is one database transaction, one provider call or one      *)
(* audit emission: whatever the code awaits between them may interleave.   *)
(* A worker keeps the rows of its batch as they were when it claimed them, *)
(* and writes rows by id without looking at their status or lock again.    *)
(***************************************************************************)
EXTENDS Naturals, FiniteSets, Rails

CONSTANTS
  Intents,        \* payment intents, all approved at the start
  TypeOf,         \* [Intents -> ActionTypes]
  AgentIntents,   \* the intents created by the agent a halt is about
  Calls,          \* execute and resume requests, at most one use each
  Workers,        \* outbox worker processes
  Nil,            \* no intent, no row
  Registered,     \* rails the RailRegistry was built with
  Credentials,    \* [ActionTypes -> sets of fields] resolveDispatchCredentials
  MaxDispatchAttempts,
  MaxTotalAttempts,
  BatchLimit,     \* the claim's LIMIT
  SlowWorkers,    \* a live worker may hold a row beyond staleSeconds
  MaxAborts,      \* bound: cycles cut short by a crash or an exception
  MaxFaults,      \* bound: rows whose settlement the database or the audit log fails
  MaxHalts        \* bound: uses of the kill switch

ASSUME ConstantsAssumption ==
  /\ Nil \notin Intents \cup Calls
  /\ TypeOf \in [Intents -> ActionTypes]
  /\ AgentIntents \subseteq Intents
  /\ Registered \subseteq LiveRails
  /\ MaxDispatchAttempts \in Nat \ {0}
  /\ MaxTotalAttempts \in Nat \ {0}
  /\ BatchLimit \in Nat \ {0}
  /\ SlowWorkers \in BOOLEAN
  /\ MaxAborts \in Nat
  /\ MaxFaults \in Nat
  /\ MaxHalts \in Nat

VARIABLES
  intent,      \* status of each payment intent
  hold,        \* status of the reservation behind each intent
  agent,       \* state of the creating agent
  callStep,    \* how far each API request has come
  callIntent,  \* the intent it is about, while it lasts
  row,         \* execution_outbox; a row is keyed by the call whose gate run
               \* made the policy decision in its idempotency key
  executions,  \* idempotency keys of the rows of the executions table
  moved,       \* transfers the providers have made for each intent
  known,       \* keys under which a provider has made a transfer
  late,        \* a record only: calls of a rail that each worker has made for
               \* the agent while it is quarantined
  after,       \* outcomes of the execute.after audit events of each row
  pc,          \* the next step of each worker
  batch,       \* the claimed rows a worker still has to process
  cur,         \* the row a worker is processing
  aborts, faults, halts  \* crashes, rows whose settlement failed, halts

requests == <<callStep, callIntent>>
effects == <<moved, known, late>>
memory == <<pc, batch, cur>>
budgets == <<aborts, faults, halts>>
vars == <<intent, hold, agent, requests, row, executions, effects, after, memory,
          budgets>>

IntentStates == {"approved", "paused", "rejected", "dispatching", "executed", "failed"}
HoldStates == {"none", "active", "consumed", "released"}
RowStates == {"pending", "dispatching", "dispatched", "settled", "failed", "reconciling"}
WorkerSteps == {"idle", "claim", "next", "guard", "dispatch", "audit", "record",
                "complete", "settle", "retry", "auditFailure", "failIntent",
                "park", "reconcile"}

\* The idempotency key pi:<intent>:<policy decision>: each execute call has its
\* own decision, made by its own gate run.
Keys == Intents \X Calls

\* elapsed: since the row was last stamped, its lock has outlived staleSeconds
\* (while it is in flight) or its backoff window has passed (otherwise).
Rows == [intent : Intents \cup {Nil}, key : Keys \cup {Nil},
         status : RowStates \cup {"none"}, attempts : Nat,
         receipt : BOOLEAN, locked : BOOLEAN, elapsed : BOOLEAN]

NoRow == [intent |-> Nil, key |-> Nil, status |-> "none", attempts |-> 0,
          receipt |-> FALSE, locked |-> FALSE, elapsed |-> FALSE]

Existing == {c \in Calls : row[c].status # "none"}

\* A claimed row as the worker remembers it.
Snapshots == [id : Calls, receipt : BOOLEAN]
SnapshotOf(c) == [id |-> c, receipt |-> row[c].receipt]

TypeOK ==
  /\ intent \in [Intents -> IntentStates]
  /\ hold \in [Intents -> HoldStates]
  /\ agent \in {"active", "quarantined"}
  /\ callStep \in [Calls -> {"idle", "execute", "resume", "done"}]
  /\ callIntent \in [Calls -> Intents \cup {Nil}]
  /\ row \in [Calls -> Rows]
  /\ executions \subseteq Calls
  /\ moved \in [Intents -> Nat]
  /\ known \subseteq Keys \cup {Nil}
  /\ late \in [Workers -> Nat]
  /\ after \in [Calls -> SUBSET {"ok", "failed"}]
  /\ pc \in [Workers -> WorkerSteps]
  /\ batch \in [Workers -> SUBSET Snapshots]
  /\ cur \in [Workers -> Calls \cup {Nil}]
  /\ aborts \in Nat
  /\ faults \subseteq Calls
  /\ halts \in Nat

Init ==
  /\ intent = [i \in Intents |-> "approved"]
  /\ hold = [i \in Intents |-> "none"]
  /\ agent = "active"
  /\ callStep = [c \in Calls |-> "idle"]
  /\ callIntent = [c \in Calls |-> Nil]
  /\ row = [c \in Calls |-> NoRow]
  /\ executions = {}
  /\ moved = [i \in Intents |-> 0]
  /\ known = {}
  /\ late = [w \in Workers |-> 0]
  /\ after = [c \in Calls |-> {}]
  /\ pc = [w \in Workers |-> "idle"]
  /\ batch = [w \in Workers |-> {}]
  /\ cur = [w \in Workers |-> Nil]
  /\ aborts = 0
  /\ faults = {}
  /\ halts = 0

----------------------------------------------------------------------------
(* The API process: PaymentIntentService and the kill switch.              *)

\* The gate's agent check; its other checks may refuse at any time.
AgentMayAct_Unchecked(i) == TRUE
AgentMayAct(i) == i \in AgentIntents => agent = "active"

Halted(i) == i \in AgentIntents /\ agent = "quarantined"

\* What the conditional UPDATE of the hand-off matches.
MayHandOver_Unconditional(i) == TRUE
MayHandOver(i) == intent[i] = "approved"

\* A request is over, and forgets what it was about.
Answer(c) ==
  /\ callStep' = [callStep EXCEPT ![c] = "done"]
  /\ callIntent' = [callIntent EXCEPT ![c] = Nil]

\* execute, up to the point where the gate has passed.
GateForExecute(c, i) ==
  /\ callStep[c] = "idle"
  /\ intent[i] = "approved"
  /\ AgentMayAct(i)
  /\ callStep' = [callStep EXCEPT ![c] = "execute"]
  /\ callIntent' = [callIntent EXCEPT ![c] = i]
  /\ UNCHANGED <<intent, hold, agent, row, executions, effects, after, memory,
                 budgets>>

\* execute's hand-off: one transaction moves the intent, holds the funds and
\* enqueues the row.
HandOff(c) ==
  LET i == callIntent[c] IN
  /\ callStep[c] = "execute"
  /\ MayHandOver(i)
  /\ intent' = [intent EXCEPT ![i] = "dispatching"]
  /\ hold' = IF RequiresReservation(TypeOf[i]) THEN [hold EXCEPT ![i] = "active"] ELSE hold
  /\ row' = [row EXCEPT ![c] = [intent |-> i, key |-> <<i, c>>, status |-> "pending",
                                attempts |-> 0, receipt |-> FALSE, locked |-> FALSE,
                                elapsed |-> TRUE]]
  /\ Answer(c)
  /\ UNCHANGED <<agent, executions, effects, after, memory, budgets>>

\* The hand-off rolls back: the intent has left approved, or the funds cannot
\* be reserved.  A resume whose intent has left paused ends the same way.
Abort(c) ==
  /\ \/ /\ callStep[c] = "execute"
        /\ ~MayHandOver(callIntent[c]) \/ RequiresReservation(TypeOf[callIntent[c]])
     \/ /\ callStep[c] = "resume"
        /\ intent[callIntent[c]] # "paused"
  /\ Answer(c)
  /\ UNCHANGED <<intent, hold, agent, row, executions, effects, after,
                 memory, budgets>>

Pause(i) ==
  /\ intent[i] = "approved"
  /\ intent' = [intent EXCEPT ![i] = "paused"]
  /\ UNCHANGED <<hold, agent, requests, row, executions, effects, after, memory,
                 budgets>>

\* resume re-runs the gate before it moves the intent back.
GateForResume(c, i) ==
  /\ callStep[c] = "idle"
  /\ intent[i] = "paused"
  /\ AgentMayAct(i)
  /\ callStep' = [callStep EXCEPT ![c] = "resume"]
  /\ callIntent' = [callIntent EXCEPT ![c] = i]
  /\ UNCHANGED <<intent, hold, agent, row, executions, effects, after, memory,
                 budgets>>

Resume(c) ==
  /\ callStep[c] = "resume"
  /\ intent[callIntent[c]] = "paused"
  /\ intent' = [intent EXCEPT ![callIntent[c]] = "approved"]
  /\ Answer(c)
  /\ UNCHANGED <<hold, agent, row, executions, effects, after, memory,
                 budgets>>

Reject(i) ==
  /\ intent[i] = "approved"
  /\ intent' = [intent EXCEPT ![i] = "rejected"]
  /\ UNCHANGED <<hold, agent, requests, row, executions, effects, after, memory,
                 budgets>>

\* haltAgent: one transaction quarantines the agent and pauses its approved
\* intents.
Halt ==
  /\ halts < MaxHalts
  /\ halts' = halts + 1
  /\ agent' = "quarantined"
  /\ intent' = [i \in Intents |->
                  IF i \in AgentIntents /\ intent[i] = "approved" THEN "paused"
                                                                  ELSE intent[i]]
  /\ UNCHANGED <<hold, requests, row, executions, effects, after, memory,
                 aborts, faults>>

Restore ==
  /\ agent = "quarantined"
  /\ agent' = "active"
  /\ late' = [w \in Workers |-> 0]
  /\ UNCHANGED <<intent, hold, requests, row, executions, moved, known, after, memory,
                 budgets>>

----------------------------------------------------------------------------
(* The outbox worker: runOutboxCycle and processClaimedRow.                *)

InFlight == {"dispatching", "dispatched"}

Held(c) == \E w \in Workers : cur[w] = c \/ \E s \in batch[w] : s.id = c

\* Time, as far as the outbox reads it: a lock outlives staleSeconds, or the
\* backoff window of a failed attempt passes.
TimePasses(c) ==
  /\ ~row[c].elapsed
  /\ \/ row[c].status \in InFlight /\ row[c].locked /\ (SlowWorkers \/ ~Held(c))
     \/ row[c].status \in {"pending", "reconciling"}
  /\ row' = [row EXCEPT ![c].elapsed = TRUE]
  /\ UNCHANGED <<intent, hold, agent, requests, executions, effects, after, memory,
                 budgets>>

Stale_DispatchedOnly(c) == row[c].status = "dispatched" /\ row[c].locked /\ row[c].elapsed
Stale_DispatchingOnly(c) == row[c].status = "dispatching" /\ row[c].locked /\ row[c].elapsed
Stale_AnyAge(c) == row[c].status \in InFlight /\ row[c].locked
Stale(c) == row[c].status \in InFlight /\ row[c].locked /\ row[c].elapsed

\* A cycle begins by returning every row with a stale lock to pending.
ReclaimStale(w) ==
  /\ pc[w] = "idle"
  /\ row' = [c \in Calls |->
               IF Stale(c)
               THEN [row[c] EXCEPT !.status = "pending", !.locked = FALSE]
               ELSE row[c]]
  /\ pc' = [pc EXCEPT ![w] = "claim"]
  /\ UNCHANGED <<intent, hold, agent, requests, executions, effects, after, batch, cur,
                 budgets>>

Claimable_OneMore(c) ==
  /\ row[c].status \in {"pending", "reconciling"}
  /\ row[c].attempts <= MaxTotalAttempts
  /\ row[c].elapsed
Claimable_PendingOnly(c) ==
  /\ row[c].status = "pending"
  /\ row[c].attempts < MaxTotalAttempts
  /\ row[c].elapsed
Claimable_NotInFlight(c) ==
  /\ row[c].status \in RowStates \ InFlight
  /\ row[c].attempts < MaxTotalAttempts
Claimable(c) ==
  /\ row[c].status \in {"pending", "reconciling"}
  /\ row[c].attempts < MaxTotalAttempts
  /\ row[c].elapsed

Claimed(r) == [r EXCEPT !.status = "dispatching", !.locked = TRUE, !.elapsed = FALSE]

\* The claim stamps a lock on up to BatchLimit rows and copies them out.
ClaimNext(w) ==
  LET due == {c \in Calls : Claimable(c)} IN
  /\ pc[w] = "claim"
  /\ \E taken \in SUBSET due :
       /\ \/ taken = due /\ Cardinality(due) <= BatchLimit
          \/ Cardinality(due) > BatchLimit /\ Cardinality(taken) = BatchLimit
       /\ row' = [c \in Calls |->
                    IF c \in taken THEN Claimed(row[c]) ELSE row[c]]
       /\ batch' = [batch EXCEPT ![w] = {SnapshotOf(c) : c \in taken}]
  /\ pc' = [pc EXCEPT ![w] = "next"]
  /\ UNCHANGED <<intent, hold, agent, requests, executions, effects, after, cur,
                 budgets>>

\* processClaimedRow starts on a row: with a stored receipt it only settles.
FirstStep_NoCompletion(receipt) == IF receipt THEN "settle" ELSE "guard"
FirstStep_NoDispatch(receipt) == "complete"
FirstStep(receipt) == IF receipt THEN "complete" ELSE "guard"

TakeRow(w) ==
  /\ pc[w] = "next"
  /\ \E s \in batch[w] :
       /\ batch' = [batch EXCEPT ![w] = @ \ {s}]
       /\ cur' = [cur EXCEPT ![w] = s.id]
       /\ pc' = [pc EXCEPT ![w] = FirstStep(s.receipt)]
  /\ UNCHANGED <<intent, hold, agent, requests, row, executions, effects, after,
                 budgets>>

EndCycle(w) ==
  /\ pc[w] = "next"
  /\ batch[w] = {}
  /\ pc' = [pc EXCEPT ![w] = "idle"]
  /\ UNCHANGED <<intent, hold, agent, requests, row, executions, effects, after,
                 batch, cur, budgets>>

\* beforeDispatch reads the agent in a transaction of its own.
BeforeDispatch(w) ==
  /\ pc[w] = "guard"
  /\ pc' = [pc EXCEPT ![w] = IF AgentMayAct(row[cur[w]].intent) THEN "dispatch"
                                                                ELSE "reconcile"]
  /\ UNCHANGED <<intent, hold, agent, requests, row, executions, effects, after,
                 batch, cur, budgets>>

\* The step a worker goes to when dispatch returns or throws, and whether the
\* provider accepted it: a receipt, an error after the transfer was made (a
\* timeout), an error before it, an error the rail tags permanent.
Outcomes(type) ==
  IF ReachesProvider(type, Registered, Credentials[type])
  THEN {<<IF ReceiptAccepted(type) THEN "audit" ELSE "reconcile", TRUE>>,
        <<"retry", TRUE>>, <<"retry", FALSE>>}
       \cup IF TagsPermanent(type) THEN {<<"auditFailure", FALSE>>} ELSE {}
  ELSE {<<"retry", FALSE>>}

\* The idempotency key a rail is called with: the one stored in the row.
KeySent_PerAttempt(c) == <<row[c].key, row[c].attempts>>
KeySent(c) == row[c].key

\* Whether a provider that accepts the call makes a transfer: a keyed rail makes
\* none under a key it has made one under.
MakesTransfer(c) == IdempotencyKeyed(TypeOf[row[c].intent]) => KeySent(c) \notin known

Dispatch(w) ==
  LET c == cur[w]
      i == row[c].intent IN
  /\ pc[w] = "dispatch"
  /\ \E o \in Outcomes(TypeOf[i]) :
       /\ pc' = [pc EXCEPT ![w] = o[1]]
       /\ moved' = IF o[2] /\ MakesTransfer(c) THEN [moved EXCEPT ![i] = @ + 1] ELSE moved
       /\ known' = IF o[2] THEN known \cup {KeySent(c)} ELSE known
  /\ late' = IF Halted(i) THEN [late EXCEPT ![w] = @ + 1] ELSE late
  /\ UNCHANGED <<intent, hold, agent, requests, row, executions, after, batch, cur,
                 budgets>>

\* The execute.after event goes out before the receipt is stored.
EmitAfter(w) ==
  /\ pc[w] = "audit"
  /\ after' = [after EXCEPT ![cur[w]] = @ \cup {"ok"}]
  /\ pc' = [pc EXCEPT ![w] = "record"]
  /\ UNCHANGED <<intent, hold, agent, requests, row, executions, effects, batch, cur,
                 budgets>>

MarkDispatched(w) ==
  /\ pc[w] = "record"
  /\ row' = [row EXCEPT ![cur[w]] = [@ EXCEPT !.status = "dispatched", !.receipt = TRUE]]
  /\ pc' = [pc EXCEPT ![w] = "complete"]
  /\ UNCHANGED <<intent, hold, agent, requests, executions, effects, after, batch, cur,
                 budgets>>

Consume_Forgotten(i) == hold
Consume(i) == [hold EXCEPT ![i] = IF @ = "active" THEN "consumed" ELSE @]

\* A settlement fails, for the first time or again: its transaction, or the
\* audit emission after it.
SettlementFails(c) ==
  /\ faults' = faults \cup {c}
  /\ Cardinality(faults') <= MaxFaults

\* completeExecution commits the execution row, the status and the reservation;
\* the audit emission after the commit may still throw.
CompleteExecution(w) ==
  LET i == row[cur[w]].intent IN
  /\ pc[w] = "complete"
  /\ intent[i] = "dispatching"
  /\ ExecutionsAdmits(TypeOf[i])
  /\ cur[w] \notin executions
  /\ executions' = executions \cup {cur[w]}
  /\ intent' = [intent EXCEPT ![i] = "executed"]
  /\ hold' = Consume(i)
  /\ \/ pc' = [pc EXCEPT ![w] = "settle"] /\ faults' = faults
     \/ pc' = [pc EXCEPT ![w] = "retry"] /\ SettlementFails(cur[w])
  /\ UNCHANGED <<agent, requests, row, effects, after, batch, cur, aborts, halts>>

\* completeExecution finds the intent executed by an earlier run.
AlreadyExecuted(w) ==
  /\ pc[w] = "complete"
  /\ intent[row[cur[w]].intent] = "executed"
  /\ pc' = [pc EXCEPT ![w] = "settle"]
  /\ UNCHANGED <<intent, hold, agent, requests, row, executions, effects, after,
                 batch, cur, budgets>>

\* completeExecution throws: the status, a constraint of the executions table,
\* or the database failing (a fault).
CompleteThrows(w) ==
  LET i == row[cur[w]].intent IN
  /\ pc[w] = "complete"
  /\ \/ /\ \/ intent[i] \notin {"dispatching", "executed"}
           \/ /\ intent[i] = "dispatching"
              /\ ~ExecutionsAdmits(TypeOf[i]) \/ cur[w] \in executions
        /\ faults' = faults
     \/ SettlementFails(cur[w])
  /\ pc' = [pc EXCEPT ![w] = "retry"]
  /\ UNCHANGED <<intent, hold, agent, requests, row, executions, effects, after,
                 batch, cur, aborts, halts>>

MarkSettled(w) ==
  /\ pc[w] = "settle"
  /\ row' = [row EXCEPT ![cur[w]].status = "settled"]
  /\ pc' = [pc EXCEPT ![w] = "next"]
  /\ cur' = [cur EXCEPT ![w] = Nil]
  /\ UNCHANGED <<intent, hold, agent, requests, executions, effects, after, batch,
                 budgets>>

\* A failed attempt: counted, unlocked, and its backoff clock stamped.
Attempted(r, status) ==
  [r EXCEPT !.status = status, !.attempts = @ + 1, !.locked = FALSE, !.elapsed = FALSE]

MarkFailed(w) ==
  LET r == row[cur[w]] IN
  /\ pc[w] = "retry"
  /\ row' = [row EXCEPT ![cur[w]] =
               Attempted(r, IF r.attempts + 1 >= MaxDispatchAttempts THEN "reconciling"
                                                                     ELSE "pending")]
  /\ pc' = [pc EXCEPT ![w] = "next"]
  /\ cur' = [cur EXCEPT ![w] = Nil]
  /\ UNCHANGED <<intent, hold, agent, requests, executions, effects, after, batch,
                 budgets>>

MarkReconciling(w) ==
  /\ pc[w] = "reconcile"
  /\ row' = [row EXCEPT ![cur[w]] = Attempted(row[cur[w]], "reconciling")]
  /\ pc' = [pc EXCEPT ![w] = "next"]
  /\ cur' = [cur EXCEPT ![w] = Nil]
  /\ UNCHANGED <<intent, hold, agent, requests, executions, effects, after, batch,
                 budgets>>

\* failPermanently closes the audit pair, then fails the intent, then parks the
\* row.
EmitFailureAfter(w) ==
  /\ pc[w] = "auditFailure"
  /\ after' = [after EXCEPT ![cur[w]] = @ \cup {"failed"}]
  /\ pc' = [pc EXCEPT ![w] = "failIntent"]
  /\ UNCHANGED <<intent, hold, agent, requests, row, executions, effects, batch, cur,
                 budgets>>

MayFail_ByStateMachine(i) == intent[i] \in {"approved", "dispatching", "executed"}
MayFail(i) == intent[i] = "dispatching"

Release_Forgotten(i) == hold
Release(i) == [hold EXCEPT ![i] = IF @ = "active" THEN "released" ELSE @]

\* failExecution commits; the audit emission after the commit may still throw.
FailExecution(w) ==
  LET i == row[cur[w]].intent IN
  /\ pc[w] = "failIntent"
  /\ MayFail(i)
  /\ intent' = [intent EXCEPT ![i] = "failed"]
  /\ hold' = Release(i)
  /\ \/ pc' = [pc EXCEPT ![w] = "park"] /\ faults' = faults
     \/ pc' = [pc EXCEPT ![w] = "reconcile"] /\ SettlementFails(cur[w])
  /\ UNCHANGED <<agent, requests, row, executions, effects, after, batch, cur,
                 aborts, halts>>

\* failExecution throws: the intent is no longer dispatching, or a fault.
FailThrows(w) ==
  /\ pc[w] = "failIntent"
  /\ \/ ~MayFail(row[cur[w]].intent) /\ faults' = faults
     \/ SettlementFails(cur[w])
  /\ pc' = [pc EXCEPT ![w] = "reconcile"]
  /\ UNCHANGED <<intent, hold, agent, requests, row, executions, effects, after,
                 batch, cur, aborts, halts>>

MarkPermanentlyFailed(w) ==
  /\ pc[w] = "park"
  /\ row' = [row EXCEPT ![cur[w]] = Attempted(row[cur[w]], "failed")]
  /\ pc' = [pc EXCEPT ![w] = "next"]
  /\ cur' = [cur EXCEPT ![w] = Nil]
  /\ UNCHANGED <<intent, hold, agent, requests, executions, effects, after, batch,
                 budgets>>

\* The cycle ends early: the process dies, or an audit emission or an outbox
\* write throws out of processClaimedRow.  The rows stay locked.
CycleAborts(w) ==
  /\ pc[w] # "idle"
  /\ aborts < MaxAborts
  /\ aborts' = aborts + 1
  /\ pc' = [pc EXCEPT ![w] = "idle"]
  /\ batch' = [batch EXCEPT ![w] = {}]
  /\ cur' = [cur EXCEPT ![w] = Nil]
  /\ UNCHANGED <<intent, hold, agent, requests, row, executions, effects, after,
                 faults, halts>>

----------------------------------------------------------------------------
Request(c) ==
  \/ \E i \in Intents : GateForExecute(c, i) \/ GateForResume(c, i)
  \/ HandOff(c) \/ Resume(c) \/ Abort(c)

Operator == (\E i \in Intents : Pause(i) \/ Reject(i)) \/ Halt \/ Restore

ProcessRow(w) ==
  \/ BeforeDispatch(w) \/ Dispatch(w) \/ EmitAfter(w) \/ MarkDispatched(w)
  \/ CompleteExecution(w) \/ AlreadyExecuted(w) \/ CompleteThrows(w) \/ MarkSettled(w)
  \/ MarkFailed(w) \/ MarkReconciling(w)
  \/ EmitFailureAfter(w) \/ FailExecution(w) \/ FailThrows(w) \/ MarkPermanentlyFailed(w)

Cycle(w) ==
  ReclaimStale(w) \/ ClaimNext(w) \/ TakeRow(w) \/ EndCycle(w) \/ ProcessRow(w)

Next ==
  \/ \E c \in Calls : Request(c) \/ TimePasses(c)
  \/ Operator
  \/ \E w \in Workers : Cycle(w) \/ CycleAborts(w)

\* startOutboxWorker polls for ever and clocks advance; nobody is obliged to
\* send a request or to operate the kill switch.
Fairness ==
  /\ \A w \in Workers : WF_vars(Cycle(w))
  /\ \A c \in Calls : WF_vars(TimePasses(c))

Spec == Init /\ [][Next]_vars /\ Fairness

----------------------------------------------------------------------------
(* Safety.                                                                 *)

RowsOf(i) == {c \in Existing : row[c].intent = i}

\* However execute, pause and resume interleave, an intent is handed to the
\* outbox once, and exactly when its status says so: the transaction of
\* PaymentIntentService.execute is all or nothing.
HandedOverOnce ==
  \A i \in Intents :
    Cardinality(RowsOf(i)) =
      IF intent[i] \in {"dispatching", "executed", "failed"} THEN 1 ELSE 0

HoldFor(type, status) ==
  IF ~RequiresReservation(type) THEN "none"
  ELSE CASE status = "dispatching" -> "active"
         [] status = "executed" -> "consumed"
         [] status = "failed" -> "released"
         [] OTHER -> "none"

\* The reservation is active exactly while the outbox owes the intent an
\* outcome, consumed exactly when it executed, released exactly when it failed
\* (completeExecution, failExecution).
FundsFollowIntent == \A i \in Intents : hold[i] = HoldFor(TypeOf[i], intent[i])

\* A settled intent has one row in the executions table, under the key of its
\* outbox row, and no other intent has any: completeExecution may run again
\* after a crash, or in two workers at once.
OneExecutionPerSettlement ==
  executions = {c \in Existing : intent[row[c].intent] = "executed"}

\* A row leaves the queue for good only once its intent has that outcome: no
\* intent is left dispatching with nobody working on it (markSettled and
\* markPermanentlyFailed come last).
RowsOutliveTheirIntents ==
  \A c \in Existing :
    /\ row[c].status = "settled" => intent[row[c].intent] = "executed"
    /\ row[c].status = "failed" => intent[row[c].intent] = "failed"

\* An intent executes only after the provider moved its money and after the
\* execute.after event closed the audit pair, also when the settlement is
\* resumed from a stored receipt by another worker.
ExecutedWasPaidAndAudited ==
  \A c \in Existing :
    intent[row[c].intent] = "executed" =>
      moved[row[c].intent] > 0 /\ "ok" \in after[c]

\* On the rail that honours the outbox's idempotency key, retries, crashes and
\* re-claims never pay twice (OutboxService.reclaimStale).  The key names the
\* policy decision of one execute call, so this needs both that an intent is
\* handed over by one call only and that every attempt sends the key of its row.
KeyedRailPaysOnce ==
  \A i \in Intents : IdempotencyKeyed(TypeOf[i]) => moved[i] <= 1

----------------------------------------------------------------------------
(* Safety while no live worker outstays its lock (~SlowWorkers).           *)

\* Two workers never work on the same row, though a claim copies rows out and
\* reclaimStale takes locks away.
ClaimsAreExclusive ==
  \A c \in Calls :
    Cardinality({w \in Workers : cur[w] = c})
    + Cardinality({x \in Workers \X Snapshots : x[2] \in batch[x[1]] /\ x[2].id = c}) <= 1

\* attempt_count cannot grow past the ceiling at which claimNext stops.
AttemptsStayUnderCeiling ==
  \A c \in Calls : row[c].attempts <= MaxTotalAttempts

\* On a rail without an idempotency key a retry pays again: at most once for each
\* attempt the ceiling allows and each cycle cut short, since a stored receipt
\* ends the calls whoever takes the row next (processClaimedRow).
TransfersAreAccountedFor ==
  \A i \in Intents : moved[i] <= MaxTotalAttempts + aborts

\* Every row in flight carries the lock by which reclaimStale finds it.
InFlightIsRecoverable ==
  \A c \in Calls : row[c].status \in InFlight => row[c].locked

\* A row that reached its outcome is never queued again.
OutcomesAreFinal ==
  [][\A c \in Calls : row[c].status \in {"settled", "failed"} => row'[c] = row[c]]_vars

----------------------------------------------------------------------------
(* The kill switch, and progress.                                          *)

\* A halt is overtaken by at most one rail call of each worker: the one whose
\* guard had read the agent before (outboxBeforeDispatch reads it in a transaction
\* that ends before the rail is called).  Nothing else that was queued, claimed
\* in the same batch, retried or re-claimed gets through until the agent is
\* restored.
HaltOvertakesOneCallEach == \A w \in Workers : late[w] <= 1

Parked(c) == row[c].status = "reconciling" /\ row[c].attempts >= MaxTotalAttempts

\* Every row handed over is eventually settled, failed, or parked for
\* operations at the attempt ceiling.
RowsResolve ==
  \A c \in Calls :
    []<>(row[c].status \in {"none", "settled", "failed"} \/ Parked(c))

\* A receipt the row can be left with: its settlement failed, or the executions
\* table refuses its rail every time.
MayStayUnsettled(c) ==
  Parked(c) /\ (c \in faults \/ ~ExecutionsAdmits(TypeOf[row[c].intent]))

\* Once a receipt is stored the payment is settled, whatever crashes in between
\* and also when the settlement throws and the row waits as reconciling: the
\* resumed run converges on the settlement (worker.ts, settleFromReceipt).  Two
\* things excuse it: an earlier run of the row failed the intent, or the failed
\* settlements used up the row's attempts.
StoredReceiptSettles ==
  \A c \in Calls :
    []<>(row[c].receipt =>
           \/ row[c].status = "settled"
           \/ row[c].intent # Nil /\ intent[row[c].intent] = "failed"
           \/ MayStayUnsettled(c))

----------------------------------------------------------------------------
(* What the outbox promises its callers, as Settlement states it.          *)

Phase(i) ==
  CASE intent[i] \in {"approved", "paused"} -> "open"
    [] intent[i] = "rejected" -> "closed"
    [] intent[i] = "dispatching" -> "committed"
    [] intent[i] = "executed" -> "settled"
    [] intent[i] = "failed" -> "failed"

Funds(i) ==
  CASE hold[i] \in {"none", "released"} -> "free"
    [] hold[i] = "active" -> "held"
    [] hold[i] = "consumed" -> "spent"

Promise == INSTANCE Settlement WITH
  Reserving <- {i \in Intents : RequiresReservation(TypeOf[i])},
  phase <- [i \in Intents |-> Phase(i)],
  funds <- [i \in Intents |-> Funds(i)],
  paid <- {i \in Intents : moved[i] > 0},
  recorded <- {row[c].intent : c \in executions}

\* Each intent is committed, paid, settled and recorded the way Settlement
\* allows, with the funds following (execution_outbox hidden).
KeepsPromise == Promise!Spec

----------------------------------------------------------------------------
(* What the repository says of the outbox and the code does not do.        *)

\* "Outbox idempotency (same idempotency_key -> one economic effect)".
OneEconomicEffect == \A i \in Intents : moved[i] <= 1
============================================================================
