----------------------- MODULE ExecutionOutboxProofs -----------------------
(***************************************************************************)
(* Proofs about ExecutionOutbox, for any intents, calls, workers, rails    *)
(* and bounds, with live workers slow or not.  What holds only while live  *)
(* workers keep within their locks assumes ~SlowWorkers.                   *)
(***************************************************************************)
EXTENDS ExecutionOutbox, FiniteSetTheorems, TLAPS

\* Two abbreviations of the specification are expanded throughout: the tuple of
\* what the rails did, and the end of a request.
USE DEF effects, Answer

\* A row written to the table leaves it a table of rows, whether or not the
\* worker that writes still holds a row.
LEMMA WriteRow ==
  ASSUME NEW f \in [Calls -> Rows], NEW c, NEW r, c \in Calls => r \in Rows
  PROVE  [f EXCEPT ![c] = r] \in [Calls -> Rows]
  OBVIOUS

\* The rows the outbox's UPDATE statements write are rows: a new lock, status,
\* receipt or attempt count leaves the other columns as they are.
LEMMA RewrittenRow ==
  ASSUME NEW r \in Rows
  PROVE  /\ \A s \in RowStates : [r EXCEPT !.status = s] \in Rows
         /\ [r EXCEPT !.status = "pending", !.locked = FALSE] \in Rows
         /\ [r EXCEPT !.status = "dispatched", !.receipt = TRUE] \in Rows
         /\ [r EXCEPT !.elapsed = TRUE] \in Rows
         /\ Claimed(r) \in Rows
         /\ \A s \in RowStates : Attempted(r, s) \in Rows
<1>1. \A s \in RowStates : [r EXCEPT !.status = s] \in Rows
  BY DEF Rows
<1>2. [r EXCEPT !.status = "pending", !.locked = FALSE] \in Rows
  BY DEF Rows, RowStates
<1>3. [r EXCEPT !.status = "dispatched", !.receipt = TRUE] \in Rows
  BY DEF Rows, RowStates
<1>4. [r EXCEPT !.elapsed = TRUE] \in Rows
  BY DEF Rows
<1>5. Claimed(r) \in Rows
  BY DEF Claimed, Rows, RowStates
<1>6. ASSUME NEW s \in RowStates PROVE Attempted(r, s) \in Rows
  <2>1. r.attempts + 1 \in Nat
    BY DEF Rows
  <2>2. QED
    BY <2>1 DEF Attempted, Rows
<1>7. QED
  BY <1>1, <1>2, <1>3, <1>4, <1>5, <1>6

\* The status each UPDATE statement of the outbox leaves behind.
LEMMA WrittenStatus ==
  ASSUME NEW r \in Rows, NEW s
  PROVE  /\ [r EXCEPT !.status = "pending", !.locked = FALSE].status = "pending"
         /\ [r EXCEPT !.status = "dispatched", !.receipt = TRUE].status = "dispatched"
         /\ [r EXCEPT !.status = s].status = s
         /\ Claimed(r).status = "dispatching"
         /\ Attempted(r, s).status = s
  BY DEF Rows, Claimed, Attempted

\* What a worker does when dispatch returns or throws: it closes the audit pair
\* of a receipt only when the money has moved.
LEMMA OutcomeSteps ==
  ASSUME NEW type, NEW o \in Outcomes(type)
  PROVE  /\ o[1] \in {"audit", "reconcile", "retry", "auditFailure"}
         /\ o[2] \in BOOLEAN
         /\ o[1] = "audit" => o[2]
<1>1. \/ o = <<IF ReceiptAccepted(type) THEN "audit" ELSE "reconcile", TRUE>>
      \/ o = <<"retry", TRUE>>
      \/ o = <<"retry", FALSE>>
      \/ o = <<"auditFailure", FALSE>>
  BY DEF Outcomes
<1>2. CASE o = <<IF ReceiptAccepted(type) THEN "audit" ELSE "reconcile", TRUE>>
  <2>1. o[2] = TRUE /\ o[1] \in {"audit", "reconcile"}
    BY <1>2
  <2>2. QED
    BY <2>1
<1>3. CASE o = <<"retry", TRUE>>
  BY <1>3
<1>4. CASE o = <<"retry", FALSE>>
  BY <1>4
<1>5. CASE o = <<"auditFailure", FALSE>>
  BY <1>5
<1>6. QED
  BY <1>1, <1>2, <1>3, <1>4, <1>5

WorkersHoldRows ==
  \A w \in Workers : pc[w] \notin {"idle", "claim", "next"} => cur[w] \in Calls

CallsNameIntents ==
  \A c \in Calls : callStep[c] \in {"execute", "resume"} => callIntent[c] \in Intents

Typed == TypeOK /\ WorkersHoldRows /\ CallsNameIntents

\* Only an API request moves an API request on.
LEMMA RequestWriters ==
  ASSUME [Next]_vars
  PROVE  UNCHANGED requests \/ \E c \in Calls : Request(c)
<1>1. ASSUME NEW c \in Calls, TimePasses(c) PROVE UNCHANGED requests
  BY <1>1 DEF TimePasses
<1>2. ASSUME Operator PROVE UNCHANGED requests
  BY <1>2 DEF Operator, Pause, Reject, Halt, Restore
<1>3. ASSUME NEW w \in Workers, Cycle(w) \/ CycleAborts(w) PROVE UNCHANGED requests
  <2>1. CASE ReclaimStale(w) \/ ClaimNext(w) \/ TakeRow(w) \/ EndCycle(w) \/ CycleAborts(w)
    BY <2>1 DEF ReclaimStale, ClaimNext, TakeRow, EndCycle, CycleAborts
  <2>2. CASE ProcessRow(w)
    BY <2>2 DEF ProcessRow, BeforeDispatch, Dispatch, EmitAfter, MarkDispatched,
       CompleteExecution, AlreadyExecuted, CompleteThrows, MarkSettled, MarkFailed,
       MarkReconciling, EmitFailureAfter, FailExecution, FailThrows, MarkPermanentlyFailed
  <2>3. QED
    BY <1>3, <2>1, <2>2 DEF Cycle
<1>4. CASE UNCHANGED vars
  BY <1>4 DEF vars
<1>5. QED
  BY <1>1, <1>2, <1>3, <1>4 DEF Next

\* Every transaction of the API and of the worker writes what the columns and
\* the worker's memory can hold; a worker in the middle of a row holds one.
LEMMA TypedInvariant == Spec => []Typed
<1>1. Init => Typed
  BY ConstantsAssumption
  DEF Init, Typed, TypeOK, WorkersHoldRows, CallsNameIntents, IntentStates, HoldStates, Rows, NoRow,
      Snapshots, WorkerSteps
<1>2. Typed /\ [Next]_vars => TypeOK'
  <2> SUFFICES ASSUME Typed, [Next]_vars PROVE TypeOK'
    OBVIOUS
  <2> USE ConstantsAssumption DEF Typed, TypeOK, requests, memory, budgets
  <2>1. ASSUME NEW c \in Calls, NEW i \in Intents, GateForExecute(c, i) PROVE TypeOK'
    BY <2>1 DEF GateForExecute
  <2>2. ASSUME NEW c \in Calls, NEW i \in Intents, GateForResume(c, i) PROVE TypeOK'
    BY <2>2 DEF GateForResume
  <2>3. ASSUME NEW c \in Calls, HandOff(c) PROVE TypeOK'
    <3>1. intent' \in [Intents -> IntentStates]
      BY <2>3 DEF HandOff, IntentStates
    <3>2. hold' \in [Intents -> HoldStates]
      BY <2>3 DEF HandOff, HoldStates
    <3>3. row' \in [Calls -> Rows]
      <4>1. callIntent[c] \in Intents
        BY <2>3 DEF HandOff, CallsNameIntents
      <4>2. QED
        BY <2>3, <4>1 DEF HandOff, Rows, RowStates, Keys
    <3>4. QED
      BY <2>3, <3>1, <3>2, <3>3 DEF HandOff
  <2>4. ASSUME NEW c \in Calls, Resume(c) PROVE TypeOK'
    BY <2>4 DEF Resume, IntentStates
  <2>5. ASSUME NEW c \in Calls, Abort(c) PROVE TypeOK'
    BY <2>5 DEF Abort
  <2>6. ASSUME NEW i \in Intents, Pause(i) \/ Reject(i) PROVE TypeOK'
    BY <2>6 DEF Pause, Reject, IntentStates
  <2>7. CASE Halt
    BY <2>7 DEF Halt, IntentStates
  <2>8. CASE Restore
    BY <2>8 DEF Restore
  <2>9. ASSUME NEW c \in Calls, TimePasses(c) PROVE TypeOK'
    <3>1. row' = [row EXCEPT ![c] = [row[c] EXCEPT !.elapsed = TRUE]]
      BY <2>9 DEF TimePasses
    <3>2. row' \in [Calls -> Rows]
      BY <3>1, WriteRow, RewrittenRow
    <3>3. QED
      BY <2>9, <3>2 DEF TimePasses
  <2>10. ASSUME NEW w \in Workers, ReclaimStale(w) PROVE TypeOK'
    <3>1. row' \in [Calls -> Rows]
      BY <2>10, RewrittenRow DEF ReclaimStale
    <3>2. QED
      BY <2>10, <3>1 DEF ReclaimStale, WorkerSteps
  <2>11. ASSUME NEW w \in Workers, ClaimNext(w) PROVE TypeOK'
    <3>1. row' \in [Calls -> Rows]
      <4>1. PICK taken \in SUBSET {c \in Calls : Claimable(c)} :
              row' = [c \in Calls |-> IF c \in taken THEN Claimed(row[c]) ELSE row[c]]
        BY <2>11 DEF ClaimNext
      <4>2. QED
        BY <4>1, RewrittenRow
    <3>2. \A c \in Calls : SnapshotOf(c) \in Snapshots
      BY DEF SnapshotOf, Snapshots, Rows
    <3>3. batch' \in [Workers -> SUBSET Snapshots]
      BY <2>11, <3>2 DEF ClaimNext
    <3>4. QED
      BY <2>11, <3>1, <3>3 DEF ClaimNext, WorkerSteps
  <2>12. ASSUME NEW w \in Workers, TakeRow(w) PROVE TypeOK'
    BY <2>12 DEF TakeRow, FirstStep, Snapshots, WorkerSteps
  <2>13. ASSUME NEW w \in Workers, EndCycle(w) \/ BeforeDispatch(w) PROVE TypeOK'
    BY <2>13 DEF EndCycle, BeforeDispatch, WorkerSteps
  <2>14. ASSUME NEW w \in Workers, Dispatch(w) PROVE TypeOK'
    <3> DEFINE c == cur[w]
               i == row[c].intent
    <3>1. PICK o \in Outcomes(TypeOf[i]) :
            /\ pc' = [pc EXCEPT ![w] = o[1]]
            /\ moved' = IF o[2] /\ MakesTransfer(c) THEN [moved EXCEPT ![i] = @ + 1] ELSE moved
            /\ known' = IF o[2] THEN known \cup {KeySent(c)} ELSE known
      BY <2>14 DEF Dispatch
    <3>2. o[1] \in WorkerSteps
      BY OutcomeSteps DEF WorkerSteps
    <3>3. moved' \in [Intents -> Nat]
      <4>1. i \in Intents => moved[i] + 1 \in Nat
        OBVIOUS
      <4>2. moved' = moved \/ moved' = [moved EXCEPT ![i] = moved[i] + 1]
        BY <3>1
      <4> HIDE DEF i
      <4>3. QED
        BY <4>1, <4>2
    <3>4. known' \subseteq Keys \cup {Nil}
      <4>1. c \in Calls
        BY <2>14 DEF Dispatch, WorkersHoldRows
      <4>2. KeySent(c) \in Keys \cup {Nil}
        BY <4>1 DEF KeySent, Rows
      <4>3. QED
        BY <3>1, <4>2
    <3>5. late' \in [Workers -> Nat]
      BY <2>14 DEF Dispatch
    <3>6. QED
      BY <2>14, <3>1, <3>2, <3>3, <3>4, <3>5 DEF Dispatch
  <2>15. ASSUME NEW w \in Workers, EmitAfter(w) \/ EmitFailureAfter(w) PROVE TypeOK'
    BY <2>15 DEF EmitAfter, EmitFailureAfter, WorkerSteps
  <2>16. ASSUME NEW w \in Workers, MarkDispatched(w) \/ MarkSettled(w) PROVE TypeOK'
    <3>1. row[cur[w]] \in Rows
      BY <2>16 DEF MarkDispatched, MarkSettled, WorkersHoldRows
    <3>2. CASE MarkDispatched(w)
      <4>1. [row[cur[w]] EXCEPT !.status = "dispatched", !.receipt = TRUE] \in Rows
        BY <3>1, RewrittenRow
      <4>2. row' \in [Calls -> Rows]
        BY <3>2, <4>1 DEF MarkDispatched
      <4>3. QED
        BY <3>2, <4>2 DEF MarkDispatched, WorkerSteps
    <3>3. CASE MarkSettled(w)
      <4>1. [row[cur[w]] EXCEPT !.status = "settled"] \in Rows
        BY <3>1, RewrittenRow DEF RowStates
      <4>2. row' \in [Calls -> Rows]
        BY <3>3, <4>1 DEF MarkSettled
      <4>3. QED
        BY <3>3, <4>2 DEF MarkSettled, WorkerSteps
    <3>4. QED
      BY <2>16, <3>2, <3>3 DEF MarkDispatched, MarkSettled
  <2>17. ASSUME NEW w \in Workers, CompleteExecution(w) PROVE TypeOK'
    <3>1. executions' \subseteq Calls
      BY <2>17 DEF CompleteExecution, WorkersHoldRows
    <3>2. intent' \in [Intents -> IntentStates]
      BY <2>17 DEF CompleteExecution, IntentStates
    <3>3. hold' \in [Intents -> HoldStates]
      BY <2>17 DEF CompleteExecution, Consume, HoldStates
    <3>4. faults' \subseteq Calls
      BY <2>17 DEF CompleteExecution, SettlementFails, WorkersHoldRows
    <3>5. QED
      BY <2>17, <3>1, <3>2, <3>3, <3>4 DEF CompleteExecution, WorkerSteps
  <2>18. ASSUME NEW w \in Workers, AlreadyExecuted(w) \/ CompleteThrows(w) PROVE TypeOK'
    BY <2>18 DEF AlreadyExecuted, CompleteThrows, SettlementFails, WorkersHoldRows, WorkerSteps
  <2>19. ASSUME NEW w \in Workers, MarkFailed(w) PROVE TypeOK'
    <3>1. row' \in [Calls -> Rows]
      BY <2>19, WriteRow, RewrittenRow DEF MarkFailed, RowStates
    <3>2. QED
      BY <2>19, <3>1 DEF MarkFailed, WorkerSteps
  <2>20. ASSUME NEW w \in Workers, MarkReconciling(w) \/ MarkPermanentlyFailed(w)
         PROVE  TypeOK'
    <3>1. \A s \in RowStates : Attempted(row[cur[w]], s) \in Rows
      BY <2>20, RewrittenRow DEF MarkReconciling, MarkPermanentlyFailed, WorkersHoldRows
    <3>2. row' \in [Calls -> Rows]
      BY <2>20, <3>1 DEF MarkReconciling, MarkPermanentlyFailed, RowStates
    <3>3. QED
      BY <2>20, <3>2 DEF MarkReconciling, MarkPermanentlyFailed, WorkerSteps
  <2>21. ASSUME NEW w \in Workers, FailExecution(w) PROVE TypeOK'
    <3>1. faults' \subseteq Calls
      BY <2>21 DEF FailExecution, SettlementFails, WorkersHoldRows
    <3>2. QED
      BY <2>21, <3>1 DEF FailExecution, Release, WorkerSteps, IntentStates, HoldStates
  <2>22. ASSUME NEW w \in Workers, FailThrows(w) PROVE TypeOK'
    BY <2>22 DEF FailThrows, SettlementFails, WorkersHoldRows, WorkerSteps
  <2>23. ASSUME NEW w \in Workers, CycleAborts(w) PROVE TypeOK'
    BY <2>23 DEF CycleAborts, WorkerSteps
  <2>24. CASE UNCHANGED vars
    BY <2>24 DEF vars
  <2>25. QED
    BY <2>1, <2>2, <2>3, <2>4, <2>5, <2>6, <2>7, <2>8, <2>9, <2>10, <2>11, <2>12, <2>13,
       <2>14, <2>15, <2>16, <2>17, <2>18, <2>19, <2>20, <2>21, <2>22, <2>23, <2>24
    DEF Next, Request, Operator, Cycle, ProcessRow
<1>3. Typed /\ [Next]_vars => WorkersHoldRows'
  <2> SUFFICES ASSUME Typed, [Next]_vars, NEW v \in Workers,
                      pc'[v] \notin {"idle", "claim", "next"}
               PROVE  cur'[v] \in Calls
    BY DEF WorkersHoldRows
  <2> USE DEF Typed, TypeOK, WorkersHoldRows, requests, memory, budgets
  <2>1. ASSUME NEW c \in Calls, Request(c) \/ TimePasses(c) PROVE cur'[v] \in Calls
    BY <2>1 DEF Request, GateForExecute, GateForResume, HandOff, Resume, Abort, TimePasses
  <2>2. CASE Operator
    BY <2>2 DEF Operator, Pause, Reject, Halt, Restore
  <2>3. ASSUME NEW w \in Workers, TakeRow(w) PROVE cur'[v] \in Calls
    BY <2>3 DEF TakeRow, Snapshots
  <2>4. ASSUME NEW w \in Workers,
               ReclaimStale(w) \/ ClaimNext(w) \/ EndCycle(w) \/ CycleAborts(w)
        PROVE  cur'[v] \in Calls
    BY <2>4 DEF ReclaimStale, ClaimNext, EndCycle, CycleAborts
  <2>5. ASSUME NEW w \in Workers, BeforeDispatch(w) \/ Dispatch(w) \/ EmitAfter(w) \/ MarkDispatched(w)
        PROVE  cur'[v] \in Calls
    BY <2>5 DEF BeforeDispatch, Dispatch, EmitAfter, MarkDispatched
  <2>6. ASSUME NEW w \in Workers,
               CompleteExecution(w) \/ AlreadyExecuted(w) \/ CompleteThrows(w) \/ MarkSettled(w)
        PROVE  cur'[v] \in Calls
    BY <2>6 DEF CompleteExecution, AlreadyExecuted, CompleteThrows, MarkSettled
  <2>7. ASSUME NEW w \in Workers,
               \/ MarkFailed(w) \/ MarkReconciling(w) \/ EmitFailureAfter(w)
               \/ FailExecution(w) \/ FailThrows(w) \/ MarkPermanentlyFailed(w)
        PROVE  cur'[v] \in Calls
    BY <2>7 DEF MarkFailed, MarkReconciling, EmitFailureAfter, FailExecution, FailThrows,
                MarkPermanentlyFailed
  <2>8. CASE UNCHANGED vars
    BY <2>8 DEF vars
  <2>9. QED
    BY <2>1, <2>2, <2>3, <2>4, <2>5, <2>6, <2>7, <2>8 DEF Next, Cycle, ProcessRow
<1>4. Typed /\ [Next]_vars => CallsNameIntents'
  <2> SUFFICES ASSUME Typed, [Next]_vars PROVE CallsNameIntents'
    OBVIOUS
  <2> USE DEF Typed, TypeOK
  <2>1. CASE UNCHANGED requests
    BY <2>1 DEF CallsNameIntents, requests
  <2>2. ASSUME NEW c \in Calls, Request(c) PROVE CallsNameIntents'
    BY <2>2 DEF CallsNameIntents, Request, GateForExecute, GateForResume, HandOff, Resume, Abort
  <2>3. QED
    BY <2>1, <2>2, RequestWriters
<1>5. QED
  BY <1>1, <1>2, <1>3, <1>4, PTL DEF Spec, Typed

\* The variables keep their types: what each handler writes fits the columns of
\* execution_outbox, payment intents and reservations.
THEOREM TypeCorrect == Spec => []TypeOK
  BY TypedInvariant, PTL DEF Typed

----------------------------------------------------------------------------
(* Rows and intents: the transaction of the hand-off ties them together.   *)

HandedOver == {"dispatching", "executed", "failed"}

RowStep == WorkerSteps \ {"idle", "claim", "next"}

WorkersHoldExisting ==
  \A w \in Workers :
    /\ pc[w] \in RowStep => cur[w] \in Existing
    /\ \A s \in batch[w] : s.id \in Existing

RowsMatchIntents ==
  /\ \A c \in Existing : /\ callStep[c] = "done"
                         /\ row[c].intent \in Intents
                         /\ intent[row[c].intent] \in HandedOver
  /\ \A c, d \in Existing : row[c].intent = row[d].intent => c = d
  /\ \A i \in Intents : intent[i] \in HandedOver => \E c \in Existing : row[c].intent = i

Linked == WorkersHoldExisting /\ RowsMatchIntents

\* A worker, and time, neither create rows nor delete them nor change what
\* they are about.
LEMMA RowsKept ==
  ASSUME Typed, WorkersHoldExisting,
         \/ \E w \in Workers : Cycle(w) \/ CycleAborts(w)
         \/ \E c \in Calls : TimePasses(c)
  PROVE  \A c \in Calls : /\ row'[c].intent = row[c].intent
                          /\ row'[c].key = row[c].key
                          /\ c \in Existing <=> row'[c].status # "none"
<1> SUFFICES ASSUME NEW d \in Calls
             PROVE  /\ row'[d].intent = row[d].intent
                    /\ row'[d].key = row[d].key
                    /\ d \in Existing <=> row'[d].status # "none"
  OBVIOUS
<1>1. row \in [Calls -> Rows] /\ d \in Calls
  BY DEF Typed, TypeOK
<1>2. ASSUME NEW c \in Calls, TimePasses(c)
      PROVE  /\ row'[d].intent = row[d].intent
             /\ row'[d].key = row[d].key
             /\ d \in Existing <=> row'[d].status # "none"
  BY <1>1, <1>2 DEF TimePasses, Rows, Existing
<1>3. ASSUME NEW w \in Workers, Cycle(w) \/ CycleAborts(w)
      PROVE  /\ row'[d].intent = row[d].intent
             /\ row'[d].key = row[d].key
             /\ d \in Existing <=> row'[d].status # "none"
  <2>1. CASE row' = row
    BY <2>1 DEF Existing
  <2>2. CASE ReclaimStale(w)
    BY <1>1, <2>2 DEF ReclaimStale, Stale, InFlight, Rows, Existing
  <2>3. CASE ClaimNext(w)
    <3>1. PICK taken \in SUBSET {c \in Calls : Claimable(c)} :
            row' = [c \in Calls |-> IF c \in taken THEN Claimed(row[c]) ELSE row[c]]
      BY <2>3 DEF ClaimNext
    <3>2. QED
      BY <1>1, <3>1 DEF Claimable, Claimed, Rows, Existing
  <2>4. ASSUME NEW r, row' = [row EXCEPT ![cur[w]] = r], pc[w] \in RowStep,
               r.intent = row[cur[w]].intent, r.key = row[cur[w]].key, r.status # "none"
        PROVE  /\ row'[d].intent = row[d].intent
               /\ row'[d].key = row[d].key
               /\ d \in Existing <=> row'[d].status # "none"
    <3>1. cur[w] \in Existing
      BY <2>4 DEF WorkersHoldExisting
    <3>2. QED
      BY <1>1, <2>4, <3>1 DEF Existing
  <2>5. pc[w] \in RowStep => cur[w] \in Calls /\ row[cur[w]] \in Rows
    BY <1>1 DEF WorkersHoldExisting, Existing
  <2>6. CASE MarkDispatched(w)
    <3>1. pc[w] \in RowStep
      BY <2>6 DEF MarkDispatched, RowStep, WorkerSteps
    <3> DEFINE r == [row[cur[w]] EXCEPT !.status = "dispatched", !.receipt = TRUE]
    <3>2. row' = [row EXCEPT ![cur[w]] = r]
      BY <2>6 DEF MarkDispatched
    <3>3. r.intent = row[cur[w]].intent /\ r.key = row[cur[w]].key /\ r.status # "none"
      BY <2>5, <3>1 DEF Rows
    <3>4. QED
      BY <2>4, <3>1, <3>2, <3>3
  <2>7. CASE MarkSettled(w)
    <3>1. pc[w] \in RowStep
      BY <2>7 DEF MarkSettled, RowStep, WorkerSteps
    <3> DEFINE r == [row[cur[w]] EXCEPT !.status = "settled"]
    <3>2. row' = [row EXCEPT ![cur[w]] = r]
      BY <2>7 DEF MarkSettled
    <3>3. r.intent = row[cur[w]].intent /\ r.key = row[cur[w]].key /\ r.status # "none"
      BY <2>5, <3>1 DEF Rows
    <3>4. QED
      BY <2>4, <3>1, <3>2, <3>3
  <2>8. CASE MarkFailed(w) \/ MarkReconciling(w) \/ MarkPermanentlyFailed(w)
    <3>1. pc[w] \in RowStep
      BY <2>8 DEF MarkFailed, MarkReconciling, MarkPermanentlyFailed, RowStep, WorkerSteps
    <3>2. PICK st \in {"reconciling", "pending", "failed"} :
            row' = [row EXCEPT ![cur[w]] = Attempted(row[cur[w]], st)]
      BY <2>8 DEF MarkFailed, MarkReconciling, MarkPermanentlyFailed
    <3> DEFINE r == Attempted(row[cur[w]], st)
    <3>3. r.intent = row[cur[w]].intent /\ r.key = row[cur[w]].key /\ r.status # "none"
      BY <2>5, <3>1 DEF Rows, Attempted
    <3>4. QED
      BY <2>4, <3>1, <3>2, <3>3
  <2>9. QED
    BY <1>3, <2>1, <2>2, <2>3, <2>6, <2>7, <2>8
    DEF Cycle, ProcessRow, TakeRow, EndCycle, BeforeDispatch, Dispatch, EmitAfter,
        CompleteExecution, AlreadyExecuted, CompleteThrows, EmitFailureAfter,
        FailExecution, FailThrows, CycleAborts
<1>4. QED
  BY <1>2, <1>3

\* A hand-off adds the row of its call and leaves the others alone.
LEMMA HandOffAddsRow ==
  ASSUME Typed, Linked, NEW c \in Calls, HandOff(c)
  PROVE  /\ c \notin Existing
         /\ callIntent[c] \in Intents
         /\ \A d \in Calls \ {c} : row'[d] = row[d]
         /\ row'[c].intent = callIntent[c]
         /\ row'[c].key = <<callIntent[c], c>>
         /\ row'[c].status = "pending"
         /\ row'[c].receipt = FALSE
         /\ Existing' = Existing \cup {c}
<1> USE DEF Typed, TypeOK, Linked
<1>1. c \notin Existing
  BY DEF HandOff, RowsMatchIntents
<1>2. callIntent[c] \in Intents
  BY DEF HandOff, CallsNameIntents
<1>3. row' = [row EXCEPT ![c] = [intent |-> callIntent[c], key |-> <<callIntent[c], c>>,
                                 status |-> "pending", attempts |-> 0, receipt |-> FALSE, locked |-> FALSE, elapsed |-> TRUE]]
  BY DEF HandOff
<1>4. /\ \A d \in Calls \ {c} : row'[d] = row[d]
      /\ row'[c].intent = callIntent[c]
      /\ row'[c].key = <<callIntent[c], c>>
      /\ row'[c].status = "pending"
      /\ row'[c].receipt = FALSE
  BY <1>3
<1>5. QED
  BY <1>1, <1>2, <1>4 DEF Existing

\* Only a worker's own steps change where it is, and it keeps its row until it
\* is done with it.
LEMMA WorkersMoveThemselves ==
  ASSUME Typed, [Next]_vars, NEW v \in Workers
  PROVE  /\ pc'[v] # pc[v] => Cycle(v) \/ CycleAborts(v)
         /\ pc'[v] = pc[v] /\ pc[v] \in RowStep => cur'[v] = cur[v]
<1> USE DEF Typed, TypeOK, RowStep, WorkerSteps
<1>1. CASE UNCHANGED memory
  BY <1>1 DEF memory
<1>2. ASSUME NEW w \in Workers, w # v, Cycle(w) \/ CycleAborts(w)
      PROVE  pc'[v] = pc[v] /\ cur'[v] = cur[v]
  BY <1>2 DEF Cycle, ProcessRow, ReclaimStale, ClaimNext, TakeRow, EndCycle, BeforeDispatch,
       Dispatch, EmitAfter, MarkDispatched, CompleteExecution, AlreadyExecuted, CompleteThrows,
       MarkSettled, MarkFailed, MarkReconciling, EmitFailureAfter, FailExecution, FailThrows,
       MarkPermanentlyFailed, CycleAborts
<1>3. ASSUME Cycle(v) \/ CycleAborts(v), pc'[v] = pc[v], pc[v] \in RowStep
      PROVE  cur'[v] = cur[v]
  BY <1>3 DEF Cycle, ProcessRow, ReclaimStale, ClaimNext, TakeRow, EndCycle, BeforeDispatch,
       Dispatch, EmitAfter, MarkDispatched, CompleteExecution, AlreadyExecuted, CompleteThrows,
       MarkSettled, MarkFailed, MarkReconciling, EmitFailureAfter, FailExecution, FailThrows,
       MarkPermanentlyFailed, CycleAborts
<1>4. UNCHANGED memory \/ \E w \in Workers : Cycle(w) \/ CycleAborts(w)
  BY DEF Next, vars, memory, Request, Operator, GateForExecute, GateForResume, HandOff, Resume,
         Abort, Pause, Reject, Halt, Restore, TimePasses
<1>5. QED
  BY <1>1, <1>2, <1>3, <1>4

\* The statements that write execution_outbox.
LEMMA RowWriters ==
  ASSUME [Next]_vars
  PROVE  \/ row' = row
         \/ \E c \in Calls : HandOff(c) \/ TimePasses(c)
         \/ \E w \in Workers :
              \/ ReclaimStale(w) \/ ClaimNext(w) \/ MarkDispatched(w) \/ MarkSettled(w)
              \/ MarkFailed(w) \/ MarkReconciling(w) \/ MarkPermanentlyFailed(w)
  BY DEF Next, vars, Request, Operator, Cycle, ProcessRow, GateForExecute, GateForResume,
         Resume, Abort, Pause, Reject, Halt, Restore, TakeRow, EndCycle,
         BeforeDispatch, Dispatch, EmitAfter, CompleteExecution, AlreadyExecuted,
         CompleteThrows, EmitFailureAfter, FailExecution, FailThrows, CycleAborts

\* Which way a payment intent goes: only a hand-off takes it out of approved
\* towards execution, and only its outcome takes it out of dispatching.
LEMMA IntentMoves ==
  ASSUME Typed, Linked, [Next]_vars, NEW i \in Intents
  PROVE  \/ intent'[i] = intent[i]
         \/ /\ intent[i] \in {"approved", "paused"}
            /\ intent'[i] \in {"approved", "paused", "rejected"}
         \/ /\ intent[i] = "approved"
            /\ intent'[i] = "dispatching"
            /\ \E c \in Calls : HandOff(c) /\ callIntent[c] = i
         \/ /\ intent[i] = "dispatching"
            /\ \E w \in Workers :
                 /\ i = row[cur[w]].intent
                 /\ \/ CompleteExecution(w) /\ intent'[i] = "executed"
                    \/ FailExecution(w) /\ intent'[i] = "failed"
<1> USE DEF Typed, TypeOK
<1>1. CASE intent' = intent
  BY <1>1
<1>2. ASSUME NEW c \in Calls, HandOff(c)
      PROVE  \/ intent'[i] = intent[i]
             \/ /\ intent[i] = "approved"
                /\ intent'[i] = "dispatching"
                /\ callIntent[c] = i
  BY <1>2 DEF HandOff, MayHandOver
<1>3. ASSUME NEW c \in Calls, Resume(c)
      PROVE  \/ intent'[i] = intent[i]
             \/ intent[i] = "paused" /\ intent'[i] = "approved"
  BY <1>3 DEF Resume
<1>4. ASSUME NEW j \in Intents, Pause(j) \/ Reject(j)
      PROVE  \/ intent'[i] = intent[i]
             \/ intent[i] = "approved" /\ intent'[i] \in {"paused", "rejected"}
  BY <1>4 DEF Pause, Reject
<1>5. ASSUME Halt
      PROVE  \/ intent'[i] = intent[i]
             \/ intent[i] = "approved" /\ intent'[i] = "paused"
  BY <1>5 DEF Halt
<1>6. ASSUME NEW w \in Workers, CompleteExecution(w)
      PROVE  \/ intent'[i] = intent[i]
             \/ i = row[cur[w]].intent /\ intent[i] = "dispatching" /\ intent'[i] = "executed"
  BY <1>6 DEF CompleteExecution
<1>7. ASSUME NEW w \in Workers, FailExecution(w)
      PROVE  \/ intent'[i] = intent[i]
             \/ i = row[cur[w]].intent /\ intent[i] = "dispatching" /\ intent'[i] = "failed"
  BY <1>7 DEF FailExecution, MayFail
<1>8. \/ intent' = intent
      \/ \E c \in Calls : HandOff(c) \/ Resume(c)
      \/ \E j \in Intents : Pause(j) \/ Reject(j)
      \/ Halt
      \/ \E w \in Workers : CompleteExecution(w) \/ FailExecution(w)
  BY DEF Next, vars, Request, Operator, Cycle, ProcessRow, GateForExecute, GateForResume, Abort,
         Restore, TimePasses, ReclaimStale, ClaimNext, TakeRow, EndCycle, BeforeDispatch,
         Dispatch, EmitAfter, MarkDispatched, AlreadyExecuted, CompleteThrows, MarkSettled,
         MarkFailed, MarkReconciling, EmitFailureAfter, FailThrows, MarkPermanentlyFailed,
         CycleAborts
<1>9. QED
  BY <1>1, <1>2, <1>3, <1>4, <1>5, <1>6, <1>7, <1>8

\* A step other than a hand-off keeps the set of rows and what they are about.
LEMMA RowsKeptOrHandOff ==
  ASSUME Typed, Linked, [Next]_vars
  PROVE  \/ \E c \in Calls : HandOff(c)
         \/ /\ \A c \in Calls : row'[c].intent = row[c].intent /\ row'[c].key = row[c].key
            /\ Existing' = Existing
            /\ \A c \in Calls : callStep[c] = "done" => callStep'[c] = "done"
<1> USE DEF Typed, TypeOK, Linked
<1>1. CASE \/ \E w \in Workers : Cycle(w) \/ CycleAborts(w)
           \/ \E c \in Calls : TimePasses(c)
  <2>1. /\ \A c \in Calls : row'[c].intent = row[c].intent /\ row'[c].key = row[c].key
        /\ Existing' = Existing
    BY <1>1, RowsKept DEF Existing
  <2>2. callStep' = callStep
    BY <1>1 DEF Cycle, ProcessRow, ReclaimStale, ClaimNext, TakeRow, EndCycle, BeforeDispatch,
         Dispatch, EmitAfter, MarkDispatched, CompleteExecution, AlreadyExecuted,
         CompleteThrows, MarkSettled, MarkFailed, MarkReconciling, EmitFailureAfter,
         FailExecution, FailThrows, MarkPermanentlyFailed, CycleAborts, TimePasses, requests
  <2>3. QED
    BY <2>1, <2>2
<1>2. CASE row' = row /\ \A c \in Calls : callStep[c] = "done" => callStep'[c] = "done"
  BY <1>2 DEF Existing
<1>3. ASSUME NEW c \in Calls, Request(c), ~HandOff(c)
      PROVE  row' = row /\ \A d \in Calls : callStep[d] = "done" => callStep'[d] = "done"
  BY <1>3 DEF Request, GateForExecute, GateForResume, Resume, Abort
<1>4. ASSUME Operator \/ UNCHANGED vars
      PROVE  row' = row /\ callStep' = callStep
  BY <1>4 DEF Operator, Pause, Reject, Halt, Restore, vars, requests
<1>5. QED
  BY <1>1, <1>2, <1>3, <1>4 DEF Next

\* A new row is the row of a hand-off, pending, and its intent is dispatching.
LEMMA NewRow ==
  ASSUME Typed, Linked, [Next]_vars, NEW c \in Existing', c \notin Existing
  PROVE  /\ row'[c].intent \in Intents
         /\ row'[c].status = "pending"
         /\ row'[c].receipt = FALSE
         /\ intent'[row'[c].intent] = "dispatching"
<1>1. PICK d \in Calls : HandOff(d)
  BY RowsKeptOrHandOff
<1>2. c = d
  BY <1>1, HandOffAddsRow
<1>3. HandOff(c) /\ c \in Calls
  BY <1>1, <1>2
<1>4. /\ callIntent[c] \in Intents
      /\ row'[c].intent = callIntent[c]
      /\ row'[c].status = "pending"
      /\ row'[c].receipt = FALSE
  BY <1>3, HandOffAddsRow
<1>5. intent'[callIntent[c]] = "dispatching"
  BY <1>3, <1>4 DEF HandOff, Typed, TypeOK
<1>6. QED
  BY <1>4, <1>5

\* However requests, workers and crashes interleave, rows and intents match.
LEMMA LinkedInvariant == Spec => []Linked
<1>1. Init => Linked
  BY ConstantsAssumption
  DEF Init, Linked, WorkersHoldExisting, RowsMatchIntents, Existing, NoRow,
      HandedOver, RowStep
<1>2. Typed /\ Linked /\ [Next]_vars => Linked'
  <2> SUFFICES ASSUME Typed, Linked, [Next]_vars PROVE Linked'
    OBVIOUS
  <2> USE DEF Typed, TypeOK, Linked
  <2>1. Existing \subseteq Existing'
    BY RowsKeptOrHandOff, HandOffAddsRow
  <2>2. WorkersHoldExisting'
    <3> SUFFICES ASSUME NEW v \in Workers
                 PROVE  /\ pc'[v] \in RowStep => cur'[v] \in Existing
                        /\ \A s \in batch'[v] : s.id \in Existing
      BY <2>1 DEF WorkersHoldExisting, RowStep, WorkerSteps
    <3> USE DEF WorkersHoldExisting, RowStep, WorkerSteps
    <3>1. CASE UNCHANGED memory
      BY <3>1 DEF memory
    <3>2. ASSUME NEW w \in Workers, ClaimNext(w)
          PROVE  /\ pc'[v] \in RowStep => cur'[v] \in Existing
                 /\ \A s \in batch'[v] : s.id \in Existing
      BY <3>2 DEF ClaimNext, SnapshotOf, Claimable, Existing
    <3>3. ASSUME NEW w \in Workers, TakeRow(w)
          PROVE  /\ pc'[v] \in RowStep => cur'[v] \in Existing
                 /\ \A s \in batch'[v] : s.id \in Existing
      BY <3>3 DEF TakeRow
    <3>4. ASSUME NEW w \in Workers, CycleAborts(w) \/ EndCycle(w) \/ ReclaimStale(w)
          PROVE  /\ pc'[v] \in RowStep => cur'[v] \in Existing
                 /\ \A s \in batch'[v] : s.id \in Existing
      BY <3>4 DEF CycleAborts, EndCycle, ReclaimStale
    <3>5. ASSUME NEW w \in Workers, ProcessRow(w)
          PROVE  /\ pc[w] \in RowStep
                 /\ \A u \in Workers : u # w => pc'[u] = pc[u] /\ cur'[u] = cur[u]
                 /\ pc'[w] \in RowStep => cur'[w] = cur[w]
                 /\ batch' = batch
      BY <3>5 DEF ProcessRow, BeforeDispatch, Dispatch, EmitAfter, MarkDispatched,
           CompleteExecution, AlreadyExecuted, CompleteThrows, MarkSettled, MarkFailed,
           MarkReconciling, EmitFailureAfter, FailExecution, FailThrows, MarkPermanentlyFailed
    <3>6. ASSUME NEW w \in Workers, ProcessRow(w)
          PROVE  /\ pc'[v] \in RowStep => cur'[v] \in Existing
                 /\ \A s \in batch'[v] : s.id \in Existing
      BY <3>5, <3>6
    <3>7. QED
      BY <3>1, <3>2, <3>3, <3>4, <3>6
      DEF Next, vars, Request, Operator, Cycle, GateForExecute, GateForResume, HandOff, Resume,
          Abort, Pause, Reject, Halt, Restore, TimePasses
  <2>3. RowsMatchIntents'
    <3>1. CASE \E c \in Calls : HandOff(c)
      <4>1. PICK c \in Calls : HandOff(c)
        BY <3>1
      <4>2. /\ intent[callIntent[c]] = "approved"
            /\ intent' = [intent EXCEPT ![callIntent[c]] = "dispatching"]
            /\ callStep' = [callStep EXCEPT ![c] = "done"]
        BY <4>1 DEF HandOff, MayHandOver
      <4>3. /\ c \notin Existing
            /\ callIntent[c] \in Intents
            /\ \A d \in Calls \ {c} : row'[d] = row[d]
            /\ row'[c].intent = callIntent[c]
            /\ Existing' = Existing \cup {c}
        BY <4>1, HandOffAddsRow
      <4>4. \A d \in Existing : row'[d] = row[d] /\ row[d].intent # callIntent[c]
        BY <4>2, <4>3 DEF RowsMatchIntents, HandedOver, Existing
      <4>5. QED
        BY <4>2, <4>3, <4>4 DEF RowsMatchIntents, HandedOver, Existing
    <3>2. CASE ~\E c \in Calls : HandOff(c)
      <4>1. \A i \in Intents : intent'[i] \in HandedOver <=> intent[i] \in HandedOver
        BY <3>2, IntentMoves DEF HandedOver
      <4>2. /\ \A c \in Calls : row'[c].intent = row[c].intent
            /\ Existing' = Existing
            /\ \A c \in Calls : callStep[c] = "done" => callStep'[c] = "done"
        BY <3>2, RowsKeptOrHandOff
      <4>3. Existing \subseteq Calls
        BY DEF Existing
      <4>4. QED
        BY <4>1, <4>2, <4>3 DEF RowsMatchIntents
    <3>3. QED
      BY <3>1, <3>2
  <2>4. QED
    BY <2>2, <2>3
<1>3. QED
  BY <1>1, <1>2, TypedInvariant, PTL DEF Spec

\* However execute, pause and resume interleave, an intent has exactly one
\* outbox row from its hand-off on, and none before.
THEOREM HandedOverOnceHolds == Spec => []HandedOverOnce
<1>1. ASSUME Linked PROVE HandedOverOnce
  <2> SUFFICES ASSUME NEW i \in Intents
               PROVE  Cardinality(RowsOf(i)) = IF intent[i] \in HandedOver THEN 1 ELSE 0
    BY DEF HandedOverOnce, HandedOver
  <2>1. CASE intent[i] \in HandedOver
    <3>1. PICK c \in Existing : row[c].intent = i
      BY <1>1, <2>1 DEF Linked, RowsMatchIntents
    <3>2. RowsOf(i) = {c}
      BY <1>1, <3>1 DEF RowsOf, Linked, RowsMatchIntents
    <3>3. QED
      BY <2>1, <3>2, FS_Singleton
  <2>2. CASE intent[i] \notin HandedOver
    <3>1. RowsOf(i) = {}
      BY <1>1, <2>2 DEF RowsOf, Linked, RowsMatchIntents
    <3>2. QED
      BY <2>2, <3>1, FS_EmptySet
  <2>3. QED
    BY <2>1, <2>2
<1>2. QED
  BY <1>1, LinkedInvariant, PTL

----------------------------------------------------------------------------
(* Funds, payments and settlements.                                        *)

\* The reservation follows the intent: held from the hand-off, consumed with
\* the settlement, released with the failure.
THEOREM FundsFollowIntentHolds == Spec => []FundsFollowIntent
<1>1. Init => FundsFollowIntent
  BY DEF Init, FundsFollowIntent, HoldFor
<1>2. Typed /\ Linked /\ FundsFollowIntent /\ [Next]_vars => FundsFollowIntent'
  <2> SUFFICES ASSUME Typed, Linked, FundsFollowIntent, [Next]_vars, NEW i \in Intents
               PROVE  hold'[i] = HoldFor(TypeOf[i], intent'[i])
    BY DEF FundsFollowIntent
  <2> USE DEF Typed, TypeOK, HoldFor
  <2>1. hold[i] = HoldFor(TypeOf[i], intent[i])
    BY DEF FundsFollowIntent
  <2>2. \/ hold' = hold
        \/ \E c \in Calls : HandOff(c)
        \/ \E w \in Workers : CompleteExecution(w) \/ FailExecution(w)
    BY DEF Next, vars, Request, Operator, Cycle, ProcessRow, GateForExecute, GateForResume,
         Resume, Abort, Pause, Reject, Halt, Restore, TimePasses, ReclaimStale, ClaimNext,
         TakeRow, EndCycle, BeforeDispatch, Dispatch, EmitAfter, MarkDispatched,
         AlreadyExecuted, CompleteThrows, MarkSettled, MarkFailed, MarkReconciling,
         EmitFailureAfter, FailThrows, MarkPermanentlyFailed, CycleAborts
  <2>3. ASSUME NEW c \in Calls, HandOff(c)
        PROVE  hold'[i] = HoldFor(TypeOf[i], intent'[i])
    BY <2>1, <2>3 DEF HandOff, MayHandOver
  <2>4. ASSUME NEW w \in Workers, CompleteExecution(w)
        PROVE  hold'[i] = HoldFor(TypeOf[i], intent'[i])
    BY <2>1, <2>4 DEF CompleteExecution, Consume
  <2>5. ASSUME NEW w \in Workers, FailExecution(w)
        PROVE  hold'[i] = HoldFor(TypeOf[i], intent'[i])
    BY <2>1, <2>5 DEF FailExecution, MayFail, Release
  <2>6. CASE hold' = hold /\ (\A c \in Calls : ~HandOff(c))
             /\ (\A w \in Workers : ~CompleteExecution(w) /\ ~FailExecution(w))
    <3>1. \/ intent'[i] = intent[i]
          \/ /\ intent[i] \in {"approved", "paused"}
             /\ intent'[i] \in {"approved", "paused", "rejected"}
      BY <2>6, IntentMoves
    <3>2. QED
      BY <2>1, <2>6, <3>1
  <2>7. QED
    BY <2>2, <2>3, <2>4, <2>5, <2>6
<1>3. QED
  BY <1>1, <1>2, TypedInvariant, LinkedInvariant, PTL DEF Spec

\* What a worker remembers between its transactions is still true of the intent,
\* although it looks at neither the row nor the intent again.
WorkersKnowOutcomes ==
  \A w \in Workers :
    /\ pc[w] = "settle" => intent[row[cur[w]].intent] = "executed"
    /\ pc[w] = "park" => intent[row[cur[w]].intent] = "failed"

Outcome == OneExecutionPerSettlement /\ RowsOutliveTheirIntents /\ WorkersKnowOutcomes

\* An outcome is for good, also when another worker settles the same row.
LEMMA OutcomesStay ==
  ASSUME Typed, Linked, [Next]_vars, NEW c \in Existing
  PROVE  /\ c \in Existing'
         /\ row'[c].intent = row[c].intent
         /\ \A o \in {"executed", "failed"} :
              intent[row[c].intent] = o => intent'[row[c].intent] = o
<1>1. c \in Existing' /\ row'[c].intent = row[c].intent
  BY RowsKeptOrHandOff, HandOffAddsRow DEF Existing
<1>2. row[c].intent \in Intents
  BY DEF Linked, RowsMatchIntents
<1>3. QED
  BY <1>1, <1>2, IntentMoves

\* Where the worker's next step and the status of its row come from.
LEMMA OutcomeInvariant == Spec => []Outcome
<1>1. Init => Outcome
  BY DEF Init, Outcome, OneExecutionPerSettlement, RowsOutliveTheirIntents, WorkersKnowOutcomes,
         Existing, NoRow
<1>2. Typed /\ Linked /\ Outcome /\ [Next]_vars => Outcome'
  <2> SUFFICES ASSUME Typed, Linked, Outcome, [Next]_vars PROVE Outcome'
    OBVIOUS
  <2> USE DEF Typed, TypeOK
  <2>1. WorkersKnowOutcomes'
    <3> SUFFICES ASSUME NEW v \in Workers
                 PROVE  /\ pc'[v] = "settle" => intent'[row'[cur'[v]].intent] = "executed"
                        /\ pc'[v] = "park" => intent'[row'[cur'[v]].intent] = "failed"
      BY DEF WorkersKnowOutcomes
    <3>1. CASE pc'[v] = pc[v] /\ pc[v] \in {"settle", "park"}
      <4>1. cur'[v] = cur[v]
        BY <3>1, WorkersMoveThemselves DEF RowStep, WorkerSteps
      <4>2. cur[v] \in Existing
        BY <3>1 DEF Linked, WorkersHoldExisting, RowStep, WorkerSteps
      <4>3. QED
        BY <3>1, <4>1, <4>2, OutcomesStay DEF Outcome, WorkersKnowOutcomes
    <3>2. ASSUME NEW w \in Workers, CompleteExecution(w)
          PROVE  /\ pc'[v] = "settle" => pc[v] = "settle" \/ intent'[row'[cur'[v]].intent] = "executed"
                 /\ pc'[v] = "park" => pc[v] = "park"
      <4>1. row[cur[w]].intent \in Intents
        BY <3>2 DEF CompleteExecution, Linked, WorkersHoldExisting, RowsMatchIntents, RowStep, WorkerSteps
      <4>2. QED
        BY <3>2, <4>1 DEF CompleteExecution
    <3>3. ASSUME NEW w \in Workers, AlreadyExecuted(w)
          PROVE  /\ pc'[v] = "settle" => pc[v] = "settle" \/ intent'[row'[cur'[v]].intent] = "executed"
                 /\ pc'[v] = "park" => pc[v] = "park"
      BY <3>3 DEF AlreadyExecuted
    <3>4. ASSUME NEW w \in Workers, FailExecution(w)
          PROVE  /\ pc'[v] = "settle" => pc[v] = "settle"
                 /\ pc'[v] = "park" => pc[v] = "park" \/ intent'[row'[cur'[v]].intent] = "failed"
      <4>1. row[cur[w]].intent \in Intents
        BY <3>4 DEF FailExecution, Linked, WorkersHoldExisting, RowsMatchIntents, RowStep, WorkerSteps
      <4>2. QED
        BY <3>4, <4>1 DEF FailExecution
    <3>5. ASSUME NEW w \in Workers, TakeRow(w)
          PROVE  pc'[v] \in {"settle", "park"} => pc[v] = pc'[v]
      BY <3>5 DEF TakeRow, FirstStep
    <3>6. ASSUME NEW w \in Workers, Dispatch(w)
          PROVE  pc'[v] \in {"settle", "park"} => pc[v] = pc'[v]
      <4>1. PICK o \in Outcomes(TypeOf[row[cur[w]].intent]) : pc' = [pc EXCEPT ![w] = o[1]]
        BY <3>6 DEF Dispatch
      <4>2. o[1] \notin {"settle", "park"}
        BY OutcomeSteps
      <4>3. CASE v = w
        <5>1. pc'[v] = o[1]
          BY <4>1, <4>3
        <5>2. QED
          BY <4>2, <5>1
      <4>4. CASE v # w
        BY <4>1, <4>4
      <4>5. QED
        BY <4>3, <4>4
    <3>7. \/ pc'[v] \in {"settle", "park"} => pc[v] = pc'[v]
          \/ \E w \in Workers : \/ CompleteExecution(w) \/ AlreadyExecuted(w)
                               \/ FailExecution(w) \/ TakeRow(w) \/ Dispatch(w)
      <4>1. ASSUME NEW w \in Workers,
                   \/ ReclaimStale(w) \/ ClaimNext(w) \/ EndCycle(w) \/ CycleAborts(w)
                   \/ BeforeDispatch(w) \/ EmitAfter(w) \/ MarkDispatched(w) \/ MarkSettled(w)
            PROVE  pc'[v] \in {"settle", "park"} => pc[v] = pc'[v]
        BY <4>1 DEF ReclaimStale, ClaimNext, EndCycle, CycleAborts, BeforeDispatch, EmitAfter,
                    MarkDispatched, MarkSettled
      <4>2. ASSUME NEW w \in Workers,
                   \/ CompleteThrows(w) \/ MarkFailed(w) \/ MarkReconciling(w)
                   \/ EmitFailureAfter(w) \/ FailThrows(w) \/ MarkPermanentlyFailed(w)
            PROVE  pc'[v] \in {"settle", "park"} => pc[v] = pc'[v]
        BY <4>2 DEF CompleteThrows, MarkFailed, MarkReconciling, EmitFailureAfter, FailThrows,
                    MarkPermanentlyFailed
      <4>3. ASSUME \/ \E c \in Calls : Request(c) \/ TimePasses(c)
                   \/ Operator \/ UNCHANGED vars
            PROVE  pc' = pc
        BY <4>3 DEF vars, memory, Request, Operator, GateForExecute, GateForResume, HandOff,
                    Resume, Abort, Pause, Reject, Halt, Restore, TimePasses
      <4>4. QED
        BY <4>1, <4>2, <4>3 DEF Next, Cycle, ProcessRow
    <3>8. CASE pc'[v] # pc[v] /\ pc'[v] \in {"settle", "park"}
      <4>1. PICK w \in Workers : CompleteExecution(w) \/ AlreadyExecuted(w) \/ FailExecution(w)
        BY <3>5, <3>6, <3>7, <3>8
      <4>2. QED
        BY <3>2, <3>3, <3>4, <3>8, <4>1
    <3>9. QED
      BY <3>1, <3>8
  <2>2. OneExecutionPerSettlement'
    <3>1. ASSUME NEW w \in Workers, CompleteExecution(w) PROVE OneExecutionPerSettlement'
      <4>1. cur[w] \in Existing /\ row[cur[w]].intent \in Intents
        BY <3>1 DEF CompleteExecution, Linked, WorkersHoldExisting, RowsMatchIntents, RowStep, WorkerSteps
      <4>2. \A c \in Existing : row[c].intent = row[cur[w]].intent => c = cur[w]
        BY <4>1 DEF Linked, RowsMatchIntents
      <4>3. /\ Existing' = Existing
            /\ row' = row
            /\ executions' = executions \cup {cur[w]}
            /\ intent' = [intent EXCEPT ![row[cur[w]].intent] = "executed"]
        BY <3>1 DEF CompleteExecution, Existing
      <4>4. \A c \in Existing : row[c].intent \in Intents
        BY DEF Linked, RowsMatchIntents
      <4>5. QED
        BY <4>1, <4>2, <4>3, <4>4 DEF Outcome, OneExecutionPerSettlement
    <3>2. CASE executions' = executions /\ \A w \in Workers : ~CompleteExecution(w)
      <4>1. \A c \in Existing' : intent'[row'[c].intent] = "executed" =>
                                 c \in Existing /\ intent[row[c].intent] = "executed"
        <5> SUFFICES ASSUME NEW c \in Existing', intent'[row'[c].intent] = "executed"
                     PROVE  c \in Existing /\ intent[row[c].intent] = "executed"
          OBVIOUS
        <5>1. CASE c \in Existing
          <6>1. row'[c].intent = row[c].intent /\ row[c].intent \in Intents
            BY <5>1, OutcomesStay DEF Linked, RowsMatchIntents
          <6>2. QED
            BY <3>2, <5>1, <6>1, IntentMoves
        <5>2. CASE c \notin Existing
          BY <5>2, NewRow
        <5>3. QED
          BY <5>1, <5>2
      <4>2. QED
        BY <3>2, <4>1, OutcomesStay DEF Outcome, OneExecutionPerSettlement
    <3>3. executions' = executions \/ \E w \in Workers : CompleteExecution(w)
      BY DEF Next, vars, Request, Operator, Cycle, ProcessRow, GateForExecute, GateForResume,
         HandOff, Resume, Abort, Pause, Reject, Halt, Restore, TimePasses, ReclaimStale,
         ClaimNext, TakeRow, EndCycle, BeforeDispatch, Dispatch, EmitAfter, MarkDispatched,
         AlreadyExecuted, CompleteThrows, MarkSettled, MarkFailed, MarkReconciling,
         EmitFailureAfter, FailExecution, FailThrows, MarkPermanentlyFailed, CycleAborts
    <3>4. QED
      BY <3>1, <3>2, <3>3
  <2>3. RowsOutliveTheirIntents'
    <3> SUFFICES ASSUME NEW c \in Existing'
                 PROVE  /\ row'[c].status = "settled" => intent'[row'[c].intent] = "executed"
                        /\ row'[c].status = "failed" => intent'[row'[c].intent] = "failed"
      BY DEF RowsOutliveTheirIntents
    <3>1. CASE c \notin Existing
      BY <3>1, NewRow
    <3>2. CASE c \in Existing
      <4>1. \/ row'[c].status \in {"settled", "failed"} => row'[c].status = row[c].status
            \/ row'[c].status = "settled" /\ intent[row[c].intent] = "executed"
            \/ row'[c].status = "failed" /\ intent[row[c].intent] = "failed"
        <5>1. CASE row' = row
          BY <5>1
        <5>2. ASSUME NEW d \in Calls, HandOff(d) \/ TimePasses(d)
              PROVE  row'[c].status = "settled" \/ row'[c].status = "failed" =>
                       row'[c].status = row[c].status
          <6>1. HandOff(d) => row'[c] = row[c]
            BY <3>2, HandOffAddsRow DEF Existing
          <6>2. TimePasses(d) => row'[c].status = row[c].status
            BY <3>2 DEF TimePasses, Rows, Existing
          <6>3. QED
            BY <5>2, <6>1, <6>2
        <5>3. ASSUME NEW w \in Workers, ReclaimStale(w) \/ ClaimNext(w)
              PROVE  row'[c].status \in {"settled", "failed"} => row'[c].status = row[c].status
          <6>1. CASE ReclaimStale(w)
            BY <3>2, <6>1, WrittenStatus DEF ReclaimStale, Existing
          <6>2. CASE ClaimNext(w)
            <7>1. PICK taken \in SUBSET {d \in Calls : Claimable(d)} :
                    row' = [d \in Calls |-> IF d \in taken THEN Claimed(row[d]) ELSE row[d]]
              BY <6>2 DEF ClaimNext
            <7>2. QED
              BY <3>2, <7>1, WrittenStatus DEF Existing
          <6>3. QED
            BY <5>3, <6>1, <6>2
        <5>4. ASSUME NEW w \in Workers, MarkDispatched(w) \/ MarkFailed(w) \/ MarkReconciling(w)
              PROVE  row'[c].status \in {"settled", "failed"} => row'[c].status = row[c].status
          <6>1. row[c] \in Rows /\ c \in Calls
            BY <3>2 DEF Existing
          <6>2. c # cur[w] => row'[c] = row[c]
            BY <5>4, <6>1 DEF MarkDispatched, MarkFailed, MarkReconciling
          <6>3. c = cur[w] => row'[c].status \in {"dispatched", "pending", "reconciling"}
            <7>1. CASE MarkDispatched(w)
              BY <6>1, <7>1, WrittenStatus DEF MarkDispatched
            <7>2. CASE MarkFailed(w)
              BY <6>1, <7>2, WrittenStatus DEF MarkFailed
            <7>3. CASE MarkReconciling(w)
              BY <6>1, <7>3, WrittenStatus DEF MarkReconciling
            <7>4. QED
              BY <5>4, <7>1, <7>2, <7>3
          <6>4. QED
            BY <6>2, <6>3
        <5>5. ASSUME NEW w \in Workers, MarkSettled(w)
              PROVE  \/ row'[c] = row[c]
                     \/ row'[c].status = "settled" /\ intent[row[c].intent] = "executed"
          <6>1. row[c] \in Rows /\ c \in Calls
            BY <3>2 DEF Existing
          <6>2. c # cur[w] => row'[c] = row[c]
            BY <5>5, <6>1 DEF MarkSettled
          <6>3. c = cur[w] => row'[c].status = "settled"
            BY <5>5, <6>1, WrittenStatus DEF MarkSettled
          <6>4. QED
            BY <5>5, <6>2, <6>3 DEF MarkSettled, Outcome, WorkersKnowOutcomes
        <5>6. ASSUME NEW w \in Workers, MarkPermanentlyFailed(w)
              PROVE  \/ row'[c] = row[c]
                     \/ row'[c].status = "failed" /\ intent[row[c].intent] = "failed"
          <6>1. row[c] \in Rows /\ c \in Calls
            BY <3>2 DEF Existing
          <6>2. c # cur[w] => row'[c] = row[c]
            BY <5>6, <6>1 DEF MarkPermanentlyFailed
          <6>3. c = cur[w] => row'[c].status = "failed"
            BY <5>6, <6>1, WrittenStatus DEF MarkPermanentlyFailed
          <6>4. QED
            BY <5>6, <6>2, <6>3 DEF MarkPermanentlyFailed, Outcome, WorkersKnowOutcomes
        <5>7. QED
          BY <5>1, <5>2, <5>3, <5>4, <5>5, <5>6, RowWriters
      <4>2. QED
        BY <3>2, <4>1, OutcomesStay DEF Outcome, RowsOutliveTheirIntents
    <3>3. QED
      BY <3>1, <3>2
  <2>4. QED
    BY <2>1, <2>2, <2>3 DEF Outcome
<1>3. QED
  BY <1>1, <1>2, TypedInvariant, LinkedInvariant, PTL DEF Spec

\* A settled intent is recorded once, under the key of its row, also when two
\* workers run completeExecution for it.
THEOREM OneExecutionPerSettlementHolds == Spec => []OneExecutionPerSettlement
  BY OutcomeInvariant, PTL DEF Outcome

\* A row is settled or failed only after its intent: a crash in between leaves
\* the row in the queue.
THEOREM RowsOutliveTheirIntentsHolds == Spec => []RowsOutliveTheirIntents
  BY OutcomeInvariant, PTL DEF Outcome

\* Receipts are stored by markDispatched only, and never lost.
LEMMA ReceiptsStay ==
  ASSUME Typed, Linked, [Next]_vars, NEW c \in Existing
  PROVE  \/ row'[c].receipt = row[c].receipt
         \/ \E w \in Workers : MarkDispatched(w) /\ c = cur[w] /\ row'[c].receipt
<1> USE DEF Typed, TypeOK
<1>1. c \in Calls /\ row[c] \in Rows
  BY DEF Existing
<1>2. CASE row' = row
  BY <1>2
<1>3. ASSUME NEW d \in Calls, HandOff(d) \/ TimePasses(d)
      PROVE  row'[c].receipt = row[c].receipt
  <2>1. HandOff(d) => row'[c] = row[c]
    BY <1>1, HandOffAddsRow
  <2>2. TimePasses(d) => row'[c].receipt = row[c].receipt
    BY <1>1 DEF TimePasses, Rows
  <2>3. QED
    BY <1>3, <2>1, <2>2
<1>4. ASSUME NEW w \in Workers, ReclaimStale(w)
      PROVE  row'[c].receipt = row[c].receipt
  BY <1>1, <1>4 DEF ReclaimStale, Rows
<1>5. ASSUME NEW w \in Workers, ClaimNext(w)
      PROVE  row'[c].receipt = row[c].receipt
  <2>1. PICK taken \in SUBSET {d \in Calls : Claimable(d)} :
          row' = [d \in Calls |-> IF d \in taken THEN Claimed(row[d]) ELSE row[d]]
    BY <1>5 DEF ClaimNext
  <2>2. QED
    BY <1>1, <2>1 DEF Claimed, Rows
<1>6. ASSUME NEW w \in Workers, MarkDispatched(w)
      PROVE  row'[c] = row[c] \/ (c = cur[w] /\ row'[c].receipt)
  <2>1. [row[c] EXCEPT !.status = "dispatched", !.receipt = TRUE].receipt = TRUE
    BY <1>1 DEF Rows
  <2>2. row'[c] = IF c = cur[w]
                  THEN [row[c] EXCEPT !.status = "dispatched", !.receipt = TRUE]
                  ELSE row[c]
    BY <1>1, <1>6 DEF MarkDispatched
  <2>3. CASE c = cur[w]
    <3>1. row'[c] = [row[c] EXCEPT !.status = "dispatched", !.receipt = TRUE]
      BY <2>2, <2>3
    <3>2. row'[c].receipt = TRUE
      BY <2>1, <3>1
    <3>3. QED
      BY <2>3, <3>2
  <2>4. CASE c # cur[w]
    <3>1. row'[c] = row[c]
      BY <2>2, <2>4
    <3>2. QED
      BY <3>1
  <2>5. QED
    BY <2>3, <2>4
<1>7. ASSUME NEW w \in Workers, MarkSettled(w)
      PROVE  row'[c].receipt = row[c].receipt
  BY <1>1, <1>7 DEF MarkSettled, Rows
<1>8. ASSUME NEW w \in Workers,
             MarkFailed(w) \/ MarkReconciling(w) \/ MarkPermanentlyFailed(w)
      PROVE  row'[c].receipt = row[c].receipt
  <2>1. PICK st \in RowStates :
          row' = [row EXCEPT ![cur[w]] = Attempted(row[cur[w]], st)]
    BY <1>8 DEF MarkFailed, MarkReconciling, MarkPermanentlyFailed, RowStates
  <2>2. QED
    BY <1>1, <2>1 DEF Attempted, Rows
<1>9. QED
  BY <1>2, <1>3, <1>4, <1>5, <1>6, <1>7, <1>8, RowWriters

Paid(c) == moved[row[c].intent] > 0 /\ "ok" \in after[c]

\* Money moves in dispatch only, and one transfer at a time.
LEMMA MoneyMovesInDispatch ==
  ASSUME [Next]_vars
  PROVE  \/ UNCHANGED <<moved, known>>
         \/ \E w \in Workers :
              /\ Dispatch(w)
              /\ \/ moved' = moved
                 \/ moved' = [moved EXCEPT ![row[cur[w]].intent] = @ + 1]
<1>1. ASSUME NEW c \in Calls, Request(c) PROVE UNCHANGED <<moved, known>>
  BY <1>1 DEF Request, GateForExecute, GateForResume, HandOff, Resume, Abort
<1>2. ASSUME NEW w \in Workers, Cycle(w), ~Dispatch(w) PROVE UNCHANGED <<moved, known>>
  <2>1. ASSUME ProcessRow(w) PROVE UNCHANGED <<moved, known>>
    BY <1>2, <2>1 DEF ProcessRow, BeforeDispatch, EmitAfter, MarkDispatched, CompleteExecution,
         AlreadyExecuted, CompleteThrows, MarkSettled, MarkFailed, MarkReconciling,
         EmitFailureAfter, FailExecution, FailThrows, MarkPermanentlyFailed
  <2>2. CASE ReclaimStale(w) \/ TakeRow(w) \/ EndCycle(w)
    BY <2>2, Zenon DEF ReclaimStale, TakeRow, EndCycle
  <2>3. CASE ClaimNext(w)
    BY <2>3, Zenon DEF ClaimNext
  <2>4. QED
    BY <1>2, <2>1, <2>2, <2>3 DEF Cycle
<1>3. ASSUME NEW w \in Workers, Dispatch(w)
      PROVE  \/ moved' = moved
             \/ moved' = [moved EXCEPT ![row[cur[w]].intent] = @ + 1]
  BY <1>3 DEF Dispatch
<1>4. QED
  BY <1>1, <1>2, <1>3
     DEF Next, vars, Operator, Pause, Reject, Halt, Restore, TimePasses, CycleAborts

\* What ties keys to transfers: a row carries the key of the call that made it,
\* the providers know exactly the keys of the rows whose intents they have paid,
\* and nothing is paid before its hand-off.
KeysNameRows ==
  /\ \A c \in Existing : /\ row[c].key = <<row[c].intent, c>>
                         /\ row[c].key \in known <=> moved[row[c].intent] > 0
  /\ \A k \in known : \E c \in Existing : k = row[c].key
  /\ \A i \in Intents : intent[i] \notin HandedOver => moved[i] = 0
  /\ KeyedRailPaysOnce

\* A call the provider accepts leaves the intent paid, by this call or by an
\* earlier one under the same key, and the key known.
LEMMA DispatchPaysOnce ==
  ASSUME Typed, Linked, KeysNameRows, NEW w \in Workers, Dispatch(w)
  PROVE  \E o \in Outcomes(TypeOf[row[cur[w]].intent]) :
           /\ pc' = [pc EXCEPT ![w] = o[1]]
           /\ o[2] => moved'[row[cur[w]].intent] > 0
           /\ known' = IF o[2] THEN known \cup {row[cur[w]].key} ELSE known
           /\ moved' = IF o[2] /\ MakesTransfer(cur[w])
                       THEN [moved EXCEPT ![row[cur[w]].intent] = @ + 1] ELSE moved
<1> DEFINE c == cur[w]
           i == row[c].intent
<1>1. /\ c \in Existing /\ i \in Intents
      /\ moved \in [Intents -> Nat]
  BY DEF Dispatch, Typed, TypeOK, Linked, WorkersHoldExisting, RowsMatchIntents, RowStep,
     WorkerSteps
<1>2. PICK o \in Outcomes(TypeOf[i]) :
        /\ pc' = [pc EXCEPT ![w] = o[1]]
        /\ known' = IF o[2] THEN known \cup {row[c].key} ELSE known
        /\ moved' = IF o[2] /\ MakesTransfer(c) THEN [moved EXCEPT ![i] = @ + 1] ELSE moved
  BY DEF Dispatch, KeySent
<1>3. ASSUME o[2] PROVE moved'[i] > 0
  <2>1. CASE MakesTransfer(c)
    BY <1>1, <1>2, <1>3, <2>1
  <2>2. CASE ~MakesTransfer(c)
    <3>1. row[c].key \in known
      BY <2>2 DEF MakesTransfer, KeySent
    <3>2. QED
      BY <1>1, <1>2, <2>2, <3>1 DEF KeysNameRows
  <2>3. QED
    BY <2>1, <2>2
<1>4. QED
  BY <1>2, <1>3

\* However calls, retries and re-claims interleave, keys and transfers agree.
LEMMA KeysInvariant == Spec => []KeysNameRows
<1>1. Init => KeysNameRows
  BY DEF Init, KeysNameRows, KeyedRailPaysOnce, Existing, NoRow
<1>2. Typed /\ Linked /\ KeysNameRows /\ [Next]_vars => KeysNameRows'
  <2> SUFFICES ASSUME Typed, Linked, KeysNameRows, [Next]_vars PROVE KeysNameRows'
    OBVIOUS
  <2>0. /\ moved \in [Intents -> Nat] /\ Existing \subseteq Calls
        /\ \A c \in Existing : row[c].intent \in Intents
        /\ \A c, d \in Existing : row[c].intent = row[d].intent => c = d
    BY DEF Typed, TypeOK, Linked, RowsMatchIntents, Existing
  <2>1. CASE \E c \in Calls : HandOff(c)
    <3>1. PICK c \in Calls : HandOff(c)
      BY <2>1
    <3> DEFINE i == callIntent[c]
    <3>2. /\ c \notin Existing /\ i \in Intents
          /\ \A d \in Calls \ {c} : row'[d] = row[d]
          /\ row'[c].intent = i /\ row'[c].key = <<i, c>>
          /\ Existing' = Existing \cup {c}
      BY <3>1, HandOffAddsRow
    <3>3. moved' = moved /\ known' = known /\ intent[i] = "approved"
      BY <3>1 DEF HandOff, MayHandOver
    <3>4. moved[i] = 0
      BY <3>2, <3>3 DEF KeysNameRows, HandedOver
    <3>5. <<i, c>> \notin known
      BY <3>2 DEF KeysNameRows
    <3>6. \A d \in Existing : d \in Calls \ {c}
      BY <2>0, <3>2
    <3>7. /\ \A d \in Existing' : /\ row'[d].key = <<row'[d].intent, d>>
                                  /\ row'[d].key \in known <=> moved[row'[d].intent] > 0
          /\ \A k \in known : \E d \in Existing' : k = row'[d].key
      BY <3>2, <3>4, <3>5, <3>6 DEF KeysNameRows
    <3>8. \A j \in Intents : intent'[j] \notin HandedOver => moved[j] = 0
      BY IntentMoves DEF KeysNameRows, HandedOver
    <3>9. QED
      BY <3>3, <3>7, <3>8 DEF KeysNameRows, KeyedRailPaysOnce
  <2>2. CASE ~\E c \in Calls : HandOff(c)
    <3>1. /\ Existing' = Existing
          /\ \A c \in Existing : row'[c].intent = row[c].intent /\ row'[c].key = row[c].key
      BY <2>0, <2>2, RowsKeptOrHandOff
    <3>2. \A j \in Intents : intent'[j] \notin HandedOver => intent[j] \notin HandedOver
      BY IntentMoves DEF HandedOver
    <3>3. CASE UNCHANGED <<moved, known>>
      BY <2>0, <3>1, <3>2, <3>3 DEF KeysNameRows, KeyedRailPaysOnce
    <3>4. ASSUME NEW w \in Workers, Dispatch(w) PROVE KeysNameRows'
      <4> DEFINE c == cur[w]
                 i == row[c].intent
      <4>1. /\ c \in Existing /\ i \in Intents /\ intent[i] \in HandedOver
        BY <3>4 DEF Dispatch, Linked, WorkersHoldExisting, RowsMatchIntents, RowStep,
           WorkerSteps
      <4>2. PICK o \in Outcomes(TypeOf[i]) :
              /\ o[2] => moved'[i] > 0
              /\ known' = IF o[2] THEN known \cup {row[c].key} ELSE known
              /\ moved' = IF o[2] /\ MakesTransfer(c) THEN [moved EXCEPT ![i] = @ + 1]
                                                     ELSE moved
        BY <3>4, DispatchPaysOnce
      <4>3. CASE ~o[2]
        BY <3>3, <4>2, <4>3
      <4>4. CASE o[2]
        <5>1. \A j \in Intents \ {i} : moved'[j] = moved[j]
          BY <2>0, <4>2
        <5>2. \A d \in Existing \ {c} :
                /\ row[d].intent \in Intents \ {i}
                /\ row[d].key # row[c].key
          BY <2>0, <4>1 DEF KeysNameRows
        <5>3. \A d \in Existing : row[d].key \in known' <=> moved'[row[d].intent] > 0
          BY <4>1, <4>2, <4>4, <5>1, <5>2 DEF KeysNameRows
        <5>4. \A k \in known' : \E d \in Existing : k = row[d].key
          BY <4>1, <4>2, <4>4 DEF KeysNameRows
        <5>5. \A j \in Intents : intent'[j] \notin HandedOver => moved'[j] = 0
          BY <3>2, <4>1, <5>1 DEF KeysNameRows
        <5>6. ASSUME IdempotencyKeyed(TypeOf[i]) PROVE moved'[i] <= 1
          <6>1. CASE MakesTransfer(c)
            <7>1. row[c].key \notin known
              BY <5>6, <6>1 DEF MakesTransfer, KeySent
            <7>2. moved[i] = 0
              BY <2>0, <4>1, <7>1 DEF KeysNameRows
            <7>3. QED
              BY <2>0, <4>1, <4>2, <4>4, <6>1, <7>2
          <6>2. CASE ~MakesTransfer(c)
            BY <4>1, <4>2, <5>6, <6>2 DEF KeysNameRows, KeyedRailPaysOnce
          <6>3. QED
            BY <6>1, <6>2
        <5>7. KeyedRailPaysOnce'
          BY <5>1, <5>6 DEF KeysNameRows, KeyedRailPaysOnce
        <5>8. QED
          BY <3>1, <5>3, <5>4, <5>5, <5>7 DEF KeysNameRows
      <4>5. QED
        BY <4>3, <4>4
    <3>5. QED
      BY <3>3, <3>4, MoneyMovesInDispatch
  <2>3. QED
    BY <2>1, <2>2
<1>3. QED
  BY <1>1, <1>2, TypedInvariant, LinkedInvariant, PTL DEF Spec

\* A payment stays made, and audit events are only added.
LEMMA PaymentsStay ==
  ASSUME Typed, Linked, [Next]_vars, NEW c \in Existing
  PROVE  /\ moved[row[c].intent] > 0 => moved'[row'[c].intent] > 0
         /\ Paid(c) => Paid(c)'
<1> USE DEF Typed, TypeOK
<1>1. row'[c].intent = row[c].intent /\ row[c].intent \in Intents /\ c \in Calls
  BY OutcomesStay DEF Linked, RowsMatchIntents, Existing
<1>2. moved[row[c].intent] > 0 => moved'[row[c].intent] > 0
  <2>1. CASE moved' = moved
    BY <2>1
  <2>2. ASSUME NEW i, moved' = [moved EXCEPT ![i] = @ + 1]
        PROVE  moved[row[c].intent] > 0 => moved'[row[c].intent] > 0
    BY <1>1, <2>2
  <2>3. QED
    BY <2>1, <2>2, MoneyMovesInDispatch
<1>3. "ok" \in after[c] => "ok" \in after'[c]
  <2>1. CASE after' = after
    BY <2>1
  <2>2. ASSUME NEW w \in Workers, EmitAfter(w) \/ EmitFailureAfter(w)
        PROVE  "ok" \in after[c] => "ok" \in after'[c]
    <3>1. PICK o \in {"ok", "failed"} : after' = [after EXCEPT ![cur[w]] = @ \cup {o}]
      BY <2>2 DEF EmitAfter, EmitFailureAfter
    <3>2. QED
      BY <1>1, <3>1
  <2>3. QED
    BY <2>1, <2>2
    DEF Next, vars, Request, Operator, Cycle, ProcessRow, GateForExecute, GateForResume, HandOff,
        Resume, Abort, Pause, Reject, Halt, Restore, TimePasses, ReclaimStale, ClaimNext,
        TakeRow, EndCycle, BeforeDispatch, Dispatch, MarkDispatched, CompleteExecution,
        AlreadyExecuted, CompleteThrows, MarkSettled, MarkFailed, MarkReconciling,
        FailExecution, FailThrows, MarkPermanentlyFailed, CycleAborts
<1>4. QED
  BY <1>1, <1>2, <1>3 DEF Paid

\* A receipt in the row, or in a worker's copy of the row, or in a worker's
\* hands, means that the money moved and the audit pair was closed.
Receipted ==
  /\ \A c \in Existing : row[c].receipt => Paid(c)
  /\ \A w \in Workers :
       /\ \A s \in batch[w] : s.receipt => row[s.id].receipt
       /\ pc[w] = "audit" => moved[row[cur[w]].intent] > 0
       /\ pc[w] \in {"record", "complete"} => Paid(cur[w])
  /\ ExecutedWasPaidAndAudited

\* What a stored receipt implies holds throughout (worker.ts, the steps after markDispatched).
LEMMA ReceiptedInvariant == Spec => []Receipted
<1>1. Init => Receipted
  BY DEF Init, Receipted, ExecutedWasPaidAndAudited, Existing, NoRow
<1>2. Typed /\ Linked /\ KeysNameRows /\ Receipted /\ [Next]_vars => Receipted'
  <2> SUFFICES ASSUME Typed, Linked, KeysNameRows, Receipted, [Next]_vars PROVE Receipted'
    OBVIOUS
  <2> USE DEF Typed, TypeOK
  <2>1. \A c \in Existing' : row'[c].receipt => Paid(c)'
    <3> SUFFICES ASSUME NEW c \in Existing', row'[c].receipt PROVE Paid(c)'
      OBVIOUS
    <3>1. c \in Existing
      BY NewRow
    <3>2. CASE row'[c].receipt = row[c].receipt
      BY <3>1, <3>2, PaymentsStay DEF Receipted
    <3>3. ASSUME NEW w \in Workers, MarkDispatched(w), c = cur[w] PROVE Paid(c)
      BY <3>3 DEF MarkDispatched, Receipted
    <3>4. QED
      BY <3>1, <3>2, <3>3, ReceiptsStay, PaymentsStay
  <2>2. ASSUME NEW v \in Workers, NEW s \in batch'[v], s.receipt PROVE row'[s.id].receipt
    <3>1. CASE s \in batch[v]
      <4>1. s.id \in Existing /\ row[s.id].receipt
        BY <2>2, <3>1 DEF Linked, WorkersHoldExisting, Receipted
      <4>2. QED
        BY <4>1, ReceiptsStay
    <3>2. CASE s \notin batch[v]
      <4>1. PICK w \in Workers : ClaimNext(w)
        <5>1. ASSUME NEW w \in Workers, TakeRow(w) \/ CycleAborts(w) PROVE batch'[v] \subseteq batch[v]
          BY <5>1 DEF TakeRow, CycleAborts
        <5>2. \/ batch' = batch
              \/ \E w \in Workers : ClaimNext(w) \/ TakeRow(w) \/ CycleAborts(w)
          BY DEF Next, vars, memory, Request, Operator, Cycle, ProcessRow, GateForExecute,
             GateForResume, HandOff, Resume, Abort, Pause, Reject, Halt, Restore, TimePasses,
             ReclaimStale, EndCycle, BeforeDispatch, Dispatch, EmitAfter, MarkDispatched,
             CompleteExecution, AlreadyExecuted, CompleteThrows, MarkSettled, MarkFailed,
             MarkReconciling, EmitFailureAfter, FailExecution, FailThrows, MarkPermanentlyFailed
        <5>3. QED
          BY <2>2, <3>2, <5>1, <5>2
      <4>2. PICK taken \in SUBSET {c \in Calls : Claimable(c)} :
              batch' = [batch EXCEPT ![w] = {SnapshotOf(c) : c \in taken}]
        BY <4>1 DEF ClaimNext
      <4>3. PICK c \in taken : s = SnapshotOf(c)
        BY <2>2, <3>2, <4>2
      <4>4. c \in Existing /\ s.id = c /\ row[c].receipt
        BY <2>2, <4>3 DEF SnapshotOf, Claimable, Existing
      <4>5. QED
        BY <4>4, ReceiptsStay
    <3>3. QED
      BY <3>1, <3>2
  <2>3. ASSUME NEW v \in Workers, pc'[v] = "audit" PROVE moved'[row'[cur'[v]].intent] > 0
    <3>1. CASE pc[v] = "audit"
      <4>1. cur'[v] = cur[v] /\ cur[v] \in Existing
        BY <2>3, <3>1, WorkersMoveThemselves DEF Linked, WorkersHoldExisting, RowStep, WorkerSteps
      <4>2. QED
        BY <3>1, <4>1, PaymentsStay DEF Receipted
    <3>2. CASE pc[v] # "audit"
      <4> DEFINE i == row[cur[v]].intent
      <4>1. Dispatch(v)
        BY <2>3, <3>2, WorkersMoveThemselves
        DEF Cycle, ProcessRow, ReclaimStale, ClaimNext, TakeRow, FirstStep, EndCycle,
            BeforeDispatch, EmitAfter, MarkDispatched, CompleteExecution, AlreadyExecuted,
            CompleteThrows, MarkSettled, MarkFailed, MarkReconciling, EmitFailureAfter,
            FailExecution, FailThrows, MarkPermanentlyFailed, CycleAborts
      <4>2. PICK o \in Outcomes(TypeOf[i]) :
              pc' = [pc EXCEPT ![v] = o[1]] /\ (o[2] => moved'[i] > 0)
        BY <4>1, DispatchPaysOnce
      <4>3. o[1] = "audit"
        BY <2>3, <4>2
      <4>4. o[2]
        BY <4>3, OutcomeSteps
      <4>5. row' = row /\ cur' = cur
        BY <4>1 DEF Dispatch
      <4>6. QED
        BY <4>2, <4>4, <4>5
    <3>3. QED
      BY <3>1, <3>2
  <2>4. ASSUME NEW v \in Workers, pc'[v] \in {"record", "complete"} PROVE Paid(cur[v])'
    <3>1. CASE pc'[v] = pc[v]
      <4>1. cur'[v] = cur[v] /\ cur[v] \in Existing /\ Paid(cur[v])
        BY <2>4, <3>1, WorkersMoveThemselves
        DEF Linked, WorkersHoldExisting, RowStep, WorkerSteps, Receipted
      <4>2. QED
        BY <4>1, PaymentsStay DEF Paid
    <3>2. CASE pc'[v] # pc[v]
      <4>1. EmitAfter(v) \/ MarkDispatched(v) \/ TakeRow(v)
        <5>1. ASSUME Dispatch(v) PROVE FALSE
          <6>1. PICK o \in Outcomes(TypeOf[row[cur[v]].intent]) : pc' = [pc EXCEPT ![v] = o[1]]
            BY <5>1 DEF Dispatch
          <6>2. pc'[v] = o[1]
            BY <6>1
          <6>3. QED
            BY <2>4, <6>2, OutcomeSteps
        <5>2. QED
          BY <2>4, <3>2, <5>1, WorkersMoveThemselves
          DEF Cycle, ProcessRow, ReclaimStale, ClaimNext, EndCycle, BeforeDispatch,
              CompleteExecution, AlreadyExecuted, CompleteThrows, MarkSettled, MarkFailed,
              MarkReconciling, EmitFailureAfter, FailExecution, FailThrows,
              MarkPermanentlyFailed, CycleAborts
      <4>2. CASE EmitAfter(v)
        <5>1. cur[v] \in Calls /\ moved[row[cur[v]].intent] > 0
          BY <4>2 DEF EmitAfter, Receipted, WorkersHoldRows
        <5>2. QED
          BY <4>2, <5>1 DEF EmitAfter, Paid
      <4>3. CASE MarkDispatched(v)
        <5>1. cur[v] \in Existing /\ Paid(cur[v]) /\ cur' = cur
          BY <4>3 DEF MarkDispatched, Receipted, Linked, WorkersHoldExisting, RowStep, WorkerSteps
        <5>2. QED
          BY <5>1, PaymentsStay DEF Paid
      <4>4. CASE TakeRow(v)
        <5>1. PICK s \in batch[v] : /\ cur' = [cur EXCEPT ![v] = s.id]
                                    /\ pc' = [pc EXCEPT ![v] = FirstStep(s.receipt)]
          BY <4>4 DEF TakeRow
        <5>2. s.receipt
          BY <2>4, <5>1 DEF FirstStep
        <5>3. s.id \in Existing /\ Paid(s.id)
          BY <5>2 DEF Linked, WorkersHoldExisting, Receipted
        <5>4. cur'[v] = s.id
          BY <5>1
        <5>5. QED
          BY <5>3, <5>4, PaymentsStay DEF Paid
      <4>5. QED
        BY <4>1, <4>2, <4>3, <4>4
    <3>3. QED
      BY <3>1, <3>2
  <2>5. ExecutedWasPaidAndAudited'
    <3> SUFFICES ASSUME NEW c \in Existing', intent'[row'[c].intent] = "executed" PROVE Paid(c)'
      BY DEF ExecutedWasPaidAndAudited, Paid
    <3>1. c \in Existing
      BY NewRow
    <3>2. row'[c].intent = row[c].intent /\ row[c].intent \in Intents
      BY <3>1, OutcomesStay DEF Linked, RowsMatchIntents
    <3>3. CASE intent[row[c].intent] = "executed"
      BY <3>1, <3>3, PaymentsStay DEF Receipted, ExecutedWasPaidAndAudited, Paid
    <3>4. CASE intent[row[c].intent] # "executed"
      <4>1. PICK w \in Workers : CompleteExecution(w) /\ row[c].intent = row[cur[w]].intent
        BY <3>2, <3>4, IntentMoves
      <4>2. cur[w] \in Existing /\ Paid(cur[w])
        BY <4>1 DEF CompleteExecution, Receipted, Linked, WorkersHoldExisting, RowStep, WorkerSteps
      <4>3. c = cur[w]
        BY <3>1, <4>1, <4>2 DEF Linked, RowsMatchIntents
      <4>4. QED
        BY <4>2, <4>3, PaymentsStay
    <3>5. QED
      BY <3>3, <3>4
  <2>6. QED
    BY <2>1, <2>2, <2>3, <2>4, <2>5 DEF Receipted, Paid
<1>3. QED
  BY <1>1, <1>2, TypedInvariant, LinkedInvariant, KeysInvariant, PTL DEF Spec

\* Nothing executes that was not paid and audited first, also when another
\* worker, after a crash, settles from a stored receipt.
THEOREM ExecutedWasPaidAndAuditedHolds == Spec => []ExecutedWasPaidAndAudited
  BY ReceiptedInvariant, PTL DEF Receipted

\* On the rail that honours the idempotency key of the row, no number of calls,
\* retries, crashes and re-claims pays an intent twice.
THEOREM KeyedRailPaysOnceHolds == Spec => []KeyedRailPaysOnce
  BY KeysInvariant, PTL DEF KeysNameRows

\* A worker that is past the guard although the agent has been halted since: it
\* has made no call under this halt yet, and will not make another.
Overtaking(w) == pc[w] = "dispatch" /\ Halted(row[cur[w]].intent)

HaltIsBounded ==
  \A w \in Workers : /\ late[w] <= 1
                     /\ agent = "active" \/ Overtaking(w) => late[w] = 0

\* A halt is overtaken only by calls whose guard was passed before it, one for
\* each worker, whatever is queued, retried or re-claimed while it lasts.
THEOREM HaltOvertakesOneCallEachHolds == Spec => []HaltOvertakesOneCallEach
<1>1. Init => HaltIsBounded
  BY DEF Init, HaltIsBounded
<1>2. Typed /\ Linked /\ HaltIsBounded /\ [Next]_vars => HaltIsBounded'
  <2> SUFFICES ASSUME Typed, Linked, HaltIsBounded, [Next]_vars, NEW v \in Workers
               PROVE  /\ late'[v] <= 1
                      /\ agent' = "active" \/ Overtaking(v)' => late'[v] = 0
    BY DEF HaltIsBounded
  <2>0. /\ late \in [Workers -> Nat] /\ agent \in {"active", "quarantined"}
        /\ pc \in [Workers -> WorkerSteps] /\ cur \in [Workers -> Calls \cup {Nil}]
    BY DEF Typed, TypeOK
  <2>1. /\ late[v] <= 1
        /\ agent = "active" \/ Overtaking(v) => late[v] = 0
    BY DEF HaltIsBounded
  <2>2. ASSUME NEW w \in Workers, Dispatch(w)
        PROVE  /\ late'[v] <= 1
               /\ agent' = "active" \/ Overtaking(v)' => late'[v] = 0
    <3>1. agent' = agent /\ cur' = cur /\ row' = row /\ pc[w] = "dispatch"
      BY <2>2 DEF Dispatch
    <3>2. CASE v # w
      <4>1. late'[v] = late[v] /\ pc'[v] = pc[v]
        BY <2>0, <2>2, <3>2 DEF Dispatch
      <4>2. QED
        BY <2>1, <3>1, <4>1 DEF Overtaking, Halted
    <3>3. CASE v = w
      <4>1. pc'[v] # "dispatch"
        <5>1. PICK o \in Outcomes(TypeOf[row[cur[w]].intent]) : pc' = [pc EXCEPT ![w] = o[1]]
          BY <2>2 DEF Dispatch
        <5>2. pc'[v] = o[1]
          BY <2>0, <3>3, <5>1
        <5>3. QED
          BY <5>2, OutcomeSteps
      <4>2. late'[v] = IF Overtaking(v) THEN late[v] + 1 ELSE late[v]
        BY <2>0, <2>2, <3>1, <3>3 DEF Dispatch, Overtaking
      <4>3. Overtaking(v) => agent # "active"
        BY DEF Overtaking, Halted
      <4>4. QED
        BY <2>0, <2>1, <3>1, <4>1, <4>2, <4>3 DEF Overtaking
    <3>4. QED
      BY <3>2, <3>3
  <2>3. CASE Restore
    BY <2>3 DEF Restore, Overtaking, Halted
  <2>4. CASE Halt
    <3>1. agent' = "quarantined" /\ late' = late /\ row' = row /\ pc' = pc /\ cur' = cur
      BY <2>4 DEF Halt, memory
    <3>2. agent = "active" \/ (Overtaking(v)' => Overtaking(v))
      BY <2>0, <3>1 DEF Overtaking, Halted
    <3>3. QED
      BY <2>1, <3>1, <3>2
  <2>5. CASE ~Halt /\ ~Restore /\ \A w \in Workers : ~Dispatch(w)
    <3>1. late' = late /\ agent' = agent
      BY <2>5 DEF Next, vars, Request, Operator, Cycle, ProcessRow, GateForExecute,
         GateForResume, HandOff, Resume, Abort, Pause, Reject, TimePasses, ReclaimStale,
         ClaimNext, TakeRow, EndCycle, BeforeDispatch, EmitAfter, MarkDispatched,
         CompleteExecution, AlreadyExecuted, CompleteThrows, MarkSettled, MarkFailed,
         MarkReconciling, EmitFailureAfter, FailExecution, FailThrows, MarkPermanentlyFailed,
         CycleAborts
    <3>2. ASSUME Overtaking(v)' PROVE Overtaking(v)
      <4>1. CASE pc[v] = "dispatch"
        <5>1. cur'[v] = cur[v] /\ cur[v] \in Existing
          BY <3>2, <4>1, WorkersMoveThemselves
          DEF Overtaking, Linked, WorkersHoldExisting, RowStep, WorkerSteps
        <5>2. row'[cur[v]].intent = row[cur[v]].intent
          BY <5>1, OutcomesStay
        <5>3. QED
          BY <3>1, <3>2, <4>1, <5>1, <5>2 DEF Overtaking, Halted
      <4>2. CASE pc[v] # "dispatch"
        <5>1. Cycle(v) \/ CycleAborts(v)
          BY <3>2, <4>2, WorkersMoveThemselves DEF Overtaking
        <5>2. BeforeDispatch(v)
          BY <2>0, <2>5, <3>2, <5>1
          DEF Overtaking, Cycle, ProcessRow, ReclaimStale, ClaimNext, TakeRow, FirstStep,
              EndCycle, EmitAfter, MarkDispatched, CompleteExecution, AlreadyExecuted,
              CompleteThrows, MarkSettled, MarkFailed, MarkReconciling, EmitFailureAfter,
              FailExecution, FailThrows, MarkPermanentlyFailed, CycleAborts
        <5>3. row' = row /\ cur' = cur /\ AgentMayAct(row[cur[v]].intent)
          BY <2>0, <3>2, <5>2 DEF BeforeDispatch, Overtaking
        <5>4. QED
          BY <3>1, <3>2, <5>3 DEF Overtaking, Halted, AgentMayAct
      <4>3. QED
        BY <4>1, <4>2
    <3>3. QED
      BY <2>1, <3>1, <3>2
  <2>6. QED
    BY <2>2, <2>3, <2>4, <2>5
<1>3. HaltIsBounded => HaltOvertakesOneCallEach
  BY DEF HaltIsBounded, HaltOvertakesOneCallEach
<1>4. QED
  BY <1>1, <1>2, <1>3, TypedInvariant, LinkedInvariant, PTL DEF Spec

----------------------------------------------------------------------------
(* Workers that do not outstay their locks have their rows to themselves.  *)

\* A worker holds the row it processes and the rows left in its batch.
Holds(w, c) == cur[w] = c \/ \E s \in batch[w] : s.id = c

OwnersAreUnique ==
  /\ \A v, w \in Workers : \A c \in Calls : Holds(v, c) /\ Holds(w, c) => v = w
  /\ \A w \in Workers : \A s \in batch[w] :
       s.id # cur[w] /\ \A t \in batch[w] : t.id = s.id => t = s

MemoryFollowsStep ==
  \A w \in Workers :
    /\ pc[w] \in {"idle", "claim"} => batch[w] = {}
    /\ pc[w] \notin RowStep => cur[w] = Nil

\* While a row is held its lock is there and has not run out, which is what
\* keeps reclaimStale and every other claim away from it.
LocksCoverHolders ==
  \A c \in Calls :
    /\ Held(c) => row[c].status \in InFlight /\ ~row[c].elapsed
    /\ row[c].status \in InFlight => row[c].locked /\ row[c].attempts < MaxTotalAttempts
    /\ row[c].attempts <= MaxTotalAttempts

Exclusive == OwnersAreUnique /\ MemoryFollowsStep /\ LocksCoverHolders

\* What the outbox's UPDATE statements leave of the columns they do not set.
LEMMA KeptColumns ==
  ASSUME NEW r \in Rows, NEW s
  PROVE  /\ Claimed(r).locked /\ ~Claimed(r).elapsed
         /\ Claimed(r).attempts = r.attempts /\ Claimed(r).receipt = r.receipt
         /\ Attempted(r, s).attempts = r.attempts + 1
         /\ Attempted(r, s).receipt = r.receipt
         /\ LET d == [r EXCEPT !.status = "dispatched", !.receipt = TRUE]
            IN  d.locked = r.locked /\ d.elapsed = r.elapsed /\ d.attempts = r.attempts /\ d.receipt
         /\ LET t == [r EXCEPT !.status = s]
            IN  t.attempts = r.attempts /\ t.receipt = r.receipt
         /\ LET f == [r EXCEPT !.status = "pending", !.locked = FALSE]
            IN  f.attempts = r.attempts /\ f.receipt = r.receipt
         /\ LET e == [r EXCEPT !.elapsed = TRUE]
            IN  /\ e.status = r.status /\ e.locked = r.locked
                /\ e.attempts = r.attempts /\ e.receipt = r.receipt
  BY DEF Rows, Claimed, Attempted

\* The steps that touch the rows, or what workers hold of them.
LEMMA HoldingSteps ==
  ASSUME [Next]_vars
  PROVE  \/ UNCHANGED <<row, batch, cur>>
         \/ \E c \in Calls : HandOff(c) \/ TimePasses(c)
         \/ \E w \in Workers :
              \/ ReclaimStale(w) \/ ClaimNext(w) \/ TakeRow(w) \/ CycleAborts(w)
              \/ MarkDispatched(w) \/ MarkSettled(w)
              \/ MarkFailed(w) \/ MarkReconciling(w) \/ MarkPermanentlyFailed(w)
<1>1. ASSUME NEW c \in Calls, Request(c), ~HandOff(c) PROVE UNCHANGED <<row, batch, cur>>
  BY <1>1 DEF Request, GateForExecute, GateForResume, Resume, Abort, memory
<1>2. CASE Operator
  BY <1>2 DEF Operator, Pause, Reject, Halt, Restore, memory
<1>3. ASSUME NEW w \in Workers,
             \/ EndCycle(w) \/ BeforeDispatch(w) \/ Dispatch(w) \/ EmitAfter(w)
             \/ CompleteExecution(w) \/ AlreadyExecuted(w) \/ CompleteThrows(w)
             \/ EmitFailureAfter(w) \/ FailExecution(w) \/ FailThrows(w)
      PROVE  UNCHANGED <<row, batch, cur>>
  BY <1>3 DEF EndCycle, BeforeDispatch, Dispatch, EmitAfter, CompleteExecution,
     AlreadyExecuted, CompleteThrows, EmitFailureAfter, FailExecution, FailThrows
<1>4. CASE UNCHANGED vars
  BY <1>4 DEF vars, memory
<1>5. QED
  BY <1>1, <1>2, <1>3, <1>4 DEF Next, Cycle, ProcessRow

\* A worker forgets its batch and its row when it is through with them.
LEMMA MemoryStep ==
  ASSUME Typed, MemoryFollowsStep, [Next]_vars
  PROVE  MemoryFollowsStep'
<1> SUFFICES ASSUME NEW v \in Workers
             PROVE  /\ pc'[v] \in {"idle", "claim"} => batch'[v] = {}
                    /\ pc'[v] \notin RowStep => cur'[v] = Nil
  BY DEF MemoryFollowsStep
<1>0. /\ pc \in [Workers -> WorkerSteps] /\ batch \in [Workers -> SUBSET Snapshots]
      /\ cur \in [Workers -> Calls \cup {Nil}]
  BY DEF Typed, TypeOK
<1>1. /\ pc[v] \in {"idle", "claim"} => batch[v] = {}
      /\ pc[v] \notin RowStep => cur[v] = Nil
  BY DEF MemoryFollowsStep
<1>2. CASE UNCHANGED memory
  BY <1>1, <1>2 DEF memory
<1>3. ASSUME NEW w \in Workers,
             \/ ReclaimStale(w) \/ ClaimNext(w) \/ TakeRow(w) \/ EndCycle(w) \/ CycleAborts(w)
      PROVE  /\ pc'[v] \in {"idle", "claim"} => batch'[v] = {}
             /\ pc'[v] \notin RowStep => cur'[v] = Nil
  BY <1>0, <1>1, <1>3 DEF ReclaimStale, ClaimNext, TakeRow, EndCycle, CycleAborts, FirstStep,
     RowStep, WorkerSteps
<1>4. ASSUME NEW w \in Workers, ProcessRow(w)
      PROVE  /\ batch' = batch /\ pc[w] \in RowStep
             /\ \/ cur' = cur /\ \E st \in RowStep : pc' = [pc EXCEPT ![w] = st]
                \/ cur' = [cur EXCEPT ![w] = Nil] /\ pc' = [pc EXCEPT ![w] = "next"]
  <2>1. CASE BeforeDispatch(w)
    BY <2>1 DEF BeforeDispatch, RowStep, WorkerSteps
  <2>2. CASE Dispatch(w)
    BY <2>2, OutcomeSteps DEF Dispatch, RowStep, WorkerSteps
  <2>3. CASE \/ EmitAfter(w) \/ MarkDispatched(w) \/ CompleteExecution(w) \/ AlreadyExecuted(w)
             \/ CompleteThrows(w) \/ EmitFailureAfter(w) \/ FailExecution(w) \/ FailThrows(w)
    BY <2>3 DEF EmitAfter, MarkDispatched, CompleteExecution, AlreadyExecuted, CompleteThrows,
       EmitFailureAfter, FailExecution, FailThrows, RowStep, WorkerSteps
  <2>4. CASE MarkSettled(w) \/ MarkFailed(w) \/ MarkReconciling(w) \/ MarkPermanentlyFailed(w)
    BY <2>4 DEF MarkSettled, MarkFailed, MarkReconciling, MarkPermanentlyFailed, RowStep,
       WorkerSteps
  <2>5. QED
    BY <1>4, <2>1, <2>2, <2>3, <2>4 DEF ProcessRow
<1>5. ASSUME NEW w \in Workers, ProcessRow(w)
      PROVE  /\ pc'[v] \in {"idle", "claim"} => batch'[v] = {}
             /\ pc'[v] \notin RowStep => cur'[v] = Nil
  BY <1>0, <1>1, <1>4, <1>5 DEF RowStep
<1>6. UNCHANGED memory \/ \E w \in Workers : Cycle(w) \/ CycleAborts(w)
  BY DEF Next, vars, memory, Request, Operator, GateForExecute, GateForResume, HandOff, Resume,
         Abort, Pause, Reject, Halt, Restore, TimePasses
<1>7. QED
  BY <1>2, <1>3, <1>5, <1>6 DEF Cycle

\* A claim hands out rows nobody holds, and a worker only drops what it holds.
LEMMA OwnersStep ==
  ASSUME Typed, Linked, Exclusive, [Next]_vars
  PROVE  OwnersAreUnique'
<1>0. /\ batch \in [Workers -> SUBSET Snapshots] /\ cur \in [Workers -> Calls \cup {Nil}]
      /\ Nil \notin Calls
      /\ \A w \in Workers : \A s \in batch[w] : s.id \in Calls
  BY ConstantsAssumption DEF Typed, TypeOK, Snapshots
<1>1. OwnersAreUnique
  BY DEF Exclusive
<1>2. ASSUME UNCHANGED <<batch, cur>> PROVE OwnersAreUnique'
  BY <1>1, <1>2 DEF OwnersAreUnique, Holds
<1>3. ASSUME NEW w \in Workers, ClaimNext(w) PROVE OwnersAreUnique'
  <2>1. PICK taken \in SUBSET Calls :
          /\ \A c \in taken : Claimable(c)
          /\ batch' = [batch EXCEPT ![w] = {SnapshotOf(c) : c \in taken}]
    BY <1>3 DEF ClaimNext
  <2>2. cur' = cur /\ cur[w] = Nil
    BY <1>3 DEF ClaimNext, Exclusive, MemoryFollowsStep, RowStep
  <2>3. ASSUME NEW c \in taken, NEW v \in Workers PROVE ~Holds(v, c)
    BY <2>1 DEF Claimable, InFlight, Exclusive, LocksCoverHolders, Held, Holds
  <2>4. /\ \A s \in batch'[w] : s.id \in taken /\ s = SnapshotOf(s.id)
        /\ \A v \in Workers \ {w} : batch'[v] = batch[v]
    BY <1>0, <2>1 DEF SnapshotOf
  <2>5. \A v \in Workers, c \in Calls : Holds(v, c)' => Holds(v, c) \/ (v = w /\ c \in taken)
    BY <2>2, <2>4 DEF Holds
  <2>6. \A v \in Workers : \A s \in batch'[v] :
          s.id # cur'[v] /\ \A t \in batch'[v] : t.id = s.id => t = s
    BY <1>0, <1>1, <2>1, <2>2, <2>4 DEF OwnersAreUnique
  <2>7. \A u, v \in Workers : \A c \in Calls : Holds(u, c)' /\ Holds(v, c)' => u = v
    BY <1>1, <2>3, <2>5 DEF OwnersAreUnique
  <2>8. QED
    BY <2>6, <2>7 DEF OwnersAreUnique
<1>4. ASSUME NEW w \in Workers, TakeRow(w) PROVE OwnersAreUnique'
  <2>1. PICK s \in batch[w] :
          /\ batch' = [batch EXCEPT ![w] = @ \ {s}]
          /\ cur' = [cur EXCEPT ![w] = s.id]
    BY <1>4 DEF TakeRow
  <2>2. /\ cur'[w] = s.id /\ batch'[w] = batch[w] \ {s}
        /\ \A v \in Workers \ {w} : cur'[v] = cur[v] /\ batch'[v] = batch[v]
    BY <1>0, <2>1
  <2>3. \A v \in Workers, c \in Calls : Holds(v, c)' => Holds(v, c)
    BY <2>2 DEF Holds
  <2>4. QED
    BY <1>1, <2>2, <2>3 DEF OwnersAreUnique
<1>5. ASSUME NEW w \in Workers,
             /\ cur' = [cur EXCEPT ![w] = Nil]
             /\ batch' = batch \/ batch' = [batch EXCEPT ![w] = {}]
      PROVE  OwnersAreUnique'
  <2>1. /\ cur'[w] = Nil /\ \A v \in Workers \ {w} : cur'[v] = cur[v]
        /\ \A v \in Workers : batch'[v] \subseteq batch[v]
    BY <1>0, <1>5
  <2>2. \A v \in Workers, c \in Calls : Holds(v, c)' => Holds(v, c)
    BY <1>0, <2>1 DEF Holds
  <2>3. QED
    BY <1>0, <1>1, <2>1, <2>2 DEF OwnersAreUnique
<1>6. ASSUME NEW w \in Workers,
             \/ MarkSettled(w) \/ MarkFailed(w) \/ MarkReconciling(w)
             \/ MarkPermanentlyFailed(w) \/ CycleAborts(w)
      PROVE  OwnersAreUnique'
  BY <1>5, <1>6 DEF MarkSettled, MarkFailed, MarkReconciling, MarkPermanentlyFailed, CycleAborts
<1>7. ASSUME NEW w \in Workers, ReclaimStale(w) \/ MarkDispatched(w) PROVE OwnersAreUnique'
  BY <1>2, <1>7 DEF ReclaimStale, MarkDispatched
<1>8. ASSUME NEW c \in Calls, HandOff(c) \/ TimePasses(c) PROVE OwnersAreUnique'
  BY <1>2, <1>8 DEF HandOff, TimePasses, memory
<1>9. QED
  BY <1>2, <1>3, <1>4, <1>6, <1>7, <1>8, HoldingSteps

\* The lock of one row, as long as only its holder, a claim or reclaimStale
\* writes it.
Covered(c) ==
  /\ Held(c) => row[c].status \in InFlight /\ ~row[c].elapsed
  /\ row[c].status \in InFlight => row[c].locked /\ row[c].attempts < MaxTotalAttempts
  /\ row[c].attempts <= MaxTotalAttempts

\* A write of the worker that holds the row: it stays in flight and held, or it
\* leaves flight, and the hands of the only worker that had it.
LEMMA HolderWrites ==
  ASSUME Typed, Linked, Exclusive, NEW w \in Workers, NEW c \in Calls, ProcessRow(w), row' # row
  PROVE  Covered(c)'
<1>0. /\ batch \in [Workers -> SUBSET Snapshots] /\ cur \in [Workers -> Calls \cup {Nil}]
      /\ row \in [Calls -> Rows] /\ MaxTotalAttempts \in Nat
  BY ConstantsAssumption DEF Typed, TypeOK
<1>1. cur[w] \in Calls /\ batch' = batch /\ Held(cur[w])
  BY DEF ProcessRow, BeforeDispatch, Dispatch, EmitAfter, MarkDispatched, CompleteExecution,
     AlreadyExecuted, CompleteThrows, MarkSettled, MarkFailed, MarkReconciling, EmitFailureAfter,
     FailExecution, FailThrows, MarkPermanentlyFailed, Linked, WorkersHoldExisting, Existing,
     RowStep, WorkerSteps, Held
<1>2. /\ Covered(c) /\ Covered(cur[w]) /\ row[c] \in Rows /\ row[cur[w]] \in Rows
      /\ row[c].attempts \in Nat
  BY <1>0, <1>1 DEF Exclusive, LocksCoverHolders, Covered, Rows
<1>3. CASE MarkDispatched(w)
  <2>1. Held(c)' => Held(c)
    BY <1>1, <1>3 DEF MarkDispatched, Held
  <2>2. c # cur[w] => row'[c] = row[c]
    BY <1>0, <1>3 DEF MarkDispatched
  <2>3. c = cur[w] => row'[c] = [row[c] EXCEPT !.status = "dispatched", !.receipt = TRUE]
    BY <1>0, <1>3 DEF MarkDispatched
  <2>4. CASE c = cur[w]
    <3>1. /\ row'[c].status = "dispatched" /\ row'[c].locked = row[c].locked
          /\ row'[c].elapsed = row[c].elapsed /\ row'[c].attempts = row[c].attempts
      BY <1>2, <2>3, <2>4 DEF Rows
    <3>2. QED
      BY <1>1, <1>2, <2>4, <3>1 DEF Covered, InFlight
  <2>5. QED
    BY <1>2, <2>1, <2>2, <2>4 DEF Covered
<1>4. CASE MarkSettled(w) \/ MarkFailed(w) \/ MarkReconciling(w) \/ MarkPermanentlyFailed(w)
  <2>1. cur' = [cur EXCEPT ![w] = Nil]
    BY <1>4 DEF MarkSettled, MarkFailed, MarkReconciling, MarkPermanentlyFailed
  <2>2. PICK st \in RowStates \ InFlight :
          \/ row' = [row EXCEPT ![cur[w]].status = st]
          \/ row' = [row EXCEPT ![cur[w]] = Attempted(row[cur[w]], st)]
    BY <1>4 DEF MarkSettled, MarkFailed, MarkReconciling, MarkPermanentlyFailed, RowStates, InFlight
  <2>3. Held(c)' => Held(c)
    BY <1>0, <1>1, <2>1, ConstantsAssumption DEF Held
  <2>4. CASE c # cur[w]
    <3>1. row'[c] = row[c]
      BY <1>0, <2>2, <2>4
    <3>2. QED
      BY <1>2, <2>3, <3>1 DEF Covered
  <2>5. CASE c = cur[w]
    <3>1. ~Held(c)'
      BY <1>0, <1>1, <2>1, <2>5, ConstantsAssumption
      DEF Exclusive, OwnersAreUnique, Held, Holds
    <3>2. /\ row'[c].status = st
          /\ row'[c].attempts = row[c].attempts \/ row'[c].attempts = row[c].attempts + 1
      <4>1. row'[c] = [row[c] EXCEPT !.status = st] \/ row'[c] = Attempted(row[c], st)
        BY <1>0, <2>2, <2>5
      <4>2. /\ [row[c] EXCEPT !.status = st].status = st
            /\ [row[c] EXCEPT !.status = st].attempts = row[c].attempts
        BY <1>2 DEF Rows
      <4>3. /\ Attempted(row[c], st).status = st
            /\ Attempted(row[c], st).attempts = row[c].attempts + 1
        BY <1>2 DEF Rows, Attempted
      <4>4. QED
        BY <4>1, <4>2, <4>3
    <3>3. row[c].attempts < MaxTotalAttempts
      BY <1>1, <1>2, <2>5 DEF Covered
    <3>4. row'[c].attempts <= MaxTotalAttempts
      BY <1>0, <1>2, <3>2, <3>3
    <3>5. QED
      BY <2>2, <3>1, <3>2, <3>4 DEF Covered
  <2>6. QED
    BY <2>4, <2>5
<1>5. QED
  BY <1>3, <1>4 DEF ProcessRow, BeforeDispatch, Dispatch, EmitAfter, CompleteExecution,
     AlreadyExecuted, CompleteThrows, EmitFailureAfter, FailExecution, FailThrows

\* A claim locks what it takes, and reclaimStale takes rows nobody holds.
LEMMA ClaimsAndReclaims ==
  ASSUME Typed, Linked, Exclusive, NEW w \in Workers, NEW c \in Calls,
         ReclaimStale(w) \/ ClaimNext(w)
  PROVE  Covered(c)'
<1>0. /\ batch \in [Workers -> SUBSET Snapshots] /\ cur \in [Workers -> Calls \cup {Nil}]
      /\ row \in [Calls -> Rows] /\ MaxTotalAttempts \in Nat
  BY ConstantsAssumption DEF Typed, TypeOK
<1>1. Covered(c) /\ row[c] \in Rows /\ row[c].attempts \in Nat
  BY <1>0 DEF Exclusive, LocksCoverHolders, Covered, Rows
<1>2. CASE ReclaimStale(w)
  <2>1. Held(c)' = Held(c)
    BY <1>2 DEF ReclaimStale, Held
  <2>2. row'[c] = IF Stale(c) THEN [row[c] EXCEPT !.status = "pending", !.locked = FALSE]
                              ELSE row[c]
    BY <1>2 DEF ReclaimStale
  <2>3. CASE Stale(c)
    <3>1. ~Held(c)
      BY <1>1, <2>3 DEF Stale, Covered
    <3>2. row'[c].status = "pending" /\ row'[c].attempts = row[c].attempts
      BY <1>1, <2>2, <2>3, KeptColumns, WrittenStatus
    <3>3. QED
      BY <1>1, <2>1, <3>1, <3>2 DEF Covered, InFlight
  <2>4. CASE ~Stale(c)
    BY <1>1, <2>1, <2>2, <2>4 DEF Covered
  <2>5. QED
    BY <2>3, <2>4
<1>3. CASE ClaimNext(w)
  <2>1. PICK taken \in SUBSET {d \in Calls : Claimable(d)} :
          /\ row' = [d \in Calls |-> IF d \in taken THEN Claimed(row[d]) ELSE row[d]]
          /\ batch' = [batch EXCEPT ![w] = {SnapshotOf(d) : d \in taken}]
    BY <1>3 DEF ClaimNext
  <2>2. Held(c)' => Held(c) \/ c \in taken
    <3>1. cur' = cur
      BY <1>3 DEF ClaimNext
    <3>2. \A v \in Workers : \A s \in batch'[v] :
            (s \in batch[v] /\ v # w) \/ s.id \in taken
      BY <1>0, <2>1 DEF SnapshotOf
    <3>3. QED
      BY <3>1, <3>2 DEF Held
  <2>3. CASE c \in taken
    <3>1. row'[c] = Claimed(row[c]) /\ row[c].attempts < MaxTotalAttempts
      BY <2>1, <2>3 DEF Claimable
    <3>2. /\ row'[c].status = "dispatching" /\ row'[c].locked /\ ~row'[c].elapsed
          /\ row'[c].attempts = row[c].attempts
      BY <1>1, <3>1, KeptColumns, WrittenStatus
    <3>3. QED
      BY <1>0, <1>1, <3>1, <3>2 DEF Covered, InFlight
  <2>4. CASE c \notin taken
    BY <1>1, <2>1, <2>2, <2>4 DEF Covered
  <2>5. QED
    BY <2>3, <2>4
<1>4. QED
  BY <1>2, <1>3

\* While no live worker outstays its lock, every lock covers its holder.
LEMMA LocksStep ==
  ASSUME ~SlowWorkers, Typed, Linked, Exclusive, [Next]_vars
  PROVE  LocksCoverHolders'
<1> SUFFICES ASSUME NEW c \in Calls PROVE Covered(c)'
  BY DEF LocksCoverHolders, Covered
<1>0. /\ batch \in [Workers -> SUBSET Snapshots] /\ cur \in [Workers -> Calls \cup {Nil}]
      /\ row \in [Calls -> Rows] /\ MaxTotalAttempts \in Nat \ {0}
  BY ConstantsAssumption DEF Typed, TypeOK
<1>1. Covered(c) /\ row[c] \in Rows /\ row[c].attempts \in Nat
  BY <1>0 DEF Exclusive, LocksCoverHolders, Covered, Rows
<1>2. ASSUME UNCHANGED row, Held(c)' => Held(c) PROVE Covered(c)'
  BY <1>1, <1>2 DEF Covered
<1>3. CASE UNCHANGED <<row, batch, cur>>
  BY <1>2, <1>3 DEF Held
<1>4. ASSUME NEW d \in Calls, HandOff(d) PROVE Covered(c)'
  <2>1. Held(c)' = Held(c)
    BY <1>4 DEF HandOff, Held, memory
  <2>2. row' = [row EXCEPT ![d] = [intent |-> callIntent[d], key |-> <<callIntent[d], d>>,
                 status |-> "pending", attempts |-> 0, receipt |-> FALSE, locked |-> FALSE, elapsed |-> TRUE]]
    BY <1>4 DEF HandOff
  <2>3. CASE c = d
    <3>1. c \notin Existing
      BY <1>4, <2>3, HandOffAddsRow
    <3>2. ~Held(c)
      BY <1>1, <3>1 DEF Covered, Existing, InFlight
    <3>3. row'[c].status = "pending" /\ row'[c].attempts = 0
      BY <1>0, <2>2, <2>3
    <3>4. QED
      BY <1>0, <2>1, <3>2, <3>3 DEF Covered, InFlight
  <2>4. CASE c # d
    BY <1>0, <1>1, <2>1, <2>2, <2>4 DEF Covered
  <2>5. QED
    BY <2>3, <2>4
<1>5. ASSUME NEW d \in Calls, TimePasses(d) PROVE Covered(c)'
  <2>1. Held(c)' = Held(c)
    BY <1>5 DEF TimePasses, Held, memory
  <2>2. row' = [row EXCEPT ![d] = [row[d] EXCEPT !.elapsed = TRUE]]
    BY <1>5 DEF TimePasses
  <2>3. CASE c = d
    <3>1. ~Held(c)
      BY <1>1, <1>5, <2>3 DEF TimePasses, Covered, InFlight
    <3>2. /\ row'[c].status = row[c].status /\ row'[c].locked = row[c].locked
          /\ row'[c].attempts = row[c].attempts
      BY <1>0, <1>1, <2>2, <2>3, KeptColumns
    <3>3. QED
      BY <1>1, <2>1, <3>1, <3>2 DEF Covered
  <2>4. CASE c # d
    BY <1>0, <1>1, <2>1, <2>2, <2>4 DEF Covered
  <2>5. QED
    BY <2>3, <2>4
<1>6. ASSUME NEW w \in Workers, TakeRow(w) PROVE Covered(c)'
  <2>1. PICK s \in batch[w] :
          /\ batch' = [batch EXCEPT ![w] = @ \ {s}]
          /\ cur' = [cur EXCEPT ![w] = s.id]
    BY <1>6 DEF TakeRow
  <2>2. Held(c)' => Held(c)
    BY <1>0, <2>1 DEF Held
  <2>3. QED
    BY <1>2, <1>6, <2>2 DEF TakeRow
<1>7. ASSUME NEW w \in Workers, CycleAborts(w) PROVE Covered(c)'
  <2>1. Held(c)' => Held(c)
    BY <1>0, <1>7, ConstantsAssumption DEF CycleAborts, Held
  <2>2. QED
    BY <1>2, <1>7, <2>1 DEF CycleAborts
<1>8. ASSUME NEW w \in Workers,
             \/ MarkDispatched(w) \/ MarkSettled(w)
             \/ MarkFailed(w) \/ MarkReconciling(w) \/ MarkPermanentlyFailed(w)
      PROVE  Covered(c)'
  <2>1. ProcessRow(w)
    BY <1>8 DEF ProcessRow
  <2>2. CASE row' = row
    <3>1. Held(c)' => Held(c)
      BY <1>0, <1>8, ConstantsAssumption DEF MarkDispatched, MarkSettled, MarkFailed,
         MarkReconciling, MarkPermanentlyFailed, Held
    <3>2. QED
      BY <1>2, <2>2, <3>1
  <2>3. QED
    BY <2>1, <2>2, HolderWrites
<1>9. QED
  BY <1>3, <1>4, <1>5, <1>6, <1>7, <1>8, ClaimsAndReclaims, HoldingSteps

\* However workers, clocks and crashes interleave, a row has one holder.
LEMMA ExclusiveInvariant ==
  ASSUME ~SlowWorkers PROVE Spec => []Exclusive
<1>1. Init => Exclusive
  BY ConstantsAssumption
  DEF Init, Exclusive, OwnersAreUnique, MemoryFollowsStep, LocksCoverHolders, Holds, Held,
      NoRow, InFlight
<1>2. Typed /\ Linked /\ Exclusive /\ [Next]_vars => Exclusive'
  BY MemoryStep, OwnersStep, LocksStep DEF Exclusive
<1>3. QED
  BY <1>1, <1>2, TypedInvariant, LinkedInvariant, PTL DEF Spec

\* While live workers keep within their locks, two of them never work on the
\* same row (claimNext's SKIP LOCKED copies the rows out and commits).
THEOREM ClaimsAreExclusiveHolds ==
  ASSUME ~SlowWorkers PROVE Spec => []ClaimsAreExclusive
<1>1. Typed /\ Exclusive => ClaimsAreExclusive
  <2> SUFFICES ASSUME Typed, Exclusive, NEW c \in Calls
               PROVE  Cardinality({w \in Workers : cur[w] = c})
                      + Cardinality({x \in Workers \X Snapshots :
                                       x[2] \in batch[x[1]] /\ x[2].id = c}) <= 1
    BY DEF ClaimsAreExclusive
  <2> DEFINE P == {w \in Workers : cur[w] = c}
             Q == {x \in Workers \X Snapshots : x[2] \in batch[x[1]] /\ x[2].id = c}
  <2>0. /\ \A v, w \in Workers : Holds(v, c) /\ Holds(w, c) => v = w
        /\ \A w \in Workers : \A s \in batch[w] :
             s.id # cur[w] /\ \A t \in batch[w] : t.id = s.id => t = s
    BY DEF Exclusive, OwnersAreUnique
  <2>1. Cardinality({}) = 0 /\ \A e : Cardinality({e}) = 1
    BY FS_EmptySet, FS_Singleton
  <2>2. P = {} \/ \E w : P = {w}
    BY <2>0 DEF Holds
  <2>3. Q = {} \/ \E x : Q = {x}
    <3>1. ASSUME NEW x \in Q, NEW y \in Q PROVE x = y
      <4>1. /\ x[1] \in Workers /\ y[1] \in Workers /\ x = <<x[1], x[2]>> /\ y = <<y[1], y[2]>>
            /\ x[2] \in batch[x[1]] /\ y[2] \in batch[y[1]] /\ x[2].id = c /\ y[2].id = c
        OBVIOUS
      <4>2. x[1] = y[1]
        BY <2>0, <4>1 DEF Holds
      <4>3. x[2] = y[2]
        BY <2>0, <4>1, <4>2
      <4>4. QED
        BY <4>1, <4>2, <4>3
    <3> HIDE DEF Q
    <3>2. QED
      BY <3>1
  <2>4. P = {} \/ Q = {}
    <3>1. ASSUME NEW w \in P, NEW x \in Q PROVE FALSE
      <4>1. /\ w \in Workers /\ cur[w] = c
            /\ x[1] \in Workers /\ x[2] \in batch[x[1]] /\ x[2].id = c
        OBVIOUS
      <4>2. x[1] = w
        BY <2>0, <4>1 DEF Holds
      <4>3. QED
        BY <2>0, <4>1, <4>2
    <3> HIDE DEF P, Q
    <3>2. QED
      BY <3>1
  <2> HIDE DEF P, Q
  <2>5. Cardinality(P) + Cardinality(Q) <= 1
    <3>1. Cardinality(P) = 0 \/ Cardinality(P) = 1
      BY <2>1, <2>2
    <3>2. Cardinality(Q) = 0 \/ Cardinality(Q) = 1
      BY <2>1, <2>3
    <3>3. Cardinality(P) = 0 \/ Cardinality(Q) = 0
      BY <2>1, <2>4
    <3>4. QED
      BY <3>1, <3>2, <3>3
  <2>6. QED
    BY <2>5 DEF P, Q
<1>2. QED
  BY <1>1, TypedInvariant, ExclusiveInvariant, PTL

\* While live workers keep within their locks, no attempt is counted beyond the
\* ceiling at which claimNext stops.
THEOREM AttemptsStayUnderCeilingHolds ==
  ASSUME ~SlowWorkers PROVE Spec => []AttemptsStayUnderCeiling
<1>1. Exclusive => AttemptsStayUnderCeiling
  BY DEF Exclusive, LocksCoverHolders, AttemptsStayUnderCeiling
<1>2. QED
  BY <1>1, ExclusiveInvariant, PTL

\* While live workers keep within their locks, a row in flight never loses the
\* lock by which reclaimStale finds it after a crash.
THEOREM InFlightIsRecoverableHolds ==
  ASSUME ~SlowWorkers PROVE Spec => []InFlightIsRecoverable
<1>1. Exclusive => InFlightIsRecoverable
  BY DEF Exclusive, LocksCoverHolders, InFlightIsRecoverable
<1>2. QED
  BY <1>1, ExclusiveInvariant, PTL

\* While live workers keep within their locks, a settled or failed row is never
\* written again: its last holder has let go of it.
THEOREM OutcomesAreFinalHolds ==
  ASSUME ~SlowWorkers PROVE Spec => OutcomesAreFinal
<1> DEFINE Final == \A c \in Calls : row[c].status \in {"settled", "failed"} => row'[c] = row[c]
<1>1. Typed /\ Linked /\ Exclusive /\ [Next]_vars => Final
  <2> SUFFICES ASSUME Typed, Linked, Exclusive, [Next]_vars,
                      NEW c \in Calls, row[c].status \in {"settled", "failed"}
               PROVE  row'[c] = row[c]
    OBVIOUS
  <2>0. row \in [Calls -> Rows]
    BY DEF Typed, TypeOK
  <2>1. c \in Existing /\ \A w \in Workers : cur[w] # c
    BY DEF Existing, Exclusive, LocksCoverHolders, Held, InFlight
  <2>2. ASSUME NEW d \in Calls, HandOff(d) PROVE row'[c] = row[c]
    BY <2>1, <2>2, HandOffAddsRow
  <2>3. ASSUME NEW d \in Calls, TimePasses(d) PROVE row'[c] = row[c]
    BY <2>0, <2>3 DEF TimePasses, InFlight
  <2>4. ASSUME NEW w \in Workers, ReclaimStale(w) PROVE row'[c] = row[c]
    BY <2>4 DEF ReclaimStale, Stale, InFlight
  <2>5. ASSUME NEW w \in Workers, ClaimNext(w) PROVE row'[c] = row[c]
    <3>1. PICK taken \in SUBSET {d \in Calls : Claimable(d)} :
            row' = [d \in Calls |-> IF d \in taken THEN Claimed(row[d]) ELSE row[d]]
      BY <2>5 DEF ClaimNext
    <3>2. QED
      BY <3>1 DEF Claimable
  <2>6. ASSUME NEW w \in Workers,
               \/ MarkDispatched(w) \/ MarkSettled(w)
               \/ MarkFailed(w) \/ MarkReconciling(w) \/ MarkPermanentlyFailed(w)
        PROVE  row'[c] = row[c]
    BY <2>0, <2>1, <2>6
    DEF MarkDispatched, MarkSettled, MarkFailed, MarkReconciling, MarkPermanentlyFailed
  <2>7. QED
    BY <2>2, <2>3, <2>4, <2>5, <2>6, RowWriters
<1>2. QED
  BY <1>1, TypedInvariant, LinkedInvariant, ExclusiveInvariant, PTL DEF Spec, OutcomesAreFinal

----------------------------------------------------------------------------
(* What a rail without an idempotency key can cost.                        *)

\* A worker that may have called the rail for the row, and has counted neither
\* an attempt nor an outcome yet.
Spent(c) == \E w \in Workers : cur[w] = c /\ pc[w] \in RowStep \ {"guard", "dispatch"}

\* The transfers made so far, by the state of the row.
Accounted(c) ==
  moved[row[c].intent] <= IF row[c].receipt THEN MaxTotalAttempts + aborts
                          ELSE row[c].attempts + aborts + (IF Spent(c) THEN 1 ELSE 0)

\* With a receipt in the row nobody calls the rail again, and nobody completes
\* without one.
ReceiptsDecide ==
  \A w \in Workers :
    /\ \A s \in batch[w] : s.receipt = row[s.id].receipt
    /\ pc[w] \in {"guard", "dispatch"} => ~row[cur[w]].receipt
    /\ pc[w] \in {"complete", "settle"} => row[cur[w]].receipt

Metered ==
  /\ ReceiptsDecide
  /\ \A i \in Intents : intent[i] \notin HandedOver => moved[i] = 0
  /\ \A c \in Existing : Accounted(c)

\* The row a worker processes is a row.
LEMMA RowInHand ==
  ASSUME Typed, Linked, NEW w \in Workers, pc[w] \in RowStep
  PROVE  /\ cur[w] \in Existing /\ cur[w] \in Calls /\ row[cur[w]] \in Rows
         /\ row[cur[w]].intent \in Intents /\ intent[row[cur[w]].intent] \in HandedOver
  BY DEF Typed, TypeOK, Linked, WorkersHoldExisting, RowsMatchIntents, Existing

\* Only the holder of a row changes whether it has a receipt.
LEMMA ReceiptOfAHeldRow ==
  ASSUME Typed, Linked, Exclusive, [Next]_vars, NEW v \in Workers, NEW c \in Existing, Holds(v, c)
  PROVE  row'[c].receipt = row[c].receipt \/ (MarkDispatched(v) /\ c = cur[v])
<1>1. CASE \E w \in Workers : MarkDispatched(w) /\ c = cur[w]
  BY <1>1 DEF Exclusive, OwnersAreUnique, Holds, Existing
<1>2. CASE ~ \E w \in Workers : MarkDispatched(w) /\ c = cur[w]
  BY <1>2, ReceiptsStay
<1>3. QED
  BY <1>1, <1>2

\* Where a worker on its way to the rail, or past a stored receipt, comes from.
LEMMA WorkersComeFrom ==
  ASSUME Typed, [Next]_vars, NEW v \in Workers
  PROVE  /\ batch'[v] \subseteq batch[v] \/ ClaimNext(v)
         /\ pc'[v] \in {"guard", "dispatch"} =>
              TakeRow(v) \/ (pc[v] \in {"guard", "dispatch"} /\ cur'[v] = cur[v])
         /\ pc'[v] \in {"complete", "settle"} =>
              \/ TakeRow(v) \/ MarkDispatched(v)
              \/ pc[v] \in {"complete", "settle"} /\ cur'[v] = cur[v]
<1>0. /\ pc \in [Workers -> WorkerSteps] /\ batch \in [Workers -> SUBSET Snapshots]
      /\ cur \in [Workers -> Calls \cup {Nil}]
  BY DEF Typed, TypeOK
<1>1. CASE \E w \in Workers : w # v /\ (Cycle(w) \/ CycleAborts(w))
  <2>1. PICK w \in Workers : w # v /\ (Cycle(w) \/ CycleAborts(w))
    BY <1>1
  <2>2. pc'[v] = pc[v] /\ cur'[v] = cur[v] /\ batch'[v] = batch[v]
    <3>1. CASE ReclaimStale(w) \/ ClaimNext(w) \/ TakeRow(w) \/ EndCycle(w) \/ CycleAborts(w)
      BY <1>0, <2>1, <3>1 DEF ReclaimStale, ClaimNext, TakeRow, EndCycle, CycleAborts
    <3>2. CASE ProcessRow(w)
      BY <1>0, <2>1, <3>2
      DEF ProcessRow, BeforeDispatch, Dispatch, EmitAfter, MarkDispatched, CompleteExecution,
          AlreadyExecuted, CompleteThrows, MarkSettled, MarkFailed, MarkReconciling,
          EmitFailureAfter, FailExecution, FailThrows, MarkPermanentlyFailed
    <3>3. QED
      BY <2>1, <3>1, <3>2 DEF Cycle
  <2>3. QED
    BY <2>2
<1>2. CASE UNCHANGED memory
  BY <1>2 DEF memory
<1>3. CASE Cycle(v) \/ CycleAborts(v)
  <2>1. CASE ClaimNext(v) \/ TakeRow(v)
    BY <1>0, <2>1 DEF ClaimNext, TakeRow
  <2>2. CASE ReclaimStale(v) \/ EndCycle(v) \/ CycleAborts(v)
    BY <1>0, <2>2 DEF ReclaimStale, EndCycle, CycleAborts
  <2>3. CASE BeforeDispatch(v) \/ EmitAfter(v) \/ EmitFailureAfter(v) \/ MarkDispatched(v)
    BY <1>0, <2>3 DEF BeforeDispatch, EmitAfter, EmitFailureAfter, MarkDispatched
  <2>4. CASE Dispatch(v)
    <3>1. PICK o \in Outcomes(TypeOf[row[cur[v]].intent]) : pc' = [pc EXCEPT ![v] = o[1]]
      BY <2>4 DEF Dispatch
    <3>2. pc'[v] \in {"audit", "reconcile", "retry", "auditFailure"}
      BY <1>0, <3>1, OutcomeSteps
    <3>3. QED
      BY <2>4, <3>2 DEF Dispatch
  <2>5. CASE CompleteExecution(v) \/ AlreadyExecuted(v) \/ CompleteThrows(v)
    BY <1>0, <2>5 DEF CompleteExecution, AlreadyExecuted, CompleteThrows
  <2>6. CASE FailExecution(v) \/ FailThrows(v)
    BY <1>0, <2>6 DEF FailExecution, FailThrows
  <2>7. CASE MarkSettled(v) \/ MarkFailed(v) \/ MarkReconciling(v) \/ MarkPermanentlyFailed(v)
    BY <1>0, <2>7 DEF MarkSettled, MarkFailed, MarkReconciling, MarkPermanentlyFailed
  <2>8. QED
    BY <1>3, <2>1, <2>2, <2>3, <2>4, <2>5, <2>6, <2>7 DEF Cycle, ProcessRow
<1>4. UNCHANGED memory \/ \E w \in Workers : Cycle(w) \/ CycleAborts(w)
  BY DEF Next, vars, memory, Request, Operator, GateForExecute, GateForResume, HandOff, Resume,
         Abort, Pause, Reject, Halt, Restore, TimePasses
<1>5. QED
  BY <1>1, <1>2, <1>3, <1>4

\* Whether the rail is still to be called is decided by the receipt, which the
\* copy in the batch shows as the row does.
LEMMA ReceiptsDecideStep ==
  ASSUME Typed, Linked, Exclusive, ReceiptsDecide, [Next]_vars
  PROVE  ReceiptsDecide'
<1> SUFFICES ASSUME NEW v \in Workers
             PROVE  /\ \A s \in batch'[v] : s.receipt = row'[s.id].receipt
                    /\ pc'[v] \in {"guard", "dispatch"} => ~row'[cur'[v]].receipt
                    /\ pc'[v] \in {"complete", "settle"} => row'[cur'[v]].receipt
  BY DEF ReceiptsDecide
<1>0. /\ row \in [Calls -> Rows] /\ batch \in [Workers -> SUBSET Snapshots]
      /\ pc \in [Workers -> WorkerSteps] /\ cur \in [Workers -> Calls \cup {Nil}]
  BY DEF Typed, TypeOK
<1>1. ASSUME NEW s \in batch[v] PROVE row'[s.id].receipt = row[s.id].receipt
  <2>1. s.id \in Existing /\ Holds(v, s.id) /\ s.id # cur[v]
    BY DEF Linked, WorkersHoldExisting, Holds, Exclusive, OwnersAreUnique
  <2>2. QED
    BY <2>1, ReceiptOfAHeldRow
<1>2. ASSUME pc[v] \in RowStep
      PROVE  row'[cur[v]].receipt = row[cur[v]].receipt \/ MarkDispatched(v)
  BY <1>2, RowInHand, ReceiptOfAHeldRow DEF Holds
<1>3. ASSUME NEW s \in batch'[v] PROVE s.receipt = row'[s.id].receipt
  <2>1. CASE s \in batch[v]
    BY <1>1, <2>1 DEF ReceiptsDecide
  <2>2. CASE ClaimNext(v) /\ s \notin batch[v]
    <3>1. PICK taken \in SUBSET {d \in Calls : Claimable(d)} :
            /\ row' = [d \in Calls |-> IF d \in taken THEN Claimed(row[d]) ELSE row[d]]
            /\ batch' = [batch EXCEPT ![v] = {SnapshotOf(d) : d \in taken}]
      BY <2>2 DEF ClaimNext
    <3>2. PICK c \in taken : s = SnapshotOf(c)
      BY <1>0, <3>1
    <3>3. row'[c].receipt = row[c].receipt
      BY <1>0, <3>1, <3>2, KeptColumns
    <3>4. QED
      BY <3>2, <3>3 DEF SnapshotOf
  <2>3. QED
    BY <2>1, <2>2, WorkersComeFrom
<1>4. CASE TakeRow(v)
  <2>1. PICK s \in batch[v] :
          /\ cur' = [cur EXCEPT ![v] = s.id] /\ pc' = [pc EXCEPT ![v] = FirstStep(s.receipt)]
    BY <1>4 DEF TakeRow
  <2>2. cur'[v] = s.id /\ pc'[v] = IF s.receipt THEN "complete" ELSE "guard"
    BY <1>0, <2>1 DEF FirstStep
  <2>3. row'[s.id].receipt = s.receipt
    BY <1>1 DEF ReceiptsDecide
  <2>4. QED
    BY <1>3, <2>2, <2>3
<1>5. CASE MarkDispatched(v)
  <2>1. pc'[v] = "complete" /\ cur'[v] = cur[v] /\ cur[v] \in Calls /\ row[cur[v]] \in Rows
    BY <1>0, <1>5, RowInHand DEF MarkDispatched, RowStep, WorkerSteps
  <2>2. row'[cur[v]] = [row[cur[v]] EXCEPT !.status = "dispatched", !.receipt = TRUE]
    BY <1>0, <1>5, <2>1 DEF MarkDispatched
  <2>3. row'[cur[v]].receipt = TRUE
    BY <2>1, <2>2 DEF Rows
  <2>4. QED
    BY <1>3, <2>1, <2>3
<1>6. CASE ~TakeRow(v) /\ ~MarkDispatched(v)
  <2>1. ASSUME pc'[v] \in {"guard", "dispatch"} PROVE ~row'[cur'[v]].receipt
    <3>1. pc[v] \in {"guard", "dispatch"} /\ cur'[v] = cur[v]
      BY <1>6, <2>1, WorkersComeFrom
    <3>2. row'[cur[v]].receipt = row[cur[v]].receipt
      BY <1>2, <1>6, <3>1 DEF RowStep, WorkerSteps
    <3>3. QED
      BY <3>1, <3>2 DEF ReceiptsDecide
  <2>2. ASSUME pc'[v] \in {"complete", "settle"} PROVE row'[cur'[v]].receipt
    <3>1. pc[v] \in {"complete", "settle"} /\ cur'[v] = cur[v]
      BY <1>6, <2>2, WorkersComeFrom
    <3>2. row'[cur[v]].receipt = row[cur[v]].receipt
      BY <1>2, <1>6, <3>1 DEF RowStep, WorkerSteps
    <3>3. QED
      BY <3>1, <3>2 DEF ReceiptsDecide
  <2>3. QED
    BY <1>3, <2>1, <2>2
<1>7. QED
  BY <1>4, <1>5, <1>6

\* The three statements that count an attempt.
Counts(w) == MarkFailed(w) \/ MarkReconciling(w) \/ MarkPermanentlyFailed(w)

\* Neither attempts nor cut-short cycles are ever uncounted.
LEMMA CountsGrow ==
  ASSUME Typed, Linked, [Next]_vars, NEW c \in Existing
  PROVE  /\ aborts \in Nat /\ aborts' \in Nat /\ row[c].attempts \in Nat /\ row'[c].attempts \in Nat
         /\ aborts' = aborts \/ aborts' = aborts + 1
         /\ row'[c].attempts = row[c].attempts \/ row'[c].attempts = row[c].attempts + 1
         /\ \A w \in Workers : CycleAborts(w) => aborts' = aborts + 1
         /\ \A w \in Workers : Counts(w) /\ cur[w] = c => row'[c].attempts = row[c].attempts + 1
<1>0. /\ row \in [Calls -> Rows] /\ c \in Calls /\ row[c] \in Rows /\ aborts \in Nat
      /\ row[c].attempts \in Nat
  BY DEF Typed, TypeOK, Existing, Rows
<1>1. \A w \in Workers : CycleAborts(w) => aborts' = aborts + 1
  BY DEF CycleAborts
<1>2. aborts' = aborts \/ \E w \in Workers : CycleAborts(w)
  <2>1. ASSUME NEW d \in Calls, Request(d) \/ TimePasses(d) PROVE aborts' = aborts
    BY <2>1 DEF Request, GateForExecute, GateForResume, HandOff, Resume, Abort, TimePasses, budgets
  <2>2. CASE Operator
    BY <2>2 DEF Operator, Pause, Reject, Halt, Restore, budgets
  <2>3. ASSUME NEW w \in Workers, Cycle(w) PROVE aborts' = aborts
    BY <2>3 DEF Cycle, ProcessRow, ReclaimStale, ClaimNext, TakeRow, EndCycle, BeforeDispatch,
       Dispatch, EmitAfter, MarkDispatched, CompleteExecution, AlreadyExecuted, CompleteThrows,
       MarkSettled, MarkFailed, MarkReconciling, EmitFailureAfter, FailExecution, FailThrows,
       MarkPermanentlyFailed, budgets
  <2>4. CASE UNCHANGED vars
    BY <2>4 DEF vars, budgets
  <2>5. QED
    BY <2>1, <2>2, <2>3, <2>4 DEF Next
<1>3. ASSUME NEW w \in Workers, Counts(w)
      PROVE  row'[c].attempts = IF c = cur[w] THEN row[c].attempts + 1 ELSE row[c].attempts
  <2>1. PICK st : row' = [row EXCEPT ![cur[w]] = Attempted(row[cur[w]], st)]
    BY <1>3 DEF Counts, MarkFailed, MarkReconciling, MarkPermanentlyFailed
  <2>2. row'[c] = IF c = cur[w] THEN Attempted(row[c], st) ELSE row[c]
    BY <1>0, <2>1
  <2>3. Attempted(row[c], st).attempts = row[c].attempts + 1
    BY <1>0 DEF Attempted, Rows
  <2>4. QED
    BY <2>2, <2>3
<1>4. ASSUME \A w \in Workers : ~Counts(w) PROVE row'[c].attempts = row[c].attempts
  <2>1. CASE row' = row
    BY <2>1
  <2>2. ASSUME NEW d \in Calls, HandOff(d) PROVE row'[c].attempts = row[c].attempts
    BY <1>0, <2>2, HandOffAddsRow
  <2>3. ASSUME NEW d \in Calls, TimePasses(d) PROVE row'[c].attempts = row[c].attempts
    BY <1>0, <2>3 DEF TimePasses, Rows
  <2>4. ASSUME NEW w \in Workers, ReclaimStale(w) PROVE row'[c].attempts = row[c].attempts
    BY <1>0, <2>4 DEF ReclaimStale, Rows
  <2>5. ASSUME NEW w \in Workers, ClaimNext(w) PROVE row'[c].attempts = row[c].attempts
    <3>1. PICK taken \in SUBSET {d \in Calls : Claimable(d)} :
            row' = [d \in Calls |-> IF d \in taken THEN Claimed(row[d]) ELSE row[d]]
      BY <2>5 DEF ClaimNext
    <3>2. QED
      BY <1>0, <3>1, KeptColumns
  <2>6. ASSUME NEW w \in Workers, MarkDispatched(w) \/ MarkSettled(w)
        PROVE  row'[c].attempts = row[c].attempts
    <3>1. PICK st \in RowStates :
            \/ row' = [row EXCEPT ![cur[w]] = [@ EXCEPT !.status = "dispatched", !.receipt = TRUE]]
            \/ row' = [row EXCEPT ![cur[w]] = [@ EXCEPT !.status = st]]
      BY <2>6 DEF MarkDispatched, MarkSettled, RowStates
    <3>2. \/ row'[c] = row[c]
          \/ row'[c] = [row[c] EXCEPT !.status = "dispatched", !.receipt = TRUE]
          \/ row'[c] = [row[c] EXCEPT !.status = st]
      BY <1>0, <3>1
    <3>3. QED
      BY <1>0, <3>2 DEF Rows
  <2>7. QED
    BY <1>4, <2>1, <2>2, <2>3, <2>4, <2>5, <2>6, RowWriters DEF Counts
<1>5. QED
  BY <1>0, <1>1, <1>2, <1>3, <1>4

\* A call of the rail that may have been made is not forgotten before it is
\* counted: as an attempt, as a cycle cut short, or by the receipt.
LEMMA SpentIsCounted ==
  ASSUME Typed, Linked, ReceiptsDecide, [Next]_vars, NEW c \in Existing, Spent(c), ~Spent(c)'
  PROVE  \/ \E w \in Workers : CycleAborts(w) \/ (Counts(w) /\ cur[w] = c)
         \/ row[c].receipt
<1>0. /\ pc \in [Workers -> WorkerSteps] /\ cur \in [Workers -> Calls \cup {Nil}]
  BY DEF Typed, TypeOK
<1>1. PICK w \in Workers : cur[w] = c /\ pc[w] \in RowStep \ {"guard", "dispatch"}
  BY DEF Spent
<1>2. Cycle(w) \/ CycleAborts(w)
  <2>1. CASE pc'[w] = pc[w]
    BY <1>1, <2>1, WorkersMoveThemselves DEF Spent
  <2>2. QED
    BY <2>1, WorkersMoveThemselves
<1>3. ProcessRow(w) \/ CycleAborts(w)
  BY <1>1, <1>2 DEF Cycle, ReclaimStale, ClaimNext, TakeRow, EndCycle, RowStep
<1>4. ~BeforeDispatch(w) /\ ~Dispatch(w)
  BY <1>1 DEF BeforeDispatch, Dispatch
<1>5. ASSUME \/ EmitAfter(w) \/ MarkDispatched(w) \/ CompleteExecution(w) \/ AlreadyExecuted(w)
             \/ CompleteThrows(w) \/ EmitFailureAfter(w) \/ FailExecution(w) \/ FailThrows(w)
      PROVE  FALSE
  <2>1. cur'[w] = c /\ pc'[w] \in RowStep \ {"guard", "dispatch"}
    BY <1>0, <1>1, <1>5 DEF EmitAfter, MarkDispatched, CompleteExecution, AlreadyExecuted,
       CompleteThrows, EmitFailureAfter, FailExecution, FailThrows, RowStep, WorkerSteps
  <2>2. QED
    BY <2>1 DEF Spent
<1>6. CASE MarkSettled(w)
  BY <1>1, <1>6 DEF MarkSettled, ReceiptsDecide
<1>7. QED
  BY <1>1, <1>3, <1>4, <1>5, <1>6 DEF ProcessRow, Counts

\* A row that was there before the step still accounts for its transfers.
LEMMA RowAccounts ==
  ASSUME Typed, Linked, Exclusive, Metered, [Next]_vars, NEW c \in Existing
  PROVE  Accounted(c)'
<1> DEFINE i == row[c].intent
<1>0. /\ c \in Calls /\ i \in Intents /\ row'[c].intent = i /\ Accounted(c) /\ ReceiptsDecide
      /\ moved \in [Intents -> Nat] /\ moved[i] \in Nat /\ MaxTotalAttempts \in Nat
      /\ row[c].receipt \in BOOLEAN
  BY OutcomesStay, ConstantsAssumption
  DEF Typed, TypeOK, Linked, RowsMatchIntents, Existing, Metered, Rows
<1>1. /\ aborts \in Nat /\ aborts' \in Nat /\ row[c].attempts \in Nat /\ row'[c].attempts \in Nat
      /\ aborts' = aborts \/ aborts' = aborts + 1
      /\ row'[c].attempts = row[c].attempts \/ row'[c].attempts = row[c].attempts + 1
  BY CountsGrow
<1>2. Spent(c) => row[c].attempts + 1 <= MaxTotalAttempts
  BY <1>0, <1>1 DEF Spent, Exclusive, LocksCoverHolders, Held
<1>3. row[c].attempts <= MaxTotalAttempts
  BY <1>0 DEF Exclusive, LocksCoverHolders
<1>4. moved[i] <= MaxTotalAttempts + aborts
  BY <1>0, <1>1, <1>2, <1>3 DEF Accounted
<1>5. row'[c].receipt = row[c].receipt \/ row'[c].receipt = TRUE
  BY <1>0, ReceiptsStay
<1>6. CASE \E w \in Workers : Dispatch(w) /\ cur[w] = c
  <2>1. PICK w \in Workers : Dispatch(w) /\ cur[w] = c
    BY <1>6
  <2>2. row' = row /\ aborts' = aborts /\ cur' = cur /\ pc[w] = "dispatch"
    BY <2>1 DEF Dispatch, budgets
  <2>3. ~row[c].receipt /\ ~Spent(c)
    <3>1. \A v \in Workers : cur[v] = c => v = w
      BY <1>0, <2>1 DEF Exclusive, OwnersAreUnique, Holds
    <3>2. QED
      BY <1>0, <2>1, <2>2, <3>1 DEF ReceiptsDecide, Spent
  <2>4. Spent(c)'
    <3>1. PICK o \in Outcomes(TypeOf[i]) : pc' = [pc EXCEPT ![w] = o[1]]
      BY <2>1 DEF Dispatch
    <3>2. pc'[w] \in RowStep \ {"guard", "dispatch"}
      BY <3>1, OutcomeSteps DEF Typed, TypeOK, RowStep, WorkerSteps
    <3>3. QED
      BY <2>1, <2>2, <3>2 DEF Spent
  <2>5. moved'[i] \in Nat /\ moved'[i] <= moved[i] + 1
    <3>1. moved' = moved \/ moved' = [moved EXCEPT ![i] = @ + 1]
      BY <2>1 DEF Dispatch
    <3>2. QED
      BY <1>0, <3>1
  <2>6. moved[i] <= row[c].attempts + aborts
    BY <1>0, <1>1, <2>3 DEF Accounted
  <2>7. moved'[i] <= row[c].attempts + aborts + 1
    BY <1>0, <1>1, <2>5, <2>6
  <2>8. QED
    BY <1>0, <2>2, <2>3, <2>4, <2>7 DEF Accounted
<1>7. CASE ~ \E w \in Workers : Dispatch(w) /\ cur[w] = c
  <2>1. moved'[i] = moved[i]
    <3>1. ASSUME NEW w \in Workers, Dispatch(w),
                 moved' = [moved EXCEPT ![row[cur[w]].intent] = @ + 1]
          PROVE  moved'[i] = moved[i]
      <4>1. cur[w] \in Existing /\ cur[w] # c
        BY <1>7, <3>1, RowInHand DEF Dispatch, RowStep, WorkerSteps
      <4>2. row[cur[w]].intent # i
        BY <4>1 DEF Linked, RowsMatchIntents
      <4>3. QED
        BY <1>0, <3>1, <4>2
    <3>2. QED
      BY <3>1, MoneyMovesInDispatch
  <2>2. CASE row'[c].receipt
    <3>1. moved'[i] <= MaxTotalAttempts + aborts'
      BY <1>0, <1>1, <1>4, <2>1
    <3>2. QED
      BY <1>0, <2>2, <3>1 DEF Accounted
  <2>3. CASE ~row'[c].receipt
    <3>1. ~row[c].receipt
      BY <1>5, <2>3
    <3>2. CASE Spent(c) => Spent(c)'
      <4>1. moved'[i] <= row'[c].attempts + aborts' + (IF Spent(c)' THEN 1 ELSE 0)
        BY <1>0, <1>1, <2>1, <3>1, <3>2 DEF Accounted
      <4>2. QED
        BY <1>0, <2>3, <4>1 DEF Accounted
    <3>3. CASE Spent(c) /\ ~Spent(c)'
      <4>1. row'[c].attempts + aborts' >= row[c].attempts + aborts + 1
        BY <1>0, <1>1, <3>1, <3>3, SpentIsCounted, CountsGrow
      <4>2. moved'[i] <= row'[c].attempts + aborts' + (IF Spent(c)' THEN 1 ELSE 0)
        BY <1>0, <1>1, <2>1, <3>1, <3>3, <4>1 DEF Accounted
      <4>3. QED
        BY <1>0, <2>3, <4>2 DEF Accounted
    <3>4. QED
      BY <3>2, <3>3
  <2>4. QED
    BY <2>2, <2>3
<1>8. QED
  BY <1>6, <1>7

\* The account of every row, from the hand-off on.
LEMMA MeteredInvariant ==
  ASSUME ~SlowWorkers PROVE Spec => []Metered
<1>1. Init => Metered
  BY DEF Init, Metered, ReceiptsDecide, Existing, NoRow
<1>2. Typed /\ Linked /\ Exclusive /\ Metered /\ [Next]_vars => Metered'
  <2> SUFFICES ASSUME Typed, Linked, Exclusive, Metered, [Next]_vars PROVE Metered'
    OBVIOUS
  <2>1. ReceiptsDecide'
    BY ReceiptsDecideStep DEF Metered
  <2>2. ASSUME NEW i \in Intents, intent'[i] \notin HandedOver PROVE moved'[i] = 0
    <3>1. intent[i] \notin HandedOver /\ moved[i] = 0
      BY <2>2, IntentMoves DEF HandedOver, Metered
    <3>2. ASSUME NEW w \in Workers, Dispatch(w) PROVE row[cur[w]].intent # i
      BY <3>1, <3>2, RowInHand DEF Dispatch, RowStep, WorkerSteps
    <3>3. QED
      BY <3>1, <3>2, MoneyMovesInDispatch DEF Typed, TypeOK
  <2>3. ASSUME NEW c \in Existing' PROVE Accounted(c)'
    <3>1. CASE c \in Existing
      BY <3>1, RowAccounts
    <3>2. CASE c \notin Existing
      <4>1. PICK d \in Calls : HandOff(d)
        BY <3>2, RowsKeptOrHandOff
      <4>2. c = d /\ row'[c].intent = callIntent[c] /\ ~row'[c].receipt /\ callIntent[c] \in Intents
        BY <3>2, <4>1, HandOffAddsRow
      <4>3. row'[c].attempts = 0
        BY <4>1, <4>2 DEF HandOff, Typed, TypeOK
      <4>4. moved' = moved /\ moved[callIntent[c]] = 0 /\ aborts' = aborts
        BY <4>1, <4>2 DEF HandOff, MayHandOver, Metered, HandedOver, budgets
      <4>5. aborts \in Nat
        BY DEF Typed, TypeOK
      <4>6. QED
        BY <4>2, <4>3, <4>4, <4>5 DEF Accounted
    <3>3. QED
      BY <3>1, <3>2
  <2>4. QED
    BY <2>1, <2>2, <2>3 DEF Metered
<1>3. QED
  BY <1>1, <1>2, TypedInvariant, LinkedInvariant, ExclusiveInvariant, PTL DEF Spec

\* While live workers keep within their locks, a rail that knows no idempotency
\* key makes no more transfers of one intent than the attempt ceiling and the
\* cycles that were cut short allow.
THEOREM TransfersAreAccountedForHolds ==
  ASSUME ~SlowWorkers PROVE Spec => []TransfersAreAccountedFor
<1>1. Typed /\ Linked /\ Exclusive /\ Metered => TransfersAreAccountedFor
  <2> SUFFICES ASSUME Typed, Linked, Exclusive, Metered, NEW i \in Intents
               PROVE  moved[i] <= MaxTotalAttempts + aborts
    BY DEF TransfersAreAccountedFor
  <2>0. MaxTotalAttempts \in Nat /\ aborts \in Nat /\ moved[i] \in Nat
    BY ConstantsAssumption DEF Typed, TypeOK
  <2>1. CASE intent[i] \notin HandedOver
    BY <2>0, <2>1 DEF Metered
  <2>2. CASE intent[i] \in HandedOver
    <3>1. PICK c \in Existing : row[c].intent = i
      BY <2>2 DEF Linked, RowsMatchIntents
    <3>2. Accounted(c) /\ c \in Calls /\ row[c].attempts \in Nat
      BY <3>1 DEF Metered, Existing, Typed, TypeOK, Rows
    <3>3. row[c].attempts + (IF Spent(c) THEN 1 ELSE 0) <= MaxTotalAttempts
      <4>1. Spent(c) => row[c].attempts < MaxTotalAttempts
        BY <3>2 DEF Spent, Exclusive, LocksCoverHolders, Held
      <4>2. row[c].attempts <= MaxTotalAttempts
        BY <3>2 DEF Exclusive, LocksCoverHolders
      <4>3. QED
        BY <2>0, <3>2, <4>1, <4>2
    <3>4. QED
      BY <2>0, <3>1, <3>2, <3>3 DEF Accounted
  <2>3. QED
    BY <2>1, <2>2
<1>2. QED
  BY <1>1, TypedInvariant, LinkedInvariant, ExclusiveInvariant, MeteredInvariant, PTL

----------------------------------------------------------------------------
(* The outbox implements Settlement.                                       *)

phaseBar == [i \in Intents |-> Phase(i)]
fundsBar == [i \in Intents |-> Funds(i)]
paidBar == {i \in Intents : moved[i] > 0}
recordedBar == {row[c].intent : c \in executions}

IInv == Typed /\ Linked /\ FundsFollowIntent /\ Outcome /\ Receipted

\* The transfer of dispatch is a payment of a committed intent.
LEMMA DispatchPays ==
  ASSUME IInv, NEW w \in Workers, Dispatch(w)
  PROVE  [Promise!Next]_Promise!vars
<1> USE DEF IInv, Typed, TypeOK
<1>0. PICK i \in Intents : i = row[cur[w]].intent
  BY DEF Dispatch, Linked, WorkersHoldExisting, RowsMatchIntents, RowStep, WorkerSteps
<1>1. intent[i] \in HandedOver
  BY <1>0 DEF Dispatch, Linked, WorkersHoldExisting, RowsMatchIntents, RowStep, WorkerSteps
<1>2. UNCHANGED <<phaseBar, fundsBar, recordedBar>>
  BY DEF Dispatch, phaseBar, fundsBar, recordedBar, Phase, Funds
<1>3. phaseBar[i] \in {"committed", "settled", "failed"}
  BY <1>1 DEF phaseBar, Phase, HandedOver
<1>4. moved' = moved \/ moved' = [moved EXCEPT ![i] = @ + 1]
  BY <1>0 DEF Dispatch
<1>5. CASE moved' = moved
  BY <1>2, <1>5 DEF Promise!vars, phaseBar, fundsBar, recordedBar
<1>6. CASE moved' = [moved EXCEPT ![i] = @ + 1]
  <2>1. paidBar' = paidBar \cup {i}
    <3>1. \A j \in Intents : moved'[j] = IF j = i THEN moved[i] + 1 ELSE moved[j]
      BY <1>1, <1>6
    <3>2. QED
      BY <1>1, <3>1 DEF paidBar
  <2>2. Promise!Pay(i)
    <3>1. phaseBar' = phaseBar /\ fundsBar' = fundsBar /\ recordedBar' = recordedBar
      BY <1>2
    <3>2. QED
      BY <1>1, <1>3, <2>1, <3>1 DEF Promise!Pay, phaseBar, fundsBar, recordedBar, paidBar
  <2>3. QED
    BY <2>2 DEF Promise!Next
<1>7. QED
  BY <1>4, <1>5, <1>6

\* The hand-off commits the intent and holds its funds.
LEMMA HandOffCommits ==
  ASSUME IInv, NEW c \in Calls, HandOff(c)
  PROVE  [Promise!Next]_Promise!vars
<1> DEFINE i == callIntent[c]
<1> USE DEF IInv, Typed, TypeOK
<1>1. i \in Intents /\ intent[i] = "approved"
  BY DEF HandOff, MayHandOver, Linked, CallsNameIntents
<1>2. UNCHANGED <<paidBar, recordedBar>>
  <2>1. \A d \in executions : row'[d] = row[d]
    BY HandOffAddsRow DEF Outcome, OneExecutionPerSettlement, Existing
  <2>2. QED
    BY <2>1 DEF HandOff, paidBar, recordedBar
<1>3. phaseBar' = [phaseBar EXCEPT ![i] = "committed"]
  BY <1>1 DEF HandOff, phaseBar, Phase, IntentStates
<1>4. fundsBar' = IF RequiresReservation(TypeOf[i]) THEN [fundsBar EXCEPT ![i] = "held"] ELSE fundsBar
  BY <1>1 DEF HandOff, fundsBar, Funds, HoldStates
<1>5. Promise!Commit(i)
  BY <1>1, <1>2, <1>3, <1>4
  DEF Promise!Commit, Promise!SetFunds, phaseBar, fundsBar, paidBar, recordedBar, Phase
<1>6. QED
  BY <1>1, <1>5 DEF Promise!Next

\* completeExecution settles a committed, paid intent and records it.
LEMMA CompletionSettles ==
  ASSUME IInv, NEW w \in Workers, CompleteExecution(w)
  PROVE  [Promise!Next]_Promise!vars
<1> USE DEF IInv, Typed, TypeOK
<1>0. PICK i \in Intents : i = row[cur[w]].intent
  BY DEF CompleteExecution, Linked, WorkersHoldExisting, RowsMatchIntents, RowStep, WorkerSteps
<1>1. intent[i] = "dispatching" /\ moved[i] > 0
  BY <1>0 DEF CompleteExecution, Linked, WorkersHoldExisting, RowsMatchIntents, RowStep, WorkerSteps,
         Receipted, Paid
<1>2. paidBar' = paidBar /\ i \in paidBar
  BY <1>0, <1>1 DEF CompleteExecution, paidBar
<1>3. recordedBar' = recordedBar \cup {i}
  <2>1. row' = row /\ executions' = executions \cup {cur[w]}
    BY DEF CompleteExecution
  <2>2. recordedBar' = {row[c].intent : c \in executions \cup {cur[w]}}
    BY <2>1 DEF recordedBar
  <2>3. QED
    BY <1>0, <2>2 DEF recordedBar
<1>4. phaseBar' = [phaseBar EXCEPT ![i] = "settled"]
  BY <1>0, <1>1 DEF CompleteExecution, phaseBar, Phase, IntentStates
<1>5. fundsBar' = IF RequiresReservation(TypeOf[i]) THEN [fundsBar EXCEPT ![i] = "spent"] ELSE fundsBar
  BY <1>0, <1>1 DEF CompleteExecution, Consume, fundsBar, Funds, HoldStates, FundsFollowIntent, HoldFor
<1>6. Promise!Settle(i)
  BY <1>1, <1>2, <1>3, <1>4, <1>5
  DEF Promise!Settle, Promise!SetFunds, phaseBar, fundsBar, paidBar, recordedBar, Phase
<1>7. QED
  BY <1>6 DEF Promise!Next

\* failExecution fails a committed intent and frees its funds.
LEMMA FailureFails ==
  ASSUME IInv, NEW w \in Workers, FailExecution(w)
  PROVE  [Promise!Next]_Promise!vars
<1> DEFINE i == row[cur[w]].intent
<1> USE DEF IInv, Typed, TypeOK
<1>1. i \in Intents /\ intent[i] = "dispatching"
  BY DEF FailExecution, MayFail, Linked, WorkersHoldExisting, RowsMatchIntents, RowStep, WorkerSteps
<1>2. UNCHANGED <<paidBar, recordedBar>>
  BY DEF FailExecution, paidBar, recordedBar
<1>3. phaseBar' = [phaseBar EXCEPT ![i] = "failed"]
  BY <1>1 DEF FailExecution, phaseBar, Phase, IntentStates
<1>4. fundsBar' = IF RequiresReservation(TypeOf[i]) THEN [fundsBar EXCEPT ![i] = "free"] ELSE fundsBar
  BY <1>1 DEF FailExecution, Release, fundsBar, Funds, HoldStates, FundsFollowIntent, HoldFor
<1>5. Promise!Fail(i)
  BY <1>1, <1>2, <1>3, <1>4
  DEF Promise!Fail, Promise!SetFunds, phaseBar, fundsBar, paidBar, recordedBar, Phase
<1>6. QED
  BY <1>1, <1>5 DEF Promise!Next

\* Rejecting an approved intent closes it.
LEMMA RejectCloses ==
  ASSUME IInv, NEW i \in Intents, Reject(i)
  PROVE  [Promise!Next]_Promise!vars
<1> USE DEF IInv, Typed, TypeOK
<1>1. UNCHANGED <<fundsBar, paidBar, recordedBar>>
  BY DEF Reject, fundsBar, Funds, paidBar, recordedBar
<1>2. phaseBar[i] = "open" /\ phaseBar' = [phaseBar EXCEPT ![i] = "closed"]
  BY DEF Reject, phaseBar, Phase, IntentStates
<1>3. Promise!Close(i)
  BY <1>1, <1>2 DEF Promise!Close, phaseBar, fundsBar, paidBar, recordedBar
<1>4. QED
  BY <1>3 DEF Promise!Next

\* Everything else is invisible: pause and resume keep the intent open, and the
\* worker's bookkeeping touches execution_outbox only.
LEMMA OtherStepsStutter ==
  ASSUME IInv, [Next]_vars,
         \A c \in Calls : ~HandOff(c),
         \A i \in Intents : ~Reject(i),
         \A w \in Workers : ~Dispatch(w) /\ ~CompleteExecution(w) /\ ~FailExecution(w)
  PROVE  UNCHANGED Promise!vars
<1>1. Typed /\ Linked /\ executions \subseteq Existing
  BY DEF IInv, Outcome, OneExecutionPerSettlement
<1>2. UNCHANGED <<hold, moved, executions>>
  BY DEF Next, vars, Request, Operator, Cycle, ProcessRow, GateForExecute, GateForResume, Resume,
         Abort, Pause, Halt, Restore, TimePasses, ReclaimStale, ClaimNext, TakeRow, EndCycle,
         BeforeDispatch, EmitAfter, MarkDispatched, AlreadyExecuted, CompleteThrows, MarkSettled,
         MarkFailed, MarkReconciling, EmitFailureAfter, FailThrows, MarkPermanentlyFailed,
         CycleAborts
<1>3. ASSUME NEW i \in Intents
      PROVE  intent'[i] = intent[i] \/ {intent[i], intent'[i]} \subseteq {"approved", "paused"}
  <2>1. \/ intent' = intent
        \/ Halt
        \/ \E j \in Intents : Pause(j)
        \/ \E c \in Calls : Resume(c)
    BY DEF Next, vars, Request, Operator, Cycle, ProcessRow, GateForExecute, GateForResume,
         Abort, Restore, TimePasses, ReclaimStale, ClaimNext, TakeRow, EndCycle,
         BeforeDispatch, EmitAfter, MarkDispatched, AlreadyExecuted, CompleteThrows, MarkSettled,
         MarkFailed, MarkReconciling, EmitFailureAfter, FailThrows, MarkPermanentlyFailed,
         CycleAborts
  <2>2. intent \in [Intents -> IntentStates]
    BY <1>1 DEF Typed, TypeOK
  <2>3. CASE intent' = intent
    BY <2>3
  <2>4. CASE Halt
    BY <2>2, <2>4 DEF Halt
  <2>5. ASSUME NEW j, \/ intent[j] = "approved" /\ intent' = [intent EXCEPT ![j] = "paused"]
                      \/ intent[j] = "paused" /\ intent' = [intent EXCEPT ![j] = "approved"]
        PROVE  intent'[i] = intent[i] \/ {intent[i], intent'[i]} \subseteq {"approved", "paused"}
    BY <2>2, <2>5
  <2>6. QED
    BY <2>1, <2>3, <2>4, <2>5 DEF Pause, Resume
<1>4. \A c \in executions : row'[c].intent = row[c].intent
  BY <1>1, OutcomesStay
<1>5. phaseBar' = phaseBar
  <2>1. ASSUME NEW i \in Intents PROVE Phase(i)' = Phase(i)
    <3>1. CASE intent'[i] = intent[i]
      BY <3>1 DEF Phase
    <3>2. CASE {intent[i], intent'[i]} \subseteq {"approved", "paused"}
      <4>1. Phase(i) = "open"
        BY <3>2 DEF Phase
      <4>2. Phase(i)' = "open"
        BY <3>2 DEF Phase
      <4>3. QED
        BY <4>1, <4>2
    <3>3. QED
      BY <1>3, <3>1, <3>2
  <2>2. QED
    BY <2>1 DEF phaseBar
<1>6. fundsBar' = fundsBar /\ paidBar' = paidBar
  BY <1>2 DEF fundsBar, Funds, paidBar
<1>7. recordedBar' = recordedBar
  BY <1>2, <1>4 DEF recordedBar
<1>8. QED
  BY <1>5, <1>6, <1>7 DEF Promise!vars, phaseBar, fundsBar, paidBar, recordedBar

\* The outbox keeps its promise: with rows, locks, retries and crashes hidden,
\* every intent is committed at most once, settled at most once and only when
\* paid, recorded exactly when settled, and its funds follow.
THEOREM OutboxKeepsPromise == Spec => KeepsPromise
<1>1. Init => Promise!Init
  BY DEF Init, Promise!Init, Phase, Funds
<1>2. IInv /\ [Next]_vars => [Promise!Next]_Promise!vars
  <2> SUFFICES ASSUME IInv, [Next]_vars PROVE [Promise!Next]_Promise!vars
    OBVIOUS
  <2>1. CASE \E c \in Calls : HandOff(c)
    BY <2>1, HandOffCommits
  <2>2. CASE \E i \in Intents : Reject(i)
    BY <2>2, RejectCloses
  <2>3. CASE \E w \in Workers : Dispatch(w)
    BY <2>3, DispatchPays
  <2>4. CASE \E w \in Workers : CompleteExecution(w)
    BY <2>4, CompletionSettles
  <2>5. CASE \E w \in Workers : FailExecution(w)
    BY <2>5, FailureFails
  <2>6. QED
    BY <2>1, <2>2, <2>3, <2>4, <2>5, OtherStepsStutter
<1>3. QED
  BY <1>1, <1>2, TypedInvariant, LinkedInvariant, FundsFollowIntentHolds, OutcomeInvariant,
     ReceiptedInvariant, PTL DEF Spec, IInv, KeepsPromise, Promise!Spec
============================================================================
