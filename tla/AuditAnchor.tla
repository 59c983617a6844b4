---------------------------- MODULE AuditAnchor ----------------------------
(***************************************************************************)
(* How the audit events of one tenant get into published Merkle roots: the *)
(* emitter of shared/src/audit, the scheduled publisher of                 *)
(* services/api/src/main.ts, the route POST /audit/anchor/publish, the     *)
(* broadcaster and the orphan reconciler, over the contract of module      *)
(* AnchorContract.                                                         *)
(*                                                                         *)
(* Publisher, route and reconciler share the audit_anchors table and the   *)
(* chain, but no lock: any of them may run, fail or stop between two steps *)
(* of another.                                                             *)
(***************************************************************************)
EXTENDS AnchorContract

CONSTANTS
  Requests,         \* calls of POST /audit/anchor/publish, at most one use each
  MaxWindow,        \* MAX_ANCHOR_WINDOW_MS
  MillisPerSecond,  \* ticks of the clock in a second of the chain
  MaxTime,          \* bound on the clock
  MaxFaults         \* bound on failed broadcasts and stopped processes

ASSUME AnchorAssumption ==
  /\ MaxWindow \in Nat /\ MillisPerSecond \in Nat \ {0}
  /\ MaxTime \in Nat /\ MaxFaults \in Nat

VARIABLES
  now,     \* the clock, in milliseconds
  stamp,   \* created_at of each event, 0 if it has none
  stored,  \* the committed events
  anchor,  \* the audit_anchors row of each root
  sched,   \* the local variables of the scheduled publisher
  req,     \* the local variables of each request
  faults,  \* failures so far
  late     \* history: events that committed behind a window in use

log == <<now, stamp, stored, late>>
vars == <<chainVars, log, anchor, sched, req, faults>>

Times == 0..MaxTime
Windows == [start : Nat, end : Nat]
NoWindow == [start |-> 0, end |-> 0]

Rows == [status : {"none", "pending", "confirmed", "reverted"}, tx : Nat,
         start : Nat, end : Nat]
NoRow == [status |-> "none", tx |-> 0, start |-> 0, end |-> 0]

\* batch: rows being broadcast; results: rows to write; tx: the transaction
\* awaited; fresh: the cycle's second broadcast, of the row it just made.
Cycles == [step : {"idle", "check", "send", "wait", "record", "enumerate", "create"},
           clock : Times, window : Windows, batch : SUBSET Roots,
           results : SUBSET Roots, tx : Nat, fresh : BOOLEAN]
Idle == [step |-> "idle", clock |-> 0, window |-> NoWindow, batch |-> {},
         results |-> {}, tx |-> 0, fresh |-> FALSE]

Calls == [step : {"idle", "create", "send", "wait", "record", "done"},
          window : Windows, root : Roots \cup {{}}, tx : Nat]
NoCall == [step |-> "idle", window |-> NoWindow, root |-> {}, tx |-> 0]
Done == [NoCall EXCEPT !.step = "done"]

TypeOK ==
  /\ ChainTypeOK
  /\ now \in Times
  /\ stamp \in [Events -> Times]
  /\ stored \subseteq {e \in Events : stamp[e] # 0}
  /\ anchor \in [Roots -> Rows]
  /\ sched \in Cycles
  /\ req \in [Requests -> Calls]
  /\ faults \in 0..MaxFaults
  /\ late \subseteq stored

Init ==
  /\ ChainInit
  /\ now = 0
  /\ stamp = [e \in Events |-> 0]
  /\ stored = {}
  /\ anchor = [r \in Roots |-> NoRow]
  /\ sched = Idle
  /\ req = [p \in Requests |-> NoCall]
  /\ faults = 0
  /\ late = {}

----------------------------------------------------------------------------
(* The emitter: stamped inside the transaction, visible when it commits.   *)

Emitting == {e \in Events : stamp[e] # 0} \ stored

\* The tenant's advisory lock lets one emit at a time past this point.  The
\* emitter's clock is never ahead of the publisher's.
Stamp(e) ==
  /\ Emitting = {} /\ e \notin stored
  /\ \E t \in 1..now : stamp' = [stamp EXCEPT ![e] = t]
  /\ UNCHANGED <<chainVars, now, stored, late, anchor, sched, req, faults>>

\* A row ends at this time or later, or a publisher has begun a window after it.
Behind(t) ==
  \/ \E r \in Roots : anchor[r].status # "none" /\ t <= anchor[r].end
  \/ t < sched.window.start
  \/ \E p \in Requests : t < req[p].window.start

Commit(e) ==
  /\ e \in Emitting
  /\ stored' = stored \cup {e}
  /\ late' = IF Behind(stamp[e]) THEN late \cup {e} ELSE late
  /\ UNCHANGED <<chainVars, now, stamp, anchor, sched, req, faults>>

\* The caller may emit again, with a new stamp.
Rollback(e) ==
  /\ e \in Emitting
  /\ stamp' = [stamp EXCEPT ![e] = 0]
  /\ UNCHANGED <<chainVars, now, stored, late, anchor, sched, req, faults>>

TimePasses ==
  /\ now < MaxTime
  /\ now' = now + 1
  /\ UNCHANGED <<chainVars, stamp, stored, late, anchor, sched, req, faults>>

----------------------------------------------------------------------------
(* Windows and rows.                                                       *)

Covering == {r \in Roots : anchor[r].status \in {"pending", "confirmed"}}
Pending == {r \in Roots : anchor[r].status = "pending"}

\* covered_to, 0 if the tenant was never anchored.
CoveredTo ==
  IF Covering = {} THEN 0
  ELSE CHOOSE t \in {anchor[r].end : r \in Covering} : \A r \in Covering : anchor[r].end <= t

Waiting == {e \in stored : stamp[e] > CoveredTo}
OldestWaiting == CHOOSE t \in {stamp[e] : e \in Waiting} : \A e \in Waiting : t <= stamp[e]

\* nextAnchorWindow, with at least one event waiting.
NextWindow_Lookback(clock) ==
  [start |-> IF clock > MaxWindow THEN clock - MaxWindow ELSE 1, end |-> clock]
NextWindow_AfterCovered(clock) ==
  LET start == CoveredTo + 1 IN
  [start |-> start, end |-> IF clock > start + MaxWindow THEN start + MaxWindow ELSE clock]
NextWindow(clock) ==
  LET start == IF OldestWaiting > CoveredTo + 1 THEN OldestWaiting ELSE CoveredTo + 1 IN
  [start |-> start, end |-> IF clock > start + MaxWindow THEN start + MaxWindow ELSE clock]

\* listEventsForAnchor, both ends inclusive; the root over them.
ListEvents_HalfOpen(w) == {e \in stored : w.start <= stamp[e] /\ stamp[e] < w.end}
ListEvents(w) == {e \in stored : w.start <= stamp[e] /\ stamp[e] <= w.end}

\* createPendingAnchor: a row per root, made at most once.
CreatePendingAnchor(root, w) ==
  anchor' = IF anchor[root].status # "none" THEN anchor
            ELSE [anchor EXCEPT ![root] = [status |-> "pending", tx |-> 0,
                                           start |-> w.start, end |-> w.end]]

SetAnchorTxHash(r, tx) ==
  anchor' = [anchor EXCEPT ![r].status = "confirmed", ![r].tx = tx]

SetAnchorReverted(r) == anchor' = [anchor EXCEPT ![r].status = "reverted"]

\* The contract takes whole seconds.
EndOf(r) == anchor[r].end \div MillisPerSecond

\* The transaction stored for a root that is published when own is mined.
Winner_OwnTx(r, own) == own
Winner(r, own) == publishedBy[r]

----------------------------------------------------------------------------
(* The scheduled publisher: broadcast the rows still pending, then make a  *)
(* row of the next window and broadcast it.                                *)

RetryRows_Newest == {r \in Pending : anchor[r].end = CoveredTo}
RetryRows == Pending

StartCycle ==
  /\ sched.step = "idle"
  /\ Pending # {} \/ Waiting # {}
  /\ sched' = [Idle EXCEPT !.step = IF RetryRows = {} THEN "enumerate" ELSE "check",
                           !.clock = now, !.batch = RetryRows]
  /\ UNCHANGED <<chainVars, log, anchor, req, faults>>

AfterBroadcast ==
  IF sched.fresh THEN Idle ELSE [Idle EXCEPT !.step = "enumerate", !.clock = sched.clock]

\* isPublished for every row of the batch.
CheckBatch ==
  LET done == {r \in sched.batch : IsPublished(r)} IN
  /\ sched.step = "check"
  /\ sched' = [sched EXCEPT !.step = IF done = sched.batch THEN "record" ELSE "send",
                            !.batch = @ \ done, !.results = done]
  /\ UNCHANGED <<chainVars, log, anchor, req, faults>>

SendBatch ==
  /\ sched.step = "send"
  /\ Submit("batch", [r \in sched.batch |-> EndOf(r)])
  /\ sched' = [sched EXCEPT !.step = "wait", !.tx = Len(txs) + 1]
  /\ UNCHANGED <<log, anchor, req, faults>>

\* Mined, hence published: what the batch did not emit was there before.
AwaitBatch ==
  /\ sched.step = "wait" /\ mined >= sched.tx
  /\ sched' = [sched EXCEPT !.step = "record", !.batch = {}, !.results = @ \cup sched.batch]
  /\ UNCHANGED <<chainVars, log, anchor, req, faults>>

RecordOne(r) ==
  /\ sched.step = "record" /\ r \in sched.results
  /\ SetAnchorTxHash(r, Winner(r, sched.tx))
  /\ sched' = IF sched.results = {r} THEN AfterBroadcast
              ELSE [sched EXCEPT !.results = @ \ {r}]
  /\ UNCHANGED <<chainVars, log, req, faults>>

Enumerate ==
  /\ sched.step = "enumerate"
  /\ sched' = IF Waiting = {} THEN Idle
              ELSE [sched EXCEPT !.step = "create", !.window = NextWindow(sched.clock)]
  /\ UNCHANGED <<chainVars, log, anchor, req, faults>>

\* A row that exists is broadcast again only if it is still pending.
CreateRow ==
  LET root == ListEvents(sched.window) IN
  /\ sched.step = "create"
  /\ IF root = {} THEN UNCHANGED anchor ELSE CreatePendingAnchor(root, sched.window)
  /\ sched' = IF root # {} /\ anchor'[root].status = "pending"
              THEN [Idle EXCEPT !.step = "check", !.batch = {root}, !.fresh = TRUE]
              ELSE Idle
  /\ UNCHANGED <<chainVars, log, req, faults>>

\* An exception in a broadcast is logged and the cycle goes on; anywhere else
\* it ends the cycle.
Throw ==
  /\ sched.step # "idle" /\ faults < MaxFaults
  /\ faults' = faults + 1
  /\ sched' = IF sched.step \in {"enumerate", "create"} THEN Idle ELSE AfterBroadcast
  /\ UNCHANGED <<chainVars, log, anchor, req>>

\* The process stops: the scheduler starts anew.
Stop ==
  /\ sched # Idle /\ faults < MaxFaults
  /\ faults' = faults + 1
  /\ sched' = Idle
  /\ UNCHANGED <<chainVars, log, anchor, req>>

----------------------------------------------------------------------------
(* POST /audit/anchor/publish.  The rows it makes are its cooldown, which  *)
(* bounds how often it runs and nothing else.                              *)

StartRequest(p) ==
  /\ req[p].step = "idle"
  /\ Waiting # {}
  /\ req' = [req EXCEPT ![p].step = "create", ![p].window = NextWindow(now)]
  /\ UNCHANGED <<chainVars, log, anchor, sched, faults>>

RequestRow(p) ==
  LET root == ListEvents(req[p].window) IN
  /\ req[p].step = "create"
  /\ IF root = {} THEN UNCHANGED anchor ELSE CreatePendingAnchor(root, req[p].window)
  /\ req' = [req EXCEPT ![p] = IF root # {} /\ anchor'[root].status = "pending"
                               THEN [NoCall EXCEPT !.step = "send", !.root = root]
                               ELSE Done]
  /\ UNCHANGED <<chainVars, log, sched, faults>>

\* A root found published, before or at the gas estimate, is not sent.
RequestSkips(p) ==
  /\ req[p].step = "send" /\ IsPublished(req[p].root)
  /\ req' = [req EXCEPT ![p].step = "record", ![p].tx = publishedBy[req[p].root]]
  /\ UNCHANGED <<chainVars, log, anchor, sched, faults>>

RequestSends(p) ==
  /\ req[p].step = "send" /\ ~IsPublished(req[p].root)
  /\ Submit("single", [r \in {req[p].root} |-> EndOf(r)])
  /\ req' = [req EXCEPT ![p].step = "wait", ![p].tx = Len(txs) + 1]
  /\ UNCHANGED <<log, anchor, sched, faults>>

\* The receipt: a transaction that published nothing was reverted (tx is 0).
RequestAwaits(p) ==
  /\ req[p].step = "wait" /\ mined >= req[p].tx
  /\ req' = [req EXCEPT ![p].step = "record",
                        ![p].tx = IF publishedBy[req[p].root] = @ THEN @ ELSE 0]
  /\ UNCHANGED <<chainVars, log, anchor, sched, faults>>

RequestRecords(p) ==
  /\ req[p].step = "record"
  /\ IF req[p].tx = 0 THEN SetAnchorReverted(req[p].root)
     ELSE SetAnchorTxHash(req[p].root, req[p].tx)
  /\ req' = [req EXCEPT ![p] = Done]
  /\ UNCHANGED <<chainVars, log, sched, faults>>

RequestFails(p) ==
  /\ req[p].step \notin {"idle", "done"}
  /\ req' = [req EXCEPT ![p] = Done]
  /\ UNCHANGED <<chainVars, log, anchor, sched, faults>>

----------------------------------------------------------------------------
(* reconcileOrphanedAnchors.                                               *)

\* A row with a match on the chain is written, any other stays as it is.  It
\* was pending when the scan read it; by now it may be anything.
Reconcile(r) ==
  /\ anchor[r].status # "none" /\ IsPublished(r)
  /\ SetAnchorTxHash(r, publishedBy[r])
  /\ UNCHANGED <<chainVars, log, sched, req, faults>>

----------------------------------------------------------------------------
MineNext == Mine /\ UNCHANGED <<log, anchor, sched, req, faults>>

Emit == \E e \in Events : Stamp(e) \/ Commit(e) \/ Rollback(e)
EmitEnds == \E e \in Events : Commit(e) \/ Rollback(e)

Cycle ==
  \/ StartCycle \/ CheckBatch \/ SendBatch \/ AwaitBatch
  \/ \E r \in Roots : RecordOne(r)
  \/ Enumerate \/ CreateRow

Request(p) ==
  \/ StartRequest(p) \/ RequestRow(p) \/ RequestSkips(p) \/ RequestSends(p)
  \/ RequestAwaits(p) \/ RequestRecords(p) \/ RequestFails(p)

Next ==
  \/ Emit \/ TimePasses \/ MineNext
  \/ Cycle \/ Throw \/ Stop
  \/ \E p \in Requests : Request(p)
  \/ \E r \in Roots : Reconcile(r)

Spec == Init /\ [][Next]_vars

\* The scheduler runs on a timer that is set again whatever a cycle did, the
\* chain mines, a database transaction ends.  Nothing obliges anyone to emit,
\* to call the route or to start the reconciler.
Fairness == WF_vars(Cycle) /\ WF_vars(MineNext) /\ WF_vars(EmitEnds)
FairSpec == Spec /\ Fairness

----------------------------------------------------------------------------
(* Properties.                                                             *)

\* A confirmed row names the very transaction that published its root, though
\* it was sent twice, by a batch and a request, or found by the reconciler
\* (broadcastAnchorBatch, resolveAlreadyAnchored).
AnchorTxIsWinner ==
  \A r \in Roots :
    /\ anchor[r].status = "confirmed" => anchor[r].tx # 0
    /\ anchor[r].tx # 0 => anchor[r].tx = publishedBy[r]

\* The verifier (audit-consistency.ts) recomputes every root from the events
\* it finds in the row's window.  It finds every leaf there, and besides the
\* leaves nothing but events that committed behind a window (emitter.ts stamps
\* an event before its commit): whatever else is stored later, by catch-up or
\* by another publisher, lies outside.
RootsRecompute ==
  \A r \in Roots : anchor[r].status # "none" =>
    LET found == {e \in stored : anchor[r].start <= stamp[e] /\ stamp[e] <= anchor[r].end}
    IN  r \subseteq found /\ found \ r \subseteq late

\* No event behind covered_to was left out of every row, unless it committed
\* behind a window: catch-up windows, clamped windows and windows of two
\* publishers leave no gap.
CoveredEventsAreLeaves ==
  \A e \in stored \ late : stamp[e] <= CoveredTo =>
    \E r \in Roots : e \in r /\ anchor[r].status # "none"

\* A row is never forgotten: the retry of the scheduler ends its wait, even if
\* the reconciler never runs and whatever failed or stopped before.
PendingIsResolved ==
  \A r \in Roots : []<>(anchor[r].status # "pending")

\* Every stored event gets under a published root, unless it committed behind a
\* window, or a row was marked reverted, which publisher.ts leaves to an
\* operator.
EveryEventIsAnchored ==
  []<>(\A e \in stored \ late :
         \/ \E r \in Roots : e \in r /\ IsPublished(r)
         \/ \E r \in Roots : anchor[r].status = "reverted")
=============================================================================
