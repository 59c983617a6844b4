---------------------------- MODULE TenantErasure ----------------------------
(***************************************************************************)
(* The erasure of one tenant: the admin deletion job and the worker that   *)
(* fences and deletes (admin-delete, admin-delete-worker), the tenant's    *)
(* own DELETE (TenantDeletionService), the purge of its raw bytes          *)
(* (blob-purge-worker) and the outbox that carries the audit evidence of   *)
(* both (blob-purge-audit-outbox).                                         *)
(*                                                                         *)
(* Replicas of either worker crash, stall past their lease and lose the    *)
(* reply to a COMMIT; uploads that were on their way when the tenant was   *)
(* deleted store their bytes later.                                        *)
(***************************************************************************)
EXTENDS Naturals, FiniteSets

CONSTANTS
  Deleters,      \* replicas of the tenant-deletion worker
  Purgers,       \* replicas of the blob-purge worker, each under its own pid
  Uploads,       \* raw artifacts, each one object version
  Arriving,      \* those uploaded while the model runs, if at all
  MaxAttempts,   \* MAX_BLOB_PURGE_ATTEMPTS
  MaxPublish,    \* MAX_OUTBOX_PUBLISH_ATTEMPTS
  MaxFaults,     \* bound on crashes, stalls, errors, lost replies and replays
  None

ASSUME ErasureAssumption ==
  /\ MaxAttempts \in Nat \ {0} /\ MaxPublish \in Nat \ {0} /\ MaxFaults \in Nat
  /\ Arriving \subseteq Uploads
  /\ None \notin Deleters \cup Purgers \cup {"outbox", "immediate"}
  /\ Purgers \cap {"outbox", "immediate"} = {}

VARIABLES
  tenant, protected,  \* the row of tenants, and its do_not_delete, gone with it
  agents,             \* the state of its agents
  job,                \* tenant_deletion_jobs
  leader,             \* holder of the deletion worker's advisory lock
  deleter,            \* where each deletion worker is, and the snapshot it has
  self,               \* the tenant's own DELETE request
  rows,               \* raw_artifacts: "erased" with its tenant
  bytes,              \* the object versions under the tenant's prefix
  purge,              \* tenant_blob_purge_jobs
  purger,             \* where each purge worker is, and how its attempt went
  intents,            \* tenant_blob_purge_audit_outbox
  log,                \* audit_events: the form in which each intent was emitted
  faults

vars == <<tenant, protected, agents, job, leader, deleter, self, rows, bytes,
          purge, purger, intents, log, faults>>
tenancy == <<tenant, protected, agents, rows>>
deletion == <<job, leader, deleter>>
purging == <<purge, purger, bytes>>
evidence == <<intents, log>>

JobStatuses == {"none", "queued", "fencing", "deleting", "purging_blobs", "completed", "failed"}
PurgeStatuses == {"none", "pending", "purging", "failed",
                  "completed", "exhausted", "blocked_legal_hold"}
PurgeEnded == {"completed", "exhausted", "blocked_legal_hold"}
\* The intents a property is about: tenant.deleted of either path, the end of
\* the purge, and tenant.delete_completed.
Keys == {"self_deleted", "job_deleted", "purge_ended", "delete_completed"}
Fence == {"active", "quarantined", "gone"}

TypeOK ==
  /\ tenant \in {"live", "gone"} /\ protected \in BOOLEAN /\ agents \in Fence
  /\ job \in [status : JobStatuses, by : Deleters \cup {None}, aged : BOOLEAN,
              snapshot : Fence \cup {None}]
  /\ leader \in Deleters \cup {None}
  /\ deleter \in [Deleters -> [step : {"idle", "claimed", "fenced", "failed", "restored"},
                               snapshot : Fence \cup {None}]]
  /\ self \in {"idle", "empty", "listed", "committed", "done"}
  /\ rows \in [Uploads -> {"none", "row", "erased"}]
  /\ bytes \in [Uploads -> {"none", "held", "free", "erased"}]
  /\ purge \in [status : PurgeStatuses, attempts : 0..MaxAttempts,
                by : Purgers \cup {None}, aged : BOOLEAN]
  /\ purger \in [Purgers -> [step : {"idle", "claimed", "released", "ended"},
                             attempts : 0..(MaxAttempts - 1),
                             outcome : {"clean", "held", "retry"}]]
  /\ intents \in [Keys -> [status : {"none", "pending", "published", "exhausted"},
                           attempts : 0..(MaxPublish - 1)]]
  /\ log \in [Keys -> Purgers \cup {"outbox", "immediate", None}]
  /\ faults \in 0..MaxFaults

Job(status, by, snapshot) ==
  [status |-> status, by |-> by, aged |-> FALSE, snapshot |-> snapshot]
Purge(status, attempts, by) ==
  [status |-> status, attempts |-> attempts, by |-> by, aged |-> FALSE]

Init ==
  /\ tenant = "live" /\ protected = FALSE /\ agents = "active"
  /\ job = Job("none", None, None)
  /\ leader = None
  /\ deleter = [w \in Deleters |-> [step |-> "idle", snapshot |-> None]]
  /\ self = "idle"
  /\ \E stored \in SUBSET (Uploads \ Arriving) :
       /\ rows = [u \in Uploads |-> IF u \in stored THEN "row" ELSE "none"]
       /\ bytes = [u \in Uploads |-> IF u \in stored THEN "held" ELSE "none"]
  /\ purge = Purge("none", 0, None)
  /\ purger = [p \in Purgers |-> [step |-> "idle", attempts |-> 0, outcome |-> "retry"]]
  /\ intents = [k \in Keys |-> [status |-> "none", attempts |-> 0]]
  /\ log = [k \in Keys |-> None]
  /\ faults = 0

Fault == faults < MaxFaults /\ faults' = faults + 1
NoFault == UNCHANGED faults

----------------------------------------------------------------------------
(* Uploads: the bytes are stored under a legal hold, then the row.         *)

Put(u) ==
  /\ u \in Arriving /\ bytes[u] = "none"
  /\ bytes' = [bytes EXCEPT ![u] = "held"]
  /\ UNCHANGED <<tenancy, deletion, self, purge, purger, evidence, faults>>

\* raw_artifacts has no foreign key to tenants.
Register(u) ==
  /\ bytes[u] # "none" /\ rows[u] = "none"
  /\ rows' = [rows EXCEPT ![u] = "row"]
  /\ UNCHANGED <<tenant, protected, agents, deletion, self, purging, evidence, faults>>

\* An operator sets do_not_delete.
Protect ==
  /\ tenant = "live" /\ self \notin {"empty", "listed"}
  /\ protected' = TRUE
  /\ UNCHANGED <<tenant, agents, rows, deletion, self, purging, evidence, faults>>

----------------------------------------------------------------------------
(* What both deletions do, in one transaction that holds the tenant's row. *)

Registered == {u \in Uploads : rows[u] = "row"}

Erase(hasBlobs) ==
  /\ tenant' = "gone" /\ protected' = FALSE /\ agents' = "gone"
  /\ rows' = [u \in Uploads |-> IF rows[u] = "row" THEN "erased" ELSE rows[u]]
  /\ purge' = IF hasBlobs /\ purge.status = "none" THEN Purge("pending", 0, None) ELSE purge
  /\ UNCHANGED <<bytes, purger>>

\* ON CONFLICT (event_key) DO NOTHING
Enqueued(keys) ==
  [k \in Keys |-> IF k \in keys /\ intents[k].status = "none"
                  THEN [status |-> "pending", attempts |-> 0] ELSE intents[k]]

(* The tenant's own DELETE: do_not_delete is not read, and rows registered *)
(* after the list of blobs was read are deleted with the others.           *)
SelfBegins ==
  /\ tenant = "live" /\ self = "idle"
  /\ self' = IF Registered = {} THEN "empty" ELSE "listed"
  /\ UNCHANGED <<tenancy, deletion, purging, evidence, faults>>

SelfAborts ==
  /\ self \in {"empty", "listed"} /\ Fault
  /\ self' = "idle"
  /\ UNCHANGED <<tenancy, deletion, purging, evidence>>

SelfCommits ==
  /\ self \in {"empty", "listed"} /\ NoFault
  /\ Erase(self = "listed")
  /\ self' = "committed"
  /\ intents' = Enqueued({"self_deleted"})
  /\ UNCHANGED <<deletion, log>>

\* emitBestEffort: an error, also of a conflict, is only logged.
SelfEmits ==
  /\ self = "committed"
  /\ self' = "done"
  /\ \/ /\ NoFault
        /\ log' = IF log["self_deleted"] = None
                  THEN [log EXCEPT !["self_deleted"] = "immediate"] ELSE log
     \/ Fault /\ log' = log
  /\ UNCHANGED <<tenancy, deletion, purging, intents>>

----------------------------------------------------------------------------
(* The admin deletion job and its worker.                                  *)

DeleterAt(w, step, snapshot) ==
  deleter' = [deleter EXCEPT ![w] = [step |-> step, snapshot |-> snapshot]]
\* The cycle ends, and with it the session that holds the advisory lock.
Leaves(w) == DeleterAt(w, "idle", None) /\ leader' = IF leader = w THEN None ELSE leader

\* An earlier job is returned whatever became of it.
Request ==
  /\ tenant = "live" /\ ~ protected /\ job.status = "none" /\ self \notin {"empty", "listed"}
  /\ job' = Job("queued", None, None)
  /\ UNCHANGED <<tenancy, leader, deleter, self, purging, evidence, faults>>

JobDue == job.status = "queued" \/ (job.status \in {"fencing", "deleting"} /\ job.aged)

Claim(w) ==
  /\ leader = None /\ deleter[w].step = "idle" /\ JobDue
  /\ leader' = w
  /\ job' = Job("fencing", w, job.snapshot)
  /\ DeleterAt(w, "claimed", job.snapshot)
  /\ UNCHANGED <<tenancy, self, purging, evidence, faults>>

\* The snapshot saved by an earlier claim wins over what the agents are now.
Saved(w) == IF deleter[w].snapshot = None THEN agents ELSE deleter[w].snapshot
FenceCommits(w) ==
  /\ job' = IF job.status = "fencing" THEN Job("deleting", job.by, Saved(w)) ELSE job
  /\ agents' = IF agents = "gone" THEN "gone" ELSE "quarantined"

FenceTenant(w) ==
  /\ deleter[w].step = "claimed"
  /\ FenceCommits(w)
  /\ DeleterAt(w, "fenced", Saved(w))
  /\ UNCHANGED <<tenant, protected, rows, leader, self, purging, evidence, faults>>

\* Rolled back, or committed with the reply lost: this worker knows no snapshot,
\* so it restores nothing.
FenceFails(w) ==
  /\ deleter[w].step = "claimed" /\ Fault
  /\ FenceCommits(w) \/ UNCHANGED <<agents, job>>
  /\ DeleterAt(w, "failed", None)
  /\ UNCHANGED <<tenant, protected, rows, leader, self, purging, evidence>>

\* Committed; the worker learns it, or loses the reply and takes it for an error.
ExecuteDeletion(w) ==
  /\ deleter[w].step = "fenced"
  /\ tenant = "live" /\ ~ protected /\ self \notin {"empty", "listed"}
  /\ Erase(Registered # {})
  /\ job' = Job(IF Registered = {} THEN "completed" ELSE "purging_blobs", None, job.snapshot)
  /\ intents' = Enqueued({"job_deleted"} \cup (IF Registered = {} THEN {"delete_completed"} ELSE {}))
  /\ \/ NoFault /\ Leaves(w)
     \/ Fault /\ DeleterAt(w, "failed", deleter[w].snapshot) /\ UNCHANGED leader
  /\ UNCHANGED <<self, log>>

\* The tenant is gone or protected, its row stays locked, or the database fails.
DeletionFails(w) ==
  /\ deleter[w].step = "fenced"
  /\ \/ (tenant = "gone" \/ protected \/ self \in {"empty", "listed"}) /\ NoFault
     \/ Fault
  /\ DeleterAt(w, "failed", deleter[w].snapshot)
  /\ UNCHANGED <<tenancy, job, leader, self, purging, evidence>>

\* An error of the restore itself is only logged.
RestoreTenantFence(w) ==
  /\ deleter[w].step = "failed"
  /\ \/ /\ NoFault
        /\ agents' = IF agents = "gone" \/ deleter[w].snapshot \in {None, "gone"} THEN agents
                     ELSE deleter[w].snapshot
     \/ Fault /\ agents' = agents
  /\ DeleterAt(w, "restored", None)
  /\ UNCHANGED <<tenant, protected, rows, job, leader, self, purging, evidence>>

\* WHERE id = $1: whatever the status is by now.
MarkFailed(w) ==
  /\ deleter[w].step = "restored"
  /\ job' = Job("failed", None, job.snapshot)
  /\ Leaves(w)
  /\ UNCHANGED <<tenancy, self, purging, evidence, faults>>

DeleterCrashes(w) ==
  /\ deleter[w].step # "idle" /\ Fault
  /\ Leaves(w)
  /\ UNCHANGED <<tenancy, job, self, purging, evidence>>

\* Fifteen minutes pass; a worker that still runs has lost its lease session.
JobAges ==
  /\ job.status \in {"fencing", "deleting"} /\ ~ job.aged
  /\ job' = [job EXCEPT !.aged = TRUE]
  /\ IF deleter[job.by].step = "idle"
     THEN NoFault /\ UNCHANGED leader
     ELSE Fault /\ leader' = IF leader = job.by THEN None ELSE leader
  /\ UNCHANGED <<tenancy, deleter, self, purging, evidence>>

----------------------------------------------------------------------------
(* The purge of the bytes.                                                 *)

PurgeDue_NoReclaim == purge.attempts < MaxAttempts /\ purge.status \in {"pending", "failed"}
PurgeDue ==
  /\ purge.attempts < MaxAttempts
  /\ purge.status \in {"pending", "failed"} \/ (purge.status = "purging" /\ purge.aged)

PurgerAt(p, step, attempts, outcome) ==
  purger' = [purger EXCEPT ![p] = [step |-> step, attempts |-> attempts, outcome |-> outcome]]
Ends(p, outcome) == PurgerAt(p, "ended", purger[p].attempts, outcome)
PurgerRests(p) == PurgerAt(p, "idle", 0, "retry")

PurgeClaim(p) ==
  /\ purger[p].step = "idle" /\ PurgeDue
  /\ purge' = Purge("purging", purge.attempts, p)
  /\ PurgerAt(p, "claimed", purge.attempts, "retry")
  /\ UNCHANGED <<tenancy, deletion, self, bytes, evidence, faults>>

\* inspectTenantLegalHolds, releaseTenantLegalHolds: either may throw halfway.
ReleaseHolds(p) ==
  /\ purger[p].step = "claimed"
  /\ \E released \in SUBSET {u \in Uploads : bytes[u] = "held"} :
       /\ bytes' = [u \in Uploads |-> IF u \in released THEN "free" ELSE bytes[u]]
       /\ \/ /\ \A u \in Uploads : bytes[u] = "held" => u \in released
             /\ PurgerAt(p, "released", purger[p].attempts, "retry")
          \/ Ends(p, "retry")
  /\ UNCHANGED <<tenancy, deletion, self, purge, evidence, faults>>

\* What is left decides: nothing, nothing but held versions, or more.
Outcome_HoldsOnly(kinds) == IF "held" \in kinds THEN "held" ELSE "clean"
Outcome(kinds) ==
  IF "free" \in kinds THEN "retry" ELSE IF "held" \in kinds THEN "held" ELSE "clean"

\* purgeTenant: versions fail one by one, or the listing throws.
PurgeTenant(p) ==
  /\ purger[p].step = "released"
  /\ \E freed \in SUBSET {u \in Uploads : bytes[u] = "free"} :
       LET after == [u \in Uploads |-> IF u \in freed THEN "erased" ELSE bytes[u]]
       IN /\ bytes' = after
          /\ Ends(p, Outcome({after[u] : u \in Uploads})) \/ Ends(p, "retry")
  /\ UNCHANGED <<tenancy, deletion, self, purge, evidence, faults>>

Holds_Unfenced(p) == TRUE
Holds(p) == purge.by = p

Verdict(p) ==
  CASE purger[p].outcome = "clean" -> "completed"
    [] purger[p].outcome = "held" -> "blocked_legal_hold"
    [] purger[p].outcome = "retry" ->
         IF purger[p].attempts + 1 >= MaxAttempts THEN "exhausted" ELSE "failed"

\* commitTransition: the purge job, the deletion job that waits for it, the intents.
Commit(p) ==
  LET verdict == Verdict(p)
      waiting == job.status = "purging_blobs"
  IN /\ purge' = Purge(verdict, IF purger[p].outcome = "retry" THEN purger[p].attempts + 1
                                ELSE purge.attempts, None)
     /\ job' = CASE waiting /\ verdict = "completed" -> Job("completed", None, job.snapshot)
                 [] waiting /\ verdict \in {"exhausted", "blocked_legal_hold"} ->
                      Job("failed", None, job.snapshot)
                 [] OTHER -> job
     /\ intents' = Enqueued(CASE verdict = "completed" /\ waiting -> {"purge_ended", "delete_completed"}
                              [] verdict = "failed" -> {}
                              [] OTHER -> {"purge_ended"})

\* The lease may have been taken by another worker; then nothing is written.
Settle(p) ==
  /\ purger[p].step = "ended" /\ NoFault
  /\ IF Holds(p) THEN Commit(p) ELSE UNCHANGED <<purge, job, intents>>
  /\ PurgerRests(p)
  /\ UNCHANGED <<tenancy, leader, deleter, self, bytes, log>>

\* The transaction of a success throws, rolled back or committed unheard: the
\* catch around the attempt takes it for a failure of the purge.
SettleThrows(p) ==
  /\ purger[p].step = "ended" /\ purger[p].outcome # "retry" /\ Holds(p) /\ Fault
  /\ Commit(p) \/ UNCHANGED <<purge, job, intents>>
  /\ Ends(p, "retry")
  /\ UNCHANGED <<tenancy, leader, deleter, self, bytes, log>>

PurgerCrashes(p) ==
  /\ purger[p].step # "idle" /\ Fault
  /\ PurgerRests(p)
  /\ UNCHANGED <<tenancy, deletion, self, purge, bytes, evidence>>

PurgeAges ==
  /\ purge.status = "purging" /\ ~ purge.aged
  /\ purge' = [purge EXCEPT !.aged = TRUE]
  /\ IF purger[purge.by].step = "idle" THEN NoFault ELSE Fault
  /\ UNCHANGED <<tenancy, deletion, self, purger, bytes, evidence>>

----------------------------------------------------------------------------
(* The delivery of the intents, at the end of a purge worker's cycle.      *)

\* A row without an actor is emitted in the name of the worker.
FormOf(k, p) == IF k = "purge_ended" THEN p ELSE "outbox"
\* A known key returns its event, or conflicts with it.
Accepted(k, p) == log[k] \in {None, FormOf(k, p)}
Pending(k, p) == intents[k].status = "pending" /\ purger[p].step = "idle"

\* The worker may stop between the event and the mark.
Publish(p, k) ==
  /\ Pending(k, p) /\ Accepted(k, p)
  /\ log' = [log EXCEPT ![k] = FormOf(k, p)]
  /\ \/ NoFault /\ intents' = [intents EXCEPT ![k].status = "published"]
     \/ Fault /\ UNCHANGED intents
  /\ UNCHANGED <<tenancy, deletion, self, purging>>

PublishFails(p, k) ==
  /\ Pending(k, p)
  /\ (~ Accepted(k, p) /\ NoFault) \/ Fault
  /\ LET attempt == intents[k].attempts + 1
     IN intents' = [intents EXCEPT ![k] =
          [status |-> IF attempt >= MaxPublish THEN "exhausted" ELSE "pending",
           attempts |-> IF attempt >= MaxPublish THEN 0 ELSE attempt]]
  /\ UNCHANGED <<tenancy, deletion, self, purging, log>>

\* operatorReplayExhaustedAuditOutbox
Replay(k) ==
  /\ intents[k].status = "exhausted" /\ Fault
  /\ intents' = [intents EXCEPT ![k] = [status |-> "pending", attempts |-> 0]]
  /\ UNCHANGED <<tenancy, deletion, self, purging, log>>

----------------------------------------------------------------------------
DeleterRuns(w) ==
  FenceTenant(w) \/ ExecuteDeletion(w) \/ DeletionFails(w) \/ RestoreTenantFence(w) \/ MarkFailed(w)
PurgerRuns(p) == ReleaseHolds(p) \/ PurgeTenant(p) \/ Settle(p)

Next ==
  \/ \E u \in Uploads : Put(u) \/ Register(u)
  \/ Protect \/ Request \/ JobAges \/ PurgeAges
  \/ SelfBegins \/ SelfAborts \/ SelfCommits \/ SelfEmits
  \/ \E w \in Deleters : Claim(w) \/ DeleterRuns(w) \/ FenceFails(w) \/ DeleterCrashes(w)
  \/ \E p \in Purgers : PurgeClaim(p) \/ PurgerRuns(p) \/ SettleThrows(p) \/ PurgerCrashes(p)
  \/ \E k \in Keys : Replay(k) \/ \E p \in Purgers : Publish(p, k) \/ PublishFails(p, k)

\* What is done without a fault, a request or an upload.  Each worker polls for
\* ever, a transaction that was opened ends, and time passes: it is never the
\* case that some of this could be done and nothing ever is.
Work ==
  \/ JobAges \/ PurgeAges \/ SelfCommits
  \/ \E w \in Deleters : Claim(w) \/ DeleterRuns(w)
  \/ \E p \in Purgers : PurgeClaim(p) \/ PurgerRuns(p)
  \/ \E k \in Keys, p \in Purgers : Publish(p, k) \/ PublishFails(p, k)

Spec == Init /\ [][Next]_vars /\ WF_vars(Work)

----------------------------------------------------------------------------
(* What an erasure promises.                                               *)

\* Nothing says that the erasure is complete -- the deletion job, the purge job
\* or an intent of tenant.delete_completed -- while the tenant, or bytes of an
\* artifact that was deleted with it, are there (executeDeletion,
\* commitTransition), whichever workers crashed, stalled or were overtaken.
ErasureIsReal ==
  (job.status = "completed" \/ purge.status = "completed"
     \/ intents["delete_completed"].status # "none")
    => tenant = "gone" /\ \A u \in Uploads : rows[u] = "erased" => bytes[u] = "erased"

\* A purge job that has ended is never written again: a worker whose lease was
\* taken, or that took the lost reply to its COMMIT for a failure, cannot
\* overwrite the end another or its own transaction recorded (locked_by fence).
PurgeVerdictStands == [][purge.status \in PurgeEnded => UNCHANGED purge]_vars

\* Every deletion job and every purge job ends, and every intent is delivered or
\* dead-lettered, whatever crashes in between (claim, claimDueBlobPurgeJobs,
\* claimPendingAuditOutbox).
Settled ==
  /\ job.status \in {"none", "completed", "failed"}
  /\ purge.status \in {"none"} \cup PurgeEnded
  /\ \A k \in Keys : intents[k].status # "pending"
ErasureSettles == []<>Settled
=============================================================================
