------------------------ MODULE TenantErasureProofs ------------------------
(***************************************************************************)
(* What says that an erasure is complete is true, and a purge that has     *)
(* ended stays as it ended, for any number of workers, uploads, attempts   *)
(* and faults.                                                             *)
(***************************************************************************)
EXTENDS TenantErasure, TLAPS

\* Every artifact that was deleted with its tenant has lost its bytes.
NothingLeft == \A u \in Uploads : rows[u] = "erased" => bytes[u] = "erased"

\* Before the deletion nothing has been erased, and nothing says so.
LiveIsUntouched ==
  tenant = "live" =>
    /\ purge.status = "none" /\ job.status \notin {"purging_blobs", "completed"}
    /\ intents["delete_completed"].status = "none"
    /\ \A u \in Uploads : rows[u] # "erased"
\* The request's transaction holds the row of the tenant.
OpenSelfIsLive == self \in {"empty", "listed"} => tenant = "live"
\* A purge worker works on a job that exists.
PurgersHaveAJob == purge.status = "none" => \A p \in Purgers : purger[p].step = "idle"
\* Bytes come before their row.
StoredFirst == \A u \in Uploads : rows[u] # "none" => bytes[u] # "none"
\* A clean attempt was clean, and stays so.
CleanIsClean ==
  \A p \in Purgers : purger[p].step = "ended" /\ purger[p].outcome = "clean" => NothingLeft
\* Only a job being purged is under a lease.
LeaseIsPurging == purge.status # "purging" => purge.by = None

SaysComplete ==
  \/ job.status = "completed" \/ purge.status = "completed"
  \/ intents["delete_completed"].status # "none"

IInv ==
  /\ TypeOK /\ LiveIsUntouched /\ OpenSelfIsLive /\ PurgersHaveAJob /\ StoredFirst
  /\ CleanIsClean /\ LeaseIsPurging /\ (SaysComplete => NothingLeft)

\* The tables as TypeOK types them.
Jobs == [status : JobStatuses, by : Deleters \cup {None}, aged : BOOLEAN, snapshot : Fence \cup {None}]
Purges == [status : PurgeStatuses, attempts : 0..MaxAttempts, by : Purgers \cup {None}, aged : BOOLEAN]
Outbox == [Keys -> [status : {"none", "pending", "published", "exhausted"}, attempts : 0..(MaxPublish - 1)]]

Deleting == [Deleters -> [step : {"idle", "claimed", "fenced", "failed", "restored"},
                          snapshot : Fence \cup {None}]]
Purging == [Purgers -> [step : {"idle", "claimed", "released", "ended"},
                        attempts : 0..(MaxAttempts - 1), outcome : {"clean", "held", "retry"}]]

USE DEF tenancy, deletion, purging, evidence, Fault, NoFault

----------------------------------------------------------------------------
(* Types.                                                                  *)

\* TypeOK in terms of the sets above.
Typed ==
  /\ tenant \in {"live", "gone"} /\ protected \in BOOLEAN /\ agents \in Fence
  /\ job \in Jobs /\ leader \in Deleters \cup {None} /\ deleter \in Deleting
  /\ self \in {"idle", "empty", "listed", "committed", "done"}
  /\ rows \in [Uploads -> {"none", "row", "erased"}]
  /\ bytes \in [Uploads -> {"none", "held", "free", "erased"}]
  /\ purge \in Purges /\ purger \in Purging /\ intents \in Outbox
  /\ log \in [Keys -> Purgers \cup {"outbox", "immediate", None}] /\ faults \in 0..MaxFaults
LEMMA TypeParts == (TypeOK => Typed) /\ (Typed' => TypeOK')
BY DEF TypeOK, Typed, Jobs, Deleting, Purges, Purging, Outbox

\* A counted fault, or none, stays within its bound.
LEMMA FaultType == ASSUME TypeOK, Fault \/ NoFault PROVE faults' \in 0..MaxFaults
BY ErasureAssumption DEF TypeOK

\* What the helpers of the actions write is typed.
LEMMA HelperTypes ==
  ASSUME TypeOK
  PROVE  /\ \A status \in JobStatuses, by \in Deleters \cup {None}, saved \in Fence \cup {None} :
              Job(status, by, saved) \in Jobs
         /\ \A status \in PurgeStatuses, n \in 0..MaxAttempts, by \in Purgers \cup {None} :
              Purge(status, n, by) \in Purges
         /\ \A keys \in SUBSET Keys : Enqueued(keys) \in Outbox
         /\ job.snapshot \in Fence \cup {None} /\ purge.attempts \in 0..MaxAttempts
<1>1. 0 \in 0..(MaxPublish - 1)
  BY ErasureAssumption
<1>2. \A keys \in SUBSET Keys : Enqueued(keys) \in Outbox
  BY <1>1 DEF TypeOK, Enqueued, Outbox
<1>. QED BY <1>2 DEF TypeOK, Job, Jobs, Purge, Purges

\* So is what they write about a worker of either kind.
LEMMA DeleterTypes ==
  ASSUME TypeOK, NEW w \in Deleters,
         NEW step \in {"idle", "claimed", "fenced", "failed", "restored"},
         NEW saved \in Fence \cup {None}, DeleterAt(w, step, saved)
  PROVE  deleter' \in Deleting
BY DEF TypeOK, Deleting, DeleterAt
LEMMA LeavingTypes ==
  ASSUME TypeOK, NEW w \in Deleters, Leaves(w)
  PROVE  deleter' \in Deleting /\ leader' \in Deleters \cup {None}
BY DeleterTypes DEF TypeOK, Leaves, Fence
LEMMA PurgerTypes ==
  ASSUME TypeOK, NEW p \in Purgers, NEW step \in {"idle", "claimed", "released", "ended"},
         NEW n \in 0..(MaxAttempts - 1), NEW outcome \in {"clean", "held", "retry"},
         PurgerAt(p, step, n, outcome)
  PROVE  purger' \in Purging
BY DEF TypeOK, Purging, PurgerAt

\* Either deletion: the tenant, its rows and a purge that may be due.
LEMMA EraseTypes ==
  ASSUME TypeOK, NEW hasBlobs, Erase(hasBlobs)
  PROVE  /\ tenant' = "gone" /\ protected' \in BOOLEAN /\ agents' \in Fence
         /\ rows' \in [Uploads -> {"none", "row", "erased"}] /\ purge' \in Purges
         /\ UNCHANGED <<bytes, purger>>
<1>1. 0 \in 0..MaxAttempts
  BY ErasureAssumption
<1>2. Purge("pending", 0, None) \in Purges /\ purge \in Purges
  BY <1>1, HelperTypes, TypeParts DEF Typed, PurgeStatuses
<1>. QED BY <1>2 DEF Erase, TypeOK, Fence

\* Uploads, requests, protection, and the tenant's own deletion keep the types.
LEMMA RequestTypes ==
  ASSUME TypeOK,
         \/ \E u \in Uploads : Put(u) \/ Register(u)
         \/ Protect \/ Request \/ SelfBegins \/ SelfAborts \/ SelfCommits \/ SelfEmits
  PROVE  TypeOK'
<1>1. ASSUME NEW u \in Uploads, Put(u) PROVE TypeOK'
  BY <1>1 DEF Put, TypeOK
<1>2. ASSUME NEW u \in Uploads, Register(u) PROVE TypeOK'
  BY <1>2 DEF Register, TypeOK
<1>3. CASE Protect
  BY <1>3 DEF Protect, TypeOK
<1>4. CASE Request
  <2>1. job' \in Jobs
    BY <1>4, HelperTypes DEF Request, JobStatuses, Fence
  <2>. QED BY <1>4, <2>1, TypeParts DEF Typed, Request
<1>5. CASE SelfBegins
  BY <1>5 DEF SelfBegins, TypeOK
<1>6. CASE SelfAborts
  BY <1>6, FaultType DEF SelfAborts, TypeOK
<1>7. CASE SelfCommits
  <2>1. intents' \in Outbox
    BY <1>7, HelperTypes DEF SelfCommits, Keys
  <2>. QED BY <1>7, <2>1, EraseTypes, TypeParts DEF Typed, SelfCommits
<1>8. CASE SelfEmits
  <2>1. log' \in [Keys -> Purgers \cup {"outbox", "immediate", None}] /\ self' = "done"
    BY <1>8 DEF SelfEmits, TypeOK
  <2>. QED BY <1>8, <2>1, FaultType DEF SelfEmits, TypeOK
<1>. QED BY <1>1, <1>2, <1>3, <1>4, <1>5, <1>6, <1>7, <1>8

\* The deletion worker keeps the types.
LEMMA DeleterStepTypes ==
  ASSUME TypeOK, NEW w \in Deleters,
         \/ Claim(w) \/ DeleterRuns(w) \/ FenceFails(w) \/ DeleterCrashes(w)
  PROVE  TypeOK'
<1>0. deleter[w].snapshot \in Fence \cup {None}
  BY DEF TypeOK
<1>1. CASE Claim(w)
  <2>1. job' \in Jobs /\ deleter' \in Deleting
    BY <1>1, HelperTypes, DeleterTypes DEF Claim, JobStatuses
  <2>. QED BY <1>1, <2>1, TypeParts DEF Typed, Claim
<1>f. ASSUME FenceCommits(w) PROVE job' \in Jobs /\ agents' \in Fence /\ Saved(w) \in Fence \cup {None}
  <2>1. Saved(w) \in Fence \cup {None} /\ agents' \in Fence
    BY <1>0, <1>f DEF FenceCommits, Saved, TypeOK, Fence
  <2>2. job.by \in Deleters \cup {None} /\ job \in Jobs
    BY TypeParts DEF Typed, Jobs
  <2>3. Job("deleting", job.by, Saved(w)) \in Jobs
    BY <2>1, <2>2, HelperTypes DEF JobStatuses
  <2>. QED BY <1>f, <2>1, <2>2, <2>3 DEF FenceCommits
<1>2. CASE FenceTenant(w)
  <2>1. job' \in Jobs /\ agents' \in Fence /\ Saved(w) \in Fence \cup {None}
    BY <1>2, <1>f DEF FenceTenant
  <2>2. deleter' \in Deleting
    BY <1>2, <2>1, DeleterTypes DEF FenceTenant
  <2>. QED BY <1>2, <2>1, <2>2, TypeParts DEF Typed, FenceTenant
<1>3. CASE FenceFails(w)
  <2>1. deleter' \in Deleting
    BY <1>3, DeleterTypes DEF FenceFails
  <2>2. job' \in Jobs /\ agents' \in Fence
    BY <1>3, <1>f, TypeParts DEF Typed, FenceFails
  <2>. QED BY <1>3, <2>1, <2>2, FaultType, TypeParts DEF Typed, FenceFails
<1>4. CASE ExecuteDeletion(w)
  <2>1. job' \in Jobs
    BY <1>4, HelperTypes DEF ExecuteDeletion, JobStatuses
  <2>2. intents' \in Outbox
    BY <1>4, HelperTypes DEF ExecuteDeletion, Keys
  <2>3. deleter' \in Deleting /\ leader' \in Deleters \cup {None} /\ faults' \in 0..MaxFaults
    BY <1>0, <1>4, DeleterTypes, LeavingTypes, FaultType, TypeParts DEF Typed, ExecuteDeletion
  <2>. QED BY <1>4, <2>1, <2>2, <2>3, EraseTypes, TypeParts DEF Typed, ExecuteDeletion
<1>5. CASE DeletionFails(w)
  <2>1. deleter' \in Deleting /\ faults' \in 0..MaxFaults
    BY <1>0, <1>5, DeleterTypes, FaultType DEF DeletionFails
  <2>. QED BY <1>5, <2>1, TypeParts DEF Typed, DeletionFails
<1>6. CASE RestoreTenantFence(w)
  <2>1. deleter' \in Deleting /\ faults' \in 0..MaxFaults
    BY <1>6, DeleterTypes, FaultType DEF RestoreTenantFence
  <2>2. agents' \in Fence
    BY <1>0, <1>6 DEF RestoreTenantFence, TypeOK
  <2>. QED BY <1>6, <2>1, <2>2, TypeParts DEF Typed, RestoreTenantFence
<1>7. CASE MarkFailed(w)
  <2>1. job' \in Jobs
    BY <1>7, HelperTypes DEF MarkFailed, JobStatuses
  <2>. QED BY <1>7, <2>1, LeavingTypes, TypeParts DEF Typed, MarkFailed
<1>8. CASE DeleterCrashes(w)
  BY <1>8, LeavingTypes, FaultType, TypeParts DEF Typed, DeleterCrashes
<1>. QED BY <1>1, <1>2, <1>3, <1>4, <1>5, <1>6, <1>7, <1>8 DEF DeleterRuns

\* So does the time that passes.
LEMMA TimeTypes == ASSUME TypeOK, JobAges \/ PurgeAges PROVE TypeOK'
<1>1. CASE JobAges
  <2>1. job' \in Jobs /\ leader' \in Deleters \cup {None}
    BY <1>1, TypeParts DEF Typed, JobAges, Jobs
  <2>. QED BY <1>1, <2>1, FaultType, TypeParts DEF Typed, JobAges
<1>2. CASE PurgeAges
  <2>1. purge' \in Purges
    BY <1>2, TypeParts DEF Typed, PurgeAges, Purges
  <2>. QED BY <1>2, <2>1, FaultType, TypeParts DEF Typed, PurgeAges
<1>. QED BY <1>1, <1>2

\* So do the attempts of a purge worker.
LEMMA PurgerStepTypes ==
  ASSUME TypeOK, NEW p \in Purgers,
         PurgeClaim(p) \/ ReleaseHolds(p) \/ PurgeTenant(p) \/ PurgerCrashes(p)
  PROVE  TypeOK'
<1>0. /\ purger[p].attempts \in 0..(MaxAttempts - 1) /\ 0 \in 0..(MaxAttempts - 1)
      /\ bytes \in [Uploads -> {"none", "held", "free", "erased"}]
  BY ErasureAssumption DEF TypeOK
<1>1. CASE PurgeClaim(p)
  <2>1. purge.attempts \in 0..(MaxAttempts - 1)
    BY <1>1, ErasureAssumption DEF PurgeClaim, PurgeDue, TypeOK
  <2>2. purge' \in Purges
    BY <1>1, HelperTypes DEF PurgeClaim, PurgeStatuses
  <2>3. purger' \in Purging
    BY <1>1, <2>1, PurgerTypes DEF PurgeClaim
  <2>. QED BY <1>1, <2>2, <2>3, TypeParts DEF Typed, PurgeClaim
<1>2. CASE ReleaseHolds(p)
  <2>1. bytes' \in [Uploads -> {"none", "held", "free", "erased"}]
    BY <1>0, <1>2 DEF ReleaseHolds
  <2>2. purger' \in Purging
    BY <1>0, <1>2, PurgerTypes DEF ReleaseHolds, Ends
  <2>. QED BY <1>2, <2>1, <2>2, TypeParts DEF Typed, ReleaseHolds
<1>3. CASE PurgeTenant(p)
  <2>1. bytes' \in [Uploads -> {"none", "held", "free", "erased"}]
    BY <1>0, <1>3 DEF PurgeTenant
  <2>2. PICK outcome \in {"clean", "held", "retry"} : Ends(p, outcome)
    <3>1. \A kinds : Outcome(kinds) \in {"clean", "held", "retry"}
      BY DEF Outcome
    <3>. QED BY <1>3, <3>1 DEF PurgeTenant
  <2>3. purger' \in Purging
    BY <1>0, <2>2, PurgerTypes DEF Ends
  <2>. QED BY <1>3, <2>1, <2>3, TypeParts DEF Typed, PurgeTenant
<1>4. CASE PurgerCrashes(p)
  <2>1. purger' \in Purging
    BY <1>0, <1>4, PurgerTypes DEF PurgerCrashes, PurgerRests
  <2>. QED BY <1>4, <2>1, FaultType, TypeParts DEF Typed, PurgerCrashes
<1>. QED BY <1>1, <1>2, <1>3, <1>4

\* And the delivery of intents.
LEMMA EvidenceTypes ==
  ASSUME TypeOK, NEW k \in Keys,
         Replay(k) \/ \E p \in Purgers : Publish(p, k) \/ PublishFails(p, k)
  PROVE  TypeOK'
<1>1. 0 \in 0..(MaxPublish - 1) /\ intents \in Outbox
  BY ErasureAssumption, TypeParts DEF Typed
<1>2. CASE Replay(k)
  <2>1. intents' \in Outbox
    BY <1>1, <1>2 DEF Replay, Outbox
  <2>. QED BY <1>2, <2>1, FaultType, TypeParts DEF Typed, Replay
<1>3. ASSUME NEW p \in Purgers, Publish(p, k) PROVE TypeOK'
  <2>1. intents' \in Outbox /\ faults' \in 0..MaxFaults
    BY <1>1, <1>3, FaultType DEF Publish, Outbox
  <2>2. log' \in [Keys -> Purgers \cup {"outbox", "immediate", None}]
    BY <1>3 DEF Publish, FormOf, TypeOK
  <2>. QED BY <1>3, <2>1, <2>2, TypeParts DEF Typed, Publish
<1>4. ASSUME NEW p \in Purgers, PublishFails(p, k) PROVE TypeOK'
  <2> DEFINE attempt == intents[k].attempts + 1
  <2>1. attempt >= MaxPublish \/ attempt \in 0..(MaxPublish - 1)
    BY <1>1, ErasureAssumption DEF Outbox
  <2>2. intents' \in Outbox
    BY <1>1, <1>4, <2>1 DEF PublishFails, Outbox
  <2>3. faults' \in 0..MaxFaults
    BY <1>4, FaultType DEF PublishFails
  <2>. QED BY <1>4, <2>2, <2>3, TypeParts DEF Typed, PublishFails
<1>. QED BY <1>2, <1>3, <1>4

----------------------------------------------------------------------------
(* The invariant, step by step.                                            *)

\* A step that touches neither the tenant, its artifacts nor the purge, that
\* opens no request on a tenant that is gone and calls nothing complete.
LEMMA QuietStep ==
  ASSUME IInv, TypeOK', UNCHANGED <<tenant, rows, bytes, purge, purger>>,
         self' \in {"empty", "listed"} => tenant = "live",
         job'.status \in {"purging_blobs", "completed"} => job'.status = job.status,
         intents'["delete_completed"].status # "none" => intents["delete_completed"].status # "none"
  PROVE  IInv'
<1>1. (NothingLeft <=> NothingLeft') /\ (SaysComplete' => SaysComplete)
  BY DEF NothingLeft, SaysComplete
<1>2. LiveIsUntouched' /\ OpenSelfIsLive' /\ PurgersHaveAJob' /\ StoredFirst' /\ LeaseIsPurging'
  BY DEF IInv, LiveIsUntouched, OpenSelfIsLive, PurgersHaveAJob, StoredFirst, LeaseIsPurging
<1>. QED BY <1>1, <1>2 DEF IInv, CleanIsClean

\* Uploads: bytes that arrive belong to no row that was erased.
LEMMA UploadsKeepIInv ==
  ASSUME IInv, NEW u \in Uploads, Put(u) \/ Register(u)
  PROVE  IInv'
<1>1. TypeOK'
  BY RequestTypes DEF IInv
<1>2. /\ \A v \in Uploads : (rows'[v] = "erased" <=> rows[v] = "erased") /\ (bytes[v] # "none" => bytes'[v] = bytes[v])
      /\ UNCHANGED <<tenant, job, self, purge, purger, intents>>
      /\ StoredFirst'
  BY DEF IInv, TypeOK, StoredFirst, Put, Register
<1>3. (NothingLeft <=> NothingLeft') /\ (SaysComplete' => SaysComplete)
  BY <1>2 DEF IInv, StoredFirst, NothingLeft, SaysComplete
<1>4. LiveIsUntouched' /\ OpenSelfIsLive' /\ PurgersHaveAJob' /\ LeaseIsPurging'
  BY <1>2 DEF IInv, LiveIsUntouched, OpenSelfIsLive, PurgersHaveAJob, LeaseIsPurging
<1>. QED BY <1>1, <1>2, <1>3, <1>4 DEF IInv, CleanIsClean

\* Requests, protection, and what the tenant's own deletion does but delete.
LEMMA RequestsKeepIInv ==
  ASSUME IInv, Protect \/ Request \/ SelfBegins \/ SelfAborts \/ SelfEmits
  PROVE  IInv'
<1>1. TypeOK'
  BY RequestTypes DEF IInv
<1>2. /\ UNCHANGED <<tenant, rows, bytes, purge, purger, intents>>
      /\ self' \in {"empty", "listed"} => tenant = "live"
      /\ job'.status \in {"purging_blobs", "completed"} => job'.status = job.status
  BY DEF IInv, OpenSelfIsLive, Protect, Request, Job, SelfBegins, SelfAborts, SelfEmits
<1>. QED BY <1>1, <1>2, QuietStep

\* A deletion by either path: no purge worker is at work yet, and it calls itself
\* complete only when there was nothing to purge.
LEMMA ErasureKeepsIInv ==
  ASSUME IInv, TypeOK', NEW hasBlobs, tenant = "live", Erase(hasBlobs),
         self' \notin {"empty", "listed"},
         job'.status = "completed" => Registered = {},
         intents'["delete_completed"].status # "none" => Registered = {}
  PROVE  IInv'
<1>1. /\ tenant' = "gone" /\ UNCHANGED <<bytes, purger>>
      /\ \A u \in Uploads : rows'[u] = IF rows[u] = "row" THEN "erased" ELSE rows[u]
  BY DEF Erase
<1>2. purge.status = "none" /\ \A p \in Purgers : purger'[p].step = "idle"
  BY <1>1 DEF IInv, LiveIsUntouched, PurgersHaveAJob
<1>3. purge'.status \in {"none", "pending"} /\ LeaseIsPurging'
  BY <1>2 DEF IInv, LeaseIsPurging, Erase, Purge
<1>4. StoredFirst'
  BY <1>1 DEF IInv, StoredFirst
<1>5. ASSUME SaysComplete' PROVE NothingLeft'
  <2>1. Registered = {}
    BY <1>3, <1>5 DEF SaysComplete
  <2>. QED BY <1>1, <2>1 DEF IInv, LiveIsUntouched, NothingLeft, Registered
<1>. QED BY <1>1, <1>2, <1>3, <1>4, <1>5
     DEF IInv, LiveIsUntouched, OpenSelfIsLive, PurgersHaveAJob, CleanIsClean

\* The tenant's own deletion.
LEMMA SelfCommitsKeepsIInv == ASSUME IInv, SelfCommits PROVE IInv'
<1>1. TypeOK' /\ tenant = "live"
  BY RequestTypes DEF IInv, OpenSelfIsLive, SelfCommits
<1>2. /\ job'.status # "completed" /\ self' \notin {"empty", "listed"}
      /\ intents'["delete_completed"].status = "none"
  BY <1>1 DEF IInv, LiveIsUntouched, SelfCommits, Enqueued, Keys
<1>. QED BY <1>1, <1>2, ErasureKeepsIInv DEF SelfCommits

\* The admin deletion: with no blobs it is complete, else a purge is due.
LEMMA ExecutionKeepsIInv == ASSUME IInv, NEW w \in Deleters, ExecuteDeletion(w) PROVE IInv'
<1>1. TypeOK' /\ tenant = "live" /\ self' \notin {"empty", "listed"}
  BY DeleterStepTypes DEF IInv, ExecuteDeletion, DeleterRuns
<1>2. job'.status = "completed" => Registered = {}
  BY DEF ExecuteDeletion, Job
<1>3. intents'["delete_completed"].status # "none" => Registered = {}
  BY <1>1 DEF IInv, LiveIsUntouched, ExecuteDeletion, Enqueued, Keys
<1>. QED BY <1>1, <1>2, <1>3, ErasureKeepsIInv DEF ExecuteDeletion

\* The rest of the deletion worker erases nothing and calls nothing complete.
LEMMA DeletersKeepIInv ==
  ASSUME IInv, NEW w \in Deleters,
         \/ Claim(w) \/ FenceTenant(w) \/ FenceFails(w) \/ DeletionFails(w)
         \/ RestoreTenantFence(w) \/ MarkFailed(w) \/ DeleterCrashes(w)
  PROVE  IInv'
<1>1. TypeOK'
  BY DeleterStepTypes DEF IInv, DeleterRuns
<1>2. /\ UNCHANGED <<tenant, self, rows, bytes, purge, purger, intents>>
      /\ job'.status \in {"purging_blobs", "completed"} => job'.status = job.status
  BY DEF Claim, FenceTenant, FenceFails, FenceCommits, DeletionFails, RestoreTenantFence,
         MarkFailed, DeleterCrashes, Job
<1>. QED BY <1>1, <1>2, QuietStep DEF IInv, OpenSelfIsLive

\* Time passes for a job and for a purge.
LEMMA TimeKeepsIInv == ASSUME IInv, JobAges \/ PurgeAges PROVE IInv'
<1>1. TypeOK'
  BY TimeTypes DEF IInv
<1>2. CASE JobAges
  <2>1. job'.status = job.status
    BY <1>2 DEF IInv, TypeOK, JobAges
  <2>. QED BY <1>1, <1>2, <2>1, QuietStep DEF IInv, OpenSelfIsLive, JobAges
<1>3. CASE PurgeAges
  <2>1. purge'.status = purge.status /\ purge'.by = purge.by
    BY <1>3 DEF IInv, TypeOK, PurgeAges
  <2>2. UNCHANGED <<tenant, job, self, rows, bytes, purger, intents>>
    BY <1>3 DEF PurgeAges
  <2>3. (NothingLeft <=> NothingLeft') /\ (SaysComplete' => SaysComplete)
    BY <2>1, <2>2 DEF NothingLeft, SaysComplete
  <2>4. LiveIsUntouched' /\ OpenSelfIsLive' /\ PurgersHaveAJob' /\ StoredFirst' /\ LeaseIsPurging'
    BY <2>1, <2>2 DEF IInv, LiveIsUntouched, OpenSelfIsLive, PurgersHaveAJob, StoredFirst, LeaseIsPurging
  <2>. QED BY <1>1, <2>2, <2>3, <2>4 DEF IInv, CleanIsClean
<1>. QED BY <1>2, <1>3

\* A step of one attempt frees or erases bytes of artifacts that have some, and
\* the attempt is clean only when nothing is left.
LEMMA AttemptKeepsIInv ==
  ASSUME IInv, TypeOK', NEW p \in Purgers, purge.status # "none",
         \A q \in Purgers : q # p => purger'[q] = purger[q],
         \A u \in Uploads :
           bytes'[u] = bytes[u] \/ (bytes[u] \in {"held", "free"} /\ bytes'[u] \in {"free", "erased"}),
         purger'[p].step = "ended" /\ purger'[p].outcome = "clean" => NothingLeft',
         UNCHANGED <<tenant, rows, job, self, intents>>,
         purge' = purge \/ purge'.status = "purging"
  PROVE  IInv'
<1>1. StoredFirst' /\ (NothingLeft => NothingLeft')
  BY DEF IInv, StoredFirst, NothingLeft
<1>2. CleanIsClean'
  BY <1>1 DEF IInv, CleanIsClean
<1>3. SaysComplete' => NothingLeft'
  BY <1>1 DEF IInv, SaysComplete
<1>4. LiveIsUntouched' /\ OpenSelfIsLive' /\ PurgersHaveAJob' /\ LeaseIsPurging'
  BY DEF IInv, LiveIsUntouched, OpenSelfIsLive, PurgersHaveAJob, LeaseIsPurging
<1>. QED BY <1>1, <1>2, <1>3, <1>4 DEF IInv

\* Claim, release of holds, purge and crash of one worker.
LEMMA PurgersKeepIInv ==
  ASSUME IInv, NEW p \in Purgers,
         PurgeClaim(p) \/ ReleaseHolds(p) \/ PurgeTenant(p) \/ PurgerCrashes(p)
  PROVE  IInv'
<1>t. TypeOK'
  BY PurgerStepTypes DEF IInv
<1>u. UNCHANGED <<tenant, rows, job, self, intents>>
  BY DEF PurgeClaim, ReleaseHolds, PurgeTenant, PurgerCrashes
<1>o. \E step, attempts, outcome : PurgerAt(p, step, attempts, outcome)
  <2>1. CASE PurgeClaim(p)
    BY <2>1 DEF PurgeClaim
  <2>2. CASE ReleaseHolds(p)
    BY <2>2 DEF ReleaseHolds, Ends
  <2>3. CASE PurgeTenant(p)
    BY <2>3 DEF PurgeTenant, Ends
  <2>4. CASE PurgerCrashes(p)
    BY <2>4 DEF PurgerCrashes, PurgerRests
  <2>. QED BY <2>1, <2>2, <2>3, <2>4
<1>p. purger \in Purging
  BY TypeParts DEF IInv, Typed
<1>q. \A q \in Purgers : q # p => purger'[q] = purger[q]
  BY <1>o, <1>p DEF PurgerAt, Purging
<1>1. /\ TypeOK' /\ UNCHANGED <<tenant, rows, job, self, intents>>
      /\ \A q \in Purgers : q # p => purger'[q] = purger[q]
  BY <1>t, <1>u, <1>q
<1>2. purge.status # "none" /\ (purge' = purge \/ purge'.status = "purging")
  BY DEF IInv, PurgersHaveAJob, PurgeClaim, PurgeDue, Purge, ReleaseHolds, PurgeTenant, PurgerCrashes
<1>3. CASE PurgeClaim(p) \/ PurgerCrashes(p)
  <2>1. purger'[p].step # "ended" /\ UNCHANGED bytes
    BY <1>3 DEF IInv, TypeOK, PurgeClaim, PurgerCrashes, PurgerAt, PurgerRests
  <2>. QED BY <1>1, <1>2, <2>1, AttemptKeepsIInv
<1>4. CASE ReleaseHolds(p)
  <2>1. \A u \in Uploads : bytes'[u] = bytes[u] \/ (bytes[u] = "held" /\ bytes'[u] = "free")
    BY <1>4 DEF ReleaseHolds
  <2>2. purger'[p].outcome = "retry"
    BY <1>4 DEF IInv, TypeOK, ReleaseHolds, PurgerAt, Ends
  <2>. QED BY <1>1, <1>2, <2>1, <2>2, AttemptKeepsIInv
<1>5. CASE PurgeTenant(p)
  <2>1. \A u \in Uploads : bytes'[u] = bytes[u] \/ (bytes[u] = "free" /\ bytes'[u] = "erased")
    BY <1>5 DEF PurgeTenant
  <2>2. \/ purger'[p].outcome \in {"retry", "held"}
        \/ \A u \in Uploads : bytes'[u] \notin {"free", "held"}
    BY <1>5 DEF IInv, TypeOK, PurgeTenant, Outcome, PurgerAt, Ends
  <2>3. purger'[p].outcome = "clean" => NothingLeft'
    BY <1>1, <2>1, <2>2 DEF IInv, TypeOK, StoredFirst, NothingLeft
  <2>. QED BY <1>1, <1>2, <2>1, <2>3, AttemptKeepsIInv
<1>. QED BY <1>3, <1>4, <1>5

\* The end of an attempt that still holds its lease: what it writes is typed, the
\* lease is given back, and only a clean attempt calls anything complete.
LEMMA CommitIsHonest ==
  ASSUME IInv, NEW p \in Purgers, purger[p].step = "ended", Commit(p)
  PROVE  /\ purge' \in Purges /\ job' \in Jobs /\ intents' \in Outbox
         /\ purge'.by = None /\ purge'.status \notin {"none", "purging"}
         /\ SaysComplete' => SaysComplete \/ purger[p].outcome = "clean"
<1>1. Verdict(p) \in {"completed", "blocked_legal_hold", "exhausted", "failed"}
  BY DEF IInv, TypeOK, Verdict
<1>2. Verdict(p) = "completed" => purger[p].outcome = "clean"
  BY DEF IInv, TypeOK, Verdict
<1>3. purge' \in Purges /\ purge'.by = None /\ purge'.status = Verdict(p)
  BY <1>1, ErasureAssumption DEF IInv, Commit, Purges, TypeOK, JobStatuses, PurgeStatuses, PurgeEnded, Keys, Fence, Job, Purge
<1>4. /\ job' \in Jobs
      /\ job'.status = "completed" => job.status = "completed" \/ Verdict(p) = "completed"
  <2>1. CASE job.status = "purging_blobs" /\ Verdict(p) = "completed"
    BY <2>1, <1>1 DEF IInv, Commit, Jobs, TypeOK, JobStatuses, PurgeStatuses, PurgeEnded, Keys, Fence, Job, Purge
  <2>2. CASE job.status = "purging_blobs" /\ Verdict(p) \in {"exhausted", "blocked_legal_hold"}
    BY <2>2, <1>1 DEF IInv, Commit, Jobs, TypeOK, JobStatuses, PurgeStatuses, PurgeEnded, Keys, Fence, Job, Purge
  <2>3. CASE job.status # "purging_blobs" \/ Verdict(p) = "failed"
    <3>1. job' = job BY <2>3, <1>1 DEF Commit
    <3>. QED BY <3>1 DEF IInv, Jobs, TypeOK
  <2>. QED BY <2>1, <2>2, <2>3, <1>1
<1>5. PICK keys : /\ intents' = Enqueued(keys)
                  /\ "delete_completed" \in keys => Verdict(p) = "completed"
  <2>1. CASE Verdict(p) = "completed" /\ job.status = "purging_blobs"
    BY <2>1 DEF Commit
  <2>2. CASE Verdict(p) = "failed"
    <3>1. intents' = Enqueued({}) BY <2>2 DEF Commit
    <3>. QED BY <3>1
  <2>3. CASE Verdict(p) # "failed" /\ ~ (Verdict(p) = "completed" /\ job.status = "purging_blobs")
    <3>1. intents' = Enqueued({"purge_ended"}) BY <2>3 DEF Commit
    <3>. QED BY <3>1
  <2>. QED BY <2>1, <2>2, <2>3
<1>6. /\ intents' \in Outbox
      /\ intents'["delete_completed"].status # "none" =>
           intents["delete_completed"].status # "none" \/ Verdict(p) = "completed"
  BY <1>5, ErasureAssumption DEF IInv, Enqueued, Outbox, TypeOK, Keys
<1>. QED
  BY <1>1, <1>2, <1>3, <1>4, <1>6 DEF SaysComplete

\* A settled attempt, heard or not.
LEMMA SettlementKeepsIInv ==
  ASSUME IInv, NEW p \in Purgers, Settle(p) \/ SettleThrows(p)
  PROVE  IInv'
<1>1. /\ purger[p].step = "ended"
      /\ UNCHANGED <<tenancy, leader, deleter, self, bytes, log>>
      /\ Commit(p) \/ UNCHANGED <<purge, job, intents>>
  BY DEF Settle, SettleThrows
<1>2. /\ \A q \in Purgers : q # p => purger'[q] = purger[q]
      /\ purger'[p].outcome = "retry"
      /\ purger' \in [Purgers -> [step : {"idle", "claimed", "released", "ended"},
                                  attempts : 0..(MaxAttempts - 1), outcome : {"clean", "held", "retry"}]]
      /\ faults' \in 0..MaxFaults
  <2>1. PICK step \in {"idle", "ended"}, n \in 0..(MaxAttempts - 1) : PurgerAt(p, step, n, "retry")
    <3>1. purger[p].attempts \in 0..(MaxAttempts - 1) /\ 0 \in 0..(MaxAttempts - 1)
      BY ErasureAssumption DEF IInv, TypeOK
    <3>. QED BY <3>1 DEF Settle, SettleThrows, Ends, PurgerRests
  <2>2. faults' \in 0..MaxFaults
    BY ErasureAssumption DEF IInv, TypeOK, Settle, SettleThrows
  <2>. QED BY <2>1, <2>2 DEF IInv, TypeOK, PurgerAt
<1>3. /\ purge' \in Purges /\ job' \in Jobs /\ intents' \in Outbox
      /\ purge'.status # "none" /\ LeaseIsPurging'
      /\ SaysComplete' => SaysComplete \/ purger[p].outcome = "clean"
  <2>1. CASE Commit(p)
    BY <2>1, <1>1, CommitIsHonest DEF LeaseIsPurging
  <2>2. CASE UNCHANGED <<purge, job, intents>>
    BY <2>2, <1>1 DEF IInv, PurgersHaveAJob, LeaseIsPurging, SaysComplete, TypeOK, Purges, Jobs, Outbox
  <2>. QED BY <1>1, <2>1, <2>2
<1>4. tenant = "gone"
  BY <1>1 DEF IInv, TypeOK, LiveIsUntouched, PurgersHaveAJob
<1>5. TypeOK'
  BY <1>1, <1>2, <1>3 DEF IInv, TypeOK, Purges, Jobs, Outbox
<1>6. (NothingLeft <=> NothingLeft') /\ StoredFirst'
  BY <1>1 DEF IInv, NothingLeft, StoredFirst
<1>7. SaysComplete' => NothingLeft'
  BY <1>1, <1>3, <1>6 DEF IInv, CleanIsClean
<1>8. CleanIsClean'
  BY <1>2, <1>6 DEF IInv, CleanIsClean
<1>. QED
  BY <1>1, <1>3, <1>4, <1>5, <1>6, <1>7, <1>8
  DEF IInv, LiveIsUntouched, OpenSelfIsLive, PurgersHaveAJob

\* Delivery and replay move intents that exist, and none of a deletion that is not.
LEMMA EvidenceKeepsIInv ==
  ASSUME IInv, NEW k \in Keys,
         Replay(k) \/ \E p \in Purgers : Publish(p, k) \/ PublishFails(p, k)
  PROVE  IInv'
<1>1. TypeOK'
  BY EvidenceTypes DEF IInv
<1>2. /\ UNCHANGED <<tenant, job, self, rows, bytes, purge, purger>>
      /\ \A key \in Keys : intents'[key].status # "none" => intents[key].status # "none"
  BY DEF IInv, TypeOK, Replay, Publish, PublishFails, Pending
<1>. QED BY <1>1, <1>2, QuietStep DEF IInv, OpenSelfIsLive, Keys

\* IInv is inductive.
LEMMA Induction ==
  (Init => IInv) /\ (IInv /\ [Next]_vars => IInv')
<1>1. Init => IInv
  <2>. SUFFICES ASSUME Init PROVE IInv OBVIOUS
  <2>1. TypeOK
    <3>1. 0 \in 0..MaxAttempts /\ 0 \in 0..(MaxAttempts - 1) /\ 0 \in 0..(MaxPublish - 1) /\ 0 \in 0..MaxFaults
      BY ErasureAssumption
    <3>2. rows \in [Uploads -> {"none", "row", "erased"}] /\ bytes \in [Uploads -> {"none", "held", "free", "erased"}]
      BY DEF Init
    <3>3. job \in Jobs /\ purge \in Purges
      BY <3>1 DEF Init, Job, Purge, Jobs, Purges, JobStatuses, PurgeStatuses
    <3>4. intents \in Outbox /\ log \in [Keys -> Purgers \cup {"outbox", "immediate", None}]
      BY <3>1 DEF Init, Outbox
    <3>5. /\ deleter \in [Deleters -> [step : {"idle", "claimed", "fenced", "failed", "restored"},
                                      snapshot : Fence \cup {None}]]
          /\ purger \in [Purgers -> [step : {"idle", "claimed", "released", "ended"},
                                    attempts : 0..(MaxAttempts - 1), outcome : {"clean", "held", "retry"}]]
      BY <3>1 DEF Init
    <3>. QED
      BY <3>1, <3>2, <3>3, <3>4, <3>5 DEF Init, TypeOK, Fence, Jobs, Purges, Outbox
  <2>2. \A u \in Uploads : rows[u] # "erased" /\ (rows[u] # "none" => bytes[u] # "none")
    BY DEF Init
  <2>. QED
    BY <2>1, <2>2 DEF Init, Job, Purge, Keys, IInv, LiveIsUntouched, OpenSelfIsLive, PurgersHaveAJob,
       StoredFirst, CleanIsClean, LeaseIsPurging, SaysComplete, NothingLeft
<1>2. ASSUME IInv, [Next]_vars PROVE IInv'
  <2>1. CASE UNCHANGED vars
    BY <1>2, <2>1 DEF vars, TypeOK, IInv, LiveIsUntouched, OpenSelfIsLive, PurgersHaveAJob, StoredFirst, CleanIsClean, LeaseIsPurging,
         SaysComplete, NothingLeft
  <2>2. CASE Next
    BY <1>2, <2>2, UploadsKeepIInv, RequestsKeepIInv, SelfCommitsKeepsIInv, ExecutionKeepsIInv,
       DeletersKeepIInv, TimeKeepsIInv, PurgersKeepIInv, SettlementKeepsIInv, EvidenceKeepsIInv
    DEF Next, DeleterRuns, PurgerRuns
  <2>. QED BY <1>2, <2>1, <2>2
<1>. QED BY <1>1, <1>2

\* The inductive invariant holds.
THEOREM Invariance == Spec => []IInv
BY Induction, PTL DEF Spec

\* Every variable keeps its type, the attempts stay under their caps among them
\* (MAX_BLOB_PURGE_ATTEMPTS, MAX_OUTBOX_PUBLISH_ATTEMPTS).
THEOREM TypeCorrect == Spec => []TypeOK
<1>1. IInv => TypeOK BY DEF IInv
<1>. QED BY <1>1, Invariance, PTL

\* Nothing says that an erasure is complete before the tenant and the bytes of
\* its artifacts are gone (executeDeletion, commitTransition).
THEOREM ErasureIsRealHolds == Spec => []ErasureIsReal
<1>1. IInv => ErasureIsReal
  BY DEF IInv, TypeOK, LiveIsUntouched, SaysComplete, NothingLeft, ErasureIsReal
<1>. QED BY <1>1, Invariance, PTL

\* A purge that has ended is not written again: its lease was given back with
\* the write that ended it, so no worker's fenced write matches.
LEMMA EndedPurgeStands ==
  ASSUME IInv, [Next]_vars, purge.status \in PurgeEnded
  PROVE  UNCHANGED purge
<1>1. purge.by = None /\ \A p \in Purgers : ~ Holds(p)
  BY ErasureAssumption DEF IInv, LeaseIsPurging, PurgeEnded, Holds
<1>2. ASSUME NEW hasBlobs, Erase(hasBlobs) PROVE UNCHANGED purge
  BY <1>2 DEF Erase, PurgeEnded
<1>3. CASE SelfCommits \/ \E w \in Deleters : ExecuteDeletion(w)
  BY <1>2, <1>3 DEF SelfCommits, ExecuteDeletion
<1>4. CASE \E p \in Purgers : Settle(p) \/ SettleThrows(p) \/ PurgeClaim(p)
  BY <1>1, <1>4 DEF Settle, SettleThrows, PurgeClaim, PurgeDue, PurgeEnded
<1>5. CASE PurgeAges
  BY <1>5 DEF PurgeAges, PurgeEnded
<1>. QED
  BY <1>3, <1>4, <1>5
  DEF Next, vars, DeleterRuns, PurgerRuns, Put, Register, Protect, Request, JobAges, SelfBegins,
      SelfAborts, SelfEmits, Claim, FenceTenant, DeletionFails, RestoreTenantFence, MarkFailed,
      FenceFails, DeleterCrashes, ReleaseHolds, PurgeTenant, PurgerCrashes, Publish, PublishFails,
      Replay

\* A purge that has ended stays as it ended (the fence on locked_by).
THEOREM PurgeVerdictStandsHolds == Spec => PurgeVerdictStands
<1>1. IInv /\ [Next]_vars => [purge.status \in PurgeEnded => UNCHANGED purge]_vars
  BY EndedPurgeStands
<1>. QED BY <1>1, Invariance, PTL DEF Spec, PurgeVerdictStands
=============================================================================
