----------------------------- MODULE AuditChain -----------------------------
(***************************************************************************)
(* The hash chain of one tenant's audit log and the job that keeps an eye  *)
(* on it: PostgresAuditEmitter.emit of shared/src/audit, the trigger and   *)
(* unique indexes of services/audit/migrations, and the paged verifiers of *)
(* services/audit/src/audit-consistency.ts.                                *)
(*                                                                         *)
(* A row sits at its place in the (created_at, id) order.  Hosts have      *)
(* skewed clocks and ids are random, so a new row may take any free place, *)
(* and the chain order is another one.  A hash is the pair of place and    *)
(* content it was computed from.  The deployment that brings in the table  *)
(* of heads is part of the model: emitters of the revision before it run   *)
(* while its migrations do.                                                *)
(***************************************************************************)
EXTENDS Naturals, FiniteSets, Sequences

CONSTANTS
  Calls,       \* calls of emit
  Previous,    \* those made by the previous revision of the application
  KeyOf,       \* the idempotency key of each call, None without one
  ContentOf,   \* the content of each call's event
  Keys, Contents,
  Existing,    \* the places of the events before the deployment, in chain order
  OldContent,  \* what they say
  OtherVersion,\* the places of those hashed under another hash_schema_version
  MaxPlace,    \* bound on the events of the tenant
  PageSize,    \* page size of each verifier
  MaxEdits,    \* bound on the rows changed behind the application's back
  MaxAnchors,  \* bound on the anchored windows
  None         \* no row, no hash, no key, no head

Places == 1..MaxPlace
Hashes == Places \X Contents
Rows == [prev : Hashes \cup {None}, hash : Hashes, key : Keys \cup {None},
         content : Contents]
Heads == [hash : Hashes \cup {None}, sequence : Nat]
Verifiers == {"content", "root"}

ASSUME ChainAssumption ==
  /\ Previous \subseteq Calls
  /\ KeyOf \in [Calls -> Keys \cup {None}]
  /\ ContentOf \in [Calls -> Contents]
  /\ MaxPlace \in Nat /\ MaxEdits \in Nat /\ MaxAnchors \in Nat
  /\ Existing \in Seq(Places) /\ OldContent \in Contents
  /\ OtherVersion \subseteq {Existing[i] : i \in DOMAIN Existing}
  /\ \A i, j \in DOMAIN Existing : Existing[i] = Existing[j] => i = j
  /\ PageSize \in [Verifiers -> Nat \ {0}]
  /\ None \notin Rows \cup Hashes \cup Keys \cup Heads \cup Contents

VARIABLES
  rows,        \* audit_events: the row at each place
  head,        \* the tenant's row of audit_chain_heads
  backfill,    \* migration 0026, and the snapshot its statement works on
  call,        \* where each emit is, and what it answered
  anchors,     \* confirmed rows of audit_anchors, by period
  cycle,       \* the next step of the verifier's cycle
  checkpoint,  \* audit_verifier_checkpoint, one row per verifier
  findings,    \* open rows of audit_integrity_findings
  written,     \* history: the content committed at each place
  edits,       \* history: rows changed behind the application's back
  suspect      \* history: what was wrong, without a break, since the pass began

log == <<rows, head, backfill, written>>
watch == <<cycle, checkpoint, findings>>
vars == <<log, call, anchors, watch, edits, suspect>>

Stored == {p \in Places : rows[p] # None}
Hash(p, content) == <<p, content>>
Migrated == backfill.step = "done"
InTransaction == {"locked", "linked"}

Outcomes == {"none", "event", "conflict", "refused"}
\* the step, the predecessor that was read, the outcome and the event returned
Locals == [step : {"idle", "done"} \cup InTransaction, pred : Hashes \cup {None},
           outcome : Outcomes, event : 0..MaxPlace]
Idle == [step |-> "idle", pred |-> None, outcome |-> "none", event |-> 0]
Windows == [from : Nat, to : Nat, root : SUBSET Hashes]

TypeOK ==
  /\ rows \in [Places -> Rows \cup {None}]
  /\ head \in Heads \cup {None}
  /\ backfill \in [step : {"todo", "read", "done"}, found : Heads \cup {None}]
  /\ call \in [Calls -> Locals]
  /\ anchors \in Seq(Windows)
  /\ cycle \in Verifiers
  /\ checkpoint \in [Verifiers -> [cursor : Nat, failures : Nat,
                                   status : {"never", "clean", "failed"}]]
  /\ findings \subseteq Verifiers \X Nat
  /\ written \in [Places -> Contents \cup {None}]
  /\ edits \in Nat
  /\ suspect \in [Verifiers -> SUBSET Nat]

ExistingRow(i) ==
  [prev |-> IF i = 1 THEN None ELSE Hash(Existing[i - 1], OldContent),
   hash |-> Hash(Existing[i], OldContent), key |-> None, content |-> OldContent]
ExistingAt(p) == {i \in DOMAIN Existing : Existing[i] = p}

Init ==
  /\ rows = [p \in Places |-> IF ExistingAt(p) = {} THEN None
                             ELSE ExistingRow(CHOOSE i \in ExistingAt(p) : TRUE)]
  /\ head = None
  /\ backfill = [step |-> "todo", found |-> None]
  /\ call = [c \in Calls |-> Idle]
  /\ anchors = <<>>
  /\ cycle = "content"
  /\ checkpoint = [v \in Verifiers |->
                     [cursor |-> 0, failures |-> 0, status |-> "never"]]
  /\ findings = {}
  /\ written = [p \in Places |-> IF ExistingAt(p) = {} THEN None ELSE OldContent]
  /\ edits = 0
  /\ suspect = [v \in Verifiers |-> {}]

----------------------------------------------------------------------------
(* The guards the database keeps.                                          *)

Successors(hash) == {p \in Stored : rows[p].prev = hash}

\* advance_audit_chain_head: compare and swap on the head; without a head row,
\* the rules of the interval before the backfill.
TriggerAdmits(h, prev) ==
  \/ h # None /\ h.hash = prev
  \/ h = None /\ prev = None /\ Stored = {}
  \/ /\ h = None /\ prev # None
     /\ \E p \in Stored : rows[p].hash = prev
     /\ Successors(prev) = {}

\* One row per key; once the indexes of the migration exist, one genesis and
\* one successor per predecessor.
IndexesAdmit(key, prev) ==
  /\ key = None \/ \A p \in Stored : rows[p].key # key
  /\ Migrated => Successors(prev) = {}

NextHead(h, hash) ==
  [hash |-> hash,
   sequence |-> IF h = None THEN Cardinality(Stored) + 1 ELSE h.sequence + 1]

----------------------------------------------------------------------------
(* emit: one transaction under the tenant's advisory lock.                 *)

At(c, step) == call[c].step = step
Goto(c, step) == call' = [call EXCEPT ![c].step = step]
Answer(c, outcome, event) ==
  call' = [call EXCEPT ![c] = [step |-> "done", pred |-> None,
                               outcome |-> outcome, event |-> event]]
LockFree_Unlocked == TRUE
LockFree == \A c \in Calls : call[c].step \notin InTransaction

Hits(c) == {p \in Stored : KeyOf[c] # None /\ rows[p].key = KeyOf[c]}

\* The new revision is rolled out after its migrations.
Begin(c) ==
  /\ At(c, "idle") /\ LockFree
  /\ c \in Previous \/ Migrated
  /\ Goto(c, "locked")
  /\ UNCHANGED log

\* The event was written before: it is returned, or the key was used for
\* another content.  The stored hash is what the content is compared with.
Deliver(c) ==
  /\ At(c, "locked")
  /\ \E p \in Hits(c) : IF rows[p].hash = Hash(p, ContentOf[c])
                        THEN Answer(c, "event", p) ELSE Answer(c, "conflict", 0)
  /\ UNCHANGED log

\* A brand-new tenant gets an empty head first, visible to this transaction only.
OwnHead(c) ==
  IF head = None /\ c \notin Previous THEN [hash |-> None, sequence |-> 0] ELSE head

\* The previous revision takes the newest row by (created_at, id) for the last.
Predecessors(c) ==
  IF c \notin Previous THEN {OwnHead(c).hash}
  ELSE IF Stored = {} THEN {None}
  ELSE {rows[p].hash : p \in {q \in Stored : \A r \in Stored : r <= q}}

ReadHead(c) ==
  /\ At(c, "locked") /\ Hits(c) = {}
  /\ \E pred \in Predecessors(c) :
       call' = [call EXCEPT ![c].step = "linked", ![c].pred = pred]
  /\ UNCHANGED log

NewRow(c, p) == [prev |-> call[c].pred, hash |-> Hash(p, ContentOf[c]),
                 key |-> KeyOf[c], content |-> ContentOf[c]]

\* The insert, its trigger and the commit.  The reply may be lost; a caller with
\* a key then calls again.
Insert(c) ==
  /\ At(c, "linked")
  /\ TriggerAdmits(OwnHead(c), call[c].pred)
  /\ IndexesAdmit(KeyOf[c], call[c].pred)
  /\ \E p \in Places :
       /\ written[p] = None
       /\ rows' = [rows EXCEPT ![p] = NewRow(c, p)]
       /\ written' = [written EXCEPT ![p] = ContentOf[c]]
       /\ head' = NextHead(OwnHead(c), Hash(p, ContentOf[c]))
       /\ \/ Answer(c, "event", p)
          \/ KeyOf[c] # None /\ call' = [call EXCEPT ![c] = Idle]
  /\ UNCHANGED backfill

\* The database refuses the row: the transaction is rolled back.
Refuse(c) ==
  /\ At(c, "linked")
  /\ ~ (/\ TriggerAdmits(OwnHead(c), call[c].pred)
        /\ IndexesAdmit(KeyOf[c], call[c].pred))
  /\ Answer(c, "refused", 0)
  /\ UNCHANGED log

\* The connection or the host fails before the commit; the caller may retry.
Rollback(c) ==
  /\ call[c].step \in InTransaction
  /\ call' = [call EXCEPT ![c] = Idle]
  /\ UNCHANGED log

----------------------------------------------------------------------------
(* Migration 0026: one statement, its snapshot and its insert.             *)

Tails == {p \in Stored : Successors(rows[p].hash) = {}}

BackfillReads ==
  /\ backfill.step = "todo"
  /\ \/ /\ Tails = {}
        /\ backfill' = [step |-> "read", found |-> None]
     \/ \E p \in Tails :
          backfill' = [step |-> "read",
                       found |-> [hash |-> rows[p].hash,
                                  sequence |-> Cardinality(Stored)]]
  /\ UNCHANGED <<rows, head, written>>

BackfillWrites_Overwrites ==
  /\ backfill.step = "read"
  /\ head' = IF backfill.found = None THEN head ELSE backfill.found
  /\ backfill' = [backfill EXCEPT !.step = "done"]
  /\ UNCHANGED <<rows, written>>
BackfillWrites ==
  /\ backfill.step = "read"
  /\ head' = IF head = None THEN backfill.found ELSE head
  /\ backfill' = [backfill EXCEPT !.step = "done"]
  /\ UNCHANGED <<rows, written>>

----------------------------------------------------------------------------
(* Outside the application: the anchored windows (AuditAnchor), and rows   *)
(* changed by a privileged hand or a faulty migration.                     *)

InWindow(w) == {p \in Stored : w.from <= p /\ p <= w.to}
Root(w) == {rows[p].hash : p \in InWindow(w)}

Anchor ==
  /\ Len(anchors) < MaxAnchors
  /\ \E to \in Stored :
       LET from == IF anchors = <<>> THEN 0 ELSE anchors[Len(anchors)].to + 1
           w == [from |-> from, to |-> to, root |-> {}] IN
       /\ from <= to
       /\ anchors' = Append(anchors, [w EXCEPT !.root = Root(w)])

Edit ==
  /\ Migrated /\ edits < MaxEdits
  /\ \E p \in Stored :
       \/ rows' = [rows EXCEPT ![p] = None]
       \/ \E content \in Contents \ {rows[p].content} :
            \/ rows' = [rows EXCEPT ![p].content = content]
            \/ rows' = [rows EXCEPT ![p].content = content, ![p].hash = Hash(p, content)]
  /\ edits' = edits + 1

----------------------------------------------------------------------------
(* The verifier: the structure, then one page of rows, then one of anchors. *)

\* What checkAuditConsistency counts and reports, without keeping it.
Forked == \E p, q \in Stored :
            p # q /\ rows[p].prev = rows[q].prev /\ rows[p].prev # None
Gapped == \E p \in Stored :
            rows[p].prev # None /\ \A q \in Stored : rows[q].hash # rows[p].prev
InvalidGenesis == Stored # {} /\ \A p \in Stored : Successors(None) # {p}

\* Content is recomputed for rows of the current AUDIT_HASH_SCHEMA_VERSION only.
Examined(v) == IF v = "content" THEN Stored \ OtherVersion ELSE DOMAIN anchors
Wrong(v) ==
  IF v = "content" THEN {p \in Examined(v) : rows[p].hash # Hash(p, rows[p].content)}
  ELSE {i \in Examined(v) : Root(anchors[i]) # anchors[i].root}

\* What LIMIT may return: the next keys after the cursor, in order.
Pages(v) ==
  LET later == {k \in Examined(v) : k > checkpoint[v].cursor} IN
  {page \in SUBSET later :
     /\ \A k \in page, j \in later : j < k => j \in page
     /\ \/ Cardinality(page) = PageSize[v]
        \/ Cardinality(page) < PageSize[v] /\ page = later}

Completes(v, page) == Cardinality(page) < PageSize[v]

Advance_FirstPage(v, page, last) ==
  LET failures == checkpoint[v].failures + Cardinality(page \cap Wrong(v)) IN
  IF Completes(v, page)
  THEN [cursor |-> 0, failures |-> 0,
        status |-> IF failures = 0 THEN "clean" ELSE "failed"]
  ELSE [checkpoint[v] EXCEPT !.failures = 1]
Advance_LastPage(v, page, last) ==
  LET failures == Cardinality(page \cap Wrong(v)) IN
  IF Completes(v, page)
  THEN [cursor |-> 0, failures |-> 0,
        status |-> IF failures = 0 THEN "clean" ELSE "failed"]
  ELSE [checkpoint[v] EXCEPT !.cursor = last, !.failures = failures]
Advance(v, page, last) ==
  LET failures == checkpoint[v].failures + Cardinality(page \cap Wrong(v)) IN
  IF Completes(v, page)
  THEN [cursor |-> 0, failures |-> 0,
        status |-> IF failures = 0 THEN "clean" ELSE "failed"]
  ELSE [checkpoint[v] EXCEPT !.cursor = last, !.failures = failures]

\* One cursor transaction: findings stay open, the checkpoint moves on or wraps.
VerifyPage(v) ==
  /\ cycle = v
  /\ \E page \in Pages(v) : \E last \in page \cup {0} :
       /\ \A k \in page : k <= last
       /\ findings' = findings \cup ({v} \X (page \cap Wrong(v)))
       /\ checkpoint' = [checkpoint EXCEPT ![v] = Advance(v, page, last)]
  /\ cycle' = IF v = "content" THEN "root" ELSE "content"

\* A step fails and is rolled back; the next tick starts a new cycle.
CycleFails ==
  /\ cycle = "root"
  /\ cycle' = "content"
  /\ UNCHANGED <<checkpoint, findings>>

----------------------------------------------------------------------------
Emit(c) == Begin(c) \/ Deliver(c) \/ ReadHead(c) \/ Insert(c) \/ Refuse(c) \/ Rollback(c)
Backfill == (BackfillReads \/ BackfillWrites) /\ UNCHANGED call

\* History: what is wrong in the pass under way and has been since it began.
StillWrong == suspect' = [v \in Verifiers |-> suspect[v] \cap Wrong(v)']
NewPass(v) ==
  suspect' = IF checkpoint'[v].cursor = 0 THEN [suspect EXCEPT ![v] = Wrong(v)]
             ELSE suspect

Next ==
  \/ /\ (\E c \in Calls : Emit(c)) \/ Backfill
     /\ UNCHANGED <<anchors, watch, edits>> /\ StillWrong
  \/ Anchor /\ UNCHANGED <<log, call, watch, edits, suspect>>
  \/ Edit /\ UNCHANGED <<head, backfill, written, call, anchors, watch>>
     /\ StillWrong
  \/ CycleFails /\ UNCHANGED <<log, call, anchors, edits, suspect>>
  \/ \E v \in Verifiers :
       /\ VerifyPage(v) /\ NewPass(v)
       /\ UNCHANGED <<log, call, anchors, edits>>

\* The managed interval goes on calling the cycle, and its transactions do not
\* fail for ever.
VerifierFairness ==
  \A v \in Verifiers :
    SF_vars(VerifyPage(v) /\ NewPass(v) /\ UNCHANGED <<log, call, anchors, edits>>)

Spec == Init /\ [][Next]_vars /\ VerifierFairness

----------------------------------------------------------------------------
(* What the log promises.                                                  *)

\* Concurrent emits from hosts with skewed clocks, revisions that disagree on
\* what the predecessor is and a backfill that runs beside them leave, while
\* nobody touches the rows, no fork, no gap and one genesis, and a head that
\* counts the rows and names the one nothing follows.
ChainIsLinear ==
  edits = 0 =>
    /\ ~Forked /\ ~Gapped /\ ~InvalidGenesis
    /\ head # None =>
         /\ head.sequence = Cardinality(Stored)
         /\ IF Stored = {} THEN head.hash = None
            ELSE \E p \in Tails : rows[p].hash = head.hash

\* The lock is enough for the new revision: the database never refuses one of
\* its emits.  Over untouched rows an emit is answered with a row of its own key
\* and content, and whichever reply was lost, no key has two rows.
EmitIsServed ==
  /\ \A c \in Calls \ Previous : call[c].outcome # "refused"
  /\ edits = 0 =>
       /\ \A c \in Calls : call[c].outcome = "event" =>
            LET p == call[c].event IN
            /\ p \in Stored
            /\ rows[p].hash = Hash(p, ContentOf[c]) /\ rows[p].key = KeyOf[c]
       /\ \A p, q \in Stored :
            rows[p].key = rows[q].key /\ rows[p].key # None => p = q

Altered(p) == written[p] # None /\ (rows[p] = None \/ rows[p].content # written[p])
Unverifiable(p) ==
  p \in OtherVersion /\ rows[p] # None /\ rows[p].hash = Hash(p, written[p])
Found(v, k) == <<v, k>> \in findings

\* An event that was anchored and whose row was rewritten, with or without its
\* hash, or deleted is found in the end, page by page, while the log grows and
\* cycles fail.  Only a row of another hash version that kept its hash escapes.
TamperIsFound ==
  []<>(\A p \in Places, i \in DOMAIN anchors :
         Altered(p) /\ ~Unverifiable(p) /\ Hash(p, written[p]) \in anchors[i].root
           => Found("content", p) \/ Found("root", i))

\* A pass that ends clean saw everything that was wrong when it began and stayed
\* wrong: neither a page boundary nor a row inserted behind the cursor hides it.
CleanPassIsHonest ==
  [][\A v \in Verifiers :
       VerifyPage(v) /\ checkpoint'[v].cursor = 0 /\ checkpoint'[v].status = "clean"
       => suspect[v] = {}]_vars
============================================================================
