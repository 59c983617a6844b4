--------------------------- MODULE AnchorContract ---------------------------
(***************************************************************************)
(* BrainAuditAnchor (contracts/src/BrainAuditAnchor.sol) for one tenant,   *)
(* and the order in which the chain mines the publisher's transactions.    *)
(*                                                                         *)
(* Hashing is ideal: a Merkle root is the set of the events under it, and  *)
(* a root over no events is refused (EmptyAnchor), so it is no root here.  *)
(* All transactions come from one publisher account, hence are mined in    *)
(* the order of their nonces.                                              *)
(***************************************************************************)
EXTENDS Naturals, Sequences, FiniteSets

CONSTANT Events   \* the audit events of the tenant

VARIABLES
  txs,          \* the publisher's transactions, in nonce order
  mined,        \* how many of them are mined
  publishedBy,  \* the transaction that emitted AnchorPublished for a root, or 0
  latest        \* _latestByTenant: root and periodEnd (in seconds)

chainVars == <<txs, mined, publishedBy, latest>>

Roots == (SUBSET Events) \ {{}}

\* ends[r] is the periodEnd sent with root r; DOMAIN ends are the roots sent.
IsTransaction(tx) ==
  /\ tx.kind \in {"single", "batch"}
  /\ DOMAIN tx.ends \subseteq Roots
  /\ tx.ends \in [DOMAIN tx.ends -> Nat]

ChainTypeOK ==
  /\ \A k \in 1..Len(txs) : IsTransaction(txs[k])
  /\ mined \in 0..Len(txs)
  /\ publishedBy \in [Roots -> 0..mined]
  /\ latest \in [root : Roots \cup {{}}, end : Nat]

ChainInit ==
  /\ txs = <<>>
  /\ mined = 0
  /\ publishedBy = [r \in Roots |-> 0]
  /\ latest = [root |-> {}, end |-> 0]

IsPublished(r) == publishedBy[r] # 0

Submit(kind, ends) ==
  /\ txs' = Append(txs, [kind |-> kind, ends |-> ends])
  /\ UNCHANGED <<mined, publishedBy, latest>>

\* What anchor and anchorBatch publish.  anchor reverts on a root that was
\* published before, anchorBatch skips it.
Fresh(tx) == {r \in DOMAIN tx.ends : ~IsPublished(r)}

\* _recordLatest: an older window never replaces a newer one, one as recent does.
Recent_Always(ends, r) == TRUE
Recent(ends, r) == ends[r] >= latest.end

\* Of several roots of a batch the last of the newest windows stays.
RecordLatest(tx, new) ==
  LET newest == {r \in new : /\ Recent(tx.ends, r)
                             /\ \A s \in new : Recent(tx.ends, s) => tx.ends[s] <= tx.ends[r]}
  IN IF newest = {} THEN UNCHANGED latest
     ELSE \E r \in newest : latest' = [root |-> r, end |-> tx.ends[r]]

Mine ==
  LET k == mined + 1
      new == Fresh(txs[k])
  IN
  /\ mined < Len(txs)
  /\ mined' = k
  /\ publishedBy' = [r \in Roots |-> IF r \in new THEN k ELSE publishedBy[r]]
  /\ RecordLatest(txs[k], new)
  /\ UNCHANGED txs

----------------------------------------------------------------------------
\* latestAnchor never names a window older than one that was published,
\* though retries and catch-up batches publish out of order (_recordLatest).
LatestIsNewest ==
  \A r \in Roots : IsPublished(r) => txs[publishedBy[r]].ends[r] <= latest.end
=============================================================================
