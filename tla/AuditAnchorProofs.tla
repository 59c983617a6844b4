------------------------- MODULE AuditAnchorProofs -------------------------
(***************************************************************************)
(* Proofs about AuditAnchor, for any events, requests, window length and   *)
(* bounds, whenever events commit.                                         *)
(***************************************************************************)
EXTENDS AuditAnchor, WellFoundedInduction, TLAPS

----------------------------------------------------------------------------
(* The largest and the smallest of a set of numbers, and rounding.         *)

\* A set of natural numbers has a least element.
LEMMA SmallestOf ==
  ASSUME NEW S, S \subseteq Nat, S # {}
  PROVE  \E m \in S : \A k \in S : m <= k
<1> DEFINE R == OpToRel(<, Nat)
<1>1. IsWellFoundedOn(R, Nat)
  BY NatLessThanWellFounded
<1>2. \A j \in S, k \in S : k < j => <<k, j>> \in R
  BY DEF OpToRel
<1> HIDE DEF R
<1>3. PICK m \in S : \A k \in S : ~(<<k, m>> \in R)
  BY <1>1, WFMin
<1>4. ASSUME NEW k \in S PROVE m <= k
  <2>1. ~(k < m)
    BY <1>2, <1>3
  <2>2. QED
    BY <2>1
<1>5. QED
  BY <1>4

\* A set of numbers below a bound has a largest element.
LEMMA LargestOf ==
  ASSUME NEW n \in Nat, NEW S, S \subseteq 0..n, S # {}
  PROVE  \E m \in S : \A k \in S : k <= m
<1> DEFINE T == {n - k : k \in S}
<1>1. T \subseteq Nat /\ T # {}
  <2>1. ASSUME NEW k \in S PROVE n - k \in Nat
    OBVIOUS
  <2>2. QED
    BY <2>1
<1>2. PICK t \in T : \A u \in T : t <= u
  BY <1>1, SmallestOf
<1>3. PICK m \in S : t = n - m
  OBVIOUS
<1>4. ASSUME NEW k \in S PROVE k <= m
  <2>1. n - m <= n - k
    BY <1>2, <1>3
  <2>2. QED
    BY <2>1
<1>5. QED
  BY <1>4

\* A time in whole seconds.
LEMMA Seconds ==
  ASSUME NEW t \in Nat
  PROVE  /\ t \div MillisPerSecond \in Nat
         /\ t \div MillisPerSecond <= t
  BY AnchorAssumption, SMTT(30)

----------------------------------------------------------------------------
(* The inductive invariant.                                                *)

HasRow(r) == anchor[r].status # "none"
Leaf(e) == \E r \in Roots : e \in r /\ HasRow(r)

\* No clock reading lies in the future.
Timely ==
  /\ \A e \in Events : stamp[e] <= now
  /\ \A r \in Roots : anchor[r].end <= now

\* A transaction publishes what it names, if no earlier one did.
ChainInv ==
  /\ \A k \in 1..Len(txs) : \A r \in DOMAIN txs[k].ends : txs[k].ends[r] <= now
  /\ \A k \in 1..mined : \A r \in DOMAIN txs[k].ends : IsPublished(r)
  /\ \A r \in Roots : IsPublished(r) => r \in DOMAIN txs[publishedBy[r]].ends

\* What a cycle broadcasts or records has a row, what it records is on the
\* chain, and the transaction it awaits names its batch.
GoodCycle(s) ==
  /\ s.clock <= now /\ s.window.end <= now
  /\ \A r \in s.batch \cup s.results : HasRow(r)
  /\ \A r \in s.results : IsPublished(r)
  /\ s.step = "wait" => s.tx \in 1..Len(txs) /\ s.batch \subseteq DOMAIN txs[s.tx].ends

\* Likewise for a request.
GoodCall(c) ==
  /\ c.window.end <= now
  /\ c.step \in {"send", "wait", "record"} => c.root \in Roots /\ HasRow(c.root)
  /\ c.step = "record" /\ c.tx # 0 => c.tx = publishedBy[c.root]

\* The publisher's transactions are a sequence.
Transactions == [kind : {"single", "batch"}, ends : UNION {[S -> Nat] : S \in SUBSET Roots}]
TxSeq == txs \in Seq(Transactions)

IInv ==
  /\ TypeOK /\ TxSeq /\ Timely /\ ChainInv
  /\ GoodCycle(sched)
  /\ \A p \in Requests : GoodCall(req[p])
  /\ AnchorTxIsWinner /\ LatestIsNewest

\* The events before a window are leaves, those apart that committed late.
GoodWindow(w) == \A e \in stored \ late : stamp[e] < w.start => Leaf(e)

\* What the verifier finds in the window of a row.
Found(r) == {e \in stored : anchor[r].start <= stamp[e] /\ stamp[e] <= anchor[r].end}

\* Of the events that did not commit late, a row holds what its window holds,
\* and none is missing behind its end.
WholeRow(r) ==
  /\ r \subseteq Found(r) /\ Found(r) \ r \subseteq late
  /\ \A e \in stored \ late : stamp[e] <= anchor[r].end => Leaf(e)

\* The part of the invariant that is about the events.
LogInv ==
  /\ GoodWindow(sched.window)
  /\ \A p \in Requests : GoodWindow(req[p].window)
  /\ \A r \in Roots : HasRow(r) => WholeRow(r)

----------------------------------------------------------------------------
(* Windows.                                                                *)

\* covered_to is the end of the furthest covering row.
LEMMA CoveredToIsMax ==
  ASSUME TypeOK, Timely
  PROVE  /\ CoveredTo \in Nat
         /\ \A r \in Covering : anchor[r].end <= CoveredTo
         /\ CoveredTo = 0 \/ \E r \in Covering : anchor[r].end = CoveredTo
<1> DEFINE S == {anchor[r].end : r \in Covering}
<1>1. now \in Nat
  BY AnchorAssumption DEF TypeOK, Times
<1>2. \A r \in Roots : anchor[r].end \in 0..now
  BY <1>1 DEF TypeOK, Rows, Timely
<1>3. CASE Covering = {}
  BY <1>3 DEF CoveredTo
<1>4. CASE Covering # {}
  <2>1. S \subseteq 0..now /\ S # {}
    BY <1>2, <1>4 DEF Covering
  <2>2. \E t \in S : \A u \in S : u <= t
    BY <1>1, <2>1, LargestOf
  <2>3. \E t \in S : \A r \in Covering : anchor[r].end <= t
    BY <2>2
  <2>4. /\ CoveredTo \in S
        /\ \A r \in Covering : anchor[r].end <= CoveredTo
    BY <1>4, <2>3 DEF CoveredTo
  <2>5. QED
    BY <2>1, <2>4
<1>5. QED
  BY <1>3, <1>4

\* The oldest of the events behind covered_to.
LEMMA OldestIsMin ==
  ASSUME TypeOK, Timely, Waiting # {}
  PROVE  /\ OldestWaiting \in Nat
         /\ \A e \in Waiting : OldestWaiting <= stamp[e]
<1> DEFINE S == {stamp[e] : e \in Waiting}
<1>1. S \subseteq Nat /\ S # {}
  BY DEF Waiting, TypeOK, Times
<1>2. \E t \in S : \A u \in S : t <= u
  BY <1>1, SmallestOf
<1>3. \E t \in S : \A e \in Waiting : t <= stamp[e]
  BY <1>2
<1>4. OldestWaiting \in S /\ \A e \in Waiting : OldestWaiting <= stamp[e]
  BY <1>3 DEF OldestWaiting
<1>5. QED
  BY <1>1, <1>4

\* A new window ends at the clock that was read, or before, and every event
\* before its start is behind covered_to.
LEMMA WindowFacts ==
  ASSUME TypeOK, Timely, Waiting # {}, NEW c \in Nat
  PROVE  /\ NextWindow(c) \in Windows
         /\ NextWindow(c).end <= c
         /\ \A e \in stored : stamp[e] < NextWindow(c).start => stamp[e] <= CoveredTo
<1> DEFINE start == IF OldestWaiting > CoveredTo + 1 THEN OldestWaiting ELSE CoveredTo + 1
           w == NextWindow(c)
<1>1. CoveredTo \in Nat /\ OldestWaiting \in Nat /\ MaxWindow \in Nat
  BY CoveredToIsMax, OldestIsMin, AnchorAssumption
<1>2. start \in Nat
  BY <1>1
<1>3. w = [start |-> start, end |-> IF c > start + MaxWindow THEN start + MaxWindow ELSE c]
  BY DEF NextWindow
<1>4. w \in Windows /\ w.end <= c /\ w.start = start
  BY <1>1, <1>2, <1>3 DEF Windows
<1>5. ASSUME NEW e \in stored, stamp[e] < start PROVE stamp[e] <= CoveredTo
  <2>1. stamp[e] \in Nat
    BY DEF TypeOK, Times
  <2>2. CASE e \in Waiting
    <3>1. OldestWaiting <= stamp[e]
      BY <2>2, OldestIsMin
    <3>2. stamp[e] < CoveredTo + 1
      BY <3>1, <1>1, <2>1, <1>5
    <3>3. QED
      BY <3>2, <2>1, <1>1
  <2>3. CASE e \notin Waiting
    BY <2>1, <2>3, <1>1 DEF Waiting
  <2>4. QED
    BY <2>2, <2>3
<1>6. QED
  BY <1>4, <1>5

----------------------------------------------------------------------------
(* What the actions have in common.                                        *)

\* Rows, publications, transactions and time are never taken back.
Grows ==
  /\ now <= now'
  /\ \A r \in Roots : HasRow(r) => HasRow(r)'
  /\ \A r \in Roots : IsPublished(r) => publishedBy'[r] = publishedBy[r]
  /\ Len(txs) <= Len(txs')
  /\ \A k \in 1..Len(txs) : txs'[k] = txs[k]

\* So a process that does nothing stays good.
LEMMA GoodPersists ==
  ASSUME IInv, Grows, now' \in Nat, TxSeq'
  PROVE  /\ \A s \in Cycles : GoodCycle(s) => GoodCycle(s)'
         /\ \A c \in Calls : GoodCall(c) => GoodCall(c)'
<1>1. /\ now \in Nat /\ Len(txs) \in Nat /\ Len(txs') \in Nat
      /\ now <= now' /\ Len(txs) <= Len(txs')
  BY AnchorAssumption DEF IInv, TypeOK, Times, TxSeq, Grows
<1>2. ASSUME NEW s \in Cycles, GoodCycle(s) PROVE GoodCycle(s)'
  <2>1. s.clock \in Nat /\ s.window.end \in Nat /\ s.batch \subseteq Roots /\ s.results \subseteq Roots
    BY AnchorAssumption DEF Cycles, Windows, Times
  <2>2. s.clock <= now' /\ s.window.end <= now'
    BY <1>1, <1>2, <2>1 DEF GoodCycle
  <2>3. \A r \in s.batch \cup s.results : HasRow(r)'
    BY <1>2, <2>1 DEF GoodCycle, Grows
  <2>4. \A r \in s.results : IsPublished(r)'
    BY <1>2, <2>1 DEF GoodCycle, Grows, IsPublished
  <2>5. s.step = "wait" => s.tx \in 1..Len(txs') /\ s.batch \subseteq DOMAIN txs'[s.tx].ends
    BY <1>1, <1>2 DEF GoodCycle, Grows
  <2>6. QED
    BY <2>2, <2>3, <2>4, <2>5 DEF GoodCycle
<1>3. ASSUME NEW c \in Calls, GoodCall(c) PROVE GoodCall(c)'
  <2>1. c.window.end <= now'
    BY <1>1, <1>3 DEF GoodCall, Calls, Windows
  <2>2. c.step \in {"send", "wait", "record"} => c.root \in Roots /\ HasRow(c.root)'
    BY <1>3 DEF GoodCall, Grows
  <2>3. c.step = "record" /\ c.tx # 0 => c.tx = publishedBy'[c.root]
    BY <1>3 DEF GoodCall, Grows, IsPublished
  <2>4. QED
    BY <2>1, <2>2, <2>3 DEF GoodCall
<1>4. QED
  BY <1>2, <1>3

\* A row as createPendingAnchor, setAnchorTxHash or setAnchorReverted leave it.
GoodRow(r, row) ==
  /\ row.status # "none" /\ row.end <= now
  /\ row.status = "confirmed" => row.tx # 0
  /\ row.tx # 0 => row.tx = publishedBy[r]

\* A step that leaves the chain and the events alone.
LEMMA TableStep ==
  ASSUME IInv, UNCHANGED <<chainVars, log>>,
         anchor' \in [Roots -> Rows],
         \A r \in Roots : anchor'[r] = anchor[r] \/ GoodRow(r, anchor'[r]),
         sched' \in Cycles, GoodCycle(sched)',
         req' \in [Requests -> Calls], \A p \in Requests : GoodCall(req[p])',
         faults' \in 0..MaxFaults
  PROVE  IInv'
<1>1. /\ UNCHANGED <<txs, mined, publishedBy, latest>>
      /\ UNCHANGED <<now, stamp, stored, late>>
  BY DEF chainVars, log
<1>2. TypeOK' /\ TxSeq'
  BY <1>1 DEF IInv, TypeOK, ChainTypeOK, TxSeq
<1>3. Timely'
  BY <1>1 DEF IInv, Timely, GoodRow
<1>4. ChainInv' /\ LatestIsNewest'
  BY <1>1 DEF IInv, ChainInv, LatestIsNewest, IsPublished
<1>5. AnchorTxIsWinner'
  BY <1>1 DEF IInv, AnchorTxIsWinner, GoodRow
<1>6. QED
  BY <1>2, <1>3, <1>4, <1>5 DEF IInv

\* Rows once made stay.
LEMMA TableGrows ==
  ASSUME IInv, UNCHANGED <<chainVars, log>>,
         \A r \in Roots : anchor'[r] = anchor[r] \/ GoodRow(r, anchor'[r])
  PROVE  /\ Grows /\ now' \in Nat /\ TxSeq'
         /\ \A r \in Roots : HasRow(r) => HasRow(r)'
<1>1. /\ UNCHANGED <<txs, mined, publishedBy, latest>>
      /\ UNCHANGED <<now, stamp, stored, late>>
  BY DEF chainVars, log
<1>2. TxSeq' /\ now \in Nat /\ Len(txs) \in Nat
  BY <1>1, AnchorAssumption DEF IInv, TxSeq, TypeOK, Times
<1>3. \A r \in Roots : HasRow(r) => HasRow(r)'
  BY DEF HasRow, GoodRow
<1>4. QED
  BY <1>1, <1>2, <1>3 DEF Grows, IsPublished

\* A step of the scheduled publisher, or its end.
LEMMA CycleStep ==
  ASSUME IInv, UNCHANGED <<chainVars, log, anchor, req>>,
         sched' \in Cycles, GoodCycle(sched'), faults' \in 0..MaxFaults
  PROVE  IInv'
<1>1. /\ UNCHANGED <<chainVars, log>>
      /\ UNCHANGED <<anchor, req>>
  OBVIOUS
<1>2. /\ UNCHANGED <<txs, mined, publishedBy, latest>>
      /\ UNCHANGED <<now, stamp, stored, late>>
  BY <1>1 DEF chainVars, log
<1>3. GoodCycle(sched)' /\ \A p \in Requests : GoodCall(req[p])'
  BY <1>1, <1>2 DEF IInv, GoodCycle, GoodCall, HasRow, IsPublished
<1>4. QED
  BY <1>1, <1>3, TableStep DEF IInv, TypeOK

\* A step of a request that writes no row.
LEMMA CallStep ==
  ASSUME IInv, UNCHANGED <<chainVars, log, anchor, sched, faults>>,
         NEW p \in Requests, NEW c \in Calls, GoodCall(c), req' = [req EXCEPT ![p] = c]
  PROVE  IInv'
<1>1. /\ UNCHANGED <<chainVars, log>>
      /\ UNCHANGED <<anchor, sched, faults>>
  OBVIOUS
<1>2. /\ UNCHANGED <<txs, mined, publishedBy, latest>>
      /\ UNCHANGED <<now, stamp, stored, late>>
  BY <1>1 DEF chainVars, log
<1>3. req' \in [Requests -> Calls] /\ \A q \in Requests : GoodCall(req'[q])
  BY DEF IInv, TypeOK
<1>4. GoodCycle(sched)' /\ \A q \in Requests : GoodCall(req[q])'
  BY <1>1, <1>2, <1>3 DEF IInv, GoodCycle, GoodCall, HasRow, IsPublished
<1>5. QED
  BY <1>1, <1>3, <1>4, TableStep DEF IInv, TypeOK

\* A step that submits a transaction.
LEMMA SubmitStep ==
  ASSUME IInv, NEW kind \in {"single", "batch"}, NEW S \in SUBSET Roots,
         NEW ends \in [S -> Nat], \A r \in S : ends[r] <= now,
         Submit(kind, ends), UNCHANGED <<log, anchor, faults>>,
         sched' \in Cycles, GoodCycle(sched)',
         req' \in [Requests -> Calls], \A p \in Requests : GoodCall(req[p])'
  PROVE  IInv'
<1> DEFINE tx == [kind |-> kind, ends |-> ends]
<1>1. /\ txs' = Append(txs, tx)
      /\ UNCHANGED <<mined, publishedBy, latest>>
      /\ UNCHANGED <<now, stamp, stored, late>>
      /\ UNCHANGED <<anchor, faults>>
  BY DEF Submit, log
<1>2. tx \in Transactions
  BY DEF Transactions
<1>3. /\ txs' \in Seq(Transactions) /\ Len(txs') = Len(txs) + 1 /\ Len(txs) \in Nat
      /\ \A k \in 1..Len(txs) : txs'[k] = txs[k]
      /\ txs'[Len(txs) + 1] = tx
  BY <1>1, <1>2 DEF IInv, TxSeq
<1>4. mined \in 0..Len(txs) /\ publishedBy \in [Roots -> 0..mined]
  BY DEF IInv, TypeOK, ChainTypeOK
<1>5. ChainTypeOK'
  <2>1. IsTransaction(tx)
    BY DEF IsTransaction
  <2>2. ASSUME NEW k \in 1..Len(txs') PROVE IsTransaction(txs'[k])
    <3>1. k \in 1..Len(txs) \/ k = Len(txs) + 1
      BY <1>3
    <3>2. QED
      BY <3>1, <2>1, <1>3 DEF IInv, TypeOK, ChainTypeOK
  <2>3. mined' \in 0..Len(txs')
    BY <1>1, <1>3, <1>4
  <2>4. QED
    BY <1>1, <2>2, <2>3 DEF IInv, TypeOK, ChainTypeOK
<1>6. TypeOK' /\ TxSeq'
  BY <1>1, <1>3, <1>5 DEF IInv, TypeOK, TxSeq
<1>7. Timely'
  BY <1>1 DEF IInv, Timely
<1>8. ChainInv'
  <2>1. ASSUME NEW k \in 1..Len(txs'), NEW r \in DOMAIN txs'[k].ends
        PROVE  txs'[k].ends[r] <= now
    <3>1. k \in 1..Len(txs) \/ k = Len(txs) + 1
      BY <1>3
    <3>2. QED
      BY <3>1, <1>3 DEF IInv, ChainInv
  <2>2. ASSUME NEW k \in 1..mined, NEW r \in DOMAIN txs'[k].ends PROVE IsPublished(r)
    <3>1. k \in 1..Len(txs)
      BY <1>4, <1>3
    <3>2. QED
      BY <3>1, <1>3 DEF IInv, ChainInv
  <2>3. ASSUME NEW r \in Roots, IsPublished(r) PROVE r \in DOMAIN txs'[publishedBy[r]].ends
    <3>1. publishedBy[r] \in 1..Len(txs)
      BY <1>3, <1>4, <2>3 DEF IsPublished
    <3>2. QED
      BY <3>1, <2>3, <1>3 DEF IInv, ChainInv
  <2>4. QED
    BY <1>1, <2>1, <2>2, <2>3 DEF ChainInv, IsPublished
<1>9. LatestIsNewest'
  <2>1. ASSUME NEW r \in Roots, IsPublished(r) PROVE txs'[publishedBy[r]].ends[r] <= latest.end
    <3>1. publishedBy[r] \in 1..Len(txs)
      BY <1>3, <1>4, <2>1 DEF IsPublished
    <3>2. QED
      BY <3>1, <2>1, <1>3 DEF IInv, LatestIsNewest
  <2>2. QED
    BY <1>1, <2>1 DEF LatestIsNewest, IsPublished
<1>10. AnchorTxIsWinner'
  BY <1>1 DEF IInv, AnchorTxIsWinner, HasRow
<1>11. QED
  BY <1>6, <1>7, <1>8, <1>9, <1>10 DEF IInv

\* Mining publishes what is fresh and keeps latest at the newest window.
LEMMA MineStep ==
  ASSUME IInv, MineNext
  PROVE  IInv'
<1> DEFINE k == mined + 1
           new == Fresh(txs[k])
           ends == txs[k].ends
<1>1. /\ mined < Len(txs) /\ mined' = k /\ txs' = txs
      /\ publishedBy' = [r \in Roots |-> IF r \in new THEN k ELSE publishedBy[r]]
      /\ RecordLatest(txs[k], new)
      /\ UNCHANGED <<now, stamp, stored, late>>
      /\ UNCHANGED <<anchor, sched, req, faults>>
  BY DEF MineNext, Mine, log
<1>2. /\ Len(txs) \in Nat /\ mined \in 0..Len(txs) /\ k \in 1..Len(txs)
      /\ publishedBy \in [Roots -> 0..mined]
      /\ latest \in [root : Roots \cup {{}}, end : Nat]
  BY <1>1 DEF IInv, TypeOK, ChainTypeOK, TxSeq
<1>3. /\ DOMAIN ends \subseteq Roots /\ ends \in [DOMAIN ends -> Nat]
      /\ new = {r \in DOMAIN ends : publishedBy[r] = 0}
  BY <1>2 DEF IInv, TypeOK, ChainTypeOK, IsTransaction, Fresh, IsPublished
<1>4. \A r \in Roots :
        /\ IsPublished(r) => publishedBy'[r] = publishedBy[r]
        /\ r \in new => publishedBy'[r] = k
        /\ r \notin new => publishedBy'[r] = publishedBy[r]
  BY <1>1, <1>3 DEF IsPublished
<1>5. publishedBy' \in [Roots -> 0..mined']
  BY <1>1, <1>2
<1>6. /\ latest' \in [root : Roots \cup {{}}, end : Nat]
      /\ latest.end <= latest'.end
      /\ \A r \in new : ends[r] <= latest'.end
  <2> DEFINE newest == {r \in new : /\ Recent(ends, r)
                                   /\ \A s \in new : Recent(ends, s) => ends[s] <= ends[r]}
  <2>1. IF newest = {} THEN UNCHANGED latest
        ELSE \E r \in newest : latest' = [root |-> r, end |-> ends[r]]
    BY <1>1 DEF RecordLatest
  <2>2. \A r \in new : ends[r] \in Nat /\ r \in Roots
    BY <1>3
  <2>3. CASE newest = {}
    <3> DEFINE E == {ends[r] : r \in {s \in new : Recent(ends, s)}}
    <3>1. now \in Nat /\ E \subseteq 0..now
      <4>1. now \in Nat
        BY AnchorAssumption DEF IInv, TypeOK, Times
      <4>2. \A r \in new : ends[r] <= now
        BY <1>2, <1>3 DEF IInv, ChainInv
      <4>3. QED
        BY <4>1, <4>2, <2>2
    <3>2. E = {}
      <4>1. SUFFICES ASSUME E # {} PROVE FALSE
        OBVIOUS
      <4>2. \E t \in E : \A u \in E : u <= t
        BY <3>1, <4>1, LargestOf
      <4>3. PICK r \in new : Recent(ends, r) /\ \A s \in new : Recent(ends, s) => ends[s] <= ends[r]
        BY <4>2
      <4>4. QED
        BY <4>3, <2>3
    <3>3. ASSUME NEW r \in new PROVE ends[r] <= latest.end
      <4>1. ~Recent(ends, r)
        BY <3>2
      <4>2. latest.end \in Nat /\ ends[r] \in Nat
        BY <2>2, <1>2
      <4>3. QED
        BY <4>1, <4>2 DEF Recent
    <3>4. QED
      BY <3>3, <2>1, <2>3, <1>2
  <2>4. CASE newest # {}
    <3>1. PICK r \in newest : latest' = [root |-> r, end |-> ends[r]]
      BY <2>1, <2>4
    <3>2. latest.end <= ends[r]
      BY <3>1, <2>2, <1>2 DEF Recent
    <3>3. \A s \in new : ends[s] <= ends[r]
      BY <3>1, <3>2, <2>2, <1>2 DEF Recent
    <3>4. QED
      BY <3>1, <3>2, <3>3, <2>2
  <2>5. QED
    BY <2>3, <2>4
<1>7. TypeOK' /\ TxSeq'
  <2>1. mined' \in 0..Len(txs')
    BY <1>1, <1>2
  <2>2. QED
    BY <1>1, <1>5, <1>6, <2>1 DEF IInv, TypeOK, ChainTypeOK, TxSeq
<1>8. Timely'
  BY <1>1 DEF IInv, Timely
<1>9. ChainInv'
  <2>1. ASSUME NEW j \in 1..mined', NEW r \in DOMAIN txs[j].ends PROVE IsPublished(r)'
    <3>1. CASE j = k
      <4>1. r \in Roots /\ r \in DOMAIN ends /\ k # 0
        BY <3>1, <2>1, <1>2, <1>3
      <4>2. CASE r \in new
        BY <4>1, <4>2, <1>4 DEF IsPublished
      <4>3. CASE r \notin new
        BY <4>1, <4>3, <1>3, <1>4 DEF IsPublished
      <4>4. QED
        BY <4>2, <4>3
    <3>2. CASE j # k
      <4>1. j \in 1..mined /\ j \in 1..Len(txs)
        BY <3>2, <2>1, <1>1, <1>2
      <4>2. IsPublished(r) /\ r \in Roots
        BY <4>1, <2>1 DEF IInv, ChainInv, TypeOK, ChainTypeOK, IsTransaction
      <4>3. QED
        BY <4>2, <1>4 DEF IsPublished
    <3>3. QED
      BY <3>1, <3>2
  <2>2. ASSUME NEW r \in Roots, IsPublished(r)' PROVE r \in DOMAIN txs[publishedBy'[r]].ends
    BY <2>2, <1>3, <1>4 DEF IInv, ChainInv, IsPublished
  <2>3. QED
    BY <2>1, <2>2, <1>1 DEF IInv, ChainInv
<1>10. LatestIsNewest'
  <2>1. ASSUME NEW r \in Roots, IsPublished(r)' PROVE txs[publishedBy'[r]].ends[r] <= latest'.end
    <3>1. CASE r \in new
      BY <3>1, <1>4, <1>6
    <3>2. CASE r \notin new
      <4>1. IsPublished(r) /\ publishedBy'[r] = publishedBy[r]
        BY <2>1, <3>2, <1>4 DEF IsPublished
      <4>2. txs[publishedBy[r]].ends[r] <= latest.end
        BY <4>1 DEF IInv, LatestIsNewest
      <4>3. txs[publishedBy[r]].ends[r] \in Nat
        <5>1. publishedBy[r] \in 1..Len(txs)
          BY <4>1, <1>2 DEF IsPublished
        <5>2. IsTransaction(txs[publishedBy[r]]) /\ r \in DOMAIN txs[publishedBy[r]].ends
          BY <5>1, <4>1 DEF IInv, ChainInv, TypeOK, ChainTypeOK
        <5>3. QED
          BY <5>2 DEF IsTransaction
      <4>4. QED
        BY <4>1, <4>2, <4>3, <1>2, <1>6
    <3>3. QED
      BY <3>1, <3>2
  <2>2. QED
    BY <2>1, <1>1 DEF LatestIsNewest
<1>11. AnchorTxIsWinner'
  BY <1>1, <1>4 DEF IInv, AnchorTxIsWinner, HasRow, IsPublished
<1>12. Grows /\ now' \in Nat
  BY <1>1, <1>2, <1>4, AnchorAssumption DEF Grows, HasRow, IInv, TypeOK, Times
<1>13. GoodCycle(sched)' /\ \A p \in Requests : GoodCall(req[p])'
  <2>1. /\ \A s \in Cycles : GoodCycle(s) => GoodCycle(s)'
        /\ \A c \in Calls : GoodCall(c) => GoodCall(c)'
    BY <1>7, <1>12, GoodPersists
  <2>2. GoodCycle(sched) /\ sched \in Cycles /\ \A p \in Requests : GoodCall(req[p]) /\ req[p] \in Calls
    BY DEF IInv, TypeOK
  <2>3. GoodCycle(sched)'
    BY <2>1, <2>2, <1>1 DEF GoodCycle
  <2>4. \A p \in Requests : GoodCall(req[p])'
    BY <2>1, <2>2, <1>1 DEF GoodCall
  <2>5. QED
    BY <2>3, <2>4
<1>14. QED
  BY <1>7, <1>8, <1>9, <1>10, <1>11, <1>13 DEF IInv

\* A step of the emitter, or of the clock.
LEMMA LogStep ==
  ASSUME IInv, UNCHANGED <<chainVars, anchor, sched, req, faults>>,
         now' \in Times, now <= now', stamp' \in [Events -> Times],
         \A e \in Events : stamp'[e] <= now', stored' \subseteq {e \in Events : stamp'[e] # 0},
         late' \subseteq stored'
  PROVE  IInv'
<1>1. /\ UNCHANGED <<txs, mined, publishedBy, latest>>
      /\ UNCHANGED <<anchor, sched, req, faults>>
  BY DEF chainVars
<1>2. now \in Nat /\ now' \in Nat
  BY AnchorAssumption DEF IInv, TypeOK, Times
<1>3. TypeOK' /\ TxSeq'
  BY <1>1 DEF IInv, TypeOK, ChainTypeOK, TxSeq
<1>4. Timely'
  BY <1>1, <1>2 DEF IInv, Timely, TypeOK, Rows
<1>5. ChainInv'
  <2>1. ASSUME NEW k \in 1..Len(txs), NEW r \in DOMAIN txs[k].ends PROVE txs[k].ends[r] <= now'
    <3>1. txs[k].ends[r] \in Nat /\ txs[k].ends[r] <= now
      BY DEF IInv, ChainInv, TypeOK, ChainTypeOK, IsTransaction
    <3>2. QED
      BY <3>1, <1>2
  <2>2. QED
    BY <2>1, <1>1 DEF IInv, ChainInv, IsPublished
<1>6. AnchorTxIsWinner' /\ LatestIsNewest'
  BY <1>1 DEF IInv, AnchorTxIsWinner, LatestIsNewest, IsPublished, HasRow
<1>7. Grows
  BY <1>1 DEF Grows, HasRow, IInv, TxSeq
<1>8. GoodCycle(sched)' /\ \A p \in Requests : GoodCall(req[p])'
  <2>1. /\ \A s \in Cycles : GoodCycle(s) => GoodCycle(s)'
        /\ \A c \in Calls : GoodCall(c) => GoodCall(c)'
    BY <1>2, <1>3, <1>7, GoodPersists
  <2>2. GoodCycle(sched) /\ sched \in Cycles /\ \A p \in Requests : GoodCall(req[p]) /\ req[p] \in Calls
    BY DEF IInv, TypeOK
  <2>3. GoodCycle(sched)'
    BY <2>1, <2>2, <1>1 DEF GoodCycle
  <2>4. \A p \in Requests : GoodCall(req[p])'
    BY <2>1, <2>2, <1>1 DEF GoodCall
  <2>5. QED
    BY <2>3, <2>4
<1>9. QED
  BY <1>3, <1>4, <1>5, <1>6, <1>8 DEF IInv

----------------------------------------------------------------------------
(* The actions.                                                            *)

\* The emitter and the clock.
LEMMA EmitPreserves ==
  ASSUME IInv, Emit \/ TimePasses
  PROVE  IInv'
<1>1. now \in Nat /\ MaxTime \in Nat /\ \A e \in Events : stamp[e] \in Nat /\ stamp[e] <= now
  BY AnchorAssumption DEF IInv, TypeOK, Times, Timely
<1>2. ASSUME NEW e \in Events, Stamp(e) PROVE IInv'
  <2>1. PICK t \in 1..now : stamp' = [stamp EXCEPT ![e] = t]
    BY <1>2 DEF Stamp
  <2>2. now' = now /\ now \in Times /\ t \in Times /\ t <= now /\ t # 0
    BY <1>1, <1>2, <2>1 DEF Stamp, Times, IInv, TypeOK
  <2>3. stamp' \in [Events -> Times] /\ \A f \in Events : stamp'[f] <= now'
    BY <2>1, <2>2, <1>1 DEF IInv, TypeOK
  <2>4. stored' \subseteq {f \in Events : stamp'[f] # 0} /\ late' \subseteq stored'
    BY <1>2, <2>1, <2>2 DEF Stamp, IInv, TypeOK
  <2>5. QED
    BY <1>1, <1>2, <2>2, <2>3, <2>4, LogStep DEF Stamp
<1>3. ASSUME NEW e \in Events, Commit(e) PROVE IInv'
  <2>1. stored' \subseteq {f \in Events : stamp'[f] # 0} /\ late' \subseteq stored'
    BY <1>3 DEF Commit, Emitting, IInv, TypeOK
  <2>2. QED
    BY <1>1, <1>3, <2>1, LogStep DEF Commit, IInv, TypeOK
<1>4. ASSUME NEW e \in Events, Rollback(e) PROVE IInv'
  <2>1. stored' \subseteq {f \in Events : stamp'[f] # 0}
    BY <1>4 DEF Rollback, Emitting, IInv, TypeOK
  <2>2. stamp' \in [Events -> Times] /\ \A f \in Events : stamp'[f] <= now'
    BY <1>1, <1>4, AnchorAssumption DEF Rollback, IInv, TypeOK, Times
  <2>3. QED
    BY <1>1, <1>4, <2>1, <2>2, LogStep DEF Rollback, IInv, TypeOK
<1>5. ASSUME TimePasses PROVE IInv'
  <2>1. now' \in Times /\ now <= now'
    BY <1>1, <1>5 DEF TimePasses, Times
  <2>2. \A f \in Events : stamp[f] <= now'
    BY <1>1, <1>5 DEF TimePasses
  <2>3. QED
    BY <1>5, <2>1, <2>2, LogStep DEF TimePasses, IInv, TypeOK
<1>6. QED
  BY <1>2, <1>3, <1>4, <1>5 DEF Emit

\* setAnchorTxHash with the transaction that published the root.
LEMMA ConfirmedRow ==
  ASSUME IInv, NEW r \in Roots, HasRow(r), IsPublished(r), SetAnchorTxHash(r, publishedBy[r])
  PROVE  /\ anchor' \in [Roots -> Rows]
         /\ \A q \in Roots : anchor'[q] = anchor[q] \/ GoodRow(q, anchor'[q])
<1> DEFINE row == [anchor[r] EXCEPT !.status = "confirmed", !.tx = publishedBy[r]]
<1>1. anchor' = [anchor EXCEPT ![r] = row]
  BY DEF SetAnchorTxHash, IInv, TypeOK
<1>2. publishedBy[r] \in Nat
  BY DEF IInv, TypeOK, ChainTypeOK
<1>3. row \in Rows /\ GoodRow(r, row)
  BY <1>2 DEF IInv, TypeOK, Rows, GoodRow, IsPublished, Timely
<1>4. QED
  BY <1>1, <1>3 DEF IInv, TypeOK

\* setAnchorReverted leaves the transaction of the row as it is.
LEMMA RevertedRow ==
  ASSUME IInv, NEW r \in Roots, HasRow(r), SetAnchorReverted(r)
  PROVE  /\ anchor' \in [Roots -> Rows]
         /\ \A q \in Roots : anchor'[q] = anchor[q] \/ GoodRow(q, anchor'[q])
<1> DEFINE row == [anchor[r] EXCEPT !.status = "reverted"]
<1>1. anchor' = [anchor EXCEPT ![r] = row]
  BY DEF SetAnchorReverted, IInv, TypeOK
<1>2. row \in Rows /\ GoodRow(r, row)
  BY DEF IInv, TypeOK, Rows, GoodRow, AnchorTxIsWinner, Timely
<1>3. QED
  BY <1>1, <1>2 DEF IInv, TypeOK

\* createPendingAnchor: afterwards the root has a row.
LEMMA CreatedRow ==
  ASSUME IInv, NEW w \in Windows, w.end <= now, ListEvents(w) # {},
         CreatePendingAnchor(ListEvents(w), w)
  PROVE  /\ ListEvents(w) \in Roots
         /\ anchor' \in [Roots -> Rows]
         /\ \A q \in Roots : anchor'[q] = anchor[q] \/ GoodRow(q, anchor'[q])
         /\ anchor'[ListEvents(w)].status # "none"
<1> DEFINE root == ListEvents(w)
           row == [status |-> "pending", tx |-> 0, start |-> w.start, end |-> w.end]
<1>1. root \in Roots
  <2>1. stored \subseteq Events
    BY DEF IInv, TypeOK
  <2>2. QED
    BY <2>1 DEF ListEvents, Roots
<1>2. anchor' = IF anchor[root].status # "none" THEN anchor ELSE [anchor EXCEPT ![root] = row]
  BY DEF CreatePendingAnchor
<1>3. row \in Rows /\ GoodRow(root, row)
  BY DEF Windows, Rows, GoodRow
<1> HIDE DEF root, row
<1>4. /\ anchor' \in [Roots -> Rows]
      /\ \A q \in Roots : anchor'[q] = anchor[q] \/ GoodRow(q, anchor'[q])
  BY <1>1, <1>2, <1>3 DEF IInv, TypeOK
<1>5. anchor'[root].status # "none"
  BY <1>1, <1>2, <1>3 DEF IInv, TypeOK, GoodRow
<1>6. QED
  BY <1>1, <1>4, <1>5 DEF root

\* The cycle that has nothing left to do.
LEMMA IdleIsGood ==
  ASSUME IInv
  PROVE  Idle \in Cycles /\ GoodCycle(Idle)
<1>1. now \in Nat /\ MaxTime \in Nat
  BY AnchorAssumption DEF IInv, TypeOK, Times
<1>2. Idle \in Cycles
  BY <1>1 DEF Idle, Cycles, Times, Windows, NoWindow
<1>3. GoodCycle(Idle)
  BY <1>1 DEF Idle, GoodCycle, NoWindow
<1>4. QED
  BY <1>2, <1>3

\* What follows the broadcast of a batch: the next phase or the end.
LEMMA AfterIsGood ==
  ASSUME IInv
  PROVE  AfterBroadcast \in Cycles /\ GoodCycle(AfterBroadcast)
<1>1. CASE sched.fresh
  BY <1>1, IdleIsGood DEF AfterBroadcast
<1>2. CASE ~sched.fresh
  <2> DEFINE s == [Idle EXCEPT !.step = "enumerate", !.clock = sched.clock]
  <2>1. now \in Nat /\ sched.clock \in Times /\ sched.clock <= now
    BY AnchorAssumption DEF IInv, TypeOK, Times, Cycles, GoodCycle
  <2>2. s \in Cycles
    BY <2>1 DEF Idle, Cycles, Times, Windows, NoWindow
  <2>3. GoodCycle(s)
    BY <2>1 DEF Idle, GoodCycle, NoWindow
  <2>4. QED
    BY <1>2, <2>2, <2>3 DEF AfterBroadcast
<1>3. QED
  BY <1>1, <1>2

\* The steps of a cycle that write neither the chain nor a row.
LEMMA CycleReads ==
  ASSUME IInv, StartCycle \/ CheckBatch \/ AwaitBatch \/ Enumerate \/ Throw \/ Stop
  PROVE  IInv'
<1>1. /\ sched \in Cycles /\ GoodCycle(sched) /\ faults \in 0..MaxFaults
      /\ now \in Nat /\ now \in Times
  BY AnchorAssumption DEF IInv, TypeOK, Times
<1>2. CASE StartCycle
  <2> DEFINE s == [Idle EXCEPT !.step = IF RetryRows = {} THEN "enumerate" ELSE "check",
                              !.clock = now, !.batch = RetryRows]
  <2>1. RetryRows \subseteq Roots /\ \A r \in RetryRows : HasRow(r)
    BY DEF RetryRows, Pending, HasRow
  <2>2. s \in Cycles
    BY <1>1, <2>1 DEF Idle, Cycles, Windows, NoWindow
  <2>3. GoodCycle(s)
    BY <1>1, <2>1 DEF Idle, GoodCycle, NoWindow
  <2>4. QED
    BY <1>1, <1>2, <2>2, <2>3, CycleStep DEF StartCycle
<1>3. CASE CheckBatch
  <2> DEFINE done == {r \in sched.batch : IsPublished(r)}
             s == [sched EXCEPT !.step = IF done = sched.batch THEN "record" ELSE "send",
                                !.batch = @ \ done, !.results = done]
  <2>1. sched' = s
    BY <1>3 DEF CheckBatch
  <2>2. s \in Cycles
    BY <1>1 DEF Cycles
  <2>3. GoodCycle(s)
    BY <1>1 DEF GoodCycle, Cycles
  <2>4. QED
    BY <1>1, <1>3, <2>1, <2>2, <2>3, CycleStep DEF CheckBatch
<1>4. CASE AwaitBatch
  <2> DEFINE s == [sched EXCEPT !.step = "record", !.batch = {}, !.results = @ \cup sched.batch]
  <2>1. sched' = s /\ sched.step = "wait" /\ mined >= sched.tx
    BY <1>4 DEF AwaitBatch
  <2>2. s \in Cycles
    BY <1>1 DEF Cycles
  <2>3. \A r \in sched.batch : IsPublished(r)
    <3>1. sched.tx \in 1..mined
      BY <1>1, <2>1 DEF GoodCycle, IInv, TypeOK, ChainTypeOK, TxSeq
    <3>2. QED
      BY <1>1, <2>1, <3>1 DEF GoodCycle, IInv, ChainInv
  <2>4. GoodCycle(s)
    BY <1>1, <2>3 DEF GoodCycle, Cycles
  <2>5. QED
    BY <1>1, <1>4, <2>1, <2>2, <2>4, CycleStep DEF AwaitBatch
<1>5. CASE Enumerate
  <2>1. CASE Waiting = {}
    BY <1>1, <1>5, <2>1, IdleIsGood, CycleStep DEF Enumerate
  <2>2. CASE Waiting # {}
    <3> DEFINE w == NextWindow(sched.clock)
               s == [sched EXCEPT !.step = "create", !.window = w]
    <3>1. sched.clock \in Nat /\ sched.clock <= now
      BY <1>1 DEF Cycles, Times, GoodCycle
    <3>2. w \in Windows /\ w.end <= sched.clock
      BY <2>2, <3>1, WindowFacts DEF IInv
    <3> HIDE DEF w
    <3>3. w.end <= now
      BY <1>1, <3>1, <3>2 DEF Windows
    <3>4. s \in Cycles
      BY <1>1, <3>2 DEF Cycles
    <3>5. GoodCycle(s)
      BY <1>1, <3>3 DEF GoodCycle, Cycles
    <3>6. sched' = s
      BY <1>5, <2>2 DEF Enumerate, w
    <3>7. QED
      BY <1>1, <1>5, <3>4, <3>5, <3>6, CycleStep DEF Enumerate
  <2>3. QED
    BY <2>1, <2>2
<1>6. CASE Throw
  <2>1. faults' \in 0..MaxFaults
    BY <1>1, <1>6, AnchorAssumption DEF Throw
  <2>2. sched' \in Cycles /\ GoodCycle(sched')
    BY <1>6, IdleIsGood, AfterIsGood DEF Throw
  <2>3. QED
    BY <1>6, <2>1, <2>2, CycleStep DEF Throw
<1>7. CASE Stop
  <2>1. faults' \in 0..MaxFaults
    BY <1>1, <1>7, AnchorAssumption DEF Stop
  <2>2. QED
    BY <1>7, <2>1, IdleIsGood, CycleStep DEF Stop
<1>8. QED
  BY <1>2, <1>3, <1>4, <1>5, <1>6, <1>7

\* What the chain is told of a set of rows.
LEMMA EndsAreTimes ==
  ASSUME IInv, NEW S \in SUBSET Roots
  PROVE  /\ [r \in S |-> EndOf(r)] \in [S -> Nat]
         /\ \A r \in S : [q \in S |-> EndOf(q)][r] <= now
<1>1. \A r \in S : anchor[r].end \in Nat /\ anchor[r].end <= now /\ now \in Nat
  BY AnchorAssumption DEF IInv, TypeOK, Rows, Times, Timely
<1>2. ASSUME NEW r \in S PROVE EndOf(r) \in Nat /\ EndOf(r) <= now
  <2>1. /\ anchor[r].end \div MillisPerSecond \in Nat
        /\ anchor[r].end \div MillisPerSecond <= anchor[r].end
    BY <1>1, Seconds
  <2>2. QED
    BY <1>1, <2>1 DEF EndOf
<1>3. QED
  BY <1>2

\* The steps of a cycle that write.
LEMMA CycleWrites ==
  ASSUME IInv, SendBatch \/ (\E r \in Roots : RecordOne(r)) \/ CreateRow
  PROVE  IInv'
<1>1. /\ sched \in Cycles /\ GoodCycle(sched) /\ faults \in 0..MaxFaults
      /\ now \in Nat /\ req \in [Requests -> Calls] /\ \A p \in Requests : GoodCall(req[p])
  BY AnchorAssumption DEF IInv, TypeOK, Times
<1>2. CASE SendBatch
  <2> DEFINE S == sched.batch
             ends == [r \in S |-> EndOf(r)]
             s == [sched EXCEPT !.step = "wait", !.tx = Len(txs) + 1]
  <2>1. /\ S \in SUBSET Roots /\ ends \in [S -> Nat] /\ \A r \in S : ends[r] <= now
    BY <1>1, EndsAreTimes DEF Cycles
  <2>2. /\ Submit("batch", ends) /\ sched' = s
        /\ UNCHANGED <<log, anchor, faults>> /\ req' = req
    BY <1>2 DEF SendBatch
  <2>3. Len(txs) \in Nat /\ TxSeq' /\ Grows /\ now' \in Nat
        /\ Len(txs') = Len(txs) + 1 /\ txs'[Len(txs) + 1].ends = ends
    <3>1. txs \in Seq(Transactions) /\ [kind |-> "batch", ends |-> ends] \in Transactions
      BY <2>1 DEF IInv, TxSeq, Transactions
    <3>2. /\ txs' = Append(txs, [kind |-> "batch", ends |-> ends])
          /\ UNCHANGED <<now, publishedBy, anchor>>
      BY <2>2 DEF Submit, log
    <3>3. /\ txs' \in Seq(Transactions) /\ Len(txs') = Len(txs) + 1 /\ Len(txs) \in Nat
          /\ \A k \in 1..Len(txs) : txs'[k] = txs[k]
          /\ txs'[Len(txs) + 1] = [kind |-> "batch", ends |-> ends]
      BY <3>1, <3>2
    <3>4. QED
      BY <1>1, <3>2, <3>3 DEF TxSeq, Grows, HasRow
  <2>4. s \in Cycles
    <3>1. Len(txs) + 1 \in Nat
      BY <2>3
    <3>2. QED
      BY <1>1, <3>1 DEF Cycles
  <2>5. GoodCycle(sched)'
    BY <1>1, <2>1, <2>2, <2>3 DEF GoodCycle, Cycles, Submit, log, HasRow, IsPublished
  <2>6. \A p \in Requests : GoodCall(req[p])'
    BY <1>1, <2>2, <2>3, GoodPersists DEF GoodCall
  <2>7. QED
    BY <2>1, <2>2, <2>4, <2>5, <2>6, <1>1, SubmitStep
<1>3. ASSUME NEW r \in Roots, RecordOne(r) PROVE IInv'
  <2>1. /\ r \in sched.results /\ SetAnchorTxHash(r, publishedBy[r])
        /\ UNCHANGED <<chainVars, log>> /\ UNCHANGED <<req, faults>>
        /\ sched' = IF sched.results = {r} THEN AfterBroadcast ELSE [sched EXCEPT !.results = @ \ {r}]
    BY <1>3 DEF RecordOne, Winner
  <2>2. HasRow(r) /\ IsPublished(r)
    BY <1>1, <2>1 DEF GoodCycle
  <2>3. /\ anchor' \in [Roots -> Rows]
        /\ \A q \in Roots : anchor'[q] = anchor[q] \/ GoodRow(q, anchor'[q])
    BY <2>1, <2>2, ConfirmedRow
  <2>4. /\ \A s \in Cycles : GoodCycle(s) => GoodCycle(s)'
        /\ \A c \in Calls : GoodCall(c) => GoodCall(c)'
        /\ \A q \in Roots : HasRow(q) => HasRow(q)'
    BY <2>1, <2>3, TableGrows, GoodPersists
  <2>5. sched' \in Cycles /\ GoodCycle(sched')
    <3>1. [sched EXCEPT !.results = @ \ {r}] \in Cycles
      BY <1>1 DEF Cycles
    <3>2. GoodCycle([sched EXCEPT !.results = @ \ {r}])
      BY <1>1 DEF GoodCycle, Cycles
    <3>3. QED
      BY <2>1, <3>1, <3>2, AfterIsGood
  <2>6. GoodCycle(sched)' /\ \A p \in Requests : GoodCall(req[p])'
    BY <1>1, <2>1, <2>4, <2>5 DEF GoodCycle, GoodCall
  <2>7. QED
    BY <1>1, <2>1, <2>3, <2>4, <2>5, <2>6, TableStep
<1>4. CASE CreateRow
  <2> DEFINE w == sched.window
             root == ListEvents(w)
             s == [Idle EXCEPT !.step = "check", !.batch = {root}, !.fresh = TRUE]
  <2>1. /\ UNCHANGED <<chainVars, log>> /\ UNCHANGED <<req, faults>>
        /\ IF root = {} THEN UNCHANGED anchor ELSE CreatePendingAnchor(root, w)
        /\ sched' = s \/ sched' = Idle
        /\ sched' = s => root # {}
    BY <1>4 DEF CreateRow, Idle
  <2>2. w \in Windows /\ w.end <= now
    BY <1>1 DEF Cycles, GoodCycle
  <2>3. /\ anchor' \in [Roots -> Rows]
        /\ \A q \in Roots : anchor'[q] = anchor[q] \/ GoodRow(q, anchor'[q])
        /\ root # {} => root \in Roots /\ anchor'[root].status # "none"
    BY <2>1, <2>2, CreatedRow DEF IInv, TypeOK
  <2>4. /\ \A t \in Cycles : GoodCycle(t) => GoodCycle(t)'
        /\ \A c \in Calls : GoodCall(c) => GoodCall(c)'
        /\ \A q \in Roots : HasRow(q) => HasRow(q)'
    BY <2>1, <2>3, TableGrows, GoodPersists
  <2> HIDE DEF w, root
  <2>5. CASE sched' = Idle
    <3>1. sched' \in Cycles /\ GoodCycle(sched)'
      BY <2>5, <2>4, IdleIsGood DEF GoodCycle, Idle, NoWindow
    <3>2. \A p \in Requests : GoodCall(req[p])'
      BY <1>1, <2>1, <2>4 DEF GoodCall
    <3>3. QED
      BY <1>1, <2>1, <2>3, <2>4, <3>1, <3>2, TableStep
  <2>6. CASE sched' = s
    <3>1. s \in Cycles
      <4>1. root \in Roots
        BY <2>1, <2>3, <2>6
      <4>2. 0 \in Times
        BY AnchorAssumption DEF Times
      <4>3. QED
        BY <4>1, <4>2 DEF Idle, Cycles, Windows, NoWindow
    <3>2. GoodCycle(sched)'
      BY <1>1, <2>1, <2>3, <2>6 DEF GoodCycle, Idle, NoWindow, HasRow, log
    <3>3. \A p \in Requests : GoodCall(req[p])'
      BY <1>1, <2>1, <2>4 DEF GoodCall
    <3>4. QED
      BY <1>1, <2>1, <2>3, <2>4, <2>6, <3>1, <3>2, <3>3, TableStep
  <2>7. QED
    BY <2>1, <2>5, <2>6
<1>5. QED
  BY <1>2, <1>3, <1>4

\* A request that is over.
LEMMA DoneIsGood ==
  ASSUME IInv
  PROVE  Done \in Calls /\ GoodCall(Done)
<1>1. now \in Nat
  BY AnchorAssumption DEF IInv, TypeOK, Times
<1>2. QED
  BY <1>1 DEF Done, NoCall, NoWindow, Calls, Windows, GoodCall

\* The steps of a request that write neither the chain nor a row.
LEMMA RequestReads ==
  ASSUME IInv, NEW p \in Requests,
         \/ StartRequest(p) \/ RequestSkips(p) \/ RequestAwaits(p) \/ RequestFails(p)
  PROVE  IInv'
<1>1. /\ req[p] \in Calls /\ GoodCall(req[p]) /\ req \in [Requests -> Calls]
      /\ now \in Nat /\ \A r \in Roots : publishedBy[r] \in Nat
  BY AnchorAssumption DEF IInv, TypeOK, ChainTypeOK, Times
<1>2. CASE StartRequest(p)
  <2> DEFINE w == NextWindow(now)
             c == [req[p] EXCEPT !.step = "create", !.window = w]
  <2>1. w \in Windows /\ w.end <= now
    BY <1>1, <1>2, WindowFacts DEF IInv, StartRequest
  <2>2. req' = [req EXCEPT ![p] = c]
    BY <1>1, <1>2 DEF StartRequest
  <2> HIDE DEF w
  <2>3. c \in Calls
    BY <1>1, <2>1 DEF Calls
  <2>4. GoodCall(c)
    BY <1>1, <2>1 DEF Calls, GoodCall
  <2>5. QED
    BY <1>2, <2>2, <2>3, <2>4, CallStep DEF StartRequest
<1>3. CASE RequestSkips(p)
  <2> DEFINE c == [req[p] EXCEPT !.step = "record", !.tx = publishedBy[req[p].root]]
  <2>1. req[p].root \in Roots /\ HasRow(req[p].root)
    BY <1>1, <1>3 DEF GoodCall, RequestSkips
  <2>2. req' = [req EXCEPT ![p] = c]
    BY <1>1, <1>3 DEF RequestSkips
  <2>3. c \in Calls
    BY <1>1, <2>1 DEF Calls
  <2>4. GoodCall(c)
    BY <1>1, <2>1 DEF Calls, GoodCall
  <2>5. QED
    BY <1>3, <2>2, <2>3, <2>4, CallStep DEF RequestSkips
<1>4. CASE RequestAwaits(p)
  <2> DEFINE c == [req[p] EXCEPT !.step = "record",
                    !.tx = IF publishedBy[req[p].root] = req[p].tx THEN req[p].tx ELSE 0]
  <2>1. req[p].root \in Roots /\ HasRow(req[p].root)
    BY <1>1, <1>4 DEF GoodCall, RequestAwaits
  <2>2. req' = [req EXCEPT ![p] = c]
    BY <1>1, <1>4 DEF RequestAwaits
  <2>3. c \in Calls /\ GoodCall(c)
    BY <1>1, <2>1 DEF Calls, GoodCall
  <2>4. QED
    BY <1>4, <2>2, <2>3, CallStep DEF RequestAwaits
<1>5. CASE RequestFails(p)
  BY <1>5, DoneIsGood, CallStep DEF RequestFails
<1>6. QED
  BY <1>2, <1>3, <1>4, <1>5

\* A row is written, and one request moves on.
LEMMA CallWrites ==
  ASSUME IInv, NEW p \in Requests, NEW c \in Calls, req' = [req EXCEPT ![p] = c],
         UNCHANGED <<chainVars, log>>, UNCHANGED <<sched, faults>>,
         anchor' \in [Roots -> Rows],
         \A q \in Roots : anchor'[q] = anchor[q] \/ GoodRow(q, anchor'[q]),
         (\A r \in Roots : HasRow(r) => HasRow(r)') => GoodCall(c)'
  PROVE  IInv'
<1>1. /\ sched \in Cycles /\ GoodCycle(sched) /\ faults \in 0..MaxFaults
      /\ req \in [Requests -> Calls] /\ \A q \in Requests : GoodCall(req[q])
  BY DEF IInv, TypeOK
<1>2. /\ \A s \in Cycles : GoodCycle(s) => GoodCycle(s)'
      /\ \A d \in Calls : GoodCall(d) => GoodCall(d)'
      /\ \A q \in Roots : HasRow(q) => HasRow(q)'
  BY TableGrows, GoodPersists
<1>3. GoodCycle(sched)'
  BY <1>1, <1>2 DEF GoodCycle
<1>4. \A q \in Requests : req'[q] = req[q] \/ (q = p /\ req'[q] = c)
  BY <1>1
<1>5. \A q \in Requests : GoodCall(req[q])'
  BY <1>1, <1>2, <1>4 DEF GoodCall
<1>6. QED
  BY <1>1, <1>2, <1>3, <1>5, TableStep

\* The steps of a request that write.
LEMMA RequestWrites ==
  ASSUME IInv, NEW p \in Requests, RequestRow(p) \/ RequestSends(p) \/ RequestRecords(p)
  PROVE  IInv'
<1>1. /\ req[p] \in Calls /\ GoodCall(req[p]) /\ req \in [Requests -> Calls]
      /\ \A q \in Requests : GoodCall(req[q])
      /\ now \in Nat /\ sched \in Cycles /\ GoodCycle(sched)
  BY AnchorAssumption DEF IInv, TypeOK, ChainTypeOK, Times
<1>2. CASE RequestRow(p)
  <2> DEFINE w == req[p].window
             root == ListEvents(w)
             c == [NoCall EXCEPT !.step = "send", !.root = root]
  <2>1. /\ UNCHANGED <<chainVars, log>> /\ UNCHANGED <<sched, faults>>
        /\ IF root = {} THEN UNCHANGED anchor ELSE CreatePendingAnchor(root, w)
        /\ \/ root # {} /\ req' = [req EXCEPT ![p] = c]
           \/ req' = [req EXCEPT ![p] = Done]
    BY <1>2 DEF RequestRow
  <2>2. w \in Windows /\ w.end <= now
    BY <1>1 DEF Calls, GoodCall
  <2>3. /\ anchor' \in [Roots -> Rows]
        /\ \A q \in Roots : anchor'[q] = anchor[q] \/ GoodRow(q, anchor'[q])
        /\ root # {} => root \in Roots /\ anchor'[root].status # "none"
    BY <2>1, <2>2, CreatedRow DEF IInv, TypeOK
  <2>4. now' = now
    BY <2>1 DEF log
  <2> HIDE DEF w, root
  <2>5. CASE root # {} /\ req' = [req EXCEPT ![p] = c]
    <3>1. c \in Calls
      BY <2>3, <2>5 DEF Calls, NoCall, NoWindow, Windows
    <3>2. ASSUME NEW d, d = c PROVE GoodCall(d)'
      BY <1>1, <2>3, <2>4, <2>5, <3>2 DEF GoodCall, NoCall, NoWindow, HasRow
    <3>3. PICK d \in Calls : d = c
      BY <3>1
    <3>4. QED
      BY <2>1, <2>3, <2>5, <3>2, <3>3, CallWrites
  <2>6. CASE req' = [req EXCEPT ![p] = Done]
    <3>1. Done \in Calls /\ GoodCall(Done)'
      BY <1>1, <2>4, DoneIsGood DEF GoodCall, Done, NoCall, NoWindow
    <3>2. QED
      BY <2>1, <2>3, <2>6, <3>1, CallWrites
  <2>7. QED
    BY <2>1, <2>5, <2>6
<1>3. CASE RequestSends(p)
  <2> DEFINE S == {req[p].root}
             ends == [r \in S |-> EndOf(r)]
             c == [req[p] EXCEPT !.step = "wait", !.tx = Len(txs) + 1]
  <2>1. req[p].root \in Roots /\ HasRow(req[p].root)
    BY <1>1, <1>3 DEF GoodCall, RequestSends
  <2>2. /\ S \in SUBSET Roots /\ ends \in [S -> Nat] /\ \A r \in S : ends[r] <= now
    BY <2>1, EndsAreTimes
  <2>3. /\ Submit("single", ends) /\ UNCHANGED <<log, anchor, faults>> /\ sched' = sched
        /\ req' = [req EXCEPT ![p] = c]
    BY <1>1, <1>3 DEF RequestSends
  <2>4. Len(txs) \in Nat /\ TxSeq' /\ Grows /\ now' \in Nat
    <3>1. txs \in Seq(Transactions) /\ [kind |-> "single", ends |-> ends] \in Transactions
      BY <2>2 DEF IInv, TxSeq, Transactions
    <3>2. /\ txs' = Append(txs, [kind |-> "single", ends |-> ends])
          /\ UNCHANGED <<now, publishedBy, anchor>>
      BY <2>3 DEF Submit, log
    <3>3. /\ txs' \in Seq(Transactions) /\ Len(txs') = Len(txs) + 1 /\ Len(txs) \in Nat
          /\ \A k \in 1..Len(txs) : txs'[k] = txs[k]
      BY <3>1, <3>2
    <3>4. QED
      BY <1>1, <3>2, <3>3 DEF TxSeq, Grows, HasRow
  <2>5. c \in Calls /\ GoodCall(c)
    <3>1. Len(txs) + 1 \in Nat
      BY <2>4
    <3>2. QED
      BY <1>1, <2>1, <3>1 DEF Calls, GoodCall
  <2>6. req' \in [Requests -> Calls] /\ \A q \in Requests : req'[q] \in Calls /\ GoodCall(req'[q])
    BY <1>1, <2>3, <2>5
  <2>7. GoodCycle(sched)' /\ \A q \in Requests : GoodCall(req[q])'
    <3>1. /\ \A s \in Cycles : GoodCycle(s) => GoodCycle(s)'
          /\ \A d \in Calls : GoodCall(d) => GoodCall(d)'
      BY <2>4, GoodPersists
    <3>2. GoodCycle(sched)'
      BY <1>1, <2>3, <3>1 DEF GoodCycle
    <3>3. \A q \in Requests : GoodCall(req[q])'
      BY <2>6, <3>1 DEF GoodCall
    <3>4. QED
      BY <3>2, <3>3
  <2>8. QED
    BY <1>1, <2>2, <2>3, <2>6, <2>7, SubmitStep
<1>4. CASE RequestRecords(p)
  <2> DEFINE r == req[p].root
  <2>1. r \in Roots /\ HasRow(r) /\ (req[p].tx # 0 => req[p].tx = publishedBy[r])
    BY <1>1, <1>4 DEF GoodCall, RequestRecords
  <2>2. /\ UNCHANGED <<chainVars, log>> /\ UNCHANGED <<sched, faults>>
        /\ req' = [req EXCEPT ![p] = Done] /\ now' = now
    BY <1>4 DEF RequestRecords, log
  <2>3. /\ anchor' \in [Roots -> Rows]
        /\ \A q \in Roots : anchor'[q] = anchor[q] \/ GoodRow(q, anchor'[q])
    <3>1. CASE req[p].tx = 0
      BY <1>4, <2>1, <3>1, RevertedRow DEF RequestRecords
    <3>2. CASE req[p].tx # 0
      BY <1>4, <2>1, <3>2, ConfirmedRow DEF RequestRecords, IsPublished
    <3>3. QED
      BY <3>1, <3>2
  <2>4. Done \in Calls /\ GoodCall(Done)'
    BY <1>1, <2>2, DoneIsGood DEF GoodCall, Done, NoCall, NoWindow
  <2>5. QED
    BY <2>2, <2>3, <2>4, CallWrites
<1>5. QED
  BY <1>2, <1>3, <1>4

\* The reconciler.
LEMMA ReconcilePreserves ==
  ASSUME IInv, NEW r \in Roots, Reconcile(r)
  PROVE  IInv'
<1>1. /\ sched \in Cycles /\ GoodCycle(sched) /\ faults \in 0..MaxFaults
      /\ req \in [Requests -> Calls] /\ \A q \in Requests : GoodCall(req[q])
  BY DEF IInv, TypeOK
<1>2. /\ HasRow(r) /\ IsPublished(r) /\ SetAnchorTxHash(r, publishedBy[r])
      /\ UNCHANGED <<chainVars, log>> /\ UNCHANGED <<sched, req, faults>>
  BY DEF Reconcile, HasRow
<1>3. /\ anchor' \in [Roots -> Rows]
      /\ \A q \in Roots : anchor'[q] = anchor[q] \/ GoodRow(q, anchor'[q])
  BY <1>2, ConfirmedRow
<1>4. /\ \A s \in Cycles : GoodCycle(s) => GoodCycle(s)'
      /\ \A d \in Calls : GoodCall(d) => GoodCall(d)'
  BY <1>2, <1>3, TableGrows, GoodPersists
<1>5. GoodCycle(sched)' /\ \A q \in Requests : GoodCall(req[q])'
  BY <1>1, <1>2, <1>4 DEF GoodCycle, GoodCall
<1>6. QED
  BY <1>1, <1>2, <1>3, <1>5, TableStep

----------------------------------------------------------------------------
(* Types, transactions and the contract.                                   *)

\* IInv is inductive: it holds at first,
LEMMA InitIsGood == Init => IInv
<1> SUFFICES ASSUME Init PROVE IInv
  OBVIOUS
<1>1. 0 \in Times /\ 0 \in 0..MaxFaults
  BY AnchorAssumption DEF Times
<1>2. TypeOK /\ TxSeq
  <2>1. ChainTypeOK /\ TxSeq
    BY DEF Init, ChainInit, ChainTypeOK, TxSeq
  <2>2. sched \in Cycles /\ req \in [Requests -> Calls] /\ anchor \in [Roots -> Rows]
    BY <1>1 DEF Init, Idle, Cycles, NoWindow, Windows, NoCall, Calls, NoRow, Rows
  <2>3. QED
    BY <1>1, <2>1, <2>2 DEF Init, TypeOK
<1>3. Timely /\ GoodCycle(sched) /\ \A p \in Requests : GoodCall(req[p])
  BY DEF Init, Timely, NoRow, GoodCycle, Idle, NoWindow, GoodCall, NoCall
<1>4. ChainInv /\ AnchorTxIsWinner /\ LatestIsNewest
  BY DEF Init, ChainInit, ChainInv, AnchorTxIsWinner, LatestIsNewest, IsPublished, NoRow
<1>5. QED
  BY <1>2, <1>3, <1>4 DEF IInv, Init

\* and every step keeps it.
LEMMA NextPreserves == IInv /\ [Next]_vars => IInv'
<1> SUFFICES ASSUME IInv, [Next]_vars PROVE IInv'
  OBVIOUS
<1>1. CASE Next
  BY <1>1, EmitPreserves, MineStep, CycleReads, CycleWrites, RequestReads, RequestWrites,
     ReconcilePreserves DEF Next, Cycle, Request
<1>2. CASE UNCHANGED vars
  <2>1. UNCHANGED <<chainVars, log, anchor, req>> /\ UNCHANGED <<sched, faults>>
    BY <1>2 DEF vars
  <2>2. QED
    BY <2>1, CycleStep DEF IInv, TypeOK
<1>3. QED
  BY <1>1, <1>2

\* IInv holds in every reachable state.
THEOREM AlwaysIInv == Spec => []IInv
  BY InitIsGood, NextPreserves, PTL DEF Spec

\* Every reachable state is well typed.
THEOREM TypeCorrect == Spec => []TypeOK
<1>1. IInv => TypeOK
  BY DEF IInv
<1>2. QED
  BY <1>1, AlwaysIInv, PTL

\* A confirmed row names the transaction that published its root, whoever sent
\* it and whatever failed (broadcastAnchorBatch, resolveAlreadyAnchored,
\* reconcileOrphanedAnchors).
THEOREM AnchorTxIsWinnerHolds == Spec => []AnchorTxIsWinner
<1>1. IInv => AnchorTxIsWinner
  BY DEF IInv
<1>2. QED
  BY <1>1, AlwaysIInv, PTL

\* The contract's latest anchor is never older than one published before
\* (_recordLatest).
THEOREM LatestIsNewestHolds == Spec => []LatestIsNewest
<1>1. IInv => LatestIsNewest
  BY DEF IInv
<1>2. QED
  BY <1>1, AlwaysIInv, PTL

----------------------------------------------------------------------------
(* Windows leave no gap and stay what they were, late commits apart.       *)

\* What covers an event behind covered_to is a row that ends there.
LEMMA CoveredAreLeaves ==
  ASSUME IInv, LogInv
  PROVE  CoveredEventsAreLeaves
<1> SUFFICES ASSUME NEW e \in stored \ late, stamp[e] <= CoveredTo PROVE Leaf(e)
  BY DEF CoveredEventsAreLeaves, Leaf, HasRow
<1>1. stamp[e] \in Nat /\ stamp[e] # 0
  BY DEF IInv, TypeOK, Times
<1>2. PICK r \in Covering : anchor[r].end = CoveredTo
  BY <1>1, CoveredToIsMax DEF IInv
<1>3. QED
  BY <1>2 DEF LogInv, WholeRow, Covering, HasRow

\* The window that no event gave rise to.
LEMMA NoWindowIsGood ==
  ASSUME IInv
  PROVE  GoodWindow(NoWindow)
<1>1. \A e \in stored : stamp[e] \in Nat
  BY DEF IInv, TypeOK, Times
<1>2. QED
  BY <1>1 DEF GoodWindow, NoWindow

\* The next window begins where what is covered ends, or later with nothing in
\* between.
LEMMA NextWindowIsGood ==
  ASSUME IInv, LogInv, Waiting # {}, NEW c \in Nat
  PROVE  GoodWindow(NextWindow(c))
<1>1. \A e \in stored : stamp[e] < NextWindow(c).start => stamp[e] <= CoveredTo
  BY WindowFacts DEF IInv
<1>2. \A e \in stored \ late : stamp[e] <= CoveredTo => Leaf(e)
  BY CoveredAreLeaves DEF CoveredEventsAreLeaves, Leaf, HasRow
<1>3. QED
  BY <1>1, <1>2 DEF GoodWindow

\* A step that leaves the events alone.
LEMMA QuietStep ==
  ASSUME IInv, LogInv, UNCHANGED log,
         \A r \in Roots : HasRow(r) =>
           anchor'[r].status # "none" /\ anchor'[r].start = anchor[r].start
                                      /\ anchor'[r].end = anchor[r].end,
         \A r \in Roots : ~HasRow(r) /\ anchor'[r].status # "none" => WholeRow(r)',
         GoodWindow(sched'.window), \A p \in Requests : GoodWindow(req'[p].window)
  PROVE  LogInv'
<1>1. stamp' = stamp /\ stored' = stored /\ late' = late
  BY DEF log
<1>2. \A e : Leaf(e) => Leaf(e)'
  BY DEF Leaf, HasRow
<1>3. ASSUME NEW w, GoodWindow(w) PROVE GoodWindow(w)'
  BY <1>1, <1>2, <1>3 DEF GoodWindow
<1>4. GoodWindow(sched.window)'
  <2>1. PICK w : w = sched'.window
    OBVIOUS
  <2>2. GoodWindow(w)'
    BY <1>3, <2>1
  <2>3. QED
    BY <2>1, <2>2 DEF GoodWindow
<1>5. ASSUME NEW p \in Requests PROVE GoodWindow(req[p].window)'
  <2>1. PICK w : w = req'[p].window
    OBVIOUS
  <2>2. GoodWindow(w)'
    BY <1>3, <2>1
  <2>3. QED
    BY <2>1, <2>2 DEF GoodWindow
<1>6. ASSUME NEW r \in Roots, HasRow(r)' PROVE WholeRow(r)'
  <2>1. CASE HasRow(r)
    <3>1. WholeRow(r) /\ anchor'[r].start = anchor[r].start /\ anchor'[r].end = anchor[r].end
      BY <2>1 DEF LogInv
    <3>2. Found(r)' = Found(r)
      BY <3>1, <1>1 DEF Found
    <3>3. QED
      BY <3>1, <3>2, <1>1, <1>2 DEF WholeRow
  <2>2. CASE ~HasRow(r)
    BY <1>6, <2>2 DEF HasRow
  <2>3. QED
    BY <2>1, <2>2
<1>7. QED
  BY <1>4, <1>5, <1>6 DEF LogInv

\* Rows as the UPDATE statements leave them keep their windows.
LEMMA WindowsKept ==
  ASSUME IInv, NEW r \in Roots, NEW tx, SetAnchorTxHash(r, tx) \/ SetAnchorReverted(r), HasRow(r)
  PROVE  /\ \A q \in Roots : HasRow(q) =>
              anchor'[q].status # "none" /\ anchor'[q].start = anchor[q].start
                                         /\ anchor'[q].end = anchor[q].end
         /\ \A q \in Roots : ~HasRow(q) => anchor'[q].status = "none"
  BY DEF SetAnchorTxHash, SetAnchorReverted, HasRow, IInv, TypeOK, Rows

\* A new row over a good window is whole.
LEMMA NewRowIsWhole ==
  ASSUME IInv, LogInv, UNCHANGED log, NEW w \in Windows, GoodWindow(w), w.end <= now,
         NEW root, root = ListEvents(w),
         IF root = {} THEN UNCHANGED anchor ELSE CreatePendingAnchor(root, w)
  PROVE  /\ \A q \in Roots : HasRow(q) =>
              anchor'[q].status # "none" /\ anchor'[q].start = anchor[q].start
                                         /\ anchor'[q].end = anchor[q].end
         /\ \A q \in Roots : ~HasRow(q) /\ anchor'[q].status # "none" => WholeRow(q)'
<1>1. stamp' = stamp /\ stored' = stored /\ late' = late
  BY DEF log
<1>2. CASE anchor' = anchor
  BY <1>2 DEF HasRow
<1>3. CASE anchor' # anchor
  <2> DEFINE row == [status |-> "pending", tx |-> 0, start |-> w.start, end |-> w.end]
  <2>1. root # {} /\ CreatePendingAnchor(root, w)
    BY <1>3
  <2>2. root \in Roots
    BY <2>1, CreatedRow
  <2>3. ~HasRow(root) /\ anchor' = [anchor EXCEPT ![root] = row]
    BY <1>3, <2>1 DEF CreatePendingAnchor, HasRow
  <2>4. anchor'[root] = row /\ \A q \in Roots : q # root => anchor'[q] = anchor[q]
    BY <2>2, <2>3 DEF IInv, TypeOK
  <2>5. \A e : Leaf(e) => Leaf(e)'
    BY <2>2, <2>3, <2>4 DEF Leaf, HasRow
  <2>6. ASSUME NEW e \in stored \ late, stamp[e] <= w.end PROVE Leaf(e)'
    <3>1. CASE stamp[e] < w.start
      BY <2>5, <2>6, <3>1 DEF GoodWindow
    <3>2. CASE ~(stamp[e] < w.start)
      <4>1. stamp[e] \in Nat /\ w.start \in Nat
        BY DEF IInv, TypeOK, Times, Windows
      <4>2. e \in root
        BY <2>6, <3>2, <4>1 DEF ListEvents
      <4>3. QED
        BY <2>2, <2>4, <4>2 DEF Leaf, HasRow
    <3>3. QED
      BY <3>1, <3>2
  <2>7. WholeRow(root)'
    <3>1. Found(root)' = root
      BY <1>1, <2>4 DEF Found, ListEvents
    <3>2. QED
      BY <1>1, <2>4, <2>6, <3>1 DEF WholeRow
  <2>8. QED
    BY <2>3, <2>4, <2>7 DEF HasRow
<1>4. QED
  BY <1>2, <1>3

\* An event that commits behind a window in use, or behind a row, is late.
LEMMA CommitKeepsLog ==
  ASSUME IInv, LogInv, NEW e \in Events, Commit(e)
  PROVE  LogInv'
<1>1. /\ e \notin stored /\ stored' = stored \cup {e} /\ stamp' = stamp
      /\ late' = IF Behind(stamp[e]) THEN late \cup {e} ELSE late
      /\ UNCHANGED <<anchor, sched, req>>
  BY DEF Commit, Emitting
<1>2. \A f : Leaf(f) => Leaf(f)'
  BY <1>1 DEF Leaf, HasRow
<1>3. \A f \in stored' \ late' : f \in stored \ late \/ (f = e /\ ~Behind(stamp[e]))
  BY <1>1
<1>4. GoodWindow(sched.window)'
  BY <1>1, <1>2, <1>3 DEF LogInv, GoodWindow, Behind
<1>5. ASSUME NEW p \in Requests PROVE GoodWindow(req[p].window)'
  BY <1>1, <1>2, <1>3 DEF LogInv, GoodWindow, Behind
<1>6. ASSUME NEW r \in Roots, HasRow(r)' PROVE WholeRow(r)'
  <2>1. WholeRow(r) /\ HasRow(r)
    BY <1>1, <1>6 DEF LogInv, HasRow
  <2>2. /\ Found(r)' = Found(r) \cup {f \in {e} : anchor[r].start <= stamp[f] /\ stamp[f] <= anchor[r].end}
    BY <1>1 DEF Found
  <2>3. stamp[e] <= anchor[r].end => e \in late'
    BY <1>1, <2>1 DEF Behind, HasRow
  <2>4. r \subseteq Found(r)' /\ Found(r)' \ r \subseteq late'
    BY <1>1, <2>1, <2>2, <2>3 DEF WholeRow
  <2>5. \A f \in stored' \ late' : stamp[f] <= anchor[r].end => Leaf(f)'
    BY <1>2, <1>3, <2>1, <2>3 DEF WholeRow
  <2>6. QED
    BY <1>1, <2>4, <2>5 DEF WholeRow
<1>7. QED
  BY <1>4, <1>5, <1>6 DEF LogInv

\* An event that is stamped or rolled back is not stored.
LEMMA EmitKeepsLog ==
  ASSUME IInv, LogInv, Emit \/ TimePasses
  PROVE  LogInv'
<1>1. ASSUME stored' = stored, late' = late, \A f \in stored : stamp'[f] = stamp[f],
             UNCHANGED <<anchor, sched, req>>
      PROVE  LogInv'
  <2>1. \A e : Leaf(e) => Leaf(e)'
    BY <1>1 DEF Leaf, HasRow
  <2>2. GoodWindow(sched.window)' /\ \A p \in Requests : GoodWindow(req[p].window)'
    BY <1>1, <2>1 DEF LogInv, GoodWindow
  <2>3. ASSUME NEW r \in Roots, HasRow(r)' PROVE WholeRow(r)'
    <3>1. WholeRow(r)
      BY <1>1, <2>3 DEF LogInv, HasRow
    <3>2. Found(r)' = Found(r)
      BY <1>1 DEF Found
    <3>3. QED
      BY <1>1, <2>1, <3>1, <3>2 DEF WholeRow
  <2>4. QED
    BY <2>2, <2>3 DEF LogInv
<1>2. ASSUME NEW e \in Events, Stamp(e) \/ Rollback(e) PROVE LogInv'
  <2>1. \A f \in stored : f \in Events /\ f # e
    BY <1>2 DEF Stamp, Rollback, Emitting, IInv, TypeOK
  <2>2. /\ stored' = stored /\ late' = late /\ UNCHANGED <<anchor, sched, req>>
        /\ \A f \in stored : stamp'[f] = stamp[f]
    BY <1>2, <2>1 DEF Stamp, Rollback, IInv, TypeOK
  <2>3. QED
    BY <1>1, <2>2
<1>3. CASE TimePasses
  BY <1>1, <1>3 DEF TimePasses
<1>4. QED
  BY <1>2, <1>3, CommitKeepsLog DEF Emit

\* The window of a cycle that ends, or ends its first phase.
LEMMA RestIsGood ==
  ASSUME IInv, NEW s \in {Idle, AfterBroadcast}
  PROVE  GoodWindow(s.window)
<1>1. s.window = NoWindow
  <2>1. Idle.window = NoWindow
    BY DEF Idle
  <2>2. AfterBroadcast.window = NoWindow
    BY DEF AfterBroadcast, Idle
  <2>3. QED
    BY <2>1, <2>2
<1>2. QED
  BY <1>1, NoWindowIsGood

\* The scheduled publisher: what it closes stays closed.
LEMMA CycleKeepsLog ==
  ASSUME IInv, LogInv, Cycle \/ Throw \/ Stop
  PROVE  LogInv'
<1>1. /\ sched \in Cycles /\ GoodCycle(sched) /\ now \in Nat
      /\ GoodWindow(sched.window) /\ \A p \in Requests : GoodWindow(req[p].window)
  BY AnchorAssumption DEF IInv, TypeOK, Times, LogInv
<1>2. UNCHANGED log /\ req' = req
  BY DEF Cycle, StartCycle, CheckBatch, SendBatch, AwaitBatch, RecordOne, Enumerate, CreateRow,
         Throw, Stop
<1>3. ASSUME anchor' = anchor, GoodWindow(sched'.window)
      PROVE  LogInv'
  <2>1. \A p \in Requests : GoodWindow(req'[p].window)
    BY <1>1, <1>2
  <2>2. /\ \A r \in Roots : HasRow(r) =>
              anchor'[r].status # "none" /\ anchor'[r].start = anchor[r].start
                                         /\ anchor'[r].end = anchor[r].end
        /\ \A r \in Roots : ~HasRow(r) => anchor'[r].status = "none"
    BY <1>3 DEF HasRow
  <2>3. QED
    BY <1>2, <1>3, <2>1, <2>2, QuietStep
<1>4. CASE StartCycle
  <2>1. sched'.window = NoWindow
    BY <1>4 DEF StartCycle, Idle
  <2>2. QED
    BY <1>3, <1>4, <2>1, NoWindowIsGood DEF StartCycle
<1>5. CASE CheckBatch \/ SendBatch \/ AwaitBatch
  <2>1. sched'.window = sched.window /\ anchor' = anchor
    BY <1>1, <1>5 DEF CheckBatch, SendBatch, AwaitBatch, Cycles
  <2>2. QED
    BY <1>1, <1>3, <2>1
<1>6. ASSUME NEW r \in Roots, RecordOne(r) PROVE LogInv'
  <2>1. HasRow(r) /\ SetAnchorTxHash(r, publishedBy[r])
    BY <1>1, <1>6 DEF RecordOne, Winner, GoodCycle
  <2>2. GoodWindow(sched'.window)
    <3>1. CASE sched.results = {r}
      <4>1. sched' = AfterBroadcast
        BY <1>6, <3>1 DEF RecordOne
      <4>2. \A s \in {Idle, AfterBroadcast} : GoodWindow(s.window)
        BY RestIsGood
      <4>3. QED
        BY <4>1, <4>2
    <3>2. CASE sched.results # {r}
      <4>1. sched'.window = sched.window
        BY <1>1, <1>6, <3>2 DEF RecordOne, Cycles
      <4>2. QED
        BY <1>1, <4>1
    <3>3. QED
      BY <3>1, <3>2
  <2>3. QED
    BY <1>1, <1>2, <2>1, <2>2, WindowsKept, QuietStep
<1>7. CASE Enumerate
  <2>1. CASE Waiting = {}
    <3>1. sched' = Idle /\ anchor' = anchor
      BY <1>7, <2>1 DEF Enumerate
    <3>2. QED
      BY <1>3, <3>1, RestIsGood
  <2>2. CASE Waiting # {}
    <3>1. sched'.window = NextWindow(sched.clock) /\ anchor' = anchor
      BY <1>1, <1>7, <2>2 DEF Enumerate, Cycles
    <3>2. sched.clock \in Nat
      BY <1>1, AnchorAssumption DEF Cycles, Times
    <3>3. GoodWindow(NextWindow(sched.clock))
      BY <1>1, <2>2, <3>2, NextWindowIsGood
    <3>4. QED
      BY <1>1, <1>3, <3>1, <3>3
  <2>3. QED
    BY <2>1, <2>2
<1>8. CASE CreateRow
  <2> DEFINE w == sched.window
             root == ListEvents(w)
  <2>1. w \in Windows /\ GoodWindow(w) /\ w.end <= now
    BY <1>1 DEF Cycles, GoodCycle
  <2>2. /\ IF root = {} THEN UNCHANGED anchor ELSE CreatePendingAnchor(root, w)
        /\ sched'.window = NoWindow
    BY <1>8 DEF CreateRow, Idle
  <2>3. GoodWindow(sched'.window)
    BY <2>2, NoWindowIsGood
  <2>4. PICK t : t = root
    OBVIOUS
  <2>5. /\ \A q \in Roots : HasRow(q) =>
              anchor'[q].status # "none" /\ anchor'[q].start = anchor[q].start
                                         /\ anchor'[q].end = anchor[q].end
        /\ \A q \in Roots : ~HasRow(q) /\ anchor'[q].status # "none" => WholeRow(q)'
    BY <1>2, <2>1, <2>2, <2>4, NewRowIsWhole
  <2>6. QED
    BY <1>1, <1>2, <2>3, <2>5, QuietStep
<1>9. CASE Throw \/ Stop
  <2>1. sched' \in {Idle, AfterBroadcast} /\ anchor' = anchor
    BY <1>9 DEF Throw, Stop
  <2>2. QED
    BY <1>3, <2>1, RestIsGood
<1>10. QED
  BY <1>4, <1>5, <1>6, <1>7, <1>8, <1>9 DEF Cycle

\* The route, on the same terms.
LEMMA RequestKeepsLog ==
  ASSUME IInv, LogInv, NEW p \in Requests, Request(p)
  PROVE  LogInv'
<1>1. /\ req \in [Requests -> Calls] /\ GoodCall(req[p]) /\ now \in Nat
      /\ GoodWindow(sched.window) /\ \A q \in Requests : GoodWindow(req[q].window)
  BY AnchorAssumption DEF IInv, TypeOK, Times, LogInv
<1>2. UNCHANGED log /\ sched' = sched /\ \A q \in Requests : q # p => req'[q] = req[q]
  BY <1>1 DEF Request, StartRequest, RequestRow, RequestSkips, RequestSends,
              RequestAwaits, RequestRecords, RequestFails
<1>3. ASSUME GoodWindow(req'[p].window),
             \A r \in Roots : HasRow(r) =>
               anchor'[r].status # "none" /\ anchor'[r].start = anchor[r].start
                                          /\ anchor'[r].end = anchor[r].end,
             \A r \in Roots : ~HasRow(r) /\ anchor'[r].status # "none" => WholeRow(r)'
      PROVE  LogInv'
  <2>1. \A q \in Requests : GoodWindow(req'[q].window)
    BY <1>1, <1>2, <1>3
  <2>2. QED
    BY <1>1, <1>2, <1>3, <2>1, QuietStep
<1>4. ASSUME GoodWindow(req'[p].window), anchor' = anchor PROVE LogInv'
  BY <1>3, <1>4 DEF HasRow
<1>5. CASE StartRequest(p)
  <2>1. Waiting # {} /\ anchor' = anchor /\ req'[p].window = NextWindow(now)
    BY <1>1, <1>5 DEF StartRequest, Calls
  <2>2. QED
    BY <1>1, <1>4, <2>1, NextWindowIsGood
<1>6. CASE RequestRow(p)
  <2> DEFINE w == req[p].window
             root == ListEvents(w)
  <2>1. w \in Windows /\ GoodWindow(w) /\ w.end <= now
    BY <1>1 DEF Calls, GoodCall
  <2>2. /\ IF root = {} THEN UNCHANGED anchor ELSE CreatePendingAnchor(root, w)
        /\ req'[p].window = NoWindow
    BY <1>1, <1>6 DEF RequestRow, Done, NoCall
  <2>3. PICK t : t = root
    OBVIOUS
  <2>4. /\ \A q \in Roots : HasRow(q) =>
              anchor'[q].status # "none" /\ anchor'[q].start = anchor[q].start
                                         /\ anchor'[q].end = anchor[q].end
        /\ \A q \in Roots : ~HasRow(q) /\ anchor'[q].status # "none" => WholeRow(q)'
    BY <1>2, <2>1, <2>2, <2>3, NewRowIsWhole
  <2>5. QED
    BY <1>3, <2>2, <2>4, NoWindowIsGood
<1>7. CASE RequestSkips(p) \/ RequestSends(p) \/ RequestAwaits(p)
  <2>1. req'[p].window = req[p].window /\ anchor' = anchor
    BY <1>1, <1>7 DEF RequestSkips, RequestSends, RequestAwaits, Calls
  <2>2. QED
    BY <1>1, <1>4, <2>1
<1>8. CASE RequestRecords(p)
  <2> DEFINE r == req[p].root
  <2>1. r \in Roots /\ HasRow(r) /\ (SetAnchorTxHash(r, req[p].tx) \/ SetAnchorReverted(r))
    BY <1>1, <1>8 DEF GoodCall, RequestRecords
  <2>2. req'[p].window = NoWindow
    BY <1>1, <1>8 DEF RequestRecords, Done, NoCall
  <2>3. QED
    BY <1>3, <2>1, <2>2, WindowsKept, NoWindowIsGood
<1>9. CASE RequestFails(p)
  <2>1. req'[p].window = NoWindow /\ anchor' = anchor
    BY <1>1, <1>9 DEF RequestFails, Done, NoCall
  <2>2. QED
    BY <1>4, <2>1, NoWindowIsGood
<1>10. QED
  BY <1>5, <1>6, <1>7, <1>8, <1>9 DEF Request

\* The chain, the reconciler and steps that change nothing.
LEMMA OthersKeepLog ==
  ASSUME IInv, LogInv, MineNext \/ (\E r \in Roots : Reconcile(r)) \/ UNCHANGED vars
  PROVE  LogInv'
<1>1. GoodWindow(sched.window) /\ \A p \in Requests : GoodWindow(req[p].window)
  BY DEF LogInv
<1>2. UNCHANGED log /\ sched' = sched /\ req' = req
  BY DEF MineNext, Reconcile, vars, log
<1>3. \/ anchor' = anchor
      \/ \E r \in Roots : HasRow(r) /\ SetAnchorTxHash(r, publishedBy[r])
  BY DEF MineNext, Reconcile, HasRow, vars
<1>4. /\ \A r \in Roots : HasRow(r) =>
           anchor'[r].status # "none" /\ anchor'[r].start = anchor[r].start
                                      /\ anchor'[r].end = anchor[r].end
      /\ \A r \in Roots : ~HasRow(r) => anchor'[r].status = "none"
  <2>1. CASE anchor' = anchor
    BY <2>1 DEF HasRow
  <2>2. ASSUME NEW r \in Roots, HasRow(r), SetAnchorTxHash(r, publishedBy[r]) PROVE <1>4!1 /\ <1>4!2
    BY <2>2, WindowsKept
  <2>3. QED
    BY <1>3, <2>1, <2>2
<1>5. \A p \in Requests : GoodWindow(req'[p].window)
  BY <1>1, <1>2
<1>6. QED
  BY <1>1, <1>2, <1>4, <1>5, QuietStep

\* LogInv is inductive relative to IInv: it holds at first,
LEMMA InitIsOrderly == Init => LogInv
<1> SUFFICES ASSUME Init PROVE LogInv
  OBVIOUS
<1>1. stored = {} /\ \A r \in Roots : ~HasRow(r)
  BY DEF Init, HasRow, NoRow
<1>2. QED
  BY <1>1 DEF LogInv, GoodWindow

\* and every step keeps it.
LEMMA NextKeepsLog == IInv /\ LogInv /\ [Next]_vars => LogInv'
  BY EmitKeepsLog, CycleKeepsLog, RequestKeepsLog, OthersKeepLog DEF Next

\* LogInv holds in every reachable state.
LEMMA AlwaysLogInv == Spec => [](IInv /\ LogInv)
  BY InitIsGood, InitIsOrderly, NextPreserves, NextKeepsLog, PTL DEF Spec

\* The verifier finds every leaf in the window of its row, and beside the
\* leaves nothing but events that committed behind a window in use, however
\* late events commit (checkMerkleRoot of audit-consistency.ts, emitter.ts).
THEOREM RootsRecomputeHolds == Spec => []RootsRecompute
<1>1. IInv /\ LogInv => RootsRecompute
  BY DEF LogInv, WholeRow, Found, RootsRecompute, HasRow
<1>2. QED
  BY <1>1, AlwaysLogInv, PTL

\* No event behind covered_to is missing from every row, unless it committed
\* behind a window in use (nextAnchorWindow, listEventsForAnchor).
THEOREM CoveredEventsAreLeavesHolds == Spec => []CoveredEventsAreLeaves
<1>1. IInv /\ LogInv => CoveredEventsAreLeaves
  BY CoveredAreLeaves
<1>2. QED
  BY <1>1, AlwaysLogInv, PTL
=============================================================================
