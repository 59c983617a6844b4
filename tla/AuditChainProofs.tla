-------------------------- MODULE AuditChainProofs --------------------------
(***************************************************************************)
(* Proofs about AuditChain, for any calls of either revision, any chain    *)
(* written before the deployment, any page sizes and any number of edits.  *)
(***************************************************************************)
EXTENDS AuditChain, FiniteSetTheorems, TLAPS

----------------------------------------------------------------------------
(* Types.                                                                  *)

\* The stored rows are finitely many.
LEMMA StoredFinite == IsFiniteSet(Stored) /\ Cardinality(Stored) \in Nat
<1>1. IsFiniteSet(Places)
  BY ChainAssumption, FS_Interval DEF Places
<1>2. Stored \in SUBSET Places
  BY DEF Stored
<1> QED  BY <1>1, <1>2, FS_Subset, FS_CardinalityType

\* So is what a verifier examines, and it is a set of positive numbers.
LEMMA ExaminedFinite ==
  ASSUME TypeOK, NEW v \in Verifiers
  PROVE  /\ IsFiniteSet(Examined(v)) /\ Examined(v) \subseteq Nat \ {0}
         /\ Wrong(v) \subseteq Examined(v)
<1>1. CASE v = "content"
  <2>1. Examined(v) \subseteq Stored
    BY <1>1 DEF Examined
  <2>2. IsFiniteSet(Examined(v))
    BY <2>1, StoredFinite, FS_Subset
  <2> QED  BY <1>1, <2>1, <2>2, ChainAssumption DEF Wrong, Stored, Places
<1>2. CASE v = "root"
  <2>1. DOMAIN anchors = 1..Len(anchors) /\ Len(anchors) \in Nat
    BY DEF TypeOK
  <2>2. IsFiniteSet(1..Len(anchors))
    BY <2>1, FS_Interval
  <2>3. Examined(v) = 1..Len(anchors)
    BY <1>2, <2>1 DEF Examined
  <2> QED  BY <1>2, <2>1, <2>2, <2>3 DEF Wrong
<1> QED  BY <1>1, <1>2 DEF Verifiers

\* A page's mismatches can be counted.
LEMMA PageCounts ==
  ASSUME TypeOK, NEW v \in Verifiers, NEW page \in Pages(v)
  PROVE  /\ page \subseteq Examined(v) /\ page \subseteq Nat \ {0}
         /\ Cardinality(page) \in Nat
         /\ Cardinality(page \cap Wrong(v)) \in Nat
         /\ Cardinality(page \cap Wrong(v)) = 0 => page \cap Wrong(v) = {}
<1>1. page \subseteq Examined(v)
  BY DEF Pages
<1>2. IsFiniteSet(page) /\ IsFiniteSet(page \cap Wrong(v))
  BY <1>1, ExaminedFinite, FS_Subset
<1> QED  BY <1>1, <1>2, ExaminedFinite, FS_CardinalityType, FS_EmptySet

\* One call's locals change.
LEMMA CallTyped ==
  ASSUME TypeOK, NEW c \in Calls, NEW q \in Locals, call' = [call EXCEPT ![c] = q]
  PROVE  call' \in [Calls -> Locals]
  BY DEF TypeOK

\* Every answer is a value of the locals.
LEMMA AnswerTyped ==
  ASSUME TypeOK, NEW c \in Calls, NEW outcome \in Outcomes, NEW event \in 0..MaxPlace,
         Answer(c, outcome, event)
  PROVE  call' \in [Calls -> Locals]
<1>1. [step |-> "done", pred |-> None, outcome |-> outcome, event |-> event] \in Locals
  BY DEF Locals
<1> QED  BY <1>1, CallTyped DEF Answer

\* So is an idle call.
LEMMA IdleTyped ==
  ASSUME TypeOK, NEW c \in Calls, call' = [call EXCEPT ![c] = Idle]
  PROVE  call' \in [Calls -> Locals]
<1>1. Idle \in Locals
  BY ChainAssumption DEF Locals, Idle, Outcomes
<1> QED  BY <1>1, CallTyped

\* A place is an event's name, and so is no place.
LEMMA EventNames == 0 \in 0..MaxPlace /\ \A p \in Places : p \in 0..MaxPlace
  BY ChainAssumption DEF Places

\* The log and the calls are typed after a step of an emit.
LEMMA EmitTyped ==
  ASSUME TypeOK, NEW c \in Calls, Emit(c)
  PROVE  /\ rows' \in [Places -> Rows \cup {None}]
         /\ head' \in Heads \cup {None}
         /\ backfill' = backfill
         /\ call' \in [Calls -> Locals]
         /\ written' \in [Places -> Contents \cup {None}]
<1>0. rows \in [Places -> Rows \cup {None}] /\ head \in Heads \cup {None}
      /\ written \in [Places -> Contents \cup {None}] /\ call \in [Calls -> Locals]
  BY DEF TypeOK
<1>1. CASE Begin(c)
  BY <1>0, <1>1 DEF Begin, Goto, log, Locals, InTransaction
<1>2. CASE Deliver(c)
  <2>1. PICK p \in Stored : Answer(c, "event", p) \/ Answer(c, "conflict", 0)
    BY <1>2 DEF Deliver, Hits
  <2>2. p \in 0..MaxPlace /\ 0 \in 0..MaxPlace
    BY EventNames DEF Stored
  <2>3. call' \in [Calls -> Locals]
    BY <2>1, <2>2, AnswerTyped DEF Outcomes
  <2> QED  BY <1>0, <1>2, <2>3 DEF Deliver, log
<1>3. CASE ReadHead(c)
  <2>1. c \notin Previous => OwnHead(c).hash \in Hashes \cup {None}
    BY <1>0 DEF OwnHead, Heads
  <2>2. \A p \in Stored : rows[p].hash \in Hashes
    BY <1>0 DEF Stored, Rows
  <2>3. Predecessors(c) \subseteq Hashes \cup {None}
    BY <2>1, <2>2 DEF Predecessors
  <2>4. PICK pred \in Predecessors(c) :
          call' = [call EXCEPT ![c].step = "linked", ![c].pred = pred]
    BY <1>3 DEF ReadHead
  <2>5. pred \in Hashes \cup {None}
    BY <2>3
  <2>6. [call[c] EXCEPT !.step = "linked", !.pred = pred] \in Locals
    BY <1>0, <2>5 DEF Locals, InTransaction
  <2>7. call' = [call EXCEPT ![c] = [call[c] EXCEPT !.step = "linked", !.pred = pred]]
    BY <2>4
  <2>8. call' \in [Calls -> Locals]
    BY <1>0, <2>6, <2>7
  <2> QED  BY <1>0, <1>3, <2>8 DEF ReadHead, log
<1>4. CASE Insert(c)
  <2>1. PICK p \in Places :
          /\ written[p] = None
          /\ rows' = [rows EXCEPT ![p] = NewRow(c, p)]
          /\ written' = [written EXCEPT ![p] = ContentOf[c]]
          /\ head' = NextHead(OwnHead(c), Hash(p, ContentOf[c]))
          /\ \/ Answer(c, "event", p)
             \/ KeyOf[c] # None /\ call' = [call EXCEPT ![c] = Idle]
    BY <1>4 DEF Insert
  <2>2. Hash(p, ContentOf[c]) \in Hashes /\ ContentOf[c] \in Contents
    BY ChainAssumption DEF Hash, Hashes
  <2>3. head' \in Heads
    BY <1>0, <2>1, <2>2, StoredFinite DEF NextHead, OwnHead, Heads
  <2>4. NewRow(c, p) \in Rows
    BY <1>0, <2>2, ChainAssumption DEF NewRow, Rows, Locals
  <2>5. call' \in [Calls -> Locals]
    BY <2>1, EventNames, AnswerTyped, IdleTyped DEF Outcomes
  <2>6. backfill' = backfill
    BY <1>4 DEF Insert
  <2> QED  BY <1>0, <2>1, <2>2, <2>3, <2>4, <2>5, <2>6
<1>5. CASE Refuse(c)
  BY <1>0, <1>5, EventNames, AnswerTyped DEF Refuse, Outcomes, log
<1>6. CASE Rollback(c)
  BY <1>0, <1>6, IdleTyped DEF Rollback, log
<1> QED  BY <1>1, <1>2, <1>3, <1>4, <1>5, <1>6 DEF Emit
\* The initial rows are a chain of typed rows.
LEMMA ExistingTyped ==
  ASSUME NEW i \in DOMAIN Existing
  PROVE  /\ Existing[i] \in Places
         /\ i \in Nat /\ 1 <= i /\ i <= Len(Existing)
         /\ i # 1 => i - 1 \in DOMAIN Existing /\ Existing[i - 1] \in Places
         /\ ExistingRow(i) \in Rows
<1>1. /\ DOMAIN Existing = 1..Len(Existing) /\ Len(Existing) \in Nat
      /\ \A j \in DOMAIN Existing : Existing[j] \in Places
  BY ChainAssumption
<1>2. i # 1 => i - 1 \in DOMAIN Existing
  BY <1>1
<1>3. \A p \in Places : Hash(p, OldContent) \in Hashes
  BY ChainAssumption DEF Hash, Hashes
<1> QED  BY <1>1, <1>2, <1>3, ChainAssumption DEF ExistingRow, Rows

\* The row of an existing place is the one of its position in the chain.
LEMMA ExistingUnique ==
  ASSUME NEW p \in Places, ExistingAt(p) # {}
  PROVE  LET i == CHOOSE i \in ExistingAt(p) : TRUE IN
         i \in DOMAIN Existing /\ Existing[i] = p /\ ExistingAt(p) = {i}
<1>1. (CHOOSE i \in ExistingAt(p) : TRUE) \in ExistingAt(p)
  OBVIOUS
<1> QED  BY <1>1, ChainAssumption DEF ExistingAt

\* Initial states are typed.
LEMMA InitTyped == Init => TypeOK
<1> SUFFICES ASSUME Init PROVE TypeOK
  OBVIOUS
<1>1. rows \in [Places -> Rows \cup {None}]
  BY ExistingTyped, ExistingUnique DEF Init
<1>2. call \in [Calls -> Locals]
  BY ChainAssumption DEF Init, Locals, Idle, Outcomes
<1>3. anchors \in Seq(Windows)
  BY DEF Init
<1>4. written \in [Places -> Contents \cup {None}]
  BY ChainAssumption DEF Init
<1> QED  BY <1>1, <1>2, <1>3, <1>4, ChainAssumption DEF Init, TypeOK, Verifiers

\* The backfill's snapshot and head are typed.
LEMMA BackfillTyped ==
  ASSUME TypeOK, BackfillReads \/ BackfillWrites
  PROVE  /\ rows' = rows /\ written' = written
         /\ head' \in Heads \cup {None}
         /\ backfill' \in [step : {"todo", "read", "done"}, found : Heads \cup {None}]
<1>1. CASE BackfillReads
  <2>1. \A p \in Tails : [hash |-> rows[p].hash, sequence |-> Cardinality(Stored)] \in Heads
    BY StoredFinite DEF TypeOK, Tails, Stored, Rows, Heads
  <2> QED  BY <1>1, <2>1 DEF BackfillReads, TypeOK
<1>2. CASE BackfillWrites
  BY <1>2 DEF BackfillWrites, TypeOK
<1> QED  BY <1>1, <1>2

\* An edit leaves typed rows.
LEMMA EditTyped ==
  ASSUME TypeOK, Edit
  PROVE  rows' \in [Places -> Rows \cup {None}] /\ edits' \in Nat
<1>1. PICK p \in Stored :
        \/ rows' = [rows EXCEPT ![p] = None]
        \/ \E content \in Contents \ {rows[p].content} :
             \/ rows' = [rows EXCEPT ![p].content = content]
             \/ rows' = [rows EXCEPT ![p].content = content, ![p].hash = Hash(p, content)]
  BY DEF Edit
<1>2. p \in Places /\ rows[p] \in Rows
  BY DEF TypeOK, Stored
<1>3. \A content \in Contents : Hash(p, content) \in Hashes
  BY <1>2 DEF Hash, Hashes
<1>4. \A content \in Contents :
        /\ [rows[p] EXCEPT !.content = content] \in Rows
        /\ [rows[p] EXCEPT !.content = content, !.hash = Hash(p, content)] \in Rows
  BY <1>2, <1>3 DEF Rows
<1>5. rows \in [Places -> Rows \cup {None}] /\ edits \in Nat /\ edits' = edits + 1
  BY DEF TypeOK, Edit
<1>6. rows' \in [Places -> Rows \cup {None}]
  BY <1>1, <1>2, <1>4, <1>5
<1> QED  BY <1>5, <1>6

\* An anchored window is typed.
LEMMA AnchorTyped ==
  ASSUME TypeOK, Anchor
  PROVE  /\ anchors' \in Seq(Windows)
         /\ \E w : anchors' = Append(anchors, w)
<1>1. PICK to \in Stored :
        LET from == IF anchors = <<>> THEN 0 ELSE anchors[Len(anchors)].to + 1
            w == [from |-> from, to |-> to, root |-> {}] IN
        anchors' = Append(anchors, [w EXCEPT !.root = Root(w)])
  BY DEF Anchor
<1> DEFINE from == IF anchors = <<>> THEN 0 ELSE anchors[Len(anchors)].to + 1
           w == [from |-> from, to |-> to, root |-> {}]
<1>2. to \in Nat
  BY ChainAssumption DEF Stored, Places
<1>0. anchors \in Seq(Windows)
  BY DEF TypeOK
<1>3. from \in Nat
  <2>1. CASE anchors = <<>>
    BY <2>1
  <2>2. CASE anchors # <<>>
    <3>1. anchors[Len(anchors)] \in Windows
      BY <1>0, <2>2
    <3> QED  BY <2>2, <3>1 DEF Windows
  <2> QED  BY <2>1, <2>2
<1>4. Root(w) \subseteq Hashes
  BY DEF Root, InWindow, Stored, TypeOK, Rows
<1>5. [w EXCEPT !.root = Root(w)] \in Windows
  BY <1>2, <1>3, <1>4 DEF Windows
<1>6. anchors' = Append(anchors, [w EXCEPT !.root = Root(w)])
  BY <1>1
<1> HIDE DEF w
<1> QED  BY <1>0, <1>5, <1>6

\* A page leaves a typed checkpoint, and only that of its verifier changes.
LEMMA PageTyped ==
  ASSUME TypeOK, NEW v \in Verifiers, VerifyPage(v), NewPass(v)
  PROVE  /\ cycle' \in Verifiers
         /\ checkpoint' \in [Verifiers -> [cursor : Nat, failures : Nat,
                                           status : {"never", "clean", "failed"}]]
         /\ findings' \subseteq Verifiers \X Nat
         /\ suspect' \in [Verifiers -> SUBSET Nat]
<1>1. PICK page \in Pages(v), last \in Nat :
        /\ findings' = findings \cup ({v} \X (page \cap Wrong(v)))
        /\ checkpoint' = [checkpoint EXCEPT ![v] = Advance(v, page, last)]
  BY PageCounts DEF VerifyPage
<1>2. Advance(v, page, last) \in [cursor : Nat, failures : Nat,
                                  status : {"never", "clean", "failed"}]
  <2>1. checkpoint[v] \in [cursor : Nat, failures : Nat,
                           status : {"never", "clean", "failed"}]
    BY DEF TypeOK
  <2>2. Cardinality(page \cap Wrong(v)) \in Nat
    BY PageCounts
  <2>3. checkpoint[v].failures + Cardinality(page \cap Wrong(v)) \in Nat
    BY <2>1, <2>2
  <2> QED  BY <2>1, <2>3 DEF Advance
<1>3. Wrong(v) \subseteq Nat
  BY ExaminedFinite
<1>4. cycle' \in Verifiers
  BY DEF VerifyPage, Verifiers
<1>5. suspect' \in [Verifiers -> SUBSET Nat]
  BY <1>3 DEF NewPass, TypeOK
<1> QED  BY <1>1, <1>2, <1>3, <1>4, <1>5 DEF TypeOK

\* What was wrong stays a set of numbers for each verifier.
LEMMA SuspectTyped ==
  ASSUME TypeOK, StillWrong
  PROVE  suspect' \in [Verifiers -> SUBSET Nat]
  BY DEF StillWrong, TypeOK

\* Every step keeps the types.
LEMMA StepTyped == TypeOK /\ [Next]_vars => TypeOK'
<1> SUFFICES ASSUME TypeOK, [Next]_vars PROVE TypeOK'
  OBVIOUS
<1>1. ASSUME NEW c \in Calls, Emit(c), UNCHANGED <<anchors, watch, edits>>, StillWrong
      PROVE  TypeOK'
  BY <1>1, EmitTyped, SuspectTyped DEF TypeOK, watch
<1>2. CASE Backfill /\ UNCHANGED <<anchors, watch, edits>> /\ StillWrong
  BY <1>2, BackfillTyped, SuspectTyped DEF TypeOK, watch, Backfill
<1>3. CASE Anchor /\ UNCHANGED <<log, call, watch, edits, suspect>>
  BY <1>3, AnchorTyped DEF TypeOK, watch, log
<1>4. CASE Edit /\ UNCHANGED <<head, backfill, written, call, anchors, watch>> /\ StillWrong
  BY <1>4, EditTyped, SuspectTyped DEF TypeOK, watch
<1>5. CASE CycleFails /\ UNCHANGED <<log, call, anchors, edits, suspect>>
  BY <1>5 DEF TypeOK, CycleFails, log, Verifiers
<1>6. ASSUME NEW v \in Verifiers, VerifyPage(v), NewPass(v),
             UNCHANGED <<log, call, anchors, edits>>
      PROVE  TypeOK'
  BY <1>6, PageTyped DEF TypeOK, log
<1>7. CASE UNCHANGED vars
  BY <1>7 DEF TypeOK, vars, log, watch
<1> QED  BY <1>1, <1>2, <1>3, <1>4, <1>5, <1>6, <1>7 DEF Next

\* Every reachable state is well typed.
THEOREM TypeCorrect == Spec => []TypeOK
<1>1. Init => TypeOK
  BY InitTyped
<1>2. TypeOK /\ [Next]_vars => TypeOK'
  BY StepTyped
<1> QED  BY <1>1, <1>2, PTL DEF Spec
----------------------------------------------------------------------------
(* The inductive invariant of the chain.                                   *)

\* A row sits at its own place and follows a place written before.
RowsPlaced ==
  /\ \A p \in Places : written[p] = None => rows[p] = None
  /\ \A p \in Stored : /\ rows[p].hash[1] = p
                       /\ rows[p].prev # None => written[rows[p].prev[1]] # None

\* The head names a written row that nothing follows; after the backfill, and
\* only then, no head means no rows.
HeadEnds ==
  /\ head # None => /\ head.hash # None /\ written[head.hash[1]] # None
                    /\ Successors(head.hash) = {}
  /\ head = None /\ Stored # {} => ~Migrated /\ Tails # {}
  /\ edits # 0 => Migrated

\* What the backfill read still holds while there is no head.
SnapshotHolds ==
  backfill.step = "read" /\ head = None =>
    IF backfill.found = None THEN Stored = {}
    ELSE /\ backfill.found.sequence = Cardinality(Stored)
         /\ \E p \in Tails : rows[p].hash = backfill.found.hash

\* Untouched rows form one chain, and no key has two.
Linked ==
  edits = 0 =>
    /\ \A p, q \in Stored : rows[p].prev = rows[q].prev => p = q
    /\ \A p \in Stored :
         rows[p].prev # None => \E q \in Stored : rows[q].hash = rows[p].prev
    /\ Stored # {} => \E p \in Stored : rows[p].prev = None
    /\ head # None => /\ head.sequence = Cardinality(Stored)
                      /\ \E p \in Stored : rows[p].hash = head.hash
    /\ \A p, q \in Stored : rows[p].key = rows[q].key /\ rows[p].key # None => p = q

LogInv == RowsPlaced /\ HeadEnds /\ SnapshotHolds /\ Linked

\* One call at a time is in its transaction, and what it read still holds.
CallInv ==
  /\ \A c, d \in Calls : call[c].step \in InTransaction /\ call[d].step \in InTransaction
                         => c = d
  /\ \A c \in Calls \ Previous : call[c].step \in InTransaction => Migrated
  /\ \A c \in Calls : call[c].step = "linked" =>
       Hits(c) = {} /\ (c \notin Previous => call[c].pred = OwnHead(c).hash)
  /\ \A c \in Calls \ Previous : call[c].outcome # "refused"
  /\ edits = 0 => \A c \in Calls : call[c].outcome = "event" =>
       /\ call[c].event \in Stored
       /\ rows[call[c].event].hash = Hash(call[c].event, ContentOf[c])
       /\ rows[call[c].event].key = KeyOf[c]

IInv == TypeOK /\ LogInv /\ CallInv

\* A place holds a record, a head is one, and None is neither.
LEMMA NoneIsNothing ==
  ASSUME TypeOK
  PROVE  /\ \A p \in Stored : p \in Places /\ rows[p] \in Rows /\ rows[p] # None
         /\ \A p \in Places, x \in Contents : Hash(p, x) \in Hashes /\ Hash(p, x) # None
                                              /\ Hash(p, x)[1] = p /\ x # None
         /\ \A p \in Stored : rows[p].hash # None /\ rows[p].hash \in Hashes
         /\ head # None => head \in Heads
         /\ \A c \in Calls : ContentOf[c] \in Contents
         /\ \A c \in Calls : [hash |-> None, sequence |-> 0] # None
<1>1. \A p \in Stored : p \in Places /\ rows[p] \in Rows /\ rows[p] # None
  BY DEF TypeOK, Stored
<1>2. \A p \in Places, x \in Contents : Hash(p, x) \in Hashes /\ Hash(p, x) # None
                                        /\ Hash(p, x)[1] = p /\ x # None
  BY ChainAssumption DEF Hash, Hashes
<1>3. \A p \in Stored : rows[p].hash # None /\ rows[p].hash \in Hashes
  BY <1>1, ChainAssumption DEF Rows
<1>4. [hash |-> None, sequence |-> 0] # None
  BY ChainAssumption DEF Heads
<1> QED  BY <1>1, <1>2, <1>3, <1>4, ChainAssumption DEF TypeOK

\* The predecessor an admitted row follows is written, stored if there are only
\* untouched rows, and nothing follows it yet.
LEMMA AdmittedPredecessor ==
  ASSUME IInv, NEW c \in Calls, At(c, "linked"), TriggerAdmits(OwnHead(c), call[c].pred)
  PROVE  /\ Successors(call[c].pred) = {}
         /\ call[c].pred # None => written[call[c].pred[1]] # None
         /\ edits = 0 /\ call[c].pred # None =>
              \E q \in Stored : rows[q].hash = call[c].pred
         /\ call[c].pred = None => Stored = {}
         /\ head = None /\ c \notin Previous => Stored = {}
<1> USE DEF IInv, LogInv
<1>0. head = None /\ c \notin Previous => Stored = {}
  BY DEF CallInv, HeadEnds, InTransaction, At
<1>1. CASE head # None
  <2>1. OwnHead(c) = head /\ head.hash = call[c].pred
    BY <1>1 DEF TriggerAdmits, OwnHead
  <2> QED  BY <1>1, <2>1, <1>0 DEF HeadEnds, Linked
<1>2. CASE head = None /\ c \notin Previous
  <2>1. OwnHead(c) = [hash |-> None, sequence |-> 0]
    BY <1>2 DEF OwnHead
  <2>2. call[c].pred = None
    BY <2>1, NoneIsNothing DEF TriggerAdmits
  <2> QED  BY <1>0, <1>2, <2>2 DEF Successors
<1>3. CASE head = None /\ c \in Previous
  <2>1. OwnHead(c) = None
    BY <1>3 DEF OwnHead
  <2>2. CASE call[c].pred = None /\ Stored = {}
    BY <1>3, <2>2 DEF Successors
  <2>3. CASE /\ call[c].pred # None /\ Successors(call[c].pred) = {}
             /\ \E p \in Stored : rows[p].hash = call[c].pred
    <3>1. PICK p \in Stored : rows[p].hash = call[c].pred
      BY <2>3
    <3>2. call[c].pred[1] = p /\ written[p] # None
      BY <3>1, NoneIsNothing DEF RowsPlaced
    <3> QED  BY <1>3, <2>3, <3>2
  <2> QED  BY <2>1, <2>2, <2>3 DEF TriggerAdmits
<1> QED  BY <1>1, <1>2, <1>3

\* The database admits every row of the new revision.
LEMMA NewRevisionAdmitted ==
  ASSUME IInv, NEW c \in Calls \ Previous, At(c, "linked")
  PROVE  /\ TriggerAdmits(OwnHead(c), call[c].pred)
         /\ IndexesAdmit(KeyOf[c], call[c].pred)
<1> USE DEF IInv
<1>1. /\ Migrated /\ Hits(c) = {} /\ call[c].pred = OwnHead(c).hash
  BY DEF CallInv, InTransaction, At
<1>2. OwnHead(c) # None
  BY NoneIsNothing DEF OwnHead
<1>3. TriggerAdmits(OwnHead(c), call[c].pred)
  BY <1>1, <1>2 DEF TriggerAdmits
<1>4. IndexesAdmit(KeyOf[c], call[c].pred)
  BY <1>1, <1>3, AdmittedPredecessor DEF IndexesAdmit, Hits
<1> QED  BY <1>3, <1>4
----------------------------------------------------------------------------
(* The initial chain.                                                      *)

\* Who is stored at first, and what it follows.
LEMMA InitRows ==
  ASSUME Init
  PROVE  /\ \A i \in DOMAIN Existing :
              Existing[i] \in Stored /\ rows[Existing[i]] = ExistingRow(i)
         /\ \A p \in Stored : \E i \in DOMAIN Existing :
              Existing[i] = p /\ rows[p] = ExistingRow(i)
<1>1. ASSUME NEW i \in DOMAIN Existing
      PROVE  Existing[i] \in Stored /\ rows[Existing[i]] = ExistingRow(i)
  <2>1. Existing[i] \in Places /\ i \in ExistingAt(Existing[i])
    BY ExistingTyped DEF ExistingAt
  <2>2. (CHOOSE j \in ExistingAt(Existing[i]) : TRUE) = i
    BY <2>1, ExistingUnique
  <2>3. rows[Existing[i]] = ExistingRow(i)
    BY <2>1, <2>2 DEF Init
  <2> QED  BY <2>1, <2>3, ExistingTyped, ChainAssumption DEF Stored
<1>2. ASSUME NEW p \in Stored
      PROVE  \E i \in DOMAIN Existing : Existing[i] = p /\ rows[p] = ExistingRow(i)
  <2>1. p \in Places /\ ExistingAt(p) # {}
    BY <1>2 DEF Stored, Init
  <2> QED  BY <2>1, ExistingUnique DEF Init
<1> QED  BY <1>1, <1>2

\* The chain written before the deployment is a chain.
LEMMA InitChained == Init => IInv
<1> SUFFICES ASSUME Init PROVE IInv
  OBVIOUS
<1>0. TypeOK
  BY InitTyped
<1>1. /\ DOMAIN Existing = 1..Len(Existing) /\ Len(Existing) \in Nat
      /\ \A i \in DOMAIN Existing : Existing[i] \in Places
      /\ \A i, j \in DOMAIN Existing : Existing[i] = Existing[j] => i = j
  BY ChainAssumption
<1>2. \A i \in DOMAIN Existing :
        /\ ExistingRow(i).hash = Hash(Existing[i], OldContent)
        /\ ExistingRow(i).key = None
        /\ ExistingRow(i).prev =
             IF i = 1 THEN None ELSE Hash(Existing[i - 1], OldContent)
  BY DEF ExistingRow
<1>3. \A p \in Places : Hash(p, OldContent) # None /\ Hash(p, OldContent)[1] = p
  BY ChainAssumption, <1>0, NoneIsNothing
<1>4. \A i \in DOMAIN Existing : i # 1 => i - 1 \in DOMAIN Existing
  BY <1>1
<1>5. RowsPlaced
  <2>1. \A p \in Places : written[p] = None => rows[p] = None
    BY ChainAssumption DEF Init
  <2>2. ASSUME NEW p \in Stored
        PROVE  rows[p].hash[1] = p /\ (rows[p].prev # None => written[rows[p].prev[1]] # None)
    <3>1. PICK i \in DOMAIN Existing : Existing[i] = p /\ rows[p] = ExistingRow(i)
      BY InitRows
    <3>2. rows[p].hash[1] = p
      BY <1>1, <1>2, <1>3, <3>1
    <3>3. CASE i # 1
      <4>1. rows[p].prev[1] = Existing[i - 1] /\ Existing[i - 1] \in Places
        BY <1>1, <1>2, <1>3, <1>4, <3>1, <3>3
      <4>2. ExistingAt(Existing[i - 1]) # {}
        BY <1>4, <3>3 DEF ExistingAt
      <4> QED  BY <3>2, <4>1, <4>2, ChainAssumption DEF Init
    <3>4. CASE i = 1
      BY <1>2, <3>1, <3>2, <3>4
    <3> QED  BY <3>3, <3>4
  <2> QED  BY <2>1, <2>2 DEF RowsPlaced
<1>6. Stored # {} => Tails # {}
  <2> SUFFICES ASSUME Stored # {} PROVE Tails # {}
    OBVIOUS
  <2>1. Len(Existing) \in DOMAIN Existing
    BY <1>1, InitRows
  <2> DEFINE last == Existing[Len(Existing)]
  <2>2. last \in Stored /\ rows[last].hash = Hash(last, OldContent) /\ last \in Places
    BY <1>1, <1>2, <2>1, InitRows
  <2>3. ASSUME NEW q \in Stored, rows[q].prev = Hash(last, OldContent) PROVE FALSE
    <3>1. PICK j \in DOMAIN Existing : Existing[j] = q /\ rows[q] = ExistingRow(j)
      BY InitRows
    <3>2. j # 1
      BY <1>2, <1>3, <2>2, <2>3, <3>1
    <3>3. Existing[j - 1] = last
      BY <1>1, <1>2, <1>3, <1>4, <2>2, <2>3, <3>1, <3>2
    <3>4. j - 1 = Len(Existing)
      BY <1>1, <1>4, <2>1, <3>2, <3>3
    <3> QED  BY <1>1, <3>1, <3>4
  <2> QED  BY <2>2, <2>3 DEF Tails, Successors
<1>7. Linked
  <2>1. ASSUME NEW p \in Stored, NEW q \in Stored, rows[p].prev = rows[q].prev
        PROVE  p = q
    <3>1. PICK i \in DOMAIN Existing : Existing[i] = p /\ rows[p] = ExistingRow(i)
      BY InitRows
    <3>2. PICK j \in DOMAIN Existing : Existing[j] = q /\ rows[q] = ExistingRow(j)
      BY InitRows
    <3>3. CASE i = 1 \/ j = 1
      BY <1>1, <1>2, <1>3, <1>4, <2>1, <3>1, <3>2, <3>3
    <3>4. CASE i # 1 /\ j # 1
      <4>1. Existing[i - 1] = Existing[j - 1]
        BY <1>1, <1>2, <1>3, <1>4, <2>1, <3>1, <3>2, <3>4
      <4>2. i - 1 = j - 1
        BY <1>1, <1>4, <3>4, <4>1
      <4> QED  BY <1>1, <3>1, <3>2, <4>2
    <3> QED  BY <3>3, <3>4
  <2>2. ASSUME NEW p \in Stored, rows[p].prev # None
        PROVE  \E q \in Stored : rows[q].hash = rows[p].prev
    <3>1. PICK i \in DOMAIN Existing : Existing[i] = p /\ rows[p] = ExistingRow(i)
      BY InitRows
    <3>2. i # 1
      BY <1>2, <2>2, <3>1
    <3> QED  BY <1>2, <1>4, <3>1, <3>2, InitRows
  <2>3. Stored # {} => \E p \in Stored : rows[p].prev = None
    <3> SUFFICES ASSUME Stored # {} PROVE \E p \in Stored : rows[p].prev = None
      OBVIOUS
    <3>1. 1 \in DOMAIN Existing
      BY <1>1, InitRows
    <3> QED  BY <1>2, <3>1, InitRows
  <2>4. \A p \in Stored : rows[p].key = None
    BY <1>2, InitRows
  <2>5. head = None
    BY DEF Init
  <2> QED  BY <2>1, <2>2, <2>3, <2>4, <2>5 DEF Linked
<1>8. HeadEnds /\ SnapshotHolds
  BY <1>6 DEF Init, HeadEnds, SnapshotHolds, Migrated
<1>9. CallInv
  BY DEF Init, Idle, CallInv, InTransaction
<1> QED  BY <1>0, <1>5, <1>7, <1>8, <1>9 DEF IInv, LogInv

----------------------------------------------------------------------------
(* The steps.                                                              *)

\* A step that leaves the log and its edits alone keeps what is said of them.
LEMMA LogStays ==
  ASSUME LogInv, UNCHANGED <<log, edits>>
  PROVE  LogInv'
  BY DEF LogInv, RowsPlaced, HeadEnds, SnapshotHolds, Linked, log, Stored, Successors,
         Tails, Migrated

\* One call's step within its transaction, or out of it.
LEMMA CallStep ==
  ASSUME IInv, NEW c \in Calls, UNCHANGED <<log, edits>>, NEW q \in Locals,
         call' = [call EXCEPT ![c] = q],
         q.step \in InTransaction =>
           /\ \A d \in Calls \ {c} : call[d].step \notin InTransaction
           /\ c \notin Previous => Migrated,
         q.step = "linked" => Hits(c) = {} /\ (c \notin Previous => q.pred = OwnHead(c).hash),
         q.outcome = "refused" => c \in Previous,
         edits = 0 /\ q.outcome = "event" =>
           /\ q.event \in Stored
           /\ rows[q.event].hash = Hash(q.event, ContentOf[c])
           /\ rows[q.event].key = KeyOf[c]
  PROVE  CallInv'
<1> USE DEF IInv
<1>1. /\ call'[c] = q /\ \A d \in Calls \ {c} : call'[d] = call[d]
  BY DEF TypeOK
<1>2. /\ rows' = rows /\ head' = head /\ backfill' = backfill /\ edits' = edits
      /\ Stored' = Stored /\ (Migrated <=> Migrated')
      /\ \A d \in Calls : Hits(d)' = Hits(d) /\ OwnHead(d)' = OwnHead(d)
  BY DEF log, Stored, Migrated, Hits, OwnHead
<1>3. \A d, e \in Calls : call'[d].step \in InTransaction /\ call'[e].step \in InTransaction
                          => d = e
  BY <1>1 DEF CallInv
<1>4. \A d \in Calls \ Previous : call'[d].step \in InTransaction => Migrated'
  BY <1>1, <1>2 DEF CallInv
<1>5. \A d \in Calls : call'[d].step = "linked" =>
        Hits(d)' = {} /\ (d \notin Previous => call'[d].pred = OwnHead(d)'.hash)
  BY <1>1, <1>2 DEF CallInv
<1>6. \A d \in Calls \ Previous : call'[d].outcome # "refused"
  BY <1>1 DEF CallInv
<1>7. edits' = 0 => \A d \in Calls : call'[d].outcome = "event" =>
        /\ call'[d].event \in Stored'
        /\ rows'[call'[d].event].hash = Hash(call'[d].event, ContentOf[d])
        /\ rows'[call'[d].event].key = KeyOf[d]
  BY <1>1, <1>2 DEF CallInv
<1> QED  BY <1>3, <1>4, <1>5, <1>6, <1>7 DEF CallInv
\* A call's locals before its step satisfy what CallStep asks of their outcome.
LEMMA OldOutcome ==
  ASSUME IInv, NEW c \in Calls
  PROVE  /\ call[c] \in Locals
         /\ call[c].outcome = "refused" => c \in Previous
         /\ edits = 0 /\ call[c].outcome = "event" =>
              /\ call[c].event \in Stored
              /\ rows[call[c].event].hash = Hash(call[c].event, ContentOf[c])
              /\ rows[call[c].event].key = KeyOf[c]
  BY DEF IInv, TypeOK, CallInv

\* Begin takes the lock, which is free.
LEMMA BeginKeeps == ASSUME IInv, NEW c \in Calls, Begin(c), UNCHANGED edits PROVE CallInv'
<1> DEFINE q == [call[c] EXCEPT !.step = "locked"]
<1>1. /\ call' = [call EXCEPT ![c] = q] /\ UNCHANGED <<log, edits>>
      /\ \A d \in Calls : call[d].step \notin InTransaction
      /\ c \notin Previous => Migrated
  BY DEF Begin, Goto, LockFree
<1>2. q \in Locals /\ q.step = "locked" /\ q.outcome = call[c].outcome /\ q.event = call[c].event
  BY OldOutcome DEF Locals, InTransaction
<1> HIDE DEF q
<1> QED  BY <1>1, <1>2, OldOutcome, CallStep

\* Deliver answers with a row of the call's key and content.
LEMMA DeliverKeeps == ASSUME IInv, NEW c \in Calls, Deliver(c), UNCHANGED edits PROVE CallInv'
<1> DEFINE hit(p) == [step |-> "done", pred |-> None, outcome |-> "event", event |-> p]
           miss == [step |-> "done", pred |-> None, outcome |-> "conflict", event |-> 0]
<1>1. PICK p \in Hits(c) :
        \/ rows[p].hash = Hash(p, ContentOf[c]) /\ call' = [call EXCEPT ![c] = hit(p)]
        \/ call' = [call EXCEPT ![c] = miss]
  BY DEF Deliver, Answer
<1>2. UNCHANGED <<log, edits>> /\ p \in Stored /\ rows[p].key = KeyOf[c] /\ p \in 0..MaxPlace
  BY EventNames DEF Deliver, Hits, Stored
<1>3. hit(p) \in Locals /\ miss \in Locals
  BY <1>2, EventNames DEF Locals, Outcomes
<1>4. /\ hit(p).step \notin InTransaction /\ miss.step \notin InTransaction
      /\ hit(p).step # "linked" /\ miss.step # "linked"
      /\ hit(p).outcome = "event" /\ miss.outcome = "conflict" /\ hit(p).event = p
  BY DEF InTransaction
<1> HIDE DEF hit, miss
<1>5. CASE rows[p].hash = Hash(p, ContentOf[c]) /\ call' = [call EXCEPT ![c] = hit(p)]
  BY <1>2, <1>3, <1>4, <1>5, CallStep
<1>6. CASE call' = [call EXCEPT ![c] = miss]
  BY <1>2, <1>3, <1>4, <1>6, CallStep
<1> QED  BY <1>1, <1>5, <1>6

\* ReadHead finds no hit, and the new revision reads the head.
LEMMA ReadHeadKeeps == ASSUME IInv, NEW c \in Calls, ReadHead(c), UNCHANGED edits PROVE CallInv'
<1>1. PICK pred \in Predecessors(c) :
        call' = [call EXCEPT ![c].step = "linked", ![c].pred = pred]
  BY DEF ReadHead
<1> DEFINE q == [call[c] EXCEPT !.step = "linked", !.pred = pred]
<1>2. call' = [call EXCEPT ![c] = q] /\ UNCHANGED <<log, edits>> /\ Hits(c) = {}
      /\ call[c].step = "locked"
  BY <1>1 DEF ReadHead, At
<1>3. c \notin Previous => pred = OwnHead(c).hash
  BY <1>1 DEF Predecessors
<1>4. /\ \A d \in Calls \ {c} : call[d].step \notin InTransaction
      /\ c \notin Previous => Migrated
  BY <1>2 DEF IInv, CallInv, InTransaction
<1>5. q \in Locals
  <2>1. call' \in [Calls -> Locals] /\ call'[c] = q
    BY <1>2, EmitTyped DEF IInv, Emit, TypeOK
  <2> QED  BY <2>1
<1>6. q.step = "linked" /\ q.pred = pred /\ q.outcome = call[c].outcome /\ q.event = call[c].event
  BY OldOutcome DEF Locals
<1> HIDE DEF q
<1> QED  BY <1>2, <1>3, <1>4, <1>5, <1>6, OldOutcome, CallStep

\* Only the previous revision is refused.
LEMMA RefuseKeeps == ASSUME IInv, NEW c \in Calls, Refuse(c), UNCHANGED edits PROVE CallInv'
<1> DEFINE q == [step |-> "done", pred |-> None, outcome |-> "refused", event |-> 0]
<1>1. call' = [call EXCEPT ![c] = q] /\ UNCHANGED <<log, edits>>
  BY DEF Refuse, Answer
<1>2. c \in Previous
  BY NewRevisionAdmitted DEF Refuse
<1>3. q \in Locals /\ q.step \notin InTransaction /\ q.step # "linked" /\ q.outcome = "refused"
  BY EventNames DEF Locals, Outcomes, InTransaction
<1> HIDE DEF q
<1> QED  BY <1>1, <1>2, <1>3, CallStep

\* A rolled-back call is idle.
LEMMA RollbackKeeps == ASSUME IInv, NEW c \in Calls, Rollback(c), UNCHANGED edits PROVE CallInv'
<1>1. Idle \in Locals /\ Idle.step \notin InTransaction /\ Idle.step # "linked"
      /\ Idle.outcome = "none"
  BY ChainAssumption DEF Idle, Locals, Outcomes, InTransaction
<1> QED  BY <1>1, CallStep DEF Rollback

\* What an insert does to the log.
LEMMA Inserted ==
  ASSUME IInv, NEW c \in Calls, NEW p \in Places, written[p] = None,
         rows' = [rows EXCEPT ![p] = NewRow(c, p)]
  PROVE  /\ p \notin Stored /\ Stored' = Stored \cup {p} /\ NewRow(c, p) # None
         /\ rows'[p] = NewRow(c, p) /\ \A q \in Stored : rows'[q] = rows[q]
         /\ NewRow(c, p).prev = call[c].pred /\ NewRow(c, p).hash = Hash(p, ContentOf[c])
         /\ NewRow(c, p).key = KeyOf[c]
         /\ Cardinality(Stored') = Cardinality(Stored) + 1
<1>1. p \notin Stored
  BY DEF IInv, LogInv, RowsPlaced, Stored
<1>2. NewRow(c, p) \in Rows
  BY NoneIsNothing, ChainAssumption DEF NewRow, Rows, IInv, TypeOK, Locals
<1>3. NewRow(c, p) # None
  BY <1>2, ChainAssumption
<1>4. Stored' = Stored \cup {p}
  BY <1>1, <1>3 DEF Stored, IInv, TypeOK
<1>5. Cardinality(Stored \cup {p}) = Cardinality(Stored) + 1
  BY <1>1, StoredFinite, FS_AddElement
<1> QED  BY <1>1, <1>3, <1>4, <1>5 DEF IInv, TypeOK, Stored, NewRow

\* An insert appends to the chain.
LEMMA InsertKeepsLog ==
  ASSUME IInv, NEW c \in Calls, Insert(c), UNCHANGED edits
  PROVE  LogInv'
<1> USE DEF IInv, LogInv
<1>1. PICK p \in Places :
        /\ written[p] = None
        /\ rows' = [rows EXCEPT ![p] = NewRow(c, p)]
        /\ written' = [written EXCEPT ![p] = ContentOf[c]]
        /\ head' = NextHead(OwnHead(c), Hash(p, ContentOf[c]))
  BY DEF Insert
<1> DEFINE r == NewRow(c, p)
<1>3. /\ p \notin Stored /\ Stored' = Stored \cup {p} /\ r # None
      /\ rows'[p] = r /\ \A q \in Stored : rows'[q] = rows[q]
      /\ r.prev = call[c].pred /\ r.hash = Hash(p, ContentOf[c]) /\ r.key = KeyOf[c]
      /\ Cardinality(Stored') = Cardinality(Stored) + 1
  BY <1>1, Inserted
<1> HIDE DEF r
<1>4. /\ At(c, "linked") /\ TriggerAdmits(OwnHead(c), call[c].pred)
      /\ IndexesAdmit(KeyOf[c], call[c].pred) /\ backfill' = backfill
  BY DEF Insert
<1>5. /\ Successors(call[c].pred) = {}
      /\ call[c].pred # None => written[call[c].pred[1]] # None
      /\ edits = 0 /\ call[c].pred # None => \E q \in Stored : rows[q].hash = call[c].pred
      /\ call[c].pred = None => Stored = {}
      /\ head = None /\ c \notin Previous => Stored = {}
  BY <1>4, AdmittedPredecessor
<1>6. /\ Hash(p, ContentOf[c]) # None /\ Hash(p, ContentOf[c])[1] = p
      /\ Hash(p, ContentOf[c]) \in Hashes /\ ContentOf[c] # None
  BY NoneIsNothing
<1>7. written'[p] # None /\ \A x : written[x] # None => written'[x] = written[x]
  BY <1>1, <1>6 DEF TypeOK
<1>8. RowsPlaced'
  <2>1. \A q \in Places : written'[q] = None => rows'[q] = None
    BY <1>1, <1>7 DEF RowsPlaced, TypeOK
  <2>2. \A q \in Stored' : rows'[q].hash[1] = q /\ (rows'[q].prev # None => written'[rows'[q].prev[1]] # None)
    BY <1>3, <1>5, <1>6, <1>7 DEF RowsPlaced
  <2> QED  BY <2>1, <2>2 DEF RowsPlaced
<1>9. head'.hash = Hash(p, ContentOf[c]) /\ head' # None
      /\ (edits = 0 => head'.sequence = Cardinality(Stored'))
  <2>1. /\ head' \in Heads \cup {None}
        /\ head' = NextHead(OwnHead(c), Hash(p, ContentOf[c]))
    BY <1>1, <1>4, EmitTyped DEF Emit
  <2>2. head' # None /\ head'.hash = Hash(p, ContentOf[c])
    BY <1>6, <2>1, StoredFinite, ChainAssumption DEF NextHead, OwnHead, Heads, TypeOK
  <2>0. /\ OwnHead(c) = None => head'.sequence = Cardinality(Stored) + 1
        /\ OwnHead(c) # None => head'.sequence = OwnHead(c).sequence + 1
    BY <2>1 DEF NextHead
  <2>3. CASE head # None
    <3>1. OwnHead(c) = head
      BY <2>3 DEF OwnHead
    <3>2. edits = 0 => head.sequence = Cardinality(Stored)
      BY <2>3 DEF Linked
    <3> QED  BY <1>3, <2>0, <2>2, <2>3, <3>1, <3>2
  <2>4. CASE head = None /\ c \in Previous
    <3>1. OwnHead(c) = None
      BY <2>4 DEF OwnHead
    <3> QED  BY <1>3, <2>0, <2>2, <3>1
  <2>5. CASE head = None /\ c \notin Previous
    <3>1. OwnHead(c) = [hash |-> None, sequence |-> 0]
      BY <2>5 DEF OwnHead
    <3>2. OwnHead(c) # None /\ OwnHead(c).sequence = 0
      BY <3>1, NoneIsNothing
    <3>3. Cardinality(Stored) = 0
      BY <1>5, <2>5, FS_EmptySet
    <3> QED  BY <1>3, <2>0, <2>2, <3>2, <3>3
  <2> QED  BY <2>2, <2>3, <2>4, <2>5
<1>10. \A q \in Stored' : rows'[q].prev # Hash(p, ContentOf[c])
  BY <1>1, <1>3, <1>5, <1>6 DEF RowsPlaced
<1>11. HeadEnds'
  BY <1>4, <1>6, <1>7, <1>9, <1>10 DEF HeadEnds, Successors, Migrated
<1>12. SnapshotHolds'
  BY <1>9 DEF SnapshotHolds
<1>13. Linked'
  <2> SUFFICES ASSUME edits = 0
               PROVE  /\ \A x, y \in Stored' : rows'[x].prev = rows'[y].prev => x = y
                      /\ \A x \in Stored' : rows'[x].prev # None =>
                           \E y \in Stored' : rows'[y].hash = rows'[x].prev
                      /\ Stored' # {} => \E x \in Stored' : rows'[x].prev = None
                      /\ head' # None => /\ head'.sequence = Cardinality(Stored')
                                         /\ \E x \in Stored' : rows'[x].hash = head'.hash
                      /\ \A x, y \in Stored' :
                           rows'[x].key = rows'[y].key /\ rows'[x].key # None => x = y
    BY DEF Linked
  <2>1. \A x, y \in Stored' : rows'[x].prev = rows'[y].prev => x = y
    <3>1. \A x \in Stored : rows[x].prev # call[c].pred
      BY <1>5 DEF Successors
    <3> QED  BY <1>3, <3>1 DEF Linked
  <2>2. \A x \in Stored' : rows'[x].prev # None =>
          \E y \in Stored' : rows'[y].hash = rows'[x].prev
    BY <1>3, <1>5 DEF Linked
  <2>3. \E x \in Stored' : rows'[x].prev = None
    <3>1. CASE call[c].pred = None
      BY <1>3, <3>1
    <3>2. CASE call[c].pred # None
      BY <1>3, <1>5, <3>2 DEF Linked
    <3> QED  BY <3>1, <3>2
  <2>4. \E x \in Stored' : rows'[x].hash = head'.hash
    BY <1>3, <1>9
  <2>5. \A x, y \in Stored' : rows'[x].key = rows'[y].key /\ rows'[x].key # None => x = y
    <3>1. KeyOf[c] # None => \A x \in Stored : rows[x].key # KeyOf[c]
      BY <1>4 DEF IndexesAdmit
    <3> QED  BY <1>3, <3>1 DEF Linked
  <2> QED  BY <1>9, <2>1, <2>2, <2>3, <2>4, <2>5
<1> QED  BY <1>8, <1>11, <1>12, <1>13

\* It is the only call in its transaction, and older answers still hold.
LEMMA InsertKeepsCalls ==
  ASSUME IInv, NEW c \in Calls, Insert(c), UNCHANGED edits
  PROVE  CallInv'
<1> USE DEF IInv, LogInv
<1>1. PICK p \in Places :
        /\ written[p] = None
        /\ rows' = [rows EXCEPT ![p] = NewRow(c, p)]
        /\ \/ Answer(c, "event", p)
           \/ KeyOf[c] # None /\ call' = [call EXCEPT ![c] = Idle]
  BY DEF Insert
<1> DEFINE r == NewRow(c, p)
<1>3. /\ p \notin Stored /\ Stored' = Stored \cup {p} /\ r # None
      /\ rows'[p] = r /\ \A q \in Stored : rows'[q] = rows[q]
      /\ r.prev = call[c].pred /\ r.hash = Hash(p, ContentOf[c]) /\ r.key = KeyOf[c]
  BY <1>1, Inserted
<1> HIDE DEF r
<1>4. /\ call'[c].step \notin InTransaction /\ call'[c].step # "linked"
      /\ call'[c].outcome \in {"none", "event"}
      /\ call'[c].outcome = "event" => call'[c].event = p
      /\ \A d \in Calls \ {c} : call'[d] = call[d]
  BY <1>1 DEF Answer, Idle, InTransaction, TypeOK
<1>5. \A d \in Calls \ {c} : call[d].step \notin InTransaction
  BY DEF CallInv, Insert, At, InTransaction
<1>6. \A d \in Calls : call'[d].step \notin InTransaction /\ call'[d].step # "linked"
  BY <1>4, <1>5 DEF InTransaction
<1>7. \A d \in Calls \ Previous : call'[d].outcome # "refused"
  BY <1>4 DEF CallInv
<1>8. edits' = 0 => \A d \in Calls : call'[d].outcome = "event" =>
        /\ call'[d].event \in Stored'
        /\ rows'[call'[d].event].hash = Hash(call'[d].event, ContentOf[d])
        /\ rows'[call'[d].event].key = KeyOf[d]
  BY <1>3, <1>4 DEF CallInv
<1> QED  BY <1>6, <1>7, <1>8 DEF CallInv
\* The backfill's statement reads a tail if there is a row, and its insert
\* gives way to a head that came in between.
LEMMA BackfillKeeps ==
  ASSUME IInv, Backfill, UNCHANGED edits
  PROVE  LogInv' /\ CallInv'
<1> USE DEF IInv, LogInv
<1>1. rows' = rows /\ written' = written /\ call' = call /\ Stored' = Stored /\ Tails' = Tails
  BY BackfillTyped DEF Backfill, Stored, Tails, Successors
<1>2. RowsPlaced'
  BY <1>1 DEF RowsPlaced
<1>3. ~Migrated /\ edits = 0
  BY DEF Backfill, BackfillReads, BackfillWrites, Migrated, HeadEnds
<1>4. \A c \in Calls \ Previous : call[c].step \notin InTransaction
  BY <1>3 DEF CallInv
<1>5. CallInv'
  <2>1. \A c \in Calls : Hits(c)' = Hits(c)
    BY <1>1 DEF Hits
  <2>2. \A c \in Calls : call[c].step = "linked" => c \in Previous
    BY <1>4 DEF InTransaction
  <2> QED  BY <1>1, <1>4, <2>1, <2>2 DEF CallInv
<1>6. CASE BackfillReads
  <2>1. head' = head /\ ~Migrated'
    BY <1>6 DEF BackfillReads, Migrated
  <2>2. HeadEnds'
    BY <1>1, <1>3, <2>1 DEF HeadEnds, Successors
  <2>3. Linked'
    BY <1>1, <2>1 DEF Linked
  <2>4. SnapshotHolds'
    <3> SUFFICES ASSUME head = None
                 PROVE  IF backfill'.found = None THEN Stored = {}
                        ELSE /\ backfill'.found.sequence = Cardinality(Stored)
                             /\ \E p \in Tails : rows[p].hash = backfill'.found.hash
      BY <1>1, <2>1 DEF SnapshotHolds
    <3>1. CASE Tails = {} /\ backfill' = [step |-> "read", found |-> None]
      BY <3>1 DEF HeadEnds
    <3>2. ASSUME NEW p \in Tails,
                 backfill' = [step |-> "read",
                              found |-> [hash |-> rows[p].hash,
                                         sequence |-> Cardinality(Stored)]]
          PROVE  IF backfill'.found = None THEN Stored = {}
                 ELSE /\ backfill'.found.sequence = Cardinality(Stored)
                      /\ \E q \in Tails : rows[q].hash = backfill'.found.hash
      <4>1. backfill'.found \in Heads
        BY <3>2, NoneIsNothing, StoredFinite DEF Heads, Tails
      <4> QED  BY <3>2, <4>1, ChainAssumption
    <3> QED  BY <1>6, <3>1, <3>2 DEF BackfillReads
  <2> QED  BY <1>2, <1>5, <2>2, <2>3, <2>4
<1>7. CASE BackfillWrites
  <2>1. /\ Migrated' /\ backfill.step = "read"
        /\ head' = IF head = None THEN backfill.found ELSE head
    BY <1>7 DEF BackfillWrites, Migrated, TypeOK
  <2>2. SnapshotHolds'
    BY <2>1 DEF SnapshotHolds, Migrated
  <2>3. CASE head # None
    BY <1>1, <1>2, <1>5, <2>1, <2>2, <2>3 DEF HeadEnds, Linked, Successors
  <2>4. CASE head = None /\ backfill.found = None
    <3>1. Stored = {} /\ head' = None
      BY <2>1, <2>4 DEF SnapshotHolds
    <3> QED  BY <1>1, <1>2, <1>5, <2>1, <2>2, <3>1 DEF HeadEnds, Linked
  <2>5. CASE head = None /\ backfill.found # None
    <3>1. PICK p \in Tails : rows[p].hash = backfill.found.hash
      BY <2>1, <2>5 DEF SnapshotHolds
    <3>2. /\ head' = backfill.found /\ head' # None
          /\ head'.sequence = Cardinality(Stored)
      BY <2>1, <2>5 DEF SnapshotHolds
    <3>3. p \in Stored /\ Successors(rows[p].hash) = {}
      BY DEF Tails
    <3>4. head'.hash # None /\ head'.hash[1] = p /\ written[p] # None
      BY <3>1, <3>2, <3>3, NoneIsNothing DEF RowsPlaced
    <3>5. \A q \in Stored' : rows'[q].prev # head'.hash
      BY <1>1, <3>1, <3>2, <3>3 DEF Successors
    <3>6. HeadEnds'
      BY <1>1, <1>3, <2>1, <3>2, <3>4, <3>5 DEF HeadEnds, Successors
    <3>7. Linked'
      BY <1>1, <3>1, <3>2, <3>3 DEF Linked
    <3> QED  BY <1>2, <1>5, <2>2, <3>6, <3>7
  <2> QED  BY <2>3, <2>4, <2>5
<1> QED  BY <1>6, <1>7 DEF Backfill

\* An edit cannot give the head a successor or bring a key back.
LEMMA EditKeeps ==
  ASSUME IInv, Edit, UNCHANGED <<head, backfill, written, call>>
  PROVE  LogInv' /\ CallInv'
<1> USE DEF IInv, LogInv
<1>1. PICK p \in Stored :
        \/ rows' = [rows EXCEPT ![p] = None]
        \/ \E content \in Contents \ {rows[p].content} :
             \/ rows' = [rows EXCEPT ![p].content = content]
             \/ rows' = [rows EXCEPT ![p].content = content, ![p].hash = Hash(p, content)]
  BY DEF Edit
<1>2. p \in Places /\ rows[p] \in Rows /\ rows \in [Places -> Rows \cup {None}]
  BY NoneIsNothing DEF TypeOK
<1>3. \A q \in Places : q # p => rows'[q] = rows[q]
  BY <1>1, <1>2
<1>4. rows'[p] # None => /\ rows'[p].prev = rows[p].prev /\ rows'[p].key = rows[p].key
                         /\ rows'[p].hash[1] = p
  <2>1. rows[p].hash[1] = p /\ \A content \in Contents : Hash(p, content)[1] = p
    BY <1>2, NoneIsNothing DEF RowsPlaced
  <2>2. CASE rows' = [rows EXCEPT ![p] = None]
    BY <1>2, <2>2
  <2>3. ASSUME NEW content \in Contents, rows' = [rows EXCEPT ![p].content = content]
        PROVE  rows'[p].prev = rows[p].prev /\ rows'[p].key = rows[p].key
               /\ rows'[p].hash[1] = p
    BY <1>2, <2>1, <2>3 DEF Rows
  <2>4. ASSUME NEW content \in Contents,
               rows' = [rows EXCEPT ![p].content = content, ![p].hash = Hash(p, content)]
        PROVE  rows'[p].prev = rows[p].prev /\ rows'[p].key = rows[p].key
               /\ rows'[p].hash[1] = p
    BY <1>2, <2>1, <2>4 DEF Rows
  <2> QED  BY <1>1, <2>2, <2>3, <2>4
<1>5. /\ Stored' \subseteq Stored
      /\ \A q \in Stored' : /\ rows'[q].prev = rows[q].prev /\ rows'[q].key = rows[q].key
                            /\ rows'[q].hash[1] = q
  <2>1. \A q \in Stored : rows[q].hash[1] = q
    BY DEF RowsPlaced
  <2> QED  BY <1>2, <1>3, <1>4, <2>1 DEF Stored
<1>6. RowsPlaced'
  <2>1. \A q \in Places : written[q] = None => rows'[q] = None
    <3>1. written[p] # None
      BY <1>2, NoneIsNothing DEF RowsPlaced
    <3> QED  BY <1>3, <3>1 DEF RowsPlaced
  <2> QED  BY <1>5, <2>1 DEF RowsPlaced
<1>7. Migrated /\ Migrated' /\ head # None
  BY DEF Edit, Migrated, HeadEnds
<1>8. HeadEnds'
  BY <1>5, <1>7 DEF HeadEnds, Successors
<1>9. SnapshotHolds'
  BY <1>7 DEF SnapshotHolds
<1>10. edits' # 0
  BY DEF Edit, TypeOK
<1>11. CallInv'
  <2>1. \A c \in Calls : Hits(c) = {} => Hits(c)' = {}
    BY <1>5 DEF Hits
  <2>2. \A c \in Calls : OwnHead(c)' = OwnHead(c)
    BY DEF OwnHead
  <2> QED  BY <1>7, <1>10, <2>1, <2>2 DEF CallInv
<1> QED  BY <1>6, <1>8, <1>9, <1>10, <1>11 DEF Linked

\* Every step keeps the invariant.
LEMMA StepChained == IInv /\ [Next]_vars => IInv'
<1> SUFFICES ASSUME IInv, [Next]_vars PROVE IInv'
  OBVIOUS
<1>0. TypeOK'
  BY StepTyped DEF IInv
<1>1. ASSUME NEW c \in Calls, Emit(c), UNCHANGED edits
      PROVE  LogInv' /\ CallInv'
  <2>1. CASE Begin(c)
    BY <1>1, <2>1, BeginKeeps, LogStays DEF IInv, Begin
  <2>2. CASE Deliver(c)
    BY <1>1, <2>2, DeliverKeeps, LogStays DEF IInv, Deliver
  <2>3. CASE ReadHead(c)
    BY <1>1, <2>3, ReadHeadKeeps, LogStays DEF IInv, ReadHead
  <2>4. CASE Insert(c)
    BY <1>1, <2>4, InsertKeepsLog, InsertKeepsCalls
  <2>5. CASE Refuse(c)
    BY <1>1, <2>5, RefuseKeeps, LogStays DEF IInv, Refuse
  <2>6. CASE Rollback(c)
    BY <1>1, <2>6, RollbackKeeps, LogStays DEF IInv, Rollback
  <2> QED  BY <1>1, <2>1, <2>2, <2>3, <2>4, <2>5, <2>6 DEF Emit
<1>2. CASE Backfill /\ UNCHANGED edits
  BY <1>0, <1>2, BackfillKeeps DEF IInv
<1>3. CASE Edit /\ UNCHANGED <<head, backfill, written, call, anchors, watch>>
  BY <1>0, <1>3, EditKeeps DEF IInv
<1>4. CASE UNCHANGED <<log, call, edits>>
  <2>1. CallInv'
    <3>1. /\ rows' = rows /\ call' = call /\ edits' = edits /\ Stored' = Stored
          /\ (Migrated' <=> Migrated)
          /\ \A c \in Calls : Hits(c)' = Hits(c) /\ OwnHead(c)' = OwnHead(c)
      BY <1>4 DEF log, Stored, Migrated, Hits, OwnHead
    <3> QED  BY <3>1 DEF IInv, CallInv
  <2> QED  BY <1>0, <1>4, <2>1, LogStays DEF IInv
<1>5. \/ \E c \in Calls : Emit(c) /\ UNCHANGED edits
      \/ Backfill /\ UNCHANGED edits
      \/ Edit /\ UNCHANGED <<head, backfill, written, call, anchors, watch>>
      \/ UNCHANGED <<log, call, edits>>
  BY DEF Next, vars
<1> QED  BY <1>0, <1>1, <1>2, <1>3, <1>4, <1>5 DEF IInv

\* The log is one chain: see ChainIsLinear.
THEOREM ChainIsLinearHolds == Spec => []ChainIsLinear
<1>1. IInv => ChainIsLinear
  <2> SUFFICES ASSUME IInv, edits = 0
               PROVE  /\ ~Forked /\ ~Gapped /\ ~InvalidGenesis
                      /\ head # None =>
                           /\ head.sequence = Cardinality(Stored)
                           /\ IF Stored = {} THEN head.hash = None
                              ELSE \E p \in Tails : rows[p].hash = head.hash
    BY DEF ChainIsLinear
  <2>1. ~Forked /\ ~Gapped
    BY DEF IInv, LogInv, Linked, Forked, Gapped
  <2>2. ~InvalidGenesis
    BY DEF IInv, LogInv, Linked, InvalidGenesis, Successors
  <2>3. head # None => /\ head.sequence = Cardinality(Stored)
                       /\ \E p \in Tails : rows[p].hash = head.hash
    BY DEF IInv, LogInv, Linked, HeadEnds, Tails
  <2>4. head # None => Stored # {}
    BY <2>3 DEF Tails
  <2> QED  BY <2>1, <2>2, <2>3, <2>4
<1> QED  BY <1>1, InitChained, StepChained, PTL DEF Spec

\* The database never refuses the new revision: see EmitIsServed.
THEOREM EmitIsServedHolds == Spec => []EmitIsServed
<1>1. IInv => EmitIsServed
  BY DEF IInv, LogInv, CallInv, Linked, EmitIsServed
<1> QED  BY <1>1, InitChained, StepChained, PTL DEF Spec

----------------------------------------------------------------------------
(* The pass of a verifier.                                                 *)

\* What the pass has gone by and is still wrong has been counted.
Seen == \A v \in Verifiers :
          /\ suspect[v] \subseteq Wrong(v)
          /\ \A k \in suspect[v] : k <= checkpoint[v].cursor => checkpoint[v].failures # 0

\* A page counts what is wrong on it, and goes by nothing it has not read.
LEMMA PageCounted ==
  ASSUME TypeOK, Seen, NEW v \in Verifiers, NEW page \in Pages(v), NEW last \in page \cup {0},
         \A k \in page : k <= last
  PROVE  LET next == Advance(v, page, last) IN
         /\ Completes(v, page) =>
              /\ next.cursor = 0
              /\ next.status = "clean" => suspect[v] = {}
         /\ ~Completes(v, page) =>
              /\ next.cursor # 0
              /\ \A k \in suspect[v] : k <= next.cursor => next.failures # 0
<1>1. /\ checkpoint[v] \in [cursor : Nat, failures : Nat, status : {"never", "clean", "failed"}]
      /\ PageSize[v] \in Nat /\ PageSize[v] # 0
  BY ChainAssumption DEF TypeOK
<1>2. /\ page \subseteq Nat \ {0} /\ Cardinality(page) \in Nat
      /\ Cardinality(page \cap Wrong(v)) \in Nat
      /\ Cardinality(page \cap Wrong(v)) = 0 => page \cap Wrong(v) = {}
  BY PageCounts
<1>3. \A k \in suspect[v] : k \in Wrong(v) /\ k \in Examined(v) /\ k \in Nat
  BY ExaminedFinite DEF Seen
<1> DEFINE failures == checkpoint[v].failures + Cardinality(page \cap Wrong(v))
<1>4. failures \in Nat
      /\ (failures = 0 => checkpoint[v].failures = 0 /\ page \cap Wrong(v) = {})
  BY <1>1, <1>2
<1>5. ASSUME Completes(v, page), Advance(v, page, last).status = "clean"
      PROVE  suspect[v] = {}
  <2>1. failures = 0
    BY <1>5 DEF Advance
  <2>2. page = {k \in Examined(v) : k > checkpoint[v].cursor}
    BY <1>1, <1>2, <1>5 DEF Completes, Pages
  <2>3. ASSUME NEW k \in suspect[v] PROVE FALSE
    <3>1. k > checkpoint[v].cursor
      BY <1>1, <1>3, <1>4, <2>1, <2>3 DEF Seen
    <3> QED  BY <1>3, <1>4, <2>1, <2>2, <3>1
  <2> QED  BY <2>3
<1>6. ASSUME ~Completes(v, page)
      PROVE  /\ last # 0
             /\ \A k \in suspect[v] : k <= last => failures # 0
  <2>1. page # {}
    BY <1>1, <1>2, <1>6, FS_EmptySet DEF Completes
  <2>2. last \in page /\ last # 0
    <3>1. PICK k \in page : k \in Nat /\ k # 0 /\ k <= last
      BY <1>2, <2>1
    <3>2. last # 0
      BY <3>1
    <3> QED  BY <3>2
  <2>3. ASSUME NEW k \in suspect[v], k <= last PROVE failures # 0
    <3>1. CASE k <= checkpoint[v].cursor
      BY <1>4, <3>1 DEF Seen
    <3>2. CASE k > checkpoint[v].cursor
      <4>1. k \in page
        <5>1. CASE k = last
          BY <2>2, <5>1
        <5>2. CASE k < last
          BY <1>3, <2>2, <3>2, <5>2 DEF Pages
        <5> QED  BY <1>2, <1>3, <2>2, <2>3, <5>1, <5>2
      <4> QED  BY <1>3, <1>4, <4>1
    <3>3. k \in Nat /\ checkpoint[v].cursor \in Nat
      BY <1>1, <1>3
    <3> QED  BY <3>1, <3>2, <3>3
  <2> QED  BY <2>2, <2>3
<1>7. ~Completes(v, page) => /\ Advance(v, page, last).cursor = last
                             /\ Advance(v, page, last).failures = failures
  BY <1>1 DEF Advance
<1>8. Completes(v, page) => Advance(v, page, last).cursor = 0
  BY DEF Advance
<1> QED  BY <1>5, <1>6, <1>7, <1>8

\* What a verifier examines is left alone by a page, and only gains a window
\* by an anchor.
LEMMA WrongStays ==
  /\ UNCHANGED <<log, anchors>> => \A v \in Verifiers : Wrong(v)' = Wrong(v)
  /\ TypeOK /\ Anchor /\ UNCHANGED log => \A v \in Verifiers : Wrong(v) \subseteq Wrong(v)'
<1>1. ASSUME UNCHANGED <<log, anchors>>, NEW v \in Verifiers
      PROVE  Wrong(v)' = Wrong(v)
  <2>1. rows' = rows /\ anchors' = anchors /\ Stored' = Stored
    BY <1>1 DEF log, Stored
  <2> QED  BY <2>1 DEF Wrong, Examined, Root, InWindow
<1>2. ASSUME TypeOK, Anchor, UNCHANGED log, NEW v \in Verifiers
      PROVE  Wrong(v) \subseteq Wrong(v)'
  <2>1. rows' = rows /\ Stored' = Stored
    BY <1>2 DEF log, Stored
  <2>2. /\ anchors \in Seq(Windows)
        /\ \E w : anchors' = Append(anchors, w)
    BY <1>2 DEF Anchor, TypeOK
  <2>3. \A i \in DOMAIN anchors : i \in DOMAIN anchors' /\ anchors'[i] = anchors[i]
    BY <2>2
  <2> QED  BY <2>1, <2>3 DEF Wrong, Examined, Root, InWindow
<1> QED  BY <1>1, <1>2

\* Every step keeps count.
LEMMA StepSeen == TypeOK /\ Seen /\ [Next]_vars => Seen'
<1> SUFFICES ASSUME TypeOK, Seen, [Next]_vars PROVE Seen'
  OBVIOUS
<1>0. TypeOK'
  BY StepTyped
<1>1. CASE StillWrong /\ UNCHANGED watch
  <2>1. checkpoint' = checkpoint
        /\ \A v \in Verifiers : suspect'[v] = suspect[v] \cap Wrong(v)'
    BY <1>1 DEF StillWrong, watch
  <2> QED  BY <2>1 DEF Seen
<1>2. CASE Anchor /\ UNCHANGED <<log, call, watch, edits, suspect>>
  <2>1. \A v \in Verifiers : Wrong(v) \subseteq Wrong(v)'
    BY <1>2, WrongStays
  <2> QED  BY <1>2, <2>1 DEF Seen, watch
<1>3. CASE UNCHANGED <<log, anchors, checkpoint, suspect>>
  <2>1. \A v \in Verifiers : Wrong(v)' = Wrong(v)
    BY <1>3, WrongStays
  <2> QED  BY <1>3, <2>1 DEF Seen
<1>4. ASSUME NEW v \in Verifiers, VerifyPage(v), NewPass(v),
             UNCHANGED <<log, call, anchors, edits>>
      PROVE  Seen'
  <2>1. PICK page \in Pages(v) : \E last \in page \cup {0} :
          /\ \A k \in page : k <= last
          /\ checkpoint' = [checkpoint EXCEPT ![v] = Advance(v, page, last)]
    BY <1>4 DEF VerifyPage
  <2>0. PICK last \in page \cup {0} :
          /\ \A k \in page : k <= last
          /\ checkpoint' = [checkpoint EXCEPT ![v] = Advance(v, page, last)]
    BY <2>1
  <2>2. /\ checkpoint'[v] = Advance(v, page, last)
        /\ \A u \in Verifiers \ {v} : checkpoint'[u] = checkpoint[u]
    BY <2>0 DEF TypeOK
  <2>3. \A u \in Verifiers : Wrong(u)' = Wrong(u)
    BY <1>4, WrongStays
  <2>4. /\ Completes(v, page) => checkpoint'[v].cursor = 0
        /\ ~Completes(v, page) =>
             /\ checkpoint'[v].cursor # 0
             /\ \A k \in suspect[v] : k <= checkpoint'[v].cursor
                                      => checkpoint'[v].failures # 0
    BY <2>0, <2>2, PageCounted
  <2>5. CASE checkpoint'[v].cursor = 0
    <3>1. /\ suspect'[v] = Wrong(v)
          /\ \A u \in Verifiers \ {v} : suspect'[u] = suspect[u]
      BY <1>4, <2>5 DEF NewPass, TypeOK
    <3>2. \A k \in Wrong(v) : ~(k <= 0)
      BY ExaminedFinite
    <3> QED  BY <2>2, <2>3, <2>5, <3>1, <3>2 DEF Seen
  <2>6. CASE checkpoint'[v].cursor # 0
    <3>1. suspect' = suspect
      BY <1>4, <2>6 DEF NewPass
    <3> QED  BY <2>2, <2>3, <2>4, <2>6, <3>1 DEF Seen
  <2> QED  BY <2>5, <2>6
<1>5. \/ StillWrong /\ UNCHANGED watch
      \/ Anchor /\ UNCHANGED <<log, call, watch, edits, suspect>>
      \/ UNCHANGED <<log, anchors, checkpoint, suspect>>
      \/ \E v \in Verifiers : /\ VerifyPage(v) /\ NewPass(v)
                              /\ UNCHANGED <<log, call, anchors, edits>>
  BY DEF Next, vars, CycleFails, watch
<1> QED  BY <1>1, <1>2, <1>3, <1>4, <1>5

\* A clean pass missed nothing: see CleanPassIsHonest.
THEOREM CleanPassIsHonestHolds == Spec => CleanPassIsHonest
<1>1. Init => TypeOK /\ Seen
  BY InitTyped DEF Init, Seen
<1>2. TypeOK /\ Seen /\ [Next]_vars => TypeOK' /\ Seen'
  BY StepTyped, StepSeen
<1>3. TypeOK /\ Seen /\ [Next]_vars =>
        [\A v \in Verifiers :
           VerifyPage(v) /\ checkpoint'[v].cursor = 0 /\ checkpoint'[v].status = "clean"
           => suspect[v] = {}]_vars
  <2> SUFFICES ASSUME TypeOK, Seen, NEW v \in Verifiers, VerifyPage(v),
                      checkpoint'[v].cursor = 0, checkpoint'[v].status = "clean"
               PROVE  suspect[v] = {}
    OBVIOUS
  <2>1. PICK page \in Pages(v) : \E last \in page \cup {0} :
          /\ \A k \in page : k <= last
          /\ checkpoint' = [checkpoint EXCEPT ![v] = Advance(v, page, last)]
    BY DEF VerifyPage
  <2>2. PICK last \in page \cup {0} :
          /\ \A k \in page : k <= last
          /\ checkpoint' = [checkpoint EXCEPT ![v] = Advance(v, page, last)]
    BY <2>1
  <2>3. checkpoint'[v] = Advance(v, page, last)
    BY <2>2 DEF TypeOK
  <2> QED  BY <2>2, <2>3, PageCounted
<1> QED  BY <1>1, <1>2, <1>3, PTL DEF Spec, CleanPassIsHonest
==============================================================================
