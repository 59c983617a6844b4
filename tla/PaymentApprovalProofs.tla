----------------------- MODULE PaymentApprovalProofs -----------------------
(***************************************************************************)
(* Proofs about PaymentApproval, for any members, roles, thresholds,       *)
(* sequence of policies and number of requests, with or without crashes.   *)
(***************************************************************************)
EXTENDS PaymentApproval, FiniteSetTheorems, TLAPS

----------------------------------------------------------------------------
(* The inductive invariant.                                                *)

Deciding == {"list", "authorize", "version", "sign", "append", "emit", "transition"}

\* The event a request with these locals logs (EventOf), without the request.
EventFor(q) ==
  [decision |-> IF q.to = "rejected" THEN "reject" ELSE "approve",
   from |-> q.seen, to |-> q.to, actor |-> q.member]

\* As many signatures as the evaluation demanded, with the member's own.
Enough(q) == q.to = "approved" => q.needed <= Cardinality(Signers \cup {q.member})

\* A member's approval: who decides, from what, and with which signatures.
GoodApproval(q) ==
  /\ q.seen \in Open /\ q.to \in {"approved", "awaiting_second_approval"}
  /\ Enough(q)
  /\ q.step \in {"append", "emit", "transition"} => q.member \in Signers
  /\ q.step \in {"emit", "transition"} => q.member \in approvalIds

\* What a request keeps in its local variables is still true when it acts.
GoodLocals(q) ==
  /\ q.step \in {"insert", "sign", "gate", "handOff"} => q.under \in Versions
  /\ q.step \in Deciding => q.member \in Members
  /\ q.step \in {"list", "authorize"} => q.seen \in Open
  /\ q.step = "authorize" => q.existing \subseteq Signers
  /\ q.step \in {"version", "sign", "append"} => GoodApproval(q)
  /\ q.step \in {"emit", "transition"} =>
       \/ GoodApproval(q)
       \/ q.to = "rejected" /\ q.seen \in Open \cup {"approved"}
  /\ q.step = "transition" => EventFor(q) \in decisions
  /\ q.step = "handOff" => Granted(q.under, {m \in Signers : signedAt[m] = q.under})

\* One event per idempotency key, and an approval is signed.
GoodLog ==
  /\ \A d, e \in decisions : d.decision = e.decision /\ d.from = e.from => d = e
  /\ \A d \in decisions : d.decision = "approve" => d.actor \in approvalIds

IInv ==
  /\ TypeOK /\ GoodLog /\ ApprovedHasAuthority
  /\ \A r \in Requests : GoodLocals(req[r])

----------------------------------------------------------------------------
(* Signatures are never taken back, and more of them grant no less.        *)

\* Members are finitely many, and so are those who signed.
LEMMA SignersFinite ==
  ASSUME NEW S \in SUBSET Members
  PROVE  IsFiniteSet(S) /\ Cardinality(S) \in Nat
  BY ApprovalAssumption, FS_Subset, FS_CardinalityType

\* More members, no fewer signatures.
LEMMA MoreIsMore ==
  ASSUME NEW T \in SUBSET Members, NEW S \in SUBSET T
  PROVE  Cardinality(S) <= Cardinality(T)
  BY SignersFinite, FS_Subset

\* A policy version has an outcome and a list of roles.
LEMMA PolicyFacts ==
  ASSUME NEW v \in Versions
  PROVE  /\ Policies[v].outcome \in Outcomes
         /\ Policies[v].required \in Seq(Tokens)
         /\ Len(Policies[v].required) \in Nat
         /\ DOMAIN Policies[v].required = 1..Len(Policies[v].required)
<1> DEFINE Rules == [outcome : Outcomes, required : Seq(Tokens)]
<1>1. Policies \in Seq(Rules)
  BY ApprovalAssumption
<1>2. Policies[v] \in Rules
  <2> HIDE DEF Rules
  <2>1. QED
    BY <1>1 DEF Versions
<1>3. QED
  BY <1>2

\* hasRequiredRoleQuorum only asks for more roles.
LEMMA GrantedGrows ==
  ASSUME NEW v \in Versions, NEW T \in SUBSET Members, NEW S \in SUBSET T, Granted(v, S)
  PROVE  Granted(v, T)
<1> DEFINE roles(U) == {RoleOf[m] : m \in U}
           required == Policies[v].required
           named == {required[n] : n \in DOMAIN required} \ {"signer"}
           forAny == {n \in DOMAIN required : required[n] = "signer"}
<1>1. roles(S) \subseteq roles(T) /\ roles(T) \subseteq {"admin", "approver"}
  BY ApprovalAssumption
<1>2. IsFiniteSet(roles(T) \ named)
  <2>1. IsFiniteSet({"admin", "approver"})
    <3>1. IsFiniteSet({"admin"})
      BY FS_Singleton
    <3>2. IsFiniteSet({"admin"} \cup {"approver"})
      BY <3>1, FS_AddElement
    <3>3. {"admin", "approver"} = {"admin"} \cup {"approver"}
      OBVIOUS
    <3>4. QED
      BY <3>2, <3>3
  <2>2. QED
    BY <1>1, <2>1, FS_Subset
<1>3. roles(S) \ named \in SUBSET (roles(T) \ named)
  BY <1>1
<1>4. /\ Cardinality(roles(T) \ named) \in Nat /\ Cardinality(roles(S) \ named) \in Nat
      /\ Cardinality(roles(S) \ named) <= Cardinality(roles(T) \ named)
  BY <1>2, <1>3, FS_Subset, FS_CardinalityType
<1>5. Cardinality(forAny) \in Nat
  <2>1. IsFiniteSet(1..Len(required))
    BY PolicyFacts, FS_Interval
  <2>2. forAny \in SUBSET (1..Len(required))
    BY PolicyFacts
  <2>3. QED
    BY <2>1, <2>2, FS_Subset, FS_CardinalityType
<1>6. ASSUME Quorum(required, roles(S)) PROVE Quorum(required, roles(T))
  <2>1. named \subseteq roles(S) /\ Cardinality(roles(S) \ named) >= Cardinality(forAny)
    BY <1>6 DEF Quorum
  <2>2. named \subseteq roles(T) /\ Cardinality(roles(T) \ named) >= Cardinality(forAny)
    BY <1>1, <1>4, <1>5, <2>1
  <2>3. QED
    BY <1>6, <2>2 DEF Quorum
<1>7. QED
  BY <1>1, <1>6 DEF Granted

----------------------------------------------------------------------------
(* What the actions have in common.                                        *)

\* Signatures, listed approvals and logged events stay.
Grows ==
  /\ \A m \in Members : signedAt[m] # 0 => signedAt'[m] = signedAt[m]
  /\ approvalIds \subseteq approvalIds'
  /\ decisions \subseteq decisions'

\* So the locals of a request that does nothing stay good.
LEMMA LocalsPersist ==
  ASSUME TypeOK, Grows, NEW q \in Locals, GoodLocals(q)
  PROVE  GoodLocals(q)'
<1>1. Signers \subseteq Signers' /\ Signers' \subseteq Members
  BY DEF Grows, Signers
<1>2. ASSUME q.member \in Members, GoodApproval(q) PROVE GoodApproval(q)'
  <2>1. Enough(q)'
    <3>1. /\ Signers' \cup {q.member} \in SUBSET Members
          /\ Signers \cup {q.member} \in SUBSET (Signers' \cup {q.member})
      BY <1>1, <1>2
    <3>2. /\ Cardinality(Signers \cup {q.member}) \in Nat
          /\ Cardinality(Signers' \cup {q.member}) \in Nat
          /\ Cardinality(Signers \cup {q.member}) <= Cardinality(Signers' \cup {q.member})
      BY <3>1, MoreIsMore, SignersFinite
    <3>3. QED
      BY <1>2, <3>2 DEF GoodApproval, Enough, Locals
  <2>2. QED
    BY <1>1, <1>2, <2>1 DEF GoodApproval, Grows
<1>3. ASSUME q.under \in Versions, Granted(q.under, {m \in Signers : signedAt[m] = q.under})
      PROVE  Granted(q.under, {m \in Signers' : signedAt'[m] = q.under})
  <2>1. {m \in Signers : signedAt[m] = q.under} \in SUBSET {m \in Signers' : signedAt'[m] = q.under}
    BY <1>1 DEF Grows, Signers
  <2>2. {m \in Signers' : signedAt'[m] = q.under} \in SUBSET Members
    BY <1>1
  <2>3. QED
    BY <1>3, <2>1, <2>2, GrantedGrows
<1>4. EventFor(q) \in decisions => EventFor(q) \in decisions'
  BY DEF Grows
<1>5. q.step = "handOff" => Granted(q.under, {m \in Signers' : signedAt'[m] = q.under})
  BY <1>3 DEF GoodLocals
<1>6. QED
  BY <1>1, <1>2, <1>4, <1>5 DEF GoodLocals, Deciding, EventFor

\* One request moves on, and what it writes is as it should be.
LEMMA WriteStep ==
  ASSUME IInv, Grows, NEW r \in Requests, NEW q \in Locals, req' = [req EXCEPT ![r] = q],
         GoodLocals(q)',
         version' \in Versions, status' \in Statuses, createdUnder' \in Versions \cup {0},
         ruling' \in Events \cup {NoEvent}, approvalIds' \subseteq Signers',
         signedAt' \in [Members -> Versions \cup {0}], stale' \subseteq Signers',
         decisions' \subseteq Events, GoodLog', ApprovedHasAuthority'
  PROVE  IInv'
<1>1. req' \in [Requests -> Locals]
  BY DEF IInv, TypeOK
<1>2. ASSUME NEW s \in Requests PROVE GoodLocals(req[s])'
  <2>1. PICK p \in Locals : p = req'[s]
    BY <1>1
  <2>2. GoodLocals(p)'
    <3>1. CASE s = r
      <4>1. p = q
        BY <2>1, <3>1 DEF IInv, TypeOK
      <4>2. QED
        BY <4>1
    <3>2. CASE s # r
      <4>1. p = req[s]
        BY <2>1, <3>2 DEF IInv, TypeOK
      <4>2. GoodLocals(p)
        BY <4>1 DEF IInv
      <4>3. QED
        BY <4>2, LocalsPersist DEF IInv
    <3>3. QED
      BY <3>1, <3>2
  <2>3. QED
    BY <2>1, <2>2 DEF GoodLocals, GoodApproval, Enough, EventFor
<1>3. QED
  BY <1>1, <1>2 DEF IInv, TypeOK

\* One request moves on and nothing else changes.
LEMMA ReadStep ==
  ASSUME IInv, NEW r \in Requests, NEW q \in Locals, req' = [req EXCEPT ![r] = q],
         GoodLocals(q), UNCHANGED <<version, intentRow, approvalRows, decisions>>
  PROVE  IInv'
<1>1. /\ UNCHANGED <<version, status, createdUnder, ruling, approvalIds>>
      /\ UNCHANGED <<signedAt, stale, decisions>>
  BY DEF intentRow, approvalRows
<1>2. Grows /\ Signers' = Signers
  BY <1>1 DEF Grows, Signers
<1>3. GoodLocals(q)'
  BY <1>2, LocalsPersist DEF IInv
<1>4. GoodLog' /\ ApprovedHasAuthority'
  BY <1>1 DEF IInv, GoodLog, ApprovedHasAuthority
<1>5. QED
  BY <1>1, <1>2, <1>3, <1>4, WriteStep DEF IInv, TypeOK

\* A request that is over.
LEMMA DoneIsGood ==
  /\ [Idle EXCEPT !.step = "done"] \in Locals
  /\ GoodLocals([Idle EXCEPT !.step = "done"])
  BY DEF Idle, Locals, Steps, Statuses, GoodLocals, Deciding

----------------------------------------------------------------------------
(* The actions.                                                            *)

\* Steps that only read.
LEMMA ReadsPreserve ==
  ASSUME IInv, NEW r \in Requests,
         \/ Create(r) \/ ListApprovals(r) \/ ResolveVersion(r) \/ Execute(r) \/ Crash(r)
         \/ \E m \in Members : Approve(r, m) \/ Reject(r, m)
  PROVE  IInv'
<1>1. req \in [Requests -> Locals] /\ GoodLocals(req[r]) /\ version \in Versions
  BY DEF IInv, TypeOK
<1>2. version \in Nat /\ {"none"} \cup Open \cup {"approved"} \subseteq Statuses /\ Signers \subseteq Members
  BY <1>1 DEF Versions, Statuses, Open, Signers
<1>3. CASE Create(r)
  <2>1. PICK q : q = [req[r] EXCEPT !.step = "insert", !.under = version]
    OBVIOUS
  <2>2. q \in Locals /\ GoodLocals(q)
    BY <1>1, <1>2, <2>1 DEF Locals, Steps, GoodLocals, Deciding
  <2>3. req' = [req EXCEPT ![r] = q]
    BY <1>1, <1>3, <2>1 DEF Create
  <2>4. QED
    BY <1>3, <2>2, <2>3, ReadStep DEF Create
<1>4. CASE ListApprovals(r)
  <2>1. PICK q : q = [req[r] EXCEPT !.step = "authorize", !.existing = Signers]
    OBVIOUS
  <2>2. q \in Locals /\ GoodLocals(q)
    BY <1>1, <1>2, <1>4, <2>1 DEF ListApprovals, At, Locals, Steps, GoodLocals, Deciding
  <2>3. req' = [req EXCEPT ![r] = q]
    BY <1>1, <1>4, <2>1 DEF ListApprovals
  <2>4. QED
    BY <1>4, <2>2, <2>3, ReadStep DEF ListApprovals
<1>5. CASE ResolveVersion(r)
  <2>1. PICK q : q = [req[r] EXCEPT !.step = "sign", !.under = version]
    OBVIOUS
  <2>2. req[r].step = "version" /\ q \in Locals
    BY <1>1, <1>2, <1>5, <2>1 DEF ResolveVersion, At, Locals, Steps
  <2>3. GoodLocals(q)
    BY <1>1, <2>1, <2>2 DEF Locals, GoodLocals, GoodApproval, Enough, Deciding
  <2>4. req' = [req EXCEPT ![r] = q]
    BY <1>1, <1>5, <2>1 DEF ResolveVersion
  <2>5. QED
    BY <1>5, <2>2, <2>3, <2>4, ReadStep DEF ResolveVersion
<1>6. CASE Execute(r)
  <2>1. PICK q : q = [req[r] EXCEPT !.step = "gate", !.under = version]
    OBVIOUS
  <2>2. q \in Locals /\ GoodLocals(q)
    BY <1>1, <1>2, <2>1 DEF Locals, Steps, GoodLocals, Deciding
  <2>3. req' = [req EXCEPT ![r] = q]
    BY <1>1, <1>6, <2>1 DEF Execute
  <2>4. QED
    BY <1>6, <2>2, <2>3, ReadStep DEF Execute
<1>7. CASE Crash(r)
  BY <1>7, DoneIsGood, ReadStep DEF Crash, Finish
<1>8. ASSUME NEW m \in Members, Approve(r, m) PROVE IInv'
  <2>1. PICK q : q = [Idle EXCEPT !.step = "list", !.member = m, !.seen = status]
    OBVIOUS
  <2>2. q \in Locals /\ GoodLocals(q)
    BY <1>2, <1>8, <2>1 DEF Approve, Idle, Locals, Steps, GoodLocals, Deciding
  <2>3. req' = [req EXCEPT ![r] = q]
    BY <1>8, <2>1 DEF Approve
  <2>4. QED
    BY <1>8, <2>2, <2>3, ReadStep DEF Approve
<1>9. ASSUME NEW m \in Members, Reject(r, m) PROVE IInv'
  <2>1. PICK q : q = [Idle EXCEPT !.step = "emit", !.member = m, !.seen = status, !.to = "rejected"]
    OBVIOUS
  <2>2. q \in Locals /\ GoodLocals(q)
    BY <1>2, <1>9, <2>1 DEF Reject, Idle, Locals, Steps, Statuses, GoodLocals, Deciding
  <2>3. req' = [req EXCEPT ![r] = q]
    BY <1>9, <2>1 DEF Reject
  <2>4. QED
    BY <1>9, <2>2, <2>3, ReadStep DEF Reject
<1>10. QED
  BY <1>3, <1>4, <1>5, <1>6, <1>7, <1>8, <1>9

\* authorizeApproval: with the member's own signature to come, the signatures
\* it counted are as many as it demands.
LEMMA AuthorizePreserves ==
  ASSUME IInv, NEW r \in Requests, Authorize(r)
  PROVE  IInv'
<1> DEFINE m == req[r].member
           existing == req[r].existing
           needed == Needed(m)
           refused == needed > 1 /\ m \in existing
<1>1. req \in [Requests -> Locals] /\ req[r] \in Locals /\ GoodLocals(req[r]) /\ req[r].step = "authorize"
  BY DEF IInv, TypeOK, Authorize, At
<1>2. m \in Members /\ existing \subseteq Signers /\ Signers \subseteq Members /\ req[r].seen \in Open
  BY <1>1 DEF GoodLocals, Deciding, Signers
<1>3. needed \in Nat
  BY PolicyFacts DEF Needed, AtLeast, IInv, TypeOK
<1> HIDE DEF needed
<1>4. CASE refused
  <2>1. Finish(r)
    BY <1>4 DEF Authorize, needed
  <2>2. QED
    BY <2>1, DoneIsGood, ReadStep DEF Authorize, Finish
<1>5. CASE ~refused
  <2>1. PICK to : to = IF IsAdditional(existing, needed)
                       THEN "awaiting_second_approval" ELSE "approved"
    OBVIOUS
  <2>2. PICK q : q = [req[r] EXCEPT !.step = "version", !.existing = {}, !.needed = needed, !.to = to]
    OBVIOUS
  <2>3. req' = [req EXCEPT ![r] = q]
    BY <1>1, <1>5, <2>1, <2>2 DEF Authorize, needed
  <2>4. to \in {"approved", "awaiting_second_approval"} /\ to \in Statuses
    BY <2>1 DEF Statuses, Open
  <2>5. q \in Locals
    BY <1>1, <1>3, <2>2, <2>4 DEF Locals, Steps
  <2>6. to = "approved" => needed <= Cardinality(Signers \cup {m})
    <3>1. SUFFICES ASSUME ~IsAdditional(existing, needed) PROVE needed <= Cardinality(Signers \cup {m})
      BY <2>1
    <3>2. /\ existing \cup {m} \in SUBSET (Signers \cup {m})
          /\ Signers \cup {m} \in SUBSET Members
          /\ existing \in SUBSET Members
      BY <1>2
    <3>3. /\ Cardinality(existing \cup {m}) <= Cardinality(Signers \cup {m})
          /\ Cardinality(existing \cup {m}) \in Nat /\ Cardinality(Signers \cup {m}) \in Nat
          /\ Cardinality(existing) \in Nat /\ IsFiniteSet(existing)
      BY <3>2, MoreIsMore, SignersFinite
    <3>4. Cardinality(existing \cup {m}) = IF m \in existing THEN Cardinality(existing)
                                                             ELSE Cardinality(existing) + 1
      BY <3>3, FS_AddElement
    <3>5. CASE needed > 1
      <4>1. m \notin existing
        BY <1>5, <3>5
      <4>2. needed <= Cardinality(existing) + 1
        BY <1>3, <3>1, <3>3, <3>5 DEF IsAdditional
      <4>3. QED
        BY <1>3, <3>3, <3>4, <4>1, <4>2
    <3>6. CASE ~(needed > 1)
      <4>1. existing \cup {m} # {}
        OBVIOUS
      <4>2. Cardinality(existing \cup {m}) # 0
        BY <3>2, <4>1, SignersFinite, FS_EmptySet
      <4>3. QED
        BY <1>3, <3>3, <3>6, <4>2
    <3>7. QED
      BY <3>5, <3>6
  <2>7. /\ q.step = "version" /\ q.member = m /\ q.seen = req[r].seen
        /\ q.to = to /\ q.needed = needed
    BY <1>1, <2>2 DEF Locals
  <2>8. GoodLocals(q)
    BY <1>2, <2>4, <2>6, <2>7 DEF GoodLocals, GoodApproval, Enough, Deciding
  <2>9. QED
    BY <2>3, <2>5, <2>8, ReadStep DEF Authorize
<1>6. QED
  BY <1>4, <1>5

\* Steps that write a signature or an approval's listing.
LEMMA SignPreserves ==
  ASSUME IInv, NEW r \in Requests, Sign(r)
  PROVE  IInv'
<1> DEFINE m == req[r].member
           v == req[r].under
<1>1. /\ req \in [Requests -> Locals] /\ req[r] \in Locals /\ GoodLocals(req[r])
      /\ req[r].step = "sign" /\ signedAt \in [Members -> Versions \cup {0}]
  BY DEF IInv, TypeOK, Sign, At
<1>2. m \in Members /\ v \in Versions /\ v # 0 /\ GoodApproval(req[r])
  BY <1>1 DEF GoodLocals, Deciding, Versions
<1>3. CASE signedAt[m] # 0
  <2>1. Finish(r) /\ signedAt' = signedAt
    BY <1>3 DEF Sign
  <2>2. QED
    BY <2>1, DoneIsGood, ReadStep DEF Sign, Finish, approvalRows
<1>4. CASE signedAt[m] = 0
  <2>1. PICK q : q = [req[r] EXCEPT !.step = "append", !.under = 0]
    OBVIOUS
  <2>2. /\ signedAt' = [signedAt EXCEPT ![m] = v]
        /\ req' = [req EXCEPT ![r] = q]
        /\ UNCHANGED <<version, status, createdUnder, ruling, approvalIds>>
        /\ UNCHANGED <<stale, decisions>>
    BY <1>1, <1>4, <2>1 DEF Sign, intentRow
  <2>3. /\ Grows /\ Signers' = Signers \cup {m}
        /\ signedAt' \in [Members -> Versions \cup {0}]
    BY <1>1, <1>2, <1>4, <2>2 DEF Grows, Signers
  <2>4. /\ q \in Locals /\ q.step = "append" /\ q.member = m /\ q.seen = req[r].seen
        /\ q.to = req[r].to /\ q.needed = req[r].needed
    BY <1>1, <2>1 DEF Locals, Steps
  <2>5. GoodLocals(q)'
    <3>1. Signers' \cup {m} = Signers \cup {m}
      BY <2>3
    <3>2. q.to = "approved" => q.needed <= Cardinality(Signers' \cup {q.member})
      BY <1>2, <2>4, <3>1 DEF GoodApproval, Enough
    <3>3. GoodApproval(q)'
      BY <1>2, <2>3, <2>4, <3>2 DEF GoodApproval, Enough
    <3>4. QED
      BY <1>2, <2>4, <3>3 DEF GoodLocals, Deciding
  <2>6. GoodLog' /\ ApprovedHasAuthority'
    BY <2>2 DEF IInv, GoodLog, ApprovedHasAuthority
  <2>7. QED
    BY <2>2, <2>3, <2>4, <2>5, <2>6, WriteStep DEF IInv, TypeOK
<1>5. QED
  BY <1>3, <1>4

\* Once signed, an approval is listed.
LEMMA AppendPreserves ==
  ASSUME IInv, NEW r \in Requests, AppendApprovalId(r)
  PROVE  IInv'
<1>1. /\ req \in [Requests -> Locals] /\ req[r] \in Locals /\ GoodLocals(req[r])
      /\ req[r].step = "append"
  BY DEF IInv, TypeOK, AppendApprovalId, At
<1>2. GoodApproval(req[r]) /\ req[r].member \in Signers /\ req[r].member \in Members
  BY <1>1 DEF GoodLocals, GoodApproval, Deciding
<1>3. PICK q : q = [req[r] EXCEPT !.step = "emit"]
  OBVIOUS
<1>4. /\ req' = [req EXCEPT ![r] = q] /\ approvalIds' = approvalIds \cup {req[r].member}
      /\ UNCHANGED <<version, status, createdUnder, ruling>> /\ UNCHANGED <<signedAt, stale, decisions>>
  BY <1>1, <1>3 DEF AppendApprovalId, Goto, approvalRows
<1>5. /\ q \in Locals /\ q.step = "emit" /\ q.member = req[r].member /\ q.seen = req[r].seen
      /\ q.to = req[r].to /\ q.needed = req[r].needed
  BY <1>1, <1>3 DEF Locals, Steps
<1>6. Grows /\ Signers' = Signers
  BY <1>4 DEF Grows, Signers
<1>7. GoodLocals(q)'
  <2>1. GoodApproval(q)'
    BY <1>2, <1>4, <1>5, <1>6 DEF GoodApproval, Enough
  <2>2. QED
    BY <1>2, <1>5, <2>1 DEF GoodLocals, Deciding
<1>8. GoodLog' /\ ApprovedHasAuthority'
  BY <1>4 DEF IInv, GoodLog, ApprovedHasAuthority
<1>9. QED
  BY <1>2, <1>4, <1>5, <1>6, <1>7, <1>8, WriteStep DEF IInv, TypeOK

\* Once logged, the event of a decision is the only one under its key.
LEMMA EmitPreserves ==
  ASSUME IInv, NEW r \in Requests, EmitDecision(r)
  PROVE  IInv'
<1> DEFINE e == EventOf(r)
<1>1. /\ req \in [Requests -> Locals] /\ req[r] \in Locals /\ GoodLocals(req[r])
      /\ req[r].step = "emit"
  BY DEF IInv, TypeOK, EmitDecision, At
<1>2. req[r].member \in Members /\ e = EventFor(req[r])
  BY <1>1 DEF GoodLocals, Deciding, EventOf, EventFor
<1>3. e \in Events
  BY <1>1, <1>2 DEF Events, EventFor, Locals
<1>4. CASE Clash(e)
  <2>1. Finish(r) /\ decisions' = decisions
    BY <1>4 DEF EmitDecision
  <2>2. QED
    BY <2>1, DoneIsGood, ReadStep DEF EmitDecision, Finish
<1>5. CASE ~Clash(e)
  <2>1. PICK q : q = [req[r] EXCEPT !.step = "transition"]
    OBVIOUS
  <2>2. Logged(e) = e
    BY <1>5 DEF Clash, Logged
  <2>3. /\ req' = [req EXCEPT ![r] = q] /\ decisions' = decisions \cup {e}
        /\ UNCHANGED <<version, status, createdUnder, ruling, approvalIds>>
        /\ UNCHANGED <<signedAt, stale>>
    BY <1>1, <1>5, <2>1, <2>2 DEF EmitDecision, Goto, intentRow, approvalRows
  <2>4. Grows /\ Signers' = Signers
    BY <2>3 DEF Grows, Signers
  <2>5. /\ q \in Locals /\ q.step = "transition" /\ q.member = req[r].member
        /\ q.seen = req[r].seen /\ q.to = req[r].to /\ q.needed = req[r].needed
    BY <1>1, <2>1 DEF Locals, Steps
  <2>6. EventFor(q) = e
    BY <1>2, <2>5 DEF EventFor
  <2>7. GoodLocals(q)'
    <3>1. GoodApproval(req[r]) => GoodApproval(q)'
      BY <1>1, <2>3, <2>4, <2>5 DEF GoodApproval, Enough
    <3>2. EventFor(q) \in decisions'
      BY <2>3, <2>6
    <3>3. QED
      BY <1>1, <1>2, <2>5, <3>1, <3>2 DEF GoodLocals, Deciding, EventFor
  <2>8. GoodLog'
    <3>1. e.decision = "approve" => e.actor \in approvalIds
      <4>1. e.decision = "approve" => req[r].to # "rejected"
        BY <1>2 DEF EventFor
      <4>2. req[r].to # "rejected" => req[r].member \in approvalIds
        BY <1>1 DEF GoodLocals, GoodApproval
      <4>3. e.actor = req[r].member
        BY <1>2 DEF EventFor
      <4>4. QED
        BY <4>1, <4>2, <4>3
    <3>2. \A d \in decisions : d.decision = e.decision /\ d.from = e.from => d = e
      BY <1>5 DEF Clash
    <3>3. QED
      BY <2>3, <3>1, <3>2 DEF IInv, GoodLog
  <2>9. ApprovedHasAuthority'
    BY <2>3 DEF IInv, ApprovedHasAuthority
  <2>10. QED
    BY <1>3, <2>3, <2>4, <2>5, <2>7, <2>8, <2>9, WriteStep DEF IInv, TypeOK
<1>6. QED
  BY <1>4, <1>5

\* A decision about to be applied is logged, under a key no other event has.
LEMMA TransitionFacts ==
  ASSUME IInv, NEW r \in Requests, At(r, "transition")
  PROVE  /\ EventOf(r) \in decisions /\ Logged(EventOf(r)) = EventOf(r)
         /\ req[r].member \in Members /\ GoodLocals(req[r])
         /\ \/ GoodApproval(req[r]) /\ req[r].member \in approvalIds /\ From(r) \in Open
            \/ req[r].to = "rejected" /\ From(r) \in Open \cup {"approved"}
<1> DEFINE e == EventOf(r)
<1>1. GoodLocals(req[r]) /\ req[r].step = "transition"
  BY DEF IInv, At
<1>2. e \in decisions /\ req[r].member \in Members
  BY <1>1 DEF GoodLocals, Deciding, EventOf, EventFor
<1> HIDE DEF e
<1>3. Logged(e) = e
  <2>1. \A d \in decisions : d.decision = e.decision /\ d.from = e.from => d = e
    BY <1>2 DEF IInv, GoodLog
  <2>2. \E d \in decisions : d.decision = e.decision /\ d.from = e.from
    BY <1>2
  <2>3. QED
    BY <2>1, <2>2 DEF Logged
<1>4. CASE GoodApproval(req[r])
  <2>1. req[r].member \in approvalIds /\ req[r].seen \in Open
    BY <1>1, <1>4 DEF GoodApproval
  <2>2. From(r) \in Open
    BY <2>1 DEF From, Open
  <2>3. QED
    BY <1>1, <1>2, <1>3, <1>4, <2>1, <2>2 DEF e
<1>5. CASE req[r].to = "rejected" /\ req[r].seen \in Open \cup {"approved"}
  BY <1>1, <1>2, <1>3, <1>5 DEF e, From
<1>6. QED
  BY <1>1, <1>4, <1>5 DEF GoodLocals

\* The decision is applied, if the status is the one expected.
LEMMA TransitionPreserves ==
  ASSUME IInv, NEW r \in Requests, Transition(r)
  PROVE  IInv'
<1> DEFINE e == EventOf(r)
<1>1. /\ At(r, "transition") /\ Finish(r)
      /\ UNCHANGED <<version, createdUnder, approvalIds>> /\ UNCHANGED <<signedAt, stale, decisions>>
      /\ IF status = From(r) THEN status' = req[r].to /\ ruling' = Logged(e)
         ELSE UNCHANGED <<status, ruling>>
  BY DEF Transition, approvalRows
<1>2. /\ e \in decisions /\ Logged(e) = e
      /\ \/ GoodApproval(req[r]) /\ req[r].member \in approvalIds
         \/ req[r].to = "rejected"
  BY <1>1, TransitionFacts
<1>3. /\ req[r] \in Locals /\ e \in Events
      /\ e.actor = req[r].member /\ (req[r].to # "rejected" => e.decision = "approve")
  BY <1>2 DEF IInv, TypeOK, EventOf
<1> HIDE DEF e
<1>4. Grows /\ Signers' = Signers
  BY <1>1 DEF Grows, Signers
<1>5. status' \in Statuses /\ ruling' \in Events \cup {NoEvent}
  BY <1>1, <1>2, <1>3 DEF IInv, TypeOK, Locals
<1>6. ApprovedHasAuthority'
  <2>1. CASE status = From(r)
    <3>1. status' = req[r].to /\ ruling' = e
      BY <1>1, <1>2, <2>1
    <3>2. status' \in {"approved", "dispatching"} => e.decision = "approve" /\ e.actor \in approvalIds'
      BY <1>1, <1>2, <1>3, <3>1 DEF GoodApproval
    <3>3. QED
      BY <3>1, <3>2 DEF ApprovedHasAuthority
  <2>2. CASE status # From(r)
    BY <1>1, <2>2 DEF IInv, ApprovedHasAuthority
  <2>3. QED
    BY <2>1, <2>2
<1>7. GoodLog'
  BY <1>1 DEF IInv, GoodLog
<1>8. PICK q : q = [Idle EXCEPT !.step = "done"]
  OBVIOUS
<1>9. q \in Locals /\ GoodLocals(q)' /\ req' = [req EXCEPT ![r] = q]
  BY <1>1, <1>4, <1>8, DoneIsGood, LocalsPersist DEF IInv, Finish
<1>10. QED
  BY <1>1, <1>4, <1>5, <1>6, <1>7, <1>9, WriteStep DEF IInv, TypeOK

\* The remaining writers of the intent's row.
LEMMA RowPreserves ==
  ASSUME IInv, NEW r \in Requests, Insert(r) \/ Cancel(r) \/ HandOff(r)
  PROVE  IInv'
<1>1. /\ Finish(r) /\ UNCHANGED <<version, ruling, approvalIds>>
      /\ UNCHANGED <<signedAt, stale, decisions>>
  BY DEF Insert, Cancel, HandOff, approvalRows
<1>2. Grows /\ Signers' = Signers
  BY <1>1 DEF Grows, Signers
<1>3. PICK q : q = [Idle EXCEPT !.step = "done"]
  OBVIOUS
<1>4. q \in Locals /\ GoodLocals(q)' /\ req' = [req EXCEPT ![r] = q]
  BY <1>1, <1>2, <1>3, DoneIsGood, LocalsPersist DEF IInv, Finish
<1>5. GoodLog'
  BY <1>1 DEF IInv, GoodLog
<1>6. /\ status' \in Statuses /\ createdUnder' \in Versions \cup {0}
      /\ ApprovedHasAuthority'
  <2>1. CASE Insert(r) /\ status = "none"
    <3> DEFINE v == req[r].under
    <3>1. status' = InitialStatus(v) /\ createdUnder' = v
      BY <2>1 DEF Insert
    <3>2. v \in Versions
      BY <2>1 DEF IInv, GoodLocals, Insert, At
    <3>3. Policies[v].outcome \in Outcomes
      BY <3>2, PolicyFacts
    <3> HIDE DEF v
    <3>4. /\ InitialStatus(v) \in {"rejected", "approved", "pending_approval"}
          /\ InitialStatus(v) = "approved" => Policies[v].outcome = "allow" /\ ~FloorApplies(v)
      BY <3>3 DEF InitialStatus, Outcomes
    <3>5. ApprovedHasAuthority'
      BY <3>1, <3>4 DEF ApprovedHasAuthority, FloorApplies
    <3>6. QED
      BY <3>1, <3>2, <3>4, <3>5 DEF Statuses, Open
  <2>2. CASE Insert(r) /\ status # "none"
    BY <1>1, <2>2 DEF Insert, IInv, TypeOK, ApprovedHasAuthority, FloorApplies
  <2>3. CASE Cancel(r)
    BY <2>3 DEF Cancel, Statuses, IInv, TypeOK, ApprovedHasAuthority
  <2>4. CASE HandOff(r)
    <3>1. createdUnder' = createdUnder /\ (status' = status \/ (status = "approved" /\ status' = "dispatching"))
      BY <2>4 DEF HandOff
    <3>2. ApprovedHasAuthority'
      BY <1>1, <3>1 DEF IInv, ApprovedHasAuthority, FloorApplies
    <3>3. QED
      BY <3>1, <3>2 DEF Statuses, IInv, TypeOK
  <2>5. QED
    BY <2>1, <2>2, <2>3, <2>4
<1>7. QED
  BY <1>1, <1>2, <1>4, <1>5, <1>6, WriteStep DEF IInv, TypeOK

\* The gate: what it counted was signed under the version it evaluated.
LEMMA GatePreserves ==
  ASSUME IInv, NEW r \in Requests, GateApprovals(r)
  PROVE  IInv'
<1> DEFINE v == req[r].under
<1>1. /\ req \in [Requests -> Locals] /\ req[r] \in Locals /\ GoodLocals(req[r])
      /\ req[r].step = "gate" /\ stale \subseteq Signers /\ Signers \subseteq Members
  BY DEF IInv, TypeOK, GateApprovals, At, Signers
<1>2. v \in Versions
  BY <1>1 DEF GoodLocals
<1>3. /\ UNCHANGED <<version, status, createdUnder, ruling, approvalIds>>
      /\ UNCHANGED <<signedAt, decisions>>
      /\ stale' \subseteq Signers
      /\ IF Granted(v, Counted(v)) THEN Goto(r, "handOff") ELSE Finish(r)
  BY <1>1 DEF GateApprovals, intentRow, Superseded
<1>4. Grows /\ Signers' = Signers
  BY <1>3 DEF Grows, Signers
<1>5. GoodLog' /\ ApprovedHasAuthority'
  BY <1>3 DEF IInv, GoodLog, ApprovedHasAuthority, FloorApplies
<1>6. ASSUME NEW q \in Locals, GoodLocals(q), req' = [req EXCEPT ![r] = q]
      PROVE  IInv'
  <2>1. GoodLocals(q)'
    BY <1>4, <1>6, LocalsPersist DEF IInv
  <2>2. QED
    BY <1>3, <1>4, <1>5, <1>6, <2>1, WriteStep DEF IInv, TypeOK
<1>7. CASE Granted(v, Counted(v))
  <2>1. PICK q : q = [req[r] EXCEPT !.step = "handOff"]
    OBVIOUS
  <2>2. q \in Locals /\ q.step = "handOff" /\ q.under = v
    BY <1>1, <2>1 DEF Locals, Steps
  <2>3. req' = [req EXCEPT ![r] = q]
    BY <1>1, <1>3, <1>7, <2>1 DEF Goto
  <2>4. Granted(v, {m \in Signers : signedAt[m] = v})
    <3>1. /\ Counted(v) \in SUBSET {m \in Signers : signedAt[m] = v}
          /\ {m \in Signers : signedAt[m] = v} \in SUBSET Members
      BY <1>1 DEF Counted
    <3>2. QED
      BY <1>2, <1>7, <3>1, GrantedGrows
  <2>5. GoodLocals(q)
    BY <1>2, <2>2, <2>4 DEF GoodLocals, Deciding
  <2>6. QED
    BY <1>6, <2>2, <2>3, <2>5
<1>8. CASE ~Granted(v, Counted(v))
  BY <1>3, <1>6, <1>8, DoneIsGood DEF Finish
<1>9. QED
  BY <1>7, <1>8

\* A new policy version, and steps that change nothing, take nothing back.
LEMMA PolicyPreserves ==
  ASSUME IInv, ActivatePolicy \/ UNCHANGED vars
  PROVE  IInv'
<1>1. /\ UNCHANGED <<status, createdUnder, ruling, approvalIds>>
      /\ UNCHANGED <<signedAt, stale, decisions, req>>
  BY DEF ActivatePolicy, vars, intentRow, approvalRows
<1>2. version' \in Versions
  <2>1. Len(Policies) \in Nat
    BY ApprovalAssumption
  <2>2. QED
    BY <2>1 DEF ActivatePolicy, vars, Versions, IInv, TypeOK
<1>3. Grows /\ Signers' = Signers
  BY <1>1 DEF Grows, Signers
<1>4. ASSUME NEW r \in Requests PROVE GoodLocals(req[r])'
  <2>1. PICK q \in Locals : q = req[r] /\ GoodLocals(q)
    BY DEF IInv, TypeOK
  <2>2. GoodLocals(q)' /\ q = req'[r]
    BY <1>1, <1>3, <2>1, LocalsPersist DEF IInv
  <2>3. QED
    BY <2>2 DEF GoodLocals, GoodApproval, Enough, EventFor
<1>5. GoodLog' /\ ApprovedHasAuthority'
  BY <1>1 DEF IInv, GoodLog, ApprovedHasAuthority, FloorApplies
<1>6. QED
  BY <1>1, <1>2, <1>3, <1>4, <1>5 DEF IInv, TypeOK

\* IInv is inductive: it holds at first,
LEMMA InitIsGood == Init => IInv
<1> SUFFICES ASSUME Init PROVE IInv
  OBVIOUS
<1>1. 1 \in Versions
  BY ApprovalAssumption DEF Versions
<1>2. Idle \in Locals /\ GoodLocals(Idle)
  BY DEF Idle, Locals, Steps, Statuses, GoodLocals, Deciding
<1>3. TypeOK
  BY <1>1, <1>2 DEF Init, TypeOK, Statuses, Signers
<1>4. GoodLog /\ ApprovedHasAuthority
  BY DEF Init, GoodLog, ApprovedHasAuthority
<1>5. QED
  BY <1>2, <1>3, <1>4 DEF IInv, Init

\* and every step keeps it.
LEMMA NextPreserves == IInv /\ [Next]_vars => IInv'
  BY PolicyPreserves, ReadsPreserve, AuthorizePreserves, SignPreserves, AppendPreserves,
     EmitPreserves, TransitionPreserves, RowPreserves, GatePreserves DEF Next

----------------------------------------------------------------------------
(* The theorems.                                                           *)

\* IInv holds in every reachable state.
THEOREM AlwaysIInv == Spec => []IInv
  BY InitIsGood, NextPreserves, PTL DEF Spec

\* Every reachable state is well typed: a listed approval was signed.
THEOREM TypeCorrect == Spec => []TypeOK
<1>1. IInv => TypeOK
  BY DEF IInv
<1>2. QED
  BY <1>1, AlwaysIInv, PTL

\* An intent that may be executed was allowed by the policy it was created
\* under, or approved by a member whose signature it lists (create, approve).
THEOREM ApprovedHasAuthorityHolds == Spec => []ApprovedHasAuthority
<1>1. IInv => ApprovedHasAuthority
  BY DEF IInv
<1>2. QED
  BY <1>1, AlwaysIInv, PTL

\* What the gate lets through has the quorum of the version it evaluated, made
\* under that very version, until the hand-off (runPreExecutionGate, check 11).
THEOREM HandedOverWithQuorumHolds == Spec => []HandedOverWithQuorum
<1>1. IInv => HandedOverWithQuorum
  BY DEF IInv, GoodLocals, HandedOverWithQuorum, At
<1>2. QED
  BY <1>1, AlwaysIInv, PTL

\* What a step may make of the status, case by case.
LEMMA StatusMoves ==
  ASSUME IInv, Next, status' # status
  PROVE  \/ status = "none" /\ status' \in {"rejected", "approved", "pending_approval"}
         \/ status = "pending_approval" /\ status' = "cancelled"
         \/ status = "approved" /\ status' = "dispatching"
         \/ \E r \in Requests :
              /\ Transition(r) /\ status = From(r)
              /\ status' = req[r].to /\ ruling' = EventOf(r)
<1>1. PICK r \in Requests : Insert(r) \/ Cancel(r) \/ HandOff(r) \/ Transition(r)
  BY DEF Next, ActivatePolicy, Create, Approve, Reject, ListApprovals, Authorize, ResolveVersion,
         Sign, AppendApprovalId, EmitDecision, Execute, GateApprovals, Crash, intentRow
<1>2. CASE Insert(r)
  <2>1. status = "none" /\ status' = InitialStatus(req[r].under) /\ req[r].under \in Versions
    BY <1>2 DEF Insert, IInv, GoodLocals, At
  <2>2. InitialStatus(req[r].under) \in {"rejected", "approved", "pending_approval"}
    BY <2>1, PolicyFacts DEF InitialStatus, Outcomes
  <2>3. QED
    BY <2>1, <2>2
<1>3. CASE Cancel(r) \/ HandOff(r)
  BY <1>3 DEF Cancel, HandOff
<1>4. CASE Transition(r)
  BY <1>4, TransitionFacts DEF Transition
<1>5. QED
  BY <1>1, <1>2, <1>3, <1>4

\* A rejected or cancelled intent stays so, and an approved one is never opened
\* again, whatever a request had read before (transition's conditional UPDATE).
THEOREM DecisionsStandHolds == Spec => DecisionsStand
<1>1. IInv /\ [Next]_vars =>
        [/\ status \in {"rejected", "cancelled"} => status' = status
         /\ status = "approved" => status' \in {"approved", "dispatching", "rejected"}
         /\ status = "awaiting_second_approval" => status' # "pending_approval"]_vars
  <2> SUFFICES ASSUME IInv, Next, status' # status
               PROVE  /\ status \notin {"rejected", "cancelled"}
                      /\ status = "approved" => status' \in {"dispatching", "rejected"}
                      /\ status = "awaiting_second_approval" => status' # "pending_approval"
    BY DEF vars, intentRow
  <2>1. CASE \E r \in Requests : /\ Transition(r) /\ status = From(r)
                                 /\ status' = req[r].to
    <3>1. PICK r \in Requests : Transition(r) /\ status = From(r) /\ status' = req[r].to
      BY <2>1
    <3>2. \/ GoodApproval(req[r]) /\ status \in Open
          \/ req[r].to = "rejected" /\ status \in Open \cup {"approved"}
      BY <3>1, TransitionFacts DEF Transition
    <3>3. QED
      BY <3>1, <3>2 DEF GoodApproval, Open
  <2>2. CASE ~(\E r \in Requests : /\ Transition(r) /\ status = From(r)
                                   /\ status' = req[r].to)
    BY <2>2, StatusMoves
  <2>3. QED
    BY <2>1, <2>2
<1>2. QED
  BY <1>1, AlwaysIInv, PTL DEF Spec, DecisionsStand

\* Approving takes as many distinct signatures as the decider's evaluation
\* demanded, though it counted them before it signed (authorizeApproval).
THEOREM DualControlHolds == Spec => DualControl
<1>1. IInv /\ [Next]_vars =>
        [status' = "approved" /\ status \in Open =>
           \E r \in Requests :
             /\ At(r, "transition")
             /\ req[r].member \in Signers
             /\ req[r].needed <= Cardinality(Signers)]_vars
  <2> SUFFICES ASSUME IInv, Next, status' = "approved", status \in Open
               PROVE  \E r \in Requests :
                        /\ At(r, "transition")
                        /\ req[r].member \in Signers
                        /\ req[r].needed <= Cardinality(Signers)
    BY DEF vars, intentRow
  <2>1. PICK r \in Requests : Transition(r) /\ status' = req[r].to
    BY StatusMoves DEF Open
  <2>2. At(r, "transition") /\ GoodApproval(req[r])
    BY <2>1, TransitionFacts DEF Transition
  <2>3. req[r].member \in Signers /\ req[r].needed <= Cardinality(Signers \cup {req[r].member})
    BY <2>1, <2>2 DEF GoodApproval, Enough, At
  <2>4. Signers \cup {req[r].member} = Signers
    BY <2>3
  <2>5. QED
    BY <2>2, <2>3, <2>4
<1>2. QED
  BY <1>1, AlwaysIInv, PTL DEF Spec, DualControl

\* The event an intent's row names was logged before, for the very member and
\* status of the decision (emitProposalDecisionAudit).
THEOREM DecisionIsOnRecordHolds == Spec => DecisionIsOnRecord
<1>1. IInv /\ [Next]_vars =>
        [\A r \in Requests :
           At(r, "transition") /\ req'[r] # req[r] /\ status' # status =>
             /\ ruling' \in decisions
             /\ ruling'.actor = req[r].member
             /\ ruling'.to = status']_vars
  <2> SUFFICES ASSUME IInv, Next, NEW r \in Requests,
                      At(r, "transition"), req'[r] # req[r], status' # status
               PROVE  /\ ruling' \in decisions
                      /\ ruling'.actor = req[r].member
                      /\ ruling'.to = status'
    BY DEF vars
  <2>1. Transition(r) /\ status = From(r) /\ status' = req[r].to /\ ruling' = Logged(EventOf(r))
    <3>1. \E s \in Requests : Insert(s) \/ Cancel(s) \/ HandOff(s) \/ Transition(s)
      BY DEF Next, ActivatePolicy, Create, Approve, Reject, ListApprovals, Authorize,
             ResolveVersion, Sign, AppendApprovalId, EmitDecision, Execute, GateApprovals,
             Crash, intentRow
    <3>2. PICK s \in Requests : Insert(s) \/ Cancel(s) \/ HandOff(s) \/ Transition(s)
      BY <3>1
    <3>3. req' = [req EXCEPT ![s] = [Idle EXCEPT !.step = "done"]]
      BY <3>2 DEF Insert, Cancel, HandOff, Transition, Finish
    <3>4. s = r
      BY <3>3 DEF IInv, TypeOK
    <3>5. Transition(r)
      BY <3>2, <3>4 DEF Insert, Cancel, HandOff, At
    <3>6. QED
      BY <3>5 DEF Transition
  <2>2. EventOf(r) \in decisions /\ Logged(EventOf(r)) = EventOf(r)
    BY TransitionFacts
  <2>3. EventOf(r).actor = req[r].member /\ EventOf(r).to = req[r].to
    BY DEF EventOf
  <2>4. QED
    BY <2>1, <2>2, <2>3
<1>2. QED
  BY <1>1, AlwaysIInv, PTL DEF Spec, DecisionIsOnRecord
=============================================================================
