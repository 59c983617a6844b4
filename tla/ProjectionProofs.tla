-------------------------- MODULE ProjectionProofs --------------------------
(***************************************************************************)
(* Proofs about Projection, for any pages and records, any contents of     *)
(* them, and any number of projectors and Ledger workers.                  *)
(***************************************************************************)
EXTENDS Projection, TLAPS

-----------------------------------------------------------------------------
(* The inductive invariant.                                                *)

LogRows == [version : Nat, failed : BOOLEAN, attempts : Nat, quarantined : BOOLEAN]
Locals == [step : {"idle", "open", "emit", "failed"}, todo : SUBSET Sources,
           row : Sources \cup {None}, since : SUBSET Records]

\* Nobody holds a version of a page newer than the page.
NothingNewer ==
  /\ \A p \in Pages : log[p].version <= version[p]
  /\ \A w \in Projectors :
       /\ \A s \in projector[w].todo : s[2] <= version[s[1]]
       /\ projector[w].row # None => projector[w].row[2] <= version[projector[w].row[1]]

\* A row of the log without an error says what the store holds, whichever
\* version it names.
LogIsTrue ==
  \A p \in Pages : log[p].version > 0 /\ ~log[p].failed =>
    \A k \in Objects[<<p, log[p].version>>] :
      /\ canon[k] # None
      /\ canon[k] = <<p, log[p].version>> \/ canon[k][1] # p

IInv == TypeOK /\ NothingNewer /\ LogIsTrue /\ ProjectedIsLogged

-----------------------------------------------------------------------------
(* Sources, and what a step of one projector leaves alone.                 *)

\* A source is a page with a number of one of its versions.
LEMMA SourceParts ==
  ASSUME NEW s \in Sources
  PROVE  s[1] \in Pages /\ s[2] \in Nat \ {0} /\ s[2] <= Versions[s[1]] /\ s = <<s[1], s[2]>>
  BY ProjectionAssumption DEF Sources

\* The converse.
LEMMA SourceMade ==
  ASSUME NEW p \in Pages, NEW n \in Nat \ {0}, n <= Versions[p]
  PROVE  <<p, n>> \in Sources
  BY ProjectionAssumption DEF Sources

\* Move changes the step and forgets what the Ledger wrote meanwhile.
LEMMA MoveFrame ==
  ASSUME TypeOK, NEW w \in Projectors, NEW step \in {"open", "emit", "failed"},
         projector[w].step \in {"open", "emit"}, Move(w, step)
  PROVE  /\ projector' \in [Projectors -> Locals]
         /\ \A v \in Projectors \ {w} : projector'[v] = projector[v]
         /\ projector'[w].step = step /\ projector'[w].row = projector[w].row
         /\ projector'[w].todo = projector[w].todo
         /\ \A v \in Projectors : (projector'[v].row = None) <=> (projector'[v].step = "idle")
<1>1. /\ projector \in [Projectors -> Locals] /\ projector[w] \in Locals
      /\ \A v \in Projectors : (projector[v].row = None) <=> (projector[v].step = "idle")
  BY DEF TypeOK, Locals
<1> DEFINE x == [projector[w] EXCEPT !.step = step, !.since = {}]
<1>2. /\ x \in Locals /\ x.step = step
      /\ x.row = projector[w].row /\ x.todo = projector[w].todo
  BY <1>1 DEF Locals
<1>3. projector' = [projector EXCEPT ![w] = x]
  BY DEF Move
<1> HIDE DEF x
<1>4. projector[w].row # None
  BY <1>1
<1> QED BY <1>1, <1>2, <1>3, <1>4

\* Leave ends the work on a row.
LEMMA LeaveFrame ==
  ASSUME TypeOK, NEW w \in Projectors, Leave(w)
  PROVE  /\ projector' \in [Projectors -> Locals]
         /\ \A v \in Projectors \ {w} : projector'[v] = projector[v]
         /\ projector'[w].step = "idle" /\ projector'[w].row = None
         /\ projector'[w].todo = projector[w].todo
         /\ \A v \in Projectors : (projector'[v].row = None) <=> (projector'[v].step = "idle")
<1>1. /\ projector \in [Projectors -> Locals] /\ projector[w] \in Locals
      /\ \A v \in Projectors : (projector[v].row = None) <=> (projector[v].step = "idle")
  BY DEF TypeOK, Locals
<1> DEFINE x == [projector[w] EXCEPT !.step = "idle", !.row = None]
<1>2. x \in Locals /\ x.step = "idle" /\ x.row = None /\ x.todo = projector[w].todo
  BY <1>1 DEF Locals
<1>3. projector' = [projector EXCEPT ![w] = x]
  BY DEF Leave
<1> HIDE DEF x
<1> QED BY <1>1, <1>2, <1>3

\* What is told of is a source.
LEMMA IfCurrentType ==
  ASSUME TypeOK, NEW w \in Projectors, projector[w].row # None
  PROVE  IfCurrent(w) \subseteq Sources
  BY DEF TypeOK, IfCurrent

\* A row of the log stays one when its verdict is changed.
LEMMA LogRowMade ==
  ASSUME NEW r \in LogRows, NEW n \in Nat
  PROVE  /\ [r EXCEPT !.version = n, !.failed = FALSE, !.quarantined = FALSE] \in LogRows
         /\ [r EXCEPT !.quarantined = FALSE, !.attempts = 0] \in LogRows
  BY DEF LogRows

Holds == [attempts : Nat, quarantined : BOOLEAN]
\* Counting an outcome keeps the types, recorded or not.
LEMMA CountedType ==
  ASSUME TypeOK, NEW k \in Records, NEW n \in Nat, NEW b \in BOOLEAN, Counted(k, n, b)
  PROVE  held' \in [Records -> Holds] /\ faults' \in 0..MaxFaults
<1>1. [attempts |-> n, quarantined |-> b] \in Holds
  BY DEF Holds
<1>2. held \in [Records -> Holds] /\ faults \in 0..MaxFaults
  BY DEF TypeOK, Holds
<1>3. CASE Fault /\ UNCHANGED held
  BY <1>2, <1>3, ProjectionAssumption DEF Fault
<1>4. CASE held' = [held EXCEPT ![k] = [attempts |-> n, quarantined |-> b]] /\ UNCHANGED faults
  BY <1>1, <1>2, <1>4
<1> QED BY <1>3, <1>4 DEF Counted

Rounds == [stage : {"parties", "others"}, todo : SUBSET (Records \X Sources)]
\* So does taking a row off the list of a Ledger worker.
LEMMA DoneType ==
  ASSUME TypeOK, NEW l \in LedgerWorkers, NEW k, NEW s, Done(l, k, s)
  PROVE  carrier' \in [LedgerWorkers -> Rounds]
<1>1. carrier \in [LedgerWorkers -> Rounds]
  BY DEF TypeOK, Rounds
<1>2. [carrier[l] EXCEPT !.todo = @ \ {<<k, s>>}] \in Rounds
  BY <1>1 DEF Rounds
<1> QED BY <1>1, <1>2 DEF Done

\* The Ledger's writes move no projector.
LEMMA CarryFrame ==
  ASSUME TypeOK, NEW l \in LedgerWorkers, NEW k \in Records, NEW s \in Sources, Carry(l, k, s)
  PROVE  \A v \in Projectors :
           /\ projector'[v].todo = projector[v].todo /\ projector'[v].row = projector[v].row
           /\ projector'[v].step = projector[v].step
<1>1. \A v \in Projectors : projector[v] \in Locals
  BY DEF TypeOK, Locals
<1>2. projector' = [v \in Projectors |->
        IF projector[v].step = "open" THEN [projector[v] EXCEPT !.since = @ \cup Touched(k)]
                                      ELSE projector[v]]
  BY DEF Carry
<1> QED BY <1>1, <1>2 DEF Locals

-----------------------------------------------------------------------------
(* Type correctness, one step per action.                                  *)

\* Every step keeps the types.
LEMMA TypeStep == TypeOK /\ [Next]_vars => TypeOK'
<1> USE ProjectionAssumption
<1> SUFFICES ASSUME TypeOK, [Next]_vars PROVE TypeOK'
  OBVIOUS
<1>0. CASE UNCHANGED vars
  BY <1>0 DEF vars, TypeOK
<1>1. ASSUME NEW p \in Pages, Parse(p) PROVE TypeOK'
  <2>1. version' \in [Pages -> Nat] /\ \A q \in Pages : version'[q] <= Versions[q]
    BY <1>1 DEF Parse, TypeOK
  <2> QED BY <1>1, <2>1 DEF Parse, TypeOK, canonical, downstream
<1>2. ASSUME NEW p \in Pages, Replay(p) PROVE TypeOK'
  <2>1. log \in [Pages -> LogRows] /\ log[p] \in LogRows
    BY DEF TypeOK, LogRows
  <2>2. log' = [log EXCEPT ![p] = [log[p] EXCEPT !.quarantined = FALSE, !.attempts = 0]]
    BY <1>2 DEF Replay
  <2>3. log' \in [Pages -> LogRows]
    BY <2>1, <2>2, LogRowMade
  <2> QED BY <1>2, <2>3 DEF Replay, Fault, TypeOK, raw, downstream, LogRows
<1>3. ASSUME NEW w \in Projectors, Poll(w) PROVE TypeOK'
  <2>1. PICK S \in SUBSET {p \in Pages : Pending(p)} :
          projector' = [projector EXCEPT ![w].todo = {Current(p) : p \in S}]
    BY <1>3 DEF Poll
  <2>2. \A p \in S : Current(p) \in Sources
    BY SourceMade DEF TypeOK, Pending, Current
  <2>3. {Current(p) : p \in S} \in SUBSET Sources
    BY <2>2
  <2> DEFINE T == {Current(p) : p \in S}
  <2>4. T \in SUBSET Sources
    BY <2>3
  <2>5. projector' = [projector EXCEPT ![w].todo = T]
    BY <2>1
  <2> HIDE DEF T
  <2>6. projector' \in [Projectors -> Locals]
        /\ \A v \in Projectors : (projector'[v].row = None) <=> (projector'[v].step = "idle")
    <3>1. projector[w] \in Locals /\ [projector[w] EXCEPT !.todo = T] \in Locals
      <4>1. projector[w] \in Locals
        BY DEF TypeOK, Locals
      <4> QED BY <2>4, <4>1 DEF Locals
    <3>2. [projector[w] EXCEPT !.todo = T].row = projector[w].row
          /\ [projector[w] EXCEPT !.todo = T].step = projector[w].step
      BY <3>1 DEF Locals
    <3>3. projector' = [projector EXCEPT ![w] = [projector[w] EXCEPT !.todo = T]]
      BY <2>5
    <3>0. /\ projector \in [Projectors -> Locals]
          /\ \A v \in Projectors : (projector[v].row = None) <=> (projector[v].step = "idle")
      BY DEF TypeOK, Locals
    <3>4. projector' \in [Projectors -> Locals]
      BY <3>0, <3>1, <3>3
    <3>5. \A v \in Projectors :
            projector'[v].row = projector[v].row /\ projector'[v].step = projector[v].step
      BY <3>0, <3>2, <3>3
    <3> QED BY <3>0, <3>4, <3>5
  <2> QED BY <1>3, <2>6 DEF Poll, TypeOK, raw, downstream, Locals
<1>4. ASSUME NEW w \in Projectors, Begin(w) PROVE TypeOK'
  <2>1. PICK s \in projector[w].todo : projector' = [projector EXCEPT ![w] =
          [step |-> "open", todo |-> projector[w].todo \ {s}, row |-> s, since |-> {}]]
    BY <1>4 DEF Begin
  <2> QED BY <1>4, <2>1 DEF Begin, TypeOK, raw, downstream
<1>5. ASSUME NEW w \in Projectors, Commit(w) PROVE TypeOK'
  <2> DEFINE s == projector[w].row
  <2>1. s \in Sources
    BY <1>5 DEF Commit, TypeOK
  <2>2. s[1] \in Pages /\ s[2] \in Nat
    BY <2>1, SourceParts
  <2>3. log' \in [Pages -> LogRows]
    <3>1. log \in [Pages -> LogRows] /\ log[s[1]] \in LogRows
      BY <2>2 DEF TypeOK, LogRows
    <3>2. log' = [log EXCEPT ![s[1]] = [log[s[1]] EXCEPT !.version = s[2], !.failed = FALSE,
                                                         !.quarantined = FALSE]]
      BY <1>5 DEF Commit, Consumed
    <3> QED BY <2>2, <3>1, <3>2, LogRowMade
  <2>4. canon' \in [Records -> Sources \cup {None}]
    BY <1>5, <2>1 DEF Commit, TypeOK
  <2>5. fresh' \subseteq Records
    BY <1>5, <2>1 DEF Commit, TypeOK
  <2>6. projector' \in [Projectors -> Locals]
        /\ \A v \in Projectors : (projector'[v].row = None) <=> (projector'[v].step = "idle")
    BY <1>5, MoveFrame DEF Commit
  <2> QED BY <1>5, <2>3, <2>4, <2>5, <2>6 DEF Commit, TypeOK, raw, downstream, LogRows, Locals
<1>6. ASSUME NEW w \in Projectors, Throw(w) PROVE TypeOK'
  <2>1. projector' \in [Projectors -> Locals]
        /\ \A v \in Projectors : (projector'[v].row = None) <=> (projector'[v].step = "idle")
    BY <1>6, MoveFrame DEF Throw
  <2> QED BY <1>6, <2>1 DEF Throw, Fault, TypeOK, raw, downstream, Locals
<1>7. ASSUME NEW w \in Projectors, Emit(w) PROVE TypeOK'
  <2>1. projector[w].row # None
    BY <1>7 DEF Emit, TypeOK
  <2> QED BY <1>7, <2>1, LeaveFrame, IfCurrentType
          DEF Emit, TypeOK, raw, downstream, Locals
<1>8. ASSUME NEW w \in Projectors, EmitFails(w) PROVE TypeOK'
  <2>1. projector[w].row # None
    BY <1>8 DEF EmitFails, TypeOK
  <2>2. projector' \in [Projectors -> Locals]
        /\ \A v \in Projectors : (projector'[v].row = None) <=> (projector'[v].step = "idle")
    BY <1>8, MoveFrame DEF EmitFails
  <2> QED BY <1>8, <2>1, <2>2, IfCurrentType
          DEF EmitFails, Fault, TypeOK, raw, downstream, Locals
<1>9. ASSUME NEW w \in Projectors, RecordFailure(w) PROVE TypeOK'
  <2> DEFINE s == projector[w].row
  <2>1. s[1] \in Pages /\ s[2] \in Nat
    BY <1>9, SourceParts DEF RecordFailure, TypeOK
  <2>2. Attempts(s) \in Nat
    BY <2>1 DEF Attempts, TypeOK
  <2>3. [version |-> s[2], failed |-> TRUE, attempts |-> Attempts(s),
         quarantined |-> Attempts(s) >= MaxAttempts] \in LogRows
    BY <2>1, <2>2 DEF LogRows
  <2>4. log' \in [Pages -> LogRows]
    BY <1>9, <2>1, <2>3 DEF RecordFailure, TypeOK, LogRows
  <2> QED BY <1>9, <2>4, LeaveFrame DEF RecordFailure, TypeOK, raw, downstream, Locals, LogRows
<1>10. ASSUME NEW w \in Projectors, FailureUnrecorded(w) PROVE TypeOK'
  <2>1. projector[w].row # None
    BY <1>10 DEF FailureUnrecorded, TypeOK
  <2> QED BY <1>10, <2>1, LeaveFrame, IfCurrentType
          DEF FailureUnrecorded, Fault, TypeOK, raw, downstream, Locals
<1>11. ASSUME NEW w \in Projectors, Crash(w) PROVE TypeOK'
  <2>1. lost' \subseteq Sources
    BY <1>11, IfCurrentType DEF Crash, TypeOK
  <2>2. projector' \in [Projectors -> Locals]
        /\ \A v \in Projectors : (projector'[v].row = None) <=> (projector'[v].step = "idle")
    BY <1>11 DEF Crash, Idle, TypeOK, Locals
  <2> QED BY <1>11, <2>1, <2>2 DEF Crash, Fault, TypeOK, raw, downstream, Locals
<1>12. ASSUME NEW l \in LedgerWorkers, CarrierPolls(l) PROVE TypeOK'
  <2>0. carrier[l].stage \in {"parties", "others"}
    BY DEF TypeOK
  <2>1. PICK next \in {"parties", "others"} :
          carrier' = [carrier EXCEPT ![l] = [stage |-> next, todo |-> Due(l, next)]]
    BY <1>12, <2>0 DEF CarrierPolls
  <2>2. Due(l, next) \subseteq Records \X Sources
    BY DEF Due, Selected, TypeOK
  <2> QED BY <1>12, <2>1, <2>2 DEF CarrierPolls, TypeOK, raw, canonical
<1>13. ASSUME NEW l \in LedgerWorkers, NEW k \in Records, NEW s \in Sources, Carry(l, k, s)
       PROVE TypeOK'
  <2>1. Touched(k) \subseteq Records
    BY DEF Touched
  <2>2. projector' \in [Projectors -> Locals]
        /\ \A v \in Projectors : (projector'[v].row = None) <=> (projector'[v].step = "idle")
    <3>2. \A v \in Projectors : projector[v] \in Locals
      BY DEF TypeOK, Locals
    <3>1. \A v \in Projectors : [projector[v] EXCEPT !.since = @ \cup Touched(k)] \in Locals
      BY <2>1, <3>2 DEF Locals
    <3>3. projector' = [v \in Projectors |->
            IF projector[v].step = "open" THEN [projector[v] EXCEPT !.since = @ \cup Touched(k)]
                                          ELSE projector[v]]
      BY <1>13 DEF Carry
    <3>4. \A v \in Projectors : projector'[v] \in Locals
      BY <3>1, <3>2, <3>3
    <3>5. \A v \in Projectors :
            projector'[v].row = projector[v].row /\ projector'[v].step = projector[v].step
      BY <3>2, <3>3 DEF Locals
    <3>6. projector' \in [Projectors -> Locals]
      BY <3>3, <3>4
    <3> QED BY <3>5, <3>6 DEF TypeOK
  <2>3. held' \in [Records -> Holds] /\ faults' \in 0..MaxFaults
    BY <1>13, CountedType DEF Carry
  <2>4. carrier' \in [LedgerWorkers -> Rounds]
    BY <1>13, DoneType DEF Carry
  <2> QED BY <1>13, <2>1, <2>2, <2>3, <2>4 DEF Carry, TypeOK, raw, Locals, Holds, Rounds
<1>14. ASSUME NEW l \in LedgerWorkers, NEW k \in Records, NEW s \in Sources, Skip(l, k, s)
       PROVE TypeOK'
  <2>1. held' \in [Records -> Holds] /\ faults' \in 0..MaxFaults
    BY <1>14, CountedType DEF Skip
  <2>2. carrier' \in [LedgerWorkers -> Rounds]
    BY <1>14, DoneType DEF Skip
  <2> QED BY <1>14, <2>1, <2>2 DEF Skip, TypeOK, raw, canonical, Holds, Rounds
<1>15. ASSUME NEW l \in LedgerWorkers, NEW k \in Records, NEW s \in Sources, CarryFails(l, k, s)
       PROVE TypeOK'
  <2> DEFINE attempts == held[k].attempts + 1
             spent == attempts >= MaxAttempts
  <2>1. attempts \in Nat /\ spent \in BOOLEAN
    BY DEF TypeOK
  <2>2. Counted(k, attempts, spent)
    BY <1>15 DEF CarryFails
  <2> HIDE DEF attempts, spent
  <2>3. held' \in [Records -> Holds] /\ faults' \in 0..MaxFaults
    BY <2>1, <2>2, CountedType
  <2>4. carrier' \in [LedgerWorkers -> Rounds]
    BY <1>15, DoneType DEF CarryFails
  <2> QED BY <1>15, <2>3, <2>4 DEF CarryFails, TypeOK, raw, canonical, Holds, Rounds
<1>16. ASSUME NEW l \in LedgerWorkers, NEW k \in Records, NEW s \in Sources, CarryErrs(l, k, s)
       PROVE TypeOK'
  <2> DEFINE attempts == held[k].attempts + 1
             row == [attempts |-> attempts, quarantined |-> attempts >= MaxAttempts]
  <2>1. held \in [Records -> Holds] /\ held[k].attempts \in Nat
    BY DEF TypeOK, Holds
  <2>2. row \in Holds /\ held' = [held EXCEPT ![k] = row]
    BY <1>16, <2>1 DEF CarryErrs, Holds
  <2> HIDE DEF row
  <2>3. held' \in [Records -> Holds]
    BY <2>1, <2>2
  <2>4. carrier' \in [LedgerWorkers -> Rounds]
    BY <1>16, DoneType DEF CarryErrs
  <2>5. faults' \in 0..MaxFaults
    BY <1>16 DEF CarryErrs, Fault, TypeOK
  <2> QED BY <1>16, <2>3, <2>4, <2>5 DEF CarryErrs, TypeOK, raw, canonical, Holds, Rounds
<1>17. ASSUME NEW l \in LedgerWorkers, CarrierCrashes(l) PROVE TypeOK'
  BY <1>17 DEF CarrierCrashes, Fault, TypeOK, raw, canonical
<1> QED
  BY <1>0, <1>1, <1>2, <1>3, <1>4, <1>5, <1>6, <1>7, <1>8, <1>9, <1>10, <1>11, <1>12,
     <1>13, <1>14, <1>15, <1>16, <1>17 DEF Next, Steps, Mishaps, Carries, Hinders

-----------------------------------------------------------------------------
(* Nobody runs ahead of the pages.                                         *)

\* A page only becomes newer, and every version is read from the page.
LEMMA OrderStep == TypeOK /\ NothingNewer /\ [Next]_vars => NothingNewer'
<1> SUFFICES ASSUME TypeOK, NothingNewer, [Next]_vars PROVE NothingNewer'
  OBVIOUS
<1>0. ASSUME UNCHANGED <<version, log>>,
             \A v \in Projectors :
               /\ projector'[v].todo \subseteq projector[v].todo
               /\ projector'[v].row \in {None, projector[v].row} \cup projector[v].todo
      PROVE  NothingNewer'
  BY <1>0 DEF NothingNewer
<1>1. ASSUME NEW p \in Pages, Parse(p) PROVE NothingNewer'
  <2>1. UNCHANGED <<log, projector>>
    BY <1>1 DEF Parse
  <2>2. \A q \in Pages : version[q] \in Nat /\ version'[q] \in Nat /\ version[q] <= version'[q]
    BY <1>1 DEF Parse, TypeOK
  <2>3. \A q \in Pages : log[q].version \in Nat
    BY DEF TypeOK
  <2>4. \A s \in Sources : s[1] \in Pages /\ s[2] \in Nat
    BY SourceParts
  <2>5. \A v \in Projectors :
          projector[v].todo \subseteq Sources /\ projector[v].row \in Sources \cup {None}
    BY DEF TypeOK
  <2>6. \A q \in Pages : log'[q].version <= version'[q]
    BY <2>1, <2>2, <2>3 DEF NothingNewer
  <2>7. \A s \in Sources : s[2] <= version[s[1]] => s[2] <= version'[s[1]]
    BY <2>2, <2>4
  <2> QED BY <2>1, <2>5, <2>6, <2>7 DEF NothingNewer
<1>2. ASSUME NEW p \in Pages, Replay(p) PROVE NothingNewer'
  <2>1. \A q \in Pages : log'[q].version = log[q].version
    BY <1>2 DEF Replay, TypeOK
  <2> QED BY <1>2, <2>1 DEF Replay, raw, NothingNewer
<1>3. ASSUME NEW w \in Projectors, Poll(w) PROVE NothingNewer'
  <2>1. PICK S \in SUBSET {p \in Pages : Pending(p)} :
          projector' = [projector EXCEPT ![w].todo = {Current(p) : p \in S}]
    BY <1>3 DEF Poll
  <2> DEFINE T == {Current(p) : p \in S}
  <2>2. \A s \in T : s[2] <= version[s[1]]
    BY DEF Current, TypeOK
  <2>3. projector' = [projector EXCEPT ![w].todo = T]
    BY <2>1
  <2> HIDE DEF T
  <2>4. \A v \in Projectors :
          /\ projector'[v].row = projector[v].row
          /\ projector'[v].todo = projector[v].todo \/ projector'[v].todo = T
    BY <2>3 DEF TypeOK
  <2> QED BY <1>3, <2>2, <2>4 DEF Poll, raw, NothingNewer
<1>4. ASSUME NEW w \in Projectors, Begin(w) PROVE NothingNewer'
  <2>1. PICK s \in projector[w].todo : projector' = [projector EXCEPT ![w] =
          [step |-> "open", todo |-> projector[w].todo \ {s}, row |-> s, since |-> {}]]
    BY <1>4 DEF Begin
  <2>2. \A v \in Projectors :
          /\ projector'[v].todo \subseteq projector[v].todo
          /\ projector'[v].row \in {None, projector[v].row} \cup projector[v].todo
    BY <2>1 DEF TypeOK
  <2> QED BY <1>0, <1>4, <2>2 DEF Begin, raw
<1>5. ASSUME NEW w \in Projectors, Commit(w) \/ RecordFailure(w) PROVE NothingNewer'
  <2> DEFINE s == projector[w].row
  <2>1. s \in Sources /\ s[1] \in Pages /\ s # None
    BY <1>5, SourceParts, ProjectionAssumption DEF Commit, RecordFailure, TypeOK
  <2>2. s[2] <= version[s[1]]
    BY <2>1 DEF NothingNewer
  <2>3. log'[s[1]].version = s[2] /\ \A q \in Pages \ {s[1]} : log'[q] = log[q]
    <3>1. CASE Commit(w)
      BY <2>1, <3>1 DEF Commit, Consumed, TypeOK
    <3>2. CASE RecordFailure(w)
      BY <2>1, <3>2 DEF RecordFailure, TypeOK
    <3> QED BY <1>5, <3>1, <3>2
  <2>4. \A v \in Projectors :
          projector'[v].todo = projector[v].todo /\ projector'[v].row \in {None, projector[v].row}
    <3>1. CASE Commit(w)
      BY <3>1, MoveFrame DEF Commit
    <3>2. CASE RecordFailure(w)
      BY <3>2, LeaveFrame DEF RecordFailure
    <3> QED BY <1>5, <3>1, <3>2
  <2>5. UNCHANGED version
    BY <1>5 DEF Commit, RecordFailure, raw
  <2> QED BY <2>2, <2>3, <2>4, <2>5 DEF NothingNewer
<1>6. ASSUME NEW w \in Projectors,
             Throw(w) \/ Emit(w) \/ EmitFails(w) \/ FailureUnrecorded(w) \/ Crash(w)
      PROVE  NothingNewer'
  <2>1. UNCHANGED <<version, log>>
    BY <1>6 DEF Throw, Emit, EmitFails, FailureUnrecorded, Crash, raw
  <2>2. CASE Throw(w)
    BY <1>0, <2>1, <2>2, MoveFrame DEF Throw
  <2>3. CASE Emit(w)
    BY <1>0, <2>1, <2>3, LeaveFrame DEF Emit
  <2>4. CASE EmitFails(w)
    BY <1>0, <2>1, <2>4, MoveFrame DEF EmitFails
  <2>5. CASE FailureUnrecorded(w)
    BY <1>0, <2>1, <2>5, LeaveFrame DEF FailureUnrecorded
  <2>6. CASE Crash(w)
    <3>1. \A v \in Projectors : projector'[v] = IF v = w THEN Idle ELSE projector[v]
      BY <2>6 DEF Crash, TypeOK
    <3> QED BY <1>0, <2>1, <3>1 DEF Idle
  <2> QED BY <1>6, <2>2, <2>3, <2>4, <2>5, <2>6
<1>7. ASSUME UNCHANGED <<version, log, projector>> PROVE NothingNewer'
  BY <1>7 DEF NothingNewer
<1>8. ASSUME NEW l \in LedgerWorkers, Carries(l) \/ Hinders(l) PROVE NothingNewer'
  <2>1. CASE \E k \in Records, s \in Sources : Carry(l, k, s)
    <3>1. PICK k \in Records, s \in Sources : Carry(l, k, s)
      BY <2>1
    <3>2. UNCHANGED <<version, log>>
      BY <3>1 DEF Carry, raw
    <3>3. \A v \in Projectors :
            projector'[v].todo = projector[v].todo /\ projector'[v].row = projector[v].row
      BY <3>1, CarryFrame
    <3> QED BY <1>0, <3>2, <3>3
  <2>2. CASE CarrierPolls(l) \/ CarrierCrashes(l)
    BY <1>7, <2>2 DEF CarrierPolls, CarrierCrashes, raw, canonical
  <2>3. ASSUME NEW k \in Records, NEW s \in Sources,
               Skip(l, k, s) \/ CarryFails(l, k, s) \/ CarryErrs(l, k, s)
        PROVE NothingNewer'
    BY <1>7, <2>3 DEF Skip, CarryFails, CarryErrs, raw, canonical
  <2> QED BY <1>8, <2>1, <2>2, <2>3 DEF Carries, Hinders
<1>9. CASE UNCHANGED vars
  BY <1>7, <1>9 DEF vars
<1> QED BY <1>1, <1>2, <1>3, <1>4, <1>5, <1>6, <1>8, <1>9 DEF Next, Steps, Mishaps

-----------------------------------------------------------------------------
(* What the log says, and what the canonical store holds.                  *)

\* Only a replay, a commit and a recorded failure touch the log or the store.
LEMMA LogFrame ==
  ASSUME [Next]_vars
  PROVE  \/ UNCHANGED <<log, canon>>
         \/ \E p \in Pages : Replay(p)
         \/ \E w \in Projectors : Commit(w) \/ RecordFailure(w)
<1>1. ASSUME NEW p \in Pages, Parse(p) PROVE UNCHANGED <<log, canon>>
  BY <1>1 DEF Parse
<1>2. ASSUME NEW w \in Projectors,
             \/ Poll(w) \/ Begin(w) \/ Throw(w) \/ Emit(w)
             \/ EmitFails(w) \/ FailureUnrecorded(w) \/ Crash(w)
      PROVE UNCHANGED <<log, canon>>
  BY <1>2 DEF Poll, Begin, Throw, Emit, EmitFails, FailureUnrecorded, Crash
<1>3. ASSUME NEW l \in LedgerWorkers, Carries(l) \/ Hinders(l)
      PROVE UNCHANGED <<log, canon>>
  BY <1>3 DEF Carries, Hinders, CarrierPolls, Carry, Skip, CarryFails, CarryErrs,
     CarrierCrashes, canonical
<1>4. CASE UNCHANGED vars
  BY <1>4 DEF vars
<1> QED BY <1>1, <1>2, <1>3, <1>4 DEF Next, Steps, Mishaps

\* The log stays true: a commit writes all of a version's records with its row,
\* and another page's commit leaves a source of another page.
LEMMA TrueStep == TypeOK /\ NothingNewer /\ LogIsTrue /\ [Next]_vars => LogIsTrue'
<1> SUFFICES ASSUME TypeOK, NothingNewer, LogIsTrue, [Next]_vars PROVE LogIsTrue'
  OBVIOUS
<1>1. CASE UNCHANGED <<log, canon>>
  BY <1>1 DEF LogIsTrue
<1>2. ASSUME NEW p \in Pages, Replay(p) PROVE LogIsTrue'
  <2>1. UNCHANGED canon
    BY <1>2 DEF Replay
  <2>2. \A q \in Pages : log'[q].version = log[q].version /\ log'[q].failed = log[q].failed
    BY <1>2 DEF Replay, TypeOK
  <2> QED BY <2>1, <2>2 DEF LogIsTrue
<1>3. ASSUME NEW w \in Projectors, RecordFailure(w) PROVE LogIsTrue'
  <2> DEFINE s == projector[w].row
  <2>1. s[1] \in Pages
    BY <1>3, SourceParts DEF RecordFailure, TypeOK
  <2>2. log'[s[1]].failed /\ UNCHANGED canon
    BY <1>3, <2>1 DEF RecordFailure, TypeOK
  <2>3. \A q \in Pages \ {s[1]} : log'[q] = log[q]
    BY <1>3, <2>1 DEF RecordFailure, TypeOK
  <2> QED BY <2>1, <2>2, <2>3 DEF LogIsTrue
<1>4. ASSUME NEW w \in Projectors, Commit(w) PROVE LogIsTrue'
  <2> DEFINE s == projector[w].row
  <2>1. s \in Sources /\ s[1] \in Pages /\ s = <<s[1], s[2]>> /\ s # None
    BY <1>4, SourceParts, ProjectionAssumption DEF Commit, TypeOK
  <2>2. Objects[s] \subseteq Records
    BY <2>1, ProjectionAssumption
  <2>3. log'[s[1]].version = s[2] /\ \A q \in Pages \ {s[1]} : log'[q] = log[q]
    BY <1>4, <2>1 DEF Commit, Consumed, TypeOK
  <2>4. \A k \in Records : canon'[k] = IF k \in Objects[s] THEN s ELSE canon[k]
    BY <1>4 DEF Commit
  <2>5. SUFFICES ASSUME NEW q \in Pages, log'[q].version > 0, ~log'[q].failed,
                        NEW k \in Objects[<<q, log'[q].version>>]
                 PROVE  /\ canon'[k] # None
                        /\ canon'[k] = <<q, log'[q].version>> \/ canon'[k][1] # q
    BY DEF LogIsTrue
  <2>6. CASE q = s[1]
    BY <2>1, <2>2, <2>3, <2>4, <2>5, <2>6
  <2>7. CASE q # s[1]
    <3>1. log'[q] = log[q]
      BY <2>3, <2>7
    <3>2. canon[k] # None /\ (canon[k] = <<q, log[q].version>> \/ canon[k][1] # q)
      BY <2>5, <3>1 DEF LogIsTrue
    <3>3. CASE k \in Objects[s]
      BY <2>1, <2>2, <2>4, <2>7, <3>3
    <3>4. CASE k \notin Objects[s]
      <4>1. k \in Records
        <5>1. log[q].version \in Nat \ {0} /\ log[q].version <= Versions[q]
          BY <2>5, <3>1, ProjectionAssumption DEF TypeOK, NothingNewer
        <5>2. <<q, log[q].version>> \in Sources
          BY <5>1, SourceMade
        <5> QED BY <2>5, <3>1, <5>2, ProjectionAssumption
      <4> QED BY <2>4, <3>1, <3>2, <3>4, <4>1
    <3> QED BY <3>3, <3>4
  <2> QED BY <2>6, <2>7
<1> QED BY <1>1, <1>2, <1>3, <1>4, LogFrame

-----------------------------------------------------------------------------
(* What the audit log owes.                                                *)

\* The event is written, lost, or in somebody's hands.
At(w, p) == projector[w].row = Current(p) /\ projector[w].step \in {"emit", "failed"}
Logged(p) == Current(p) \in told \cup lost \/ \E w \in Projectors : At(w, p)

\* A step of one projector takes at most the event out of its own hands.
LEMMA LoggedKept ==
  ASSUME TypeOK, NEW p \in Pages, Logged(p), NEW w \in Projectors,
         UNCHANGED version, told \subseteq told', lost \subseteq lost',
         \A v \in Projectors \ {w} : projector'[v] = projector[v]
  PROVE  Logged(p)' \/ At(w, p)
  BY DEF Logged, At, Current

\* No projected page is without its event, unless it was lost.
LEMMA LoggedStep ==
  TypeOK /\ NothingNewer /\ ProjectedIsLogged /\ [Next]_vars => ProjectedIsLogged'
<1> SUFFICES ASSUME TypeOK, NothingNewer, ProjectedIsLogged, [Next]_vars,
                    NEW p \in Pages, Projected(p)'
             PROVE  Logged(p)'
  BY DEF ProjectedIsLogged, Logged, At
<1>a. Projected(p) => Logged(p)
  BY DEF ProjectedIsLogged, Logged, At
<1>b. version'[p] > 0 /\ log'[p].version = version'[p] /\ ~log'[p].failed
  BY DEF Projected, Terminal
<1>c. ASSUME UNCHANGED version, log'[p].version = log[p].version, log'[p].failed = log[p].failed
      PROVE  Logged(p)
  BY <1>a, <1>b, <1>c DEF Projected, Terminal
<1>1. ASSUME NEW q \in Pages, Parse(q) PROVE Logged(p)'
  <2>1. q # p
    <3> SUFFICES ASSUME q = p PROVE FALSE
      OBVIOUS
    <3>1. version'[p] = version[p] + 1 /\ UNCHANGED log
      BY <1>1 DEF Parse, TypeOK
    <3> QED BY <1>b, <3>1 DEF NothingNewer, TypeOK
  <2>2. version'[p] = version[p] /\ UNCHANGED <<log, projector>>
    BY <1>1, <2>1 DEF Parse, TypeOK
  <2>3. Logged(p)
    BY <1>a, <1>b, <2>2 DEF Projected, Terminal
  <2>4. Current(p)' = Current(p) /\ Current(p) # Current(q)
    BY <2>1, <2>2 DEF Current
  <2> QED BY <1>1, <2>2, <2>3, <2>4 DEF Parse, Logged, At
<1>2. ASSUME NEW q \in Pages, Replay(q) PROVE Logged(p)'
  <2>1. log'[p].version = log[p].version /\ log'[p].failed = log[p].failed
    BY <1>2 DEF Replay, TypeOK
  <2> QED BY <1>2, <1>c, <2>1 DEF Replay, raw, Logged, At, Current
<1>3. ASSUME NEW w \in Projectors, Poll(w) PROVE Logged(p)'
  <2>1. PICK S \in SUBSET {q \in Pages : Pending(q)} :
          projector' = [projector EXCEPT ![w].todo = {Current(q) : q \in S}]
    BY <1>3 DEF Poll
  <2>2. \A v \in Projectors \ {w} : projector'[v] = projector[v]
    BY <2>1 DEF TypeOK
  <2> QED BY <1>3, <1>c, <2>2, LoggedKept DEF Poll, raw, At
<1>4. ASSUME NEW w \in Projectors, Begin(w) PROVE Logged(p)'
  <2>1. \A v \in Projectors \ {w} : projector'[v] = projector[v]
    BY <1>4 DEF Begin, TypeOK
  <2> QED BY <1>4, <1>c, <2>1, LoggedKept DEF Begin, raw, At
<1>5. ASSUME NEW w \in Projectors, Commit(w) PROVE Logged(p)'
  <2> DEFINE s == projector[w].row
  <2>1. s \in Sources /\ s[1] \in Pages /\ s = <<s[1], s[2]>>
    BY <1>5, SourceParts DEF Commit, TypeOK
  <2>2. log'[s[1]].version = s[2] /\ \A q \in Pages \ {s[1]} : log'[q] = log[q]
    BY <1>5, <2>1 DEF Commit, Consumed, TypeOK
  <2>3. /\ \A v \in Projectors \ {w} : projector'[v] = projector[v]
        /\ projector'[w].step = "emit" /\ projector'[w].row = s
    BY <1>5, MoveFrame DEF Commit
  <2>4. UNCHANGED <<version, told, lost>>
    BY <1>5 DEF Commit, raw
  <2>5. CASE p = s[1]
    <3>1. Current(p)' = s
      BY <1>b, <2>1, <2>2, <2>5 DEF Current
    <3> QED BY <2>3, <3>1 DEF Logged, At
  <2>6. CASE p # s[1]
    <3>1. Logged(p)
      BY <1>c, <2>2, <2>4, <2>6
    <3> QED BY <1>5, <2>3, <2>4, <3>1, LoggedKept DEF Commit, At
  <2> QED BY <2>5, <2>6
<1>6. ASSUME NEW w \in Projectors, Throw(w) PROVE Logged(p)'
  <2>1. \A v \in Projectors \ {w} : projector'[v] = projector[v]
    BY <1>6, MoveFrame DEF Throw
  <2> QED BY <1>6, <1>c, <2>1, LoggedKept DEF Throw, raw, At
<1>7. ASSUME NEW w \in Projectors, Emit(w) \/ FailureUnrecorded(w) PROVE Logged(p)'
  <2>1. /\ UNCHANGED <<version, log>> /\ told \subseteq told' /\ lost \subseteq lost'
        /\ IfCurrent(w) \subseteq told' \cup lost' /\ Leave(w)
    BY <1>7 DEF Emit, FailureUnrecorded, raw
  <2>2. Logged(p)' \/ At(w, p)
    BY <1>c, <2>1, LoggedKept, LeaveFrame
  <2>3. CASE At(w, p)
    BY <2>1, <2>3 DEF At, IfCurrent, Logged, Current
  <2> QED BY <2>2, <2>3
<1>8. ASSUME NEW w \in Projectors, EmitFails(w) PROVE Logged(p)'
  <2>1. UNCHANGED <<version, log, lost>> /\ told \subseteq told'
    BY <1>8 DEF EmitFails, raw
  <2>2. /\ \A v \in Projectors \ {w} : projector'[v] = projector[v]
        /\ projector'[w].step = "failed" /\ projector'[w].row = projector[w].row
    BY <1>8, MoveFrame DEF EmitFails
  <2>3. Logged(p)' \/ At(w, p)
    BY <1>c, <2>1, <2>2, LoggedKept
  <2>4. CASE At(w, p)
    BY <2>1, <2>2, <2>4 DEF At, Logged, Current
  <2> QED BY <2>3, <2>4
<1>9. ASSUME NEW w \in Projectors, RecordFailure(w) PROVE Logged(p)'
  <2> DEFINE s == projector[w].row
  <2>1. s[1] \in Pages
    BY <1>9, SourceParts DEF RecordFailure, TypeOK
  <2>2. log'[s[1]].failed /\ \A q \in Pages \ {s[1]} : log'[q] = log[q]
    BY <1>9, <2>1 DEF RecordFailure, TypeOK
  <2>3. p # s[1]
    BY <1>b, <2>2
  <2>4. UNCHANGED <<version, told, lost>>
    BY <1>9 DEF RecordFailure, raw
  <2>5. Logged(p)' \/ At(w, p)
    BY <1>9, <1>c, <2>2, <2>3, <2>4, LoggedKept, LeaveFrame DEF RecordFailure
  <2> QED BY <2>3, <2>5 DEF At, Current
<1>10. ASSUME NEW w \in Projectors, Crash(w) PROVE Logged(p)'
  <2>1. UNCHANGED <<version, log, told>> /\ lost \subseteq lost'
    BY <1>10 DEF Crash, raw
  <2>2. \A v \in Projectors \ {w} : projector'[v] = projector[v]
    BY <1>10 DEF Crash, TypeOK
  <2>3. Logged(p)' \/ At(w, p)
    BY <1>c, <2>1, <2>2, LoggedKept
  <2>4. CASE At(w, p)
    <3>1. Current(p) \in IfCurrent(w) /\ IfCurrent(w) \subseteq lost'
      BY <1>10, <2>4 DEF At, IfCurrent, Crash
    <3> QED BY <2>1, <3>1 DEF Logged, Current
  <2> QED BY <2>3, <2>4
<1>11. ASSUME UNCHANGED <<version, log, told, lost>>,
              \A v \in Projectors :
                projector'[v].row = projector[v].row /\ projector'[v].step = projector[v].step
       PROVE  Logged(p)'
  <2>1. Logged(p)
    BY <1>c, <1>11
  <2> QED BY <1>11, <2>1 DEF Logged, At, Current
<1>12. ASSUME NEW l \in LedgerWorkers, Carries(l) \/ Hinders(l) PROVE Logged(p)'
  <2>1. CASE \E k \in Records, s \in Sources : Carry(l, k, s)
    BY <1>11, <2>1, CarryFrame DEF Carry, raw
  <2>2. CASE ~ \E k \in Records, s \in Sources : Carry(l, k, s)
    BY <1>11, <1>12, <2>2 DEF Carries, Hinders, CarrierPolls, Skip, CarryFails, CarryErrs,
       CarrierCrashes, raw, canonical
  <2> QED BY <2>1, <2>2
<1>13. CASE UNCHANGED vars
  BY <1>11, <1>13 DEF vars
<1> QED BY <1>1, <1>2, <1>3, <1>4, <1>5, <1>6, <1>7, <1>8, <1>9, <1>10, <1>12, <1>13
        DEF Next, Steps, Mishaps

-----------------------------------------------------------------------------
(* The theorems.                                                           *)

\* Nothing is parsed, projected or told of at first.
LEMMA InitIInv == Init => IInv
<1> SUFFICES ASSUME Init PROVE IInv
  OBVIOUS
<1>1. TypeOK
  BY ProjectionAssumption DEF Init, Idle, TypeOK
<1>2. NothingNewer
  BY DEF Init, Idle, NothingNewer
<1>3. LogIsTrue
  BY DEF Init, LogIsTrue
<1>4. ProjectedIsLogged
  BY DEF Init, ProjectedIsLogged, Projected, Terminal
<1> QED BY <1>1, <1>2, <1>3, <1>4 DEF IInv

\* The inductive invariant of the projection.
THEOREM Invariance == Spec => []IInv
<1>1. IInv /\ [Next]_vars => IInv'
  BY TypeStep, OrderStep, TrueStep, LoggedStep DEF IInv
<1> QED BY <1>1, InitIInv, PTL DEF Spec

\* Every reachable state is well typed.
THEOREM TypeCorrect == Spec => []TypeOK
<1>1. IInv => TypeOK
  BY DEF IInv
<1> QED BY <1>1, Invariance, PTL

\* A page the projector is done with is in the canonical store as of its current
\* version, however many projectors held older ones (PENDING_EXCLUSION, the
\* version stamped by runProjectionCycle).
THEOREM TerminalCurrent == Spec => []TerminalIsCurrent
<1>1. IInv => TerminalIsCurrent
  BY DEF IInv, LogIsTrue, TerminalIsCurrent, Projected, Terminal, Current
<1> QED BY <1>1, Invariance, PTL

\* Such a page has its event, or somebody is about to write it or to have the
\* page tried again, unless the event was lost (handleProjectionFailure).
THEOREM ProjectedLogged == Spec => []ProjectedIsLogged
<1>1. IInv => ProjectedIsLogged
  BY DEF IInv
<1> QED BY <1>1, Invariance, PTL
=============================================================================
