--------------------- MODULE CollectionsProposalsProofs ---------------------
(***************************************************************************)
(* Proofs about CollectionsProposals, for any number of runs, members and  *)
(* reconcilers, any rules and any number of connections.                   *)
(***************************************************************************)
EXTENDS CollectionsProposals, TLAPS

----------------------------------------------------------------------------
(* The inductive invariant.                                                *)

Holding(q) == proc[q].step \in {"found", "emitted"}
OnEvent(q) ==
  \E e \in events : /\ e.row = proc[q].row /\ e.act = proc[q].act
                    /\ e.says = Says(proc[q].act, proc[q].content)

\* What each kind of process knows of the row while it holds its locks: a run
\* that there is no pending row, or which; a member that the decision may be
\* taken on the content it read; a reconciler that the row is pending, and as it
\* read it if it supersedes it.  Whoever emitted has its event on record.
RunHolds(r) ==
  /\ proc[r].step = "found"
  /\ proc[r].row = None => Pending = {}
  /\ proc[r].row # None => proc[r].row \in Pending
MemberHolds(m) ==
  /\ proc[m].row \in Runs /\ proc[m].act \in Decisions
  /\ MayDecide(proc[m].row, proc[m].act)
  /\ proc[m].content = proposal[proc[m].row].content
  /\ proc[m].step = "emitted" => OnEvent(m)
ReconcilerHolds(c) ==
  /\ proc[c].row \in Pending /\ proc[c].act \in {"refresh", "supersede"}
  /\ proc[c].act = "supersede" =>
       /\ proc[c].content = proposal[proc[c].row].content
       /\ proc[c].step = "emitted" => OnEvent(c)
Held(q) ==
  Holding(q) => /\ q \in Runs => RunHolds(q)
                /\ q \in Members => MemberHolds(q)
                /\ q \in Reconcilers => ReconcilerHolds(q)

\* The advisory lock and the row locks exclude.
Apart(q, s) ==
  Holding(q) /\ Holding(s) =>
    /\ q \in Members \/ s \in Members
    /\ proc[q].row # None => proc[q].row # proc[s].row
HoldersApart == \A q, s \in Processes : q # s => Apart(q, s)

\* A member asks about a row of its own choosing; a run that has not written has
\* no row.
Asked(m) == proc[m].step = "begun" => proc[m].row \in Runs /\ proc[m].act \in Decisions
Unwritten(r) == proc[r].step # "done" => proposal[r] = None

\* One row's part of DecidedIsOnRecord, and no decision on a pending row.
RowOnRecord(p) ==
  proposal[p] # None =>
    /\ proposal[p].status = "pending" => proposal[p].decision = None
    /\ proposal[p].decision # None =>
         \E e \in events : /\ e.row = p /\ e.act = proposal[p].decision
                           /\ e.says = Says(e.act, proposal[p].content)
                           /\ After(e.act) = proposal[p].status
    /\ Is(p, "superseded") =>
         \E e \in events : /\ e.row = p /\ e.act = "supersede"
                           /\ e.says = Says(e.act, proposal[p].content)

LocksInv ==
  /\ \A q \in Processes : Held(q)
  /\ HoldersApart
  /\ \A m \in Members : Asked(m)
RowsInv ==
  /\ \A r \in Runs : Unwritten(r) /\ RowOnRecord(r)
  /\ OneActionableProposal

IInv == TypeOK /\ LocksInv /\ RowsInv

----------------------------------------------------------------------------
(* Typing.                                                                 *)

SurroundingsOK ==
  /\ invoice \in {"open", "closed", "missing"} /\ today \in Days
  /\ rules \in Rules /\ turns \in 0..MaxTurns

\* The surroundings stay as they are, or stay well typed.
LEMMA SurroundingsStay == ASSUME TypeOK, UNCHANGED surroundings PROVE SurroundingsOK'
  BY DEF TypeOK, SurroundingsOK, surroundings

\* A move of q gives q its new place and leaves the others where they are.
LEMMA MoveFrame ==
  ASSUME TypeOK, NEW q \in Processes, NEW local \in Locals, Move(q, local)
  PROVE  /\ proc' \in [Processes -> Locals] /\ proc'[q] = local
         /\ \A s \in Processes \ {q} : proc'[s] = proc[s]
  BY DEF TypeOK, Move

\* Well-typed places.
LEMMA IdleIsLocal == /\ Idle \in Locals /\ Idle.step = "idle" /\ Idle.content \in Contents
                     /\ [Idle EXCEPT !.step = "done"] \in Locals
                     /\ [Idle EXCEPT !.step = "done"].step = "done"
<1>1. 1 \in Days
  BY ProposalsAssumption DEF Days
<1> QED  BY <1>1 DEF Idle, Locals, Acts, Contents, Modes, Outcomes

\* Emitting changes the step alone.
LEMMA EmittedIsLocal ==
  ASSUME TypeOK, NEW q \in Processes
  PROVE  LET local == [proc[q] EXCEPT !.step = "emitted"]
         IN  /\ local \in Locals /\ local.step = "emitted" /\ local.row = proc[q].row
             /\ local.act = proc[q].act /\ local.content = proc[q].content
<1>1. proc[q] \in Locals
  BY DEF TypeOK
<1> QED  BY <1>1 DEF Locals

----------------------------------------------------------------------------
(* Steps by what they disturb.                                             *)

\* A process that moves outside its locks, or leaves them, disturbs nobody.
LEMMA QuietStep ==
  ASSUME IInv, NEW q \in Processes, NEW local \in Locals, Move(q, local),
         local.step \notin {"found", "emitted"},
         q \in Members /\ local.step = "begun" => local.row \in Runs /\ local.act \in Decisions,
         q \in Runs => proc[q].step # "done" \/ local.step = "done",
         UNCHANGED <<proposal, events>>, SurroundingsOK'
  PROVE  IInv'
<1>1. /\ proc' \in [Processes -> Locals] /\ proc'[q] = local
      /\ \A s \in Processes \ {q} : proc'[s] = proc[s]
  BY MoveFrame DEF IInv
<1>2. TypeOK'
  BY <1>1 DEF IInv, TypeOK, SurroundingsOK
<1>3. \A s \in Processes : Holding(s)' => s # q /\ Holding(s)
  BY <1>1 DEF Holding
<1>4. \A s \in Processes : Held(s)'
  <2>1. TAKE s \in Processes
  <2>2. CASE ~Holding(s)'
    BY <2>2 DEF Held
  <2>3. CASE Holding(s)'
    <3>1. s # q /\ Holding(s) /\ proc'[s] = proc[s] /\ Held(s)
      BY <1>1, <1>3, <2>3 DEF IInv, LocksInv
    <3> QED  BY <3>1 DEF Held, RunHolds, MemberHolds, ReconcilerHolds, OnEvent, Pending, Is, MayDecide
  <2> QED  BY <2>2, <2>3
<1>5. HoldersApart'
  BY <1>1, <1>3 DEF IInv, LocksInv, HoldersApart, Apart, Holding
<1>6. \A m \in Members : Asked(m)'
  <2>1. TAKE m \in Members
  <2>2. m \in Processes /\ Asked(m)
    BY DEF Processes, IInv, LocksInv
  <2> QED  BY <1>1, <2>2 DEF Asked
<1>7. \A r \in Runs : Unwritten(r)' /\ RowOnRecord(r)'
  <2>1. TAKE r \in Runs
  <2>2. r \in Processes /\ Unwritten(r) /\ RowOnRecord(r)
    BY DEF Processes, IInv, RowsInv
  <2> QED  BY <1>1, <2>2 DEF Unwritten, RowOnRecord, Is
<1>8. OneActionableProposal'
  BY DEF IInv, RowsInv, OneActionableProposal, Pending, Is
<1> QED  BY <1>2, <1>4, <1>5, <1>6, <1>7, <1>8 DEF IInv, LocksInv, RowsInv

\* A process that takes its locks: nobody else has them.
LEMMA TakeStep ==
  ASSUME IInv, NEW q \in Processes, NEW p \in Runs \cup {None}, NEW act \in Acts,
         NEW content \in Contents, Found(q, p, act, content),
         proc[q].step = "begun", q \in Members \/ LockFree,
         UNCHANGED <<proposal, events>>, SurroundingsOK',
         q \in Runs => (p = None => Pending = {}) /\ (p # None => p \in Pending),
         q \in Members => /\ p \in Runs /\ act \in Decisions /\ MayDecide(p, act)
                          /\ content = proposal[p].content,
         q \in Reconcilers => /\ p \in Pending /\ act \in {"refresh", "supersede"}
                              /\ act = "supersede" => content = proposal[p].content
  PROVE  IInv'
<1> DEFINE local == [step |-> "found", row |-> p, act |-> act, content |-> content]
<1>1. local \in Locals /\ Move(q, local)
  BY DEF Locals, Found
<1>2. /\ proc' \in [Processes -> Locals] /\ proc'[q] = local
      /\ \A s \in Processes \ {q} : proc'[s] = proc[s]
  BY <1>1, MoveFrame DEF IInv
<1> HIDE DEF local
<1>3. local.step = "found" /\ local.row = p /\ local.act = act /\ local.content = content
  BY DEF local
<1>4. TypeOK'
  BY <1>2 DEF IInv, TypeOK, SurroundingsOK
<1>5. \A s \in Processes : Held(s)'
  <2>1. TAKE s \in Processes
  <2>2. CASE s # q
    <3>1. proc'[s] = proc[s] /\ Held(s)
      BY <1>2, <2>2 DEF IInv, LocksInv
    <3> QED  BY <3>1 DEF Held, Holding, RunHolds, MemberHolds, ReconcilerHolds, OnEvent, Pending, Is, MayDecide
  <2>3. CASE s = q
    <3>1. q \in Runs => RunHolds(q)'
      BY <1>2, <1>3 DEF RunHolds, Pending, Is
    <3>2. q \in Members => MemberHolds(q)'
      BY <1>2, <1>3 DEF MemberHolds, MayDecide, Is
    <3>3. q \in Reconcilers => ReconcilerHolds(q)'
      BY <1>2, <1>3 DEF ReconcilerHolds, Pending, Is
    <3> QED  BY <2>3, <3>1, <3>2, <3>3 DEF Held
  <2> QED  BY <2>2, <2>3
<1>6. \A s \in Processes \ {q} : Holding(s) => (q \in Members \/ s \in Members) /\ (p # None => proc[s].row # p)
  BY DEF Holding, Found, RowFree, LockFree, Processes
<1>7. HoldersApart'
  <2>1. SUFFICES ASSUME NEW s \in Processes, NEW t \in Processes, s # t PROVE Apart(s, t)'
    BY DEF HoldersApart
  <2>2. CASE s # q /\ t # q
    BY <1>2, <2>1, <2>2 DEF IInv, LocksInv, HoldersApart, Apart, Holding
  <2>3. CASE s = q
    BY <1>2, <1>3, <1>6, <2>1, <2>3 DEF Apart, Holding
  <2>4. CASE t = q
    BY <1>2, <1>3, <1>6, <2>1, <2>4 DEF Apart, Holding
  <2> QED  BY <2>2, <2>3, <2>4
<1>8. \A m \in Members : Asked(m)'
  <2>1. TAKE m \in Members
  <2>2. m \in Processes /\ Asked(m)
    BY DEF Processes, IInv, LocksInv
  <2> QED  BY <1>2, <1>3, <2>2 DEF Asked
<1>9. \A r \in Runs : Unwritten(r)' /\ RowOnRecord(r)'
  <2>1. TAKE r \in Runs
  <2>2. r \in Processes /\ Unwritten(r) /\ RowOnRecord(r)
    BY DEF Processes, IInv, RowsInv
  <2> QED  BY <1>2, <1>3, <2>2 DEF Unwritten, RowOnRecord, Is
<1>10. OneActionableProposal'
  BY DEF IInv, RowsInv, OneActionableProposal, Pending, Is
<1> QED  BY <1>4, <1>5, <1>7, <1>8, <1>9, <1>10 DEF IInv, LocksInv, RowsInv

\* A process that emits keeps its locks, and its event is on record.
LEMMA EmitStep ==
  ASSUME IInv, NEW q \in Processes, q \notin Runs, proc[q].step = "found",
         Move(q, [proc[q] EXCEPT !.step = "emitted"]),
         events \subseteq events', events' \subseteq Events,
         proc[q].act = "refresh" \/
           \E e \in events' : /\ e.row = proc[q].row /\ e.act = proc[q].act
                              /\ e.says = Says(proc[q].act, proc[q].content),
         UNCHANGED proposal, SurroundingsOK'
  PROVE  IInv'
<1> DEFINE local == [proc[q] EXCEPT !.step = "emitted"]
<1>1. /\ local \in Locals /\ local.step = "emitted" /\ local.row = proc[q].row
      /\ local.act = proc[q].act /\ local.content = proc[q].content
  BY EmittedIsLocal DEF IInv
<1>2. Move(q, local)
  OBVIOUS
<1> HIDE DEF local
<1>3. /\ proc' \in [Processes -> Locals] /\ proc'[q] = local
      /\ \A s \in Processes \ {q} : proc'[s] = proc[s]
  BY <1>1, <1>2, MoveFrame DEF IInv
<1>4. TypeOK'
  BY <1>3 DEF IInv, TypeOK, SurroundingsOK
<1>5. \A s \in Processes : Held(s)'
  <2>1. TAKE s \in Processes
  <2>2. CASE s # q
    <3>1. proc'[s] = proc[s] /\ Held(s)
      BY <1>3, <2>2 DEF IInv, LocksInv
    <3>2. OnEvent(s) => OnEvent(s)'
      BY <3>1 DEF OnEvent
    <3> QED
      BY <3>1, <3>2 DEF Held, Holding, RunHolds, MemberHolds, ReconcilerHolds, Pending, Is, MayDecide
  <2>3. CASE s = q
    <3>1. Held(q) /\ Holding(q)
      BY DEF IInv, LocksInv, Holding
    <3>2. proc[q].act # "refresh" => OnEvent(q)'
      BY <1>1, <1>3 DEF OnEvent
    <3>3. q \in Members => MemberHolds(q)'
      <4>1. SUFFICES ASSUME q \in Members PROVE MemberHolds(q)'
        OBVIOUS
      <4>2. proc[q].act # "refresh" /\ MemberHolds(q)
        BY <3>1, <4>1 DEF Held, MemberHolds, Decisions
      <4> QED  BY <1>1, <1>3, <3>2, <4>2 DEF MemberHolds, MayDecide, Is
    <3>4. q \in Reconcilers => ReconcilerHolds(q)'
      BY <1>1, <1>3, <3>1, <3>2 DEF Held, ReconcilerHolds, Pending, Is
    <3> QED  BY <2>3, <3>3, <3>4 DEF Held
  <2> QED  BY <2>2, <2>3
<1>6. HoldersApart'
  BY <1>1, <1>3 DEF IInv, LocksInv, HoldersApart, Apart, Holding
<1>7. \A m \in Members : Asked(m)'
  <2>1. TAKE m \in Members
  <2>2. m \in Processes /\ Asked(m)
    BY DEF Processes, IInv, LocksInv
  <2> QED  BY <1>1, <1>3, <2>2 DEF Asked
<1>8. \A r \in Runs : Unwritten(r)' /\ RowOnRecord(r)'
  <2>1. TAKE r \in Runs
  <2>2. r \in Processes /\ Unwritten(r) /\ RowOnRecord(r) /\ r # q
    BY DEF Processes, IInv, RowsInv
  <2>3. Unwritten(r)'
    BY <1>3, <2>2 DEF Unwritten
  <2>4. RowOnRecord(r)'
    BY <2>2 DEF RowOnRecord, Is
  <2> QED  BY <2>3, <2>4
<1>9. OneActionableProposal'
  BY DEF IInv, RowsInv, OneActionableProposal, Pending, Is
<1> QED  BY <1>4, <1>5, <1>6, <1>7, <1>8, <1>9 DEF IInv, LocksInv, RowsInv

\* A process that writes row p and lets its locks go: no other holds that row, and
\* a member never makes a row pending.
LEMMA WriteStep ==
  ASSUME IInv, NEW q \in Processes, Holding(q), NEW p \in Runs,
         NEW status \in Statuses, NEW content \in Contents, NEW decision \in Decisions \cup {None},
         Write(p, status, content, decision),
         NEW local \in Locals, Move(q, local), local.step \in {"idle", "done"},
         q \in Runs => local.step = "done",
         UNCHANGED events, SurroundingsOK',
         p = q \/ p \in Pending \/ (q \in Members /\ p = proc[q].row),
         proc[q].row # None => p = proc[q].row,
         proc[q].row = None => q \in Runs /\ p = q,
         status = "pending" => q \notin Members /\ decision = None,
         decision # None =>
           \E e \in events : /\ e.row = p /\ e.act = decision
                             /\ e.says = Says(e.act, content) /\ After(e.act) = status,
         status = "superseded" =>
           \E e \in events : e.row = p /\ e.act = "supersede" /\ e.says = Says(e.act, content)
  PROVE  IInv'
<1>1. /\ proc' \in [Processes -> Locals] /\ proc'[q] = local
      /\ \A s \in Processes \ {q} : proc'[s] = proc[s]
  BY MoveFrame DEF IInv
<1> DEFINE new == [status |-> status, content |-> content, decision |-> decision]
<1>2. /\ proposal' \in [Runs -> Rows \cup {None}] /\ proposal'[p] = new
      /\ \A s \in Runs \ {p} : proposal'[s] = proposal[s]
  <2>1. new \in Rows
    BY DEF Rows
  <2> QED  BY <2>1 DEF IInv, TypeOK, Write
<1>3. new.status = status /\ new.content = content /\ new.decision = decision
  OBVIOUS
<1> HIDE DEF new
<1>4. TypeOK'
  BY <1>1, <1>2 DEF IInv, TypeOK, SurroundingsOK
<1>5. Held(q)
  BY DEF IInv, LocksInv
<1>6. q \in Runs => Unwritten(q) /\ proc[q].step = "found" /\ proposal[q] = None
  <2>1. SUFFICES ASSUME q \in Runs PROVE Unwritten(q) /\ proc[q].step = "found" /\ proposal[q] = None
    OBVIOUS
  <2>2. Unwritten(q) /\ RunHolds(q)
    BY <1>5, <2>1 DEF Held, IInv, RowsInv
  <2> QED  BY <2>2 DEF Unwritten, RunHolds
<1>7. \A s \in Processes \ {q} : Holding(s) =>
        (q \in Members \/ s \in Members) /\ proc[s].row # p
  <2>1. TAKE s \in Processes \ {q}
  <2>2. HAVE Holding(s)
  <2>3. Apart(q, s) /\ Held(s)
    BY DEF IInv, LocksInv, HoldersApart
  <2>4. CASE proc[q].row # None
    BY <2>2, <2>3, <2>4 DEF Apart
  <2>5. CASE proc[q].row = None
    <3>1. q \in Runs /\ p = q /\ proposal[p] = None
      BY <1>6, <2>5
    <3>2. s \in Members
      BY <2>2, <2>3, <3>1, ProposalsAssumption DEF Apart
    <3>3. proposal[proc[s].row] # None
      BY <2>2, <2>3, <3>2 DEF Held, MemberHolds, MayDecide, Is
    <3> QED  BY <3>1, <3>2, <3>3
  <2> QED  BY <2>4, <2>5
<1>8. Pending' \subseteq Pending \cup {p} /\ (status # "pending" => Pending' \subseteq Pending)
  <2>1. p \in Pending' => status = "pending"
    BY <1>2, <1>3 DEF Pending, Is
  <2>2. \A s \in Runs \ {p} : s \in Pending' <=> s \in Pending
    BY <1>2 DEF Pending, Is
  <2>3. Pending' \subseteq Runs
    BY DEF Pending
  <2> QED  BY <2>1, <2>2, <2>3
<1>9. \A s \in Runs \ {p} : s \in Pending => s \in Pending'
  BY <1>2 DEF Pending, Is
<1>10. \A s \in Processes : Held(s)'
  <2>1. SUFFICES ASSUME NEW s \in Processes, Holding(s)' PROVE Held(s)'
    BY DEF Held
  <2>2. s # q /\ proc'[s] = proc[s] /\ Holding(s)
    BY <1>1, <2>1 DEF Holding
  <2>3. Held(s) /\ proc[s].row # p /\ (q \in Members \/ s \in Members)
    BY <1>7, <2>2 DEF IInv, LocksInv
  <2>4. OnEvent(s) => OnEvent(s)'
    BY <2>2 DEF OnEvent
  <2>5. s \in Runs => RunHolds(s)'
    <3>1. SUFFICES ASSUME s \in Runs PROVE RunHolds(s)'
      OBVIOUS
    <3>2. q \in Members /\ RunHolds(s)
      BY <2>2, <2>3, <3>1, ProposalsAssumption DEF Held
    <3>3. status # "pending"
      BY <3>2
    <3>4. proc[s].row \in Pending => proc[s].row \in Runs \ {p}
      BY <2>3 DEF Pending
    <3> QED  BY <1>8, <1>9, <2>2, <3>2, <3>3, <3>4 DEF RunHolds
  <2>6. s \in Members => MemberHolds(s)'
    <3>1. SUFFICES ASSUME s \in Members PROVE MemberHolds(s)'
      OBVIOUS
    <3>2. MemberHolds(s)
      BY <2>2, <2>3, <3>1 DEF Held
    <3>3. proposal'[proc[s].row] = proposal[proc[s].row]
      BY <1>2, <2>3, <3>2 DEF MemberHolds
    <3> QED  BY <2>2, <2>4, <3>2, <3>3 DEF MemberHolds, MayDecide, Is
  <2>7. s \in Reconcilers => ReconcilerHolds(s)'
    <3>1. SUFFICES ASSUME s \in Reconcilers PROVE ReconcilerHolds(s)'
      OBVIOUS
    <3>2. ReconcilerHolds(s)
      BY <2>2, <2>3, <3>1 DEF Held
    <3>3. proc[s].row \in Runs \ {p}
      BY <2>3, <3>2 DEF ReconcilerHolds, Pending
    <3>4. proposal'[proc[s].row] = proposal[proc[s].row] /\ proc[s].row \in Pending'
      BY <1>2, <1>9, <3>2, <3>3 DEF ReconcilerHolds
    <3> QED  BY <2>2, <2>4, <3>2, <3>4 DEF ReconcilerHolds
  <2> QED  BY <2>5, <2>6, <2>7 DEF Held
<1>11. HoldersApart'
  <2>1. \A s \in Processes : Holding(s)' => s # q /\ Holding(s) /\ proc'[s] = proc[s]
    BY <1>1 DEF Holding
  <2> QED  BY <2>1 DEF IInv, LocksInv, HoldersApart, Apart
<1>12. \A m \in Members : Asked(m)'
  <2>1. TAKE m \in Members
  <2>2. m \in Processes /\ Asked(m)
    BY DEF Processes, IInv, LocksInv
  <2> QED  BY <1>1, <2>2 DEF Asked
<1>13. proc'[p].step = "done"
  <2>1. CASE q \in Runs /\ p = q
    BY <1>1, <2>1
  <2>2. CASE p # q
    <3>1. proposal[p] # None
      <4>1. CASE p \in Pending
        BY <4>1 DEF Pending, Is
      <4>2. CASE q \in Members /\ p = proc[q].row
        BY <1>5, <4>2 DEF Held, MemberHolds, MayDecide, Is
      <4> QED  BY <2>2, <4>1, <4>2
    <3>2. Unwritten(p) /\ p \in Processes
      BY DEF IInv, RowsInv, Processes
    <3> QED  BY <1>1, <2>2, <3>1, <3>2 DEF Unwritten
  <2> QED  BY <2>1, <2>2
<1>14. \A r \in Runs : Unwritten(r)'
  <2>1. TAKE r \in Runs
  <2>2. Unwritten(r) /\ r \in Processes
    BY DEF IInv, RowsInv, Processes
  <2> QED  BY <1>1, <1>2, <1>13, <2>2 DEF Unwritten
<1>15. \A r \in Runs : RowOnRecord(r)'
  <2>1. TAKE r \in Runs
  <2>2. CASE r = p
    BY <1>2, <1>3, <2>2 DEF RowOnRecord, Is
  <2>3. CASE r # p
    <3>1. proposal'[r] = proposal[r] /\ RowOnRecord(r)
      BY <1>2, <2>3 DEF IInv, RowsInv
    <3> QED  BY <3>1 DEF RowOnRecord, Is
  <2> QED  BY <2>2, <2>3
<1>16. OneActionableProposal'
  <2>1. CASE status # "pending"
    BY <1>8, <2>1 DEF IInv, RowsInv, OneActionableProposal
  <2>2. CASE status = "pending"
    <3>1. Pending \subseteq {p}
      <4>1. CASE proc[q].row = None
        BY <1>5, <4>1 DEF Held, RunHolds
      <4>2. CASE proc[q].row # None
        <5>1. p \in Pending
          BY <1>5, <2>2, <4>2, ProposalsAssumption DEF Held, RunHolds, ReconcilerHolds, Processes
        <5> QED  BY <5>1 DEF IInv, RowsInv, OneActionableProposal
      <4> QED  BY <4>1, <4>2
    <3> QED  BY <1>8, <3>1 DEF OneActionableProposal
  <2> QED  BY <2>1, <2>2
<1> QED  BY <1>4, <1>10, <1>11, <1>12, <1>14, <1>15, <1>16 DEF IInv, LocksInv, RowsInv

----------------------------------------------------------------------------
(* The actions.                                                            *)

\* Contents and statuses that the actions write are well typed.
LEMMA StatusForTyped ==
  ASSUME NEW content \in Contents
  PROVE  StatusFor(content) \in Statuses \ {"superseded"}
  BY DEF StatusFor, Contents, Modes, Outcomes, Statuses
\* The content a run or a reconciler begins with is one of the contents.
LEMMA ContentTyped ==
  ASSUME TypeOK
  PROVE  /\ [days |-> today, mode |-> rules.authority, outcome |-> rules.outcome] \in Contents
         /\ [Idle.content EXCEPT !.days = today] \in Contents
         /\ \A q \in Processes : proc[q].content \in Contents /\ proc[q] \in Locals
         /\ \A p \in Runs, status \in Statuses :
              Is(p, status) => proposal[p] \in Rows /\ proposal[p].content \in Contents
         /\ \A p \in Runs, day \in Days : Is(p, "pending") => Refreshed(p, day) \in Contents
<1>1. rules.authority \in Modes /\ rules.outcome \in Outcomes /\ today \in Days
  BY ProposalsAssumption DEF TypeOK
<1>2. [Idle.content EXCEPT !.days = today] \in Contents
  BY <1>1, IdleIsLocal DEF Contents
<1>3. \A q \in Processes : proc[q].content \in Contents /\ proc[q] \in Locals
  BY DEF TypeOK, Locals
<1>4. \A p \in Runs, status \in Statuses :
        Is(p, status) => proposal[p] \in Rows /\ proposal[p].content \in Contents
  BY DEF TypeOK, Is, Rows
<1>5. \A p \in Runs, day \in Days : Is(p, "pending") => Refreshed(p, day) \in Contents
  <2>1. TAKE p \in Runs, day \in Days
  <2>2. HAVE Is(p, "pending")
  <2>3. proposal[p].content \in Contents
    BY <1>4, <2>2 DEF Statuses
  <2> QED  BY <1>1, <2>3 DEF Refreshed, Contents
<1> QED  BY <1>1, <1>2, <1>3, <1>4, <1>5 DEF Contents

\* A process gives up, or has nothing to do.
LEMMA ReturnKeepsIInv ==
  ASSUME IInv, NEW q \in Processes, Return(q), q \in Runs => proc[q].step # "done",
         UNCHANGED <<proposal, events>>, SurroundingsOK'
  PROVE  IInv'
<1>1. Move(q, Idle) /\ Idle \in Locals /\ Idle.step = "idle"
  BY IdleIsLocal DEF Return
<1> QED  BY <1>1, QuietStep

\* A process begins.
LEMMA BeginKeepsIInv ==
  ASSUME IInv, NEW q \in Processes, At(q, "idle"), NEW row \in Runs \cup {None}, NEW act \in Acts,
         NEW content \in Contents, Begin(q, row, act, content),
         q \in Members => row \in Runs /\ act \in Decisions,
         UNCHANGED <<surroundings, proposal, events>>
  PROVE  IInv'
<1> DEFINE local == [step |-> "begun", row |-> row, act |-> act, content |-> content]
<1>1. local \in Locals /\ Move(q, local)
  BY DEF Begin, Locals
<1>2. local.step = "begun" /\ local.row = row /\ local.act = act
  OBVIOUS
<1>3. SurroundingsOK' /\ proc[q].step # "done"
  BY SurroundingsStay DEF IInv, At
<1> HIDE DEF local
<1> QED  BY <1>1, <1>2, <1>3, QuietStep

\* A run that begins takes the policy and the day with it (agent-run-service.ts).
LEMMA RunBeginsKeepsIInv == ASSUME IInv, NEW r \in Runs, RunBegins(r) PROVE IInv'
<1> DEFINE content == [days |-> today, mode |-> rules.authority, outcome |-> rules.outcome]
<1>1. content \in Contents /\ "propose" \in Acts /\ r \in Processes /\ r \notin Members
  BY ContentTyped, ProposalsAssumption DEF IInv, Acts, Processes
<1>2. At(r, "idle") /\ Begin(r, None, "propose", content) /\ UNCHANGED <<surroundings, proposal, events>>
  BY DEF RunBegins
<1> HIDE DEF content
<1> QED  BY <1>1, <1>2, BeginKeepsIInv

\* A run that finds the pending row of its invoice, or none, under the lock.
LEMMA RunFindsKeepsIInv == ASSUME IInv, NEW r \in Runs, RunFinds(r) PROVE IInv'
<1>1. /\ r \in Processes /\ r \notin Members /\ r \notin Reconcilers /\ "propose" \in Acts
      /\ proc[r].content \in Contents /\ proc[r].step = "begun" /\ LockFree
      /\ SurroundingsOK' /\ UNCHANGED <<proposal, events>>
  BY ContentTyped, SurroundingsStay, ProposalsAssumption DEF IInv, Acts, Processes, RunFinds, At
<1>2. CASE Pending = {} /\ Found(r, None, "propose", proc[r].content)
  BY <1>1, <1>2, TakeStep
<1>3. CASE \E p \in Pending : Found(r, p, "propose", proc[r].content)
  <2>1. PICK p \in Pending : Found(r, p, "propose", proc[r].content)
    BY <1>3
  <2>2. p \in Runs /\ p # None
    BY ProposalsAssumption DEF Pending
  <2> QED  BY <1>1, <2>1, <2>2, TakeStep
<1> QED  BY <1>2, <1>3 DEF RunFinds

\* A run that inserts the row or refreshes the one it found, and commits.
LEMMA RunWritesKeepsIInv == ASSUME IInv, NEW r \in Runs, RunWrites(r) PROVE IInv'
<1> DEFINE p == IF proc[r].row = None THEN r ELSE proc[r].row
           status == StatusFor(proc[r].content)
           local == [Idle EXCEPT !.step = "done"]
<1>1. /\ r \in Processes /\ r \notin Members /\ proc[r].content \in Contents /\ Holding(r)
      /\ UNCHANGED events /\ Write(p, status, proc[r].content, None) /\ Move(r, local)
  BY ContentTyped, ProposalsAssumption DEF IInv, Processes, RunWrites, At, Holding
<1>2. status \in Statuses /\ status # "superseded" /\ local \in Locals /\ local.step = "done"
  BY <1>1, StatusForTyped, IdleIsLocal
<1>3. SurroundingsOK'
  BY SurroundingsStay DEF IInv, RunWrites
<1>4. Held(r)
  BY <1>1 DEF IInv, LocksInv
<1>5. proc[r].row # None => proc[r].row \in Pending
  BY <1>1, <1>4 DEF Held, RunHolds
<1>6. p \in Runs /\ (p = r \/ p \in Pending)
  BY <1>5 DEF Pending
<1>7. (proc[r].row # None => p = proc[r].row) /\ (proc[r].row = None => p = r)
  OBVIOUS
<1> HIDE DEF p, status, local
<1>8. local.step \in {"idle", "done"} /\ None \in Decisions \cup {None}
  BY <1>2
<1>9. p = r \/ p \in Pending \/ (r \in Members /\ p = proc[r].row)
  BY <1>6
<1>10. /\ status = "pending" => r \notin Members /\ None = None
       /\ proc[r].row = None => r \in Runs /\ p = r
  BY <1>1, <1>7
<1> QED  BY <1>1, <1>2, <1>3, <1>6, <1>7, <1>8, <1>9, <1>10, WriteStep

\* A member who begins a decision.
LEMMA DecideKeepsIInv == ASSUME IInv, NEW m \in Members, Decide(m) PROVE IInv'
<1>1. PICK p \in Runs, decision \in Decisions : Begin(m, p, decision, Idle.content)
  BY DEF Decide
<1>2. decision \in Acts /\ m \in Processes /\ Idle.content \in Contents
  BY IdleIsLocal DEF Acts, Processes
<1>3. At(m, "idle") /\ UNCHANGED <<surroundings, proposal, events>>
  BY DEF Decide
<1> QED  BY <1>1, <1>2, <1>3, BeginKeepsIInv

\* A member who locks the row and finds it pending, or is turned away.
LEMMA MemberFindsKeepsIInv == ASSUME IInv, NEW m \in Members, MemberFinds(m) PROVE IInv'
<1> DEFINE p == proc[m].row
           act == proc[m].act
<1>1. /\ m \in Processes /\ m \notin Runs /\ m \notin Reconcilers /\ proc[m].step = "begun"
      /\ SurroundingsOK' /\ UNCHANGED <<proposal, events>>
  BY SurroundingsStay, ProposalsAssumption DEF IInv, Processes, MemberFinds, At
<1>2. p \in Runs /\ act \in Decisions /\ act \in Acts
  BY <1>1 DEF IInv, LocksInv, Asked, Acts
<1>3. CASE MayDecide(p, act) /\ Found(m, p, act, proposal[p].content)
  <2>1. Is(p, "pending") \/ Is(p, "approved")
    BY <1>3 DEF MayDecide
  <2>2. proposal[p].content \in Contents
    BY <1>2, <2>1, ContentTyped DEF IInv, Statuses
  <2> QED  BY <1>1, <1>2, <1>3, <2>2, TakeStep
<1>4. CASE Return(m)
  BY <1>1, <1>4, ReturnKeepsIInv
<1> QED  BY <1>3, <1>4 DEF MemberFinds

\* An emission of a keyed event.
LEMMA EmitKeepsIInv ==
  ASSUME IInv, NEW q \in Processes, q \notin Runs, At(q, "found"), Emit(q),
         q \in Members \/ proc[q].act = "supersede", UNCHANGED <<surroundings, proposal>>
  PROVE  IInv'
<1>1. SurroundingsOK' /\ proc[q].step = "found"
  BY SurroundingsStay DEF IInv, At
<1>2. CASE Conflicts(q) /\ Return(q) /\ UNCHANGED events
  BY <1>1, <1>2, ReturnKeepsIInv
<1>3. CASE /\ events' = events \cup {EventOf(q)}
           /\ Move(q, [proc[q] EXCEPT !.step = "emitted"])
  <2>1. Held(q) /\ Holding(q)
    BY <1>1 DEF IInv, LocksInv, Holding
  <2>2. proc[q].row \in Runs /\ (Is(proc[q].row, "pending") \/ Is(proc[q].row, "approved"))
    BY <2>1 DEF Held, MemberHolds, ReconcilerHolds, MayDecide, Pending, Processes
  <2>3. proposal[proc[q].row] \in Rows
    BY <2>2, ContentTyped DEF IInv, Statuses
  <2>4. /\ proposal[proc[q].row].status \in Statuses
        /\ proc[q].content \in Contents /\ proc[q].act \in Acts
    BY <2>3, ContentTyped DEF IInv, Rows, Locals
  <2>5. Says(proc[q].act, proc[q].content) \in Days \X (Modes \cup Outcomes)
    BY <2>4 DEF Says, Contents
  <2>6. EventOf(q) \in Events
    BY <2>2, <2>4, <2>5 DEF EventOf, Events
  <2>7. /\ EventOf(q).row = proc[q].row /\ EventOf(q).act = proc[q].act
        /\ EventOf(q).says = Says(proc[q].act, proc[q].content)
    BY DEF EventOf
  <2>8. events \subseteq events' /\ events' \subseteq Events /\ EventOf(q) \in events'
    BY <1>3, <2>6 DEF IInv, TypeOK
  <2> QED  BY <1>1, <1>3, <2>7, <2>8, EmitStep
<1> QED  BY <1>2, <1>3 DEF Emit

\* A member whose decision is logged on a second connection.
LEMMA MemberEmitsKeepsIInv == ASSUME IInv, NEW m \in Members, MemberEmits(m) PROVE IInv'
<1>1. m \in Processes /\ m \notin Runs
  BY ProposalsAssumption DEF Processes
<1> QED  BY <1>1, EmitKeepsIInv DEF MemberEmits

\* A member whose transaction commits: the row now says what the event says.
LEMMA MemberCommitsKeepsIInv == ASSUME IInv, NEW m \in Members, MemberCommits(m) PROVE IInv'
<1> DEFINE p == proc[m].row
           act == proc[m].act
           status == After(act)
           content == proposal[p].content
<1>1. /\ m \in Processes /\ m \notin Runs /\ proc[m].step = "emitted" /\ Holding(m)
      /\ Write(p, status, content, act) /\ Move(m, Idle) /\ UNCHANGED events
      /\ SurroundingsOK'
  BY SurroundingsStay, ProposalsAssumption
  DEF IInv, Processes, MemberCommits, At, Holding, Return
<1>2. MemberHolds(m)
  BY <1>1 DEF IInv, LocksInv, Held
<1>3. p \in Runs /\ act \in Decisions /\ OnEvent(m) /\ proc[m].content = content
  BY <1>1, <1>2 DEF MemberHolds
<1>4. status \in Statuses \ {"pending", "superseded"}
  BY <1>3 DEF After, Decisions, Statuses
<1>5. content \in Contents
  BY <1>1, <1>3, ContentTyped DEF IInv
<1>6. \E e \in events : /\ e.row = p /\ e.act = act
                        /\ e.says = Says(e.act, content) /\ After(e.act) = status
  BY <1>3 DEF OnEvent
<1>7. p # None
  BY <1>3, ProposalsAssumption
<1> HIDE DEF act, status, content
<1> QED  BY <1>1, <1>3, <1>4, <1>5, <1>6, <1>7, IdleIsLocal, WriteStep

\* A reconciler that begins with the invoice as of today.
LEMMA ReconcilerBeginsKeepsIInv ==
  ASSUME IInv, NEW c \in Reconcilers, ReconcilerBegins(c) PROVE IInv'
<1> DEFINE content == [Idle.content EXCEPT !.days = today]
<1>1. content \in Contents /\ "refresh" \in Acts /\ c \in Processes /\ c \notin Members
  BY ContentTyped, ProposalsAssumption DEF IInv, Acts, Processes
<1>2. At(c, "idle") /\ Begin(c, None, "refresh", content) /\ UNCHANGED <<surroundings, proposal, events>>
  BY DEF ReconcilerBegins
<1> HIDE DEF content
<1> QED  BY <1>1, <1>2, BeginKeepsIInv

\* A reconciler that finds its row still pending under the lock, or passes on.
LEMMA ReconcilerFindsKeepsIInv ==
  ASSUME IInv, NEW c \in Reconcilers, ReconcilerFinds(c) PROVE IInv'
<1> DEFINE day == proc[c].content.days
<1>1. /\ c \in Processes /\ c \notin Members /\ c \notin Runs /\ LockFree
      /\ proc[c].step = "begun" /\ {"refresh", "supersede"} \subseteq Acts
      /\ SurroundingsOK' /\ UNCHANGED <<proposal, events>>
  BY SurroundingsStay, ProposalsAssumption DEF IInv, Processes, ReconcilerFinds, At, Acts
<1>2. day \in Days
  BY <1>1, ContentTyped DEF IInv, Contents
<1>3. CASE Return(c)
  BY <1>1, <1>3, ReturnKeepsIInv
<1>4. ASSUME NEW p \in Pending, Found(c, p, "supersede", proposal[p].content) PROVE IInv'
  <2>1. p \in Runs /\ proposal[p].content \in Contents
    BY ContentTyped DEF Pending, IInv, Statuses
  <2> QED  BY <1>1, <1>4, <2>1, TakeStep
<1>5. ASSUME NEW p \in Pending, Found(c, p, "refresh", Refreshed(p, day)) PROVE IInv'
  <2>1. p \in Runs /\ Refreshed(p, day) \in Contents
    BY <1>2, ContentTyped DEF Pending, IInv
  <2> QED  BY <1>1, <1>5, <2>1, TakeStep
<1> QED  BY <1>3, <1>4, <1>5 DEF ReconcilerFinds

\* A reconciler whose supersession is logged on a second connection.
LEMMA ReconcilerEmitsKeepsIInv ==
  ASSUME IInv, NEW c \in Reconcilers, ReconcilerEmits(c) PROVE IInv'
<1>1. /\ c \in Processes /\ c \notin Runs /\ At(c, "found") /\ proc[c].step = "found"
      /\ UNCHANGED <<surroundings, proposal>> /\ SurroundingsOK' /\ events \subseteq Events
  BY SurroundingsStay, ProposalsAssumption DEF IInv, TypeOK, Processes, ReconcilerEmits, At
<1>2. CASE proc[c].act = "supersede" /\ Emit(c)
  BY <1>1, <1>2, EmitKeepsIInv
<1>3. CASE /\ proc[c].act = "refresh" /\ UNCHANGED events
           /\ Move(c, [proc[c] EXCEPT !.step = "emitted"])
  BY <1>1, <1>3, EmitStep
<1> QED  BY <1>2, <1>3 DEF ReconcilerEmits

\* A reconciler that commits its refresh or supersession.
LEMMA ReconcilerCommitsKeepsIInv ==
  ASSUME IInv, NEW c \in Reconcilers, ReconcilerCommits(c) PROVE IInv'
<1> DEFINE p == proc[c].row
           status == IF proc[c].act = "supersede" THEN "superseded" ELSE "pending"
           content == proc[c].content
           decision == proposal[p].decision
<1>1. /\ c \in Processes /\ c \notin Runs /\ c \notin Members
      /\ proc[c].step = "emitted" /\ Holding(c) /\ content \in Contents
      /\ Write(p, status, content, decision) /\ Move(c, Idle) /\ UNCHANGED events
      /\ SurroundingsOK'
  BY SurroundingsStay, ContentTyped, ProposalsAssumption
  DEF IInv, Processes, ReconcilerCommits, At, Holding, Return
<1>2. ReconcilerHolds(c)
  BY <1>1 DEF IInv, LocksInv, Held
<1>3. p \in Runs /\ p \in Pending /\ Is(p, "pending")
  BY <1>2 DEF ReconcilerHolds, Pending
<1>4. decision = None
  <2>1. RowOnRecord(p)
    BY <1>3 DEF IInv, RowsInv
  <2> QED  BY <1>3, <2>1 DEF RowOnRecord, Is
<1>5. status \in Statuses
  BY DEF Statuses
<1>6. status = "superseded" =>
        \E e \in events : e.row = p /\ e.act = "supersede" /\ e.says = Says(e.act, content)
  BY <1>1, <1>2 DEF ReconcilerHolds, OnEvent
<1>7. p # None
  BY <1>3, ProposalsAssumption
<1> HIDE DEF status, content, decision
<1> QED  BY <1>1, <1>3, <1>4, <1>5, <1>6, <1>7, IdleIsLocal, WriteStep

\* The surroundings change alone.
LEMMA SurroundingsKeepIInv ==
  ASSUME IInv, SurroundingsOK', UNCHANGED <<proposal, events, proc>> PROVE IInv'
<1>1. TypeOK'
  BY DEF IInv, TypeOK, SurroundingsOK
<1>2. \A q \in Processes : Held(q)'
  <2>1. TAKE q \in Processes
  <2>2. Held(q)
    BY DEF IInv, LocksInv
  <2> QED
    BY <2>2 DEF Held, Holding, RunHolds, MemberHolds, ReconcilerHolds, OnEvent, Pending, Is, MayDecide
<1>3. HoldersApart' /\ \A m \in Members : Asked(m)'
  BY DEF IInv, LocksInv, HoldersApart, Apart, Holding, Asked
<1>4. RowsInv'
  BY DEF IInv, RowsInv, Unwritten, RowOnRecord, Is, OneActionableProposal, Pending
<1> QED  BY <1>1, <1>2, <1>3, <1>4 DEF IInv, LocksInv

----------------------------------------------------------------------------
(* The theorems.                                                           *)

LEMMA InitImpliesIInv == Init => IInv
<1> SUFFICES ASSUME Init PROVE IInv
  OBVIOUS
<1>1. 1 \in Days /\ 0 \in 0..MaxTurns
  BY ProposalsAssumption DEF Days
<1>2. TypeOK
  BY <1>1, IdleIsLocal DEF Init, TypeOK
<1>3. \A q \in Processes : proc[q].step = "idle"
  BY IdleIsLocal DEF Init
<1>4. LocksInv
  BY <1>3 DEF LocksInv, Held, Holding, HoldersApart, Apart, Asked, Processes
<1>5. \A r \in Runs : proposal[r] = None
  BY DEF Init
<1>6. RowsInv
  BY <1>5 DEF RowsInv, Unwritten, RowOnRecord, OneActionableProposal, Pending, Is
<1> QED  BY <1>2, <1>4, <1>6 DEF IInv

\* Every step keeps the invariant: one case per action.
LEMMA NextKeepsIInv == IInv /\ [Next]_vars => IInv'
<1> SUFFICES ASSUME IInv, [Next]_vars PROVE IInv'
  OBVIOUS
<1>1. ASSUME NEW r \in Runs, RunBegins(r) \/ Run(r) PROVE IInv'
  BY <1>1, RunBeginsKeepsIInv, RunFindsKeepsIInv, RunWritesKeepsIInv DEF Run
<1>2. ASSUME NEW m \in Members, Decide(m) \/ Member(m) PROVE IInv'
  BY <1>2, DecideKeepsIInv, MemberFindsKeepsIInv, MemberEmitsKeepsIInv, MemberCommitsKeepsIInv DEF Member
<1>3. ASSUME NEW c \in Reconcilers, ReconcilerBegins(c) \/ Reconciler(c) PROVE IInv'
  BY <1>3, ReconcilerBeginsKeepsIInv, ReconcilerFindsKeepsIInv, ReconcilerEmitsKeepsIInv,
     ReconcilerCommitsKeepsIInv DEF Reconciler
<1>4. ASSUME NEW q \in Processes, Abort(q) PROVE IInv'
  <2>1. SurroundingsOK'
    BY <1>4, ProposalsAssumption DEF IInv, TypeOK, SurroundingsOK, Abort, Turn
  <2>2. Return(q) /\ proc[q].step # "done" /\ UNCHANGED <<proposal, events>>
    BY <1>4 DEF Abort, InTransaction
  <2> QED  BY <2>1, <2>2, ReturnKeepsIInv
<1>5. ASSUME NEW q \in Processes, TimesOut(q) PROVE IInv'
  <2>1. Return(q) /\ proc[q].step # "done" /\ UNCHANGED <<proposal, events>> /\ SurroundingsOK'
    BY <1>5, SurroundingsStay DEF IInv, TimesOut, Waits, At
  <2> QED  BY <2>1, ReturnKeepsIInv
<1>6. CASE DayPasses \/ InvoiceChanges \/ RulesChange
  <2>1. SurroundingsOK'
    BY <1>6, ProposalsAssumption
    DEF IInv, TypeOK, SurroundingsOK, DayPasses, InvoiceChanges, RulesChange, Turn, Days
  <2>2. UNCHANGED <<proposal, events, proc>>
    BY <1>6 DEF DayPasses, InvoiceChanges, RulesChange
  <2> QED  BY <2>1, <2>2, SurroundingsKeepIInv
<1>7. CASE UNCHANGED vars
  BY <1>7, SurroundingsKeepIInv, SurroundingsStay DEF IInv, vars, surroundings
<1> QED  BY <1>1, <1>2, <1>3, <1>4, <1>5, <1>6, <1>7 DEF Next

\* The strengthening of the properties of the proposals is invariant.
THEOREM Invariance == Spec => []IInv
<1> QED  BY InitImpliesIInv, NextKeepsIInv, PTL DEF Spec

\* The state is well typed.
THEOREM TypeCorrect == Spec => []TypeOK
<1>1. IInv => TypeOK
  BY DEF IInv
<1> QED  BY <1>1, Invariance, PTL

\* Runs that propose at once leave the invoice one actionable proposal.
THEOREM OneActionableProposalHolds == Spec => []OneActionableProposal
<1>1. IInv => OneActionableProposal
  BY DEF IInv, RowsInv
<1> QED  BY <1>1, Invariance, PTL

\* Decisions and supersessions that stand are on record with what the row says.
THEOREM DecidedIsOnRecordHolds == Spec => []DecidedIsOnRecord
<1>1. IInv => DecidedIsOnRecord
  BY DEF IInv, RowsInv, RowOnRecord, DecidedIsOnRecord
<1> QED  BY <1>1, Invariance, PTL
=============================================================================
