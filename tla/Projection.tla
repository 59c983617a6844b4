------------------------------ MODULE Projection ------------------------------
(***************************************************************************)
(* From parsed pages to the Ledger, for one tenant.  The canonical         *)
(* projector (services/canonical/src/projectors/worker) turns pages of     *)
(* raw_parsed into canonical records, in one transaction with a row of     *)
(* canonical_projection_log; the Ledger's projection workers               *)
(* (services/ledger/src/projection) carry the records on.                  *)
(*                                                                         *)
(* A page may be parsed again while it is projected, and several projectors *)
(* run at once: the leased worker and the drains after an upload or an     *)
(* extraction, which hold no lease.  What a record says is abstracted to   *)
(* its source, the page and the version of it that was projected last.     *)
(*                                                                         *)
(* updated_at is compared, never shown: the Ledger's polls ask whether     *)
(* their row is older than the canonical one, which is the set `fresh'.    *)
(* now() is the start of a transaction, so a canonical one that commits    *)
(* after a Ledger row was written may still be the older of the two        *)
(* (`since').                                                              *)
(***************************************************************************)
EXTENDS Naturals, FiniteSets

CONSTANTS
  Pages,          \* rows of raw_parsed
  Versions,       \* how often each may be parsed, by page
  Objects,        \* what a version of a page contains: the keys of its records
  Poisoned,       \* versions the projector throws on
  Refused,        \* versions whose records the Ledger rejects
  Records,        \* canonical records, by natural key
  KindOf,         \* the canonical table of each
  PartyOf,        \* the counterparty or account it refers to, or None
  Projectors,     \* processes in runProjectionCycle
  Leased,         \* the one that polls for ever
  LedgerWorkers,  \* the leased workers of the Ledger
  Serves,         \* the records each of them projects
  MaxAttempts,    \* DEFAULT_MAX_PROJECTION_ATTEMPTS of both stages
  MaxFaults,      \* bound on crashes, errors of the database and of emits, replays
  None

Kinds == {"counterparty", "obligation", "account", "transaction"}
Sources == UNION {{p} \X (1..Versions[p]) : p \in Pages}

ASSUME ProjectionAssumption ==
  /\ Versions \in [Pages -> Nat \ {0}]
  /\ \A s \in Sources : Objects[s] \subseteq Records
  /\ Poisoned \cup Refused \subseteq Sources /\ None \notin Sources
  /\ KindOf \in [Records -> Kinds]
  /\ PartyOf \in [Records -> Records \cup {None}] /\ None \notin Records
  /\ Leased \in Projectors
  /\ Serves \in [LedgerWorkers -> SUBSET Records]
  /\ MaxAttempts \in Nat \ {0} /\ MaxFaults \in Nat

VARIABLES
  version,    \* extracted_at of each page; 0 before it was first parsed
  log,        \* canonical_projection_log; version 0 where there is no row
  canon,      \* the source of each canonical record, or None
  told,       \* current versions for which canonical.projected is in the audit log
  lost,       \* those whose projector stopped before it could tell of them
  projector,  \* where each projector is
  ledger,     \* records that have a row in the Ledger
  fresh,      \* records whose Ledger row is not older than the canonical one
  held,       \* ledger_projection_quarantine
  carrier,    \* where each Ledger worker is
  faults

raw == <<version>>
canonical == <<log, canon, told, lost, projector>>
downstream == <<ledger, held, carrier>>
vars == <<version, log, canon, told, lost, projector, ledger, fresh, held, carrier, faults>>

Idle == [step |-> "idle", todo |-> {}, row |-> None, since |-> {}]

TypeOK ==
  /\ version \in [Pages -> Nat] /\ \A p \in Pages : version[p] <= Versions[p]
  /\ log \in [Pages -> [version : Nat, failed : BOOLEAN, attempts : Nat, quarantined : BOOLEAN]]
  /\ canon \in [Records -> Sources \cup {None}]
  /\ told \subseteq Sources /\ lost \subseteq Sources
  /\ projector \in [Projectors ->
       [step : {"idle", "open", "emit", "failed"}, todo : SUBSET Sources,
        row : Sources \cup {None}, since : SUBSET Records]]
  /\ \A w \in Projectors :
       (projector[w].row = None) <=> (projector[w].step = "idle")
  /\ ledger \subseteq Records
  /\ fresh \subseteq Records
  /\ held \in [Records -> [attempts : Nat, quarantined : BOOLEAN]]
  /\ carrier \in [LedgerWorkers ->
       [stage : {"parties", "others"}, todo : SUBSET (Records \X Sources)]]
  /\ faults \in 0..MaxFaults

Init ==
  /\ version = [p \in Pages |-> 0]
  /\ log = [p \in Pages |-> [version |-> 0, failed |-> FALSE, attempts |-> 0,
                             quarantined |-> FALSE]]
  /\ canon = [k \in Records |-> None]
  /\ told = {} /\ lost = {}
  /\ projector = [w \in Projectors |-> Idle]
  /\ ledger = {}
  /\ fresh = {}
  /\ held = [k \in Records |-> [attempts |-> 0, quarantined |-> FALSE]]
  /\ carrier = [l \in LedgerWorkers |-> [stage |-> "others", todo |-> {}]]
  /\ faults = 0

Fault == faults < MaxFaults /\ faults' = faults + 1

-----------------------------------------------------------------------------
(* Pages, and what the projector's poll selects of them.                   *)

Current(p) == <<p, version[p]>>

\* The log has come to an end with the version the page carries now.
Terminal(p) ==
  /\ version[p] > 0 /\ log[p].version = version[p]
  /\ ~log[p].failed \/ log[p].quarantined
Pending(p) == version[p] > 0 /\ ~Terminal(p)
Projected(p) == Terminal(p) /\ ~log[p].failed

\* insertParsed: a first output, or the repair of one whose content changed;
\* what was told of an earlier version is not asked for again.
Parse(p) ==
  /\ version[p] < Versions[p]
  /\ version' = [version EXCEPT ![p] = @ + 1]
  /\ told' = told \ {Current(p)} /\ lost' = lost \ {Current(p)}
  /\ UNCHANGED <<log, canon, projector, downstream, fresh, faults>>

\* replayQuarantined: the error stays, so the page is polled again.
Replay(p) ==
  /\ log[p].quarantined /\ Fault
  /\ log' = [log EXCEPT ![p].quarantined = FALSE, ![p].attempts = 0]
  /\ UNCHANGED <<raw, canon, told, lost, projector, downstream, fresh>>

-----------------------------------------------------------------------------
(* A cycle of the canonical projector.                                     *)

Move(w, step) == projector' = [projector EXCEPT ![w].step = step, ![w].since = {}]
Leave(w) == projector' = [projector EXCEPT ![w].step = "idle", ![w].row = None]

IfCurrent(w) == {projector[w].row} \cap {Current(p) : p \in Pages}

\* Any part of what is pending: the passes poll one after the other, each up to
\* its limit, and a drain may name the page it wants.
Poll(w) ==
  /\ projector[w].step = "idle" /\ projector[w].todo = {}
  /\ \E S \in SUBSET {p \in Pages : Pending(p)} \ {{}} :
       projector' = [projector EXCEPT ![w].todo = {Current(p) : p \in S}]
  /\ UNCHANGED <<raw, log, canon, told, lost, downstream, fresh, faults>>

Begin(w) ==
  /\ projector[w].step = "idle"
  /\ \E s \in projector[w].todo :
       projector' = [projector EXCEPT ![w] =
         [step |-> "open", todo |-> @.todo \ {s}, row |-> s, since |-> {}]]
  /\ UNCHANGED <<raw, log, canon, told, lost, downstream, fresh, faults>>

\* The version the log row takes: the one the poll read.
Consumed_Latest(w) == version[projector[w].row[1]]
Consumed(w) == projector[w].row[2]

\* The records and the log row; its count of attempts stays as it is.
Commit(w) ==
  LET s == projector[w].row IN
  /\ projector[w].step = "open" /\ s \notin Poisoned
  /\ canon' = [k \in Records |-> IF k \in Objects[s] THEN s ELSE canon[k]]
  /\ log' = [log EXCEPT ![s[1]] = [@ EXCEPT !.version = Consumed(w),
                                            !.failed = FALSE, !.quarantined = FALSE]]
  /\ fresh' = (fresh \ Objects[s]) \cup (Objects[s] \cap projector[w].since)
  /\ Move(w, "emit")
  /\ UNCHANGED <<raw, told, lost, downstream, faults>>

\* The payload does not project, or the transaction fails and rolls back.
Throw(w) ==
  /\ projector[w].step = "open"
  /\ IF projector[w].row \in Poisoned THEN UNCHANGED faults ELSE Fault
  /\ Move(w, "failed")
  /\ UNCHANGED <<raw, log, canon, told, lost, downstream, fresh>>

Emit(w) ==
  /\ projector[w].step = "emit"
  /\ told' = told \cup IfCurrent(w)
  /\ Leave(w)
  /\ UNCHANGED <<raw, log, canon, lost, downstream, fresh, faults>>

EmitFails_Swallowed(w) ==
  /\ projector[w].step = "emit" /\ Fault
  /\ Leave(w)
  /\ UNCHANGED <<raw, log, canon, told, lost, downstream, fresh>>
\* Either of the two emits of an upload may be the one that fails.
EmitFails(w) ==
  /\ projector[w].step = "emit" /\ Fault
  /\ told' \in {told, told \cup IfCurrent(w)}
  /\ Move(w, "failed")
  /\ UNCHANGED <<raw, log, canon, lost, downstream, fresh>>

\* A budget of its own for each version, unless the stored version is already
\* the one that failed.
Attempts_Reset(s) == 1
Attempts(s) == IF log[s[1]].version = s[2] THEN log[s[1]].attempts + 1 ELSE 1

\* recordFailure, also when what failed is the emit after the commit.
RecordFailure(w) ==
  LET s == projector[w].row IN
  /\ projector[w].step = "failed"
  /\ log' = [log EXCEPT ![s[1]] = [version |-> s[2], failed |-> TRUE, attempts |-> Attempts(s),
                                   quarantined |-> Attempts(s) >= MaxAttempts]]
  /\ Leave(w)
  /\ UNCHANGED <<raw, canon, told, lost, downstream, fresh, faults>>

\* handleProjectionFailure swallows an error of recordFailure.
FailureUnrecorded(w) ==
  /\ projector[w].step = "failed" /\ Fault
  /\ lost' = lost \cup IfCurrent(w)
  /\ Leave(w)
  /\ UNCHANGED <<raw, log, canon, told, downstream, fresh>>

\* The process dies.
Crash(w) ==
  /\ projector[w] # Idle /\ Fault
  /\ lost' = IF projector[w].step \in {"emit", "failed"}
             THEN lost \cup IfCurrent(w) ELSE lost
  /\ projector' = [projector EXCEPT ![w] = Idle]
  /\ UNCHANGED <<raw, log, canon, told, downstream, fresh>>

Steps(w) ==
  \/ Poll(w) \/ Begin(w) \/ Commit(w) \/ Throw(w)
  \/ Emit(w) \/ RecordFailure(w)
Mishaps(w) == EmitFails(w) \/ FailureUnrecorded(w) \/ Crash(w)

-----------------------------------------------------------------------------
(* A cycle of a Ledger worker: counterparties or accounts first, then what *)
(* refers to them.                                                         *)

StageOf(k) == IF KindOf[k] \in {"obligation", "transaction"} THEN "others" ELSE "parties"

\* What a poll of the Ledger selects: no row, or an older one, not quarantined.
Selected(k) == canon[k] # None /\ k \notin fresh /\ ~held[k].quarantined

\* The counterparties of a poll lack the extensions their projection reads.
Unreadable(k) == KindOf[k] = "counterparty"

\* An obligation brings its counterparty along; a transaction waits for its
\* account.  One that names none is never placed.
Placeable(k) ==
  StageOf(k) = "others" =>
    /\ PartyOf[k] # None
    /\ IF KindOf[k] = "obligation" THEN canon[PartyOf[k]] # None ELSE PartyOf[k] \in ledger

\* The rows a projection of k writes, and whether the Ledger's tables take them:
\* k as the poll read it, the party as it is now.
Touched(k) == {r \in Records : r = k \/ (r = PartyOf[k] /\ r \notin ledger)}
Rejected(k, s) == s \in Refused \/ \E r \in Touched(k) \ {k} : canon[r] \in Refused

Due(l, stage) ==
  {<<k, canon[k]>> : k \in {r \in Serves[l] : Selected(r) /\ StageOf(r) = stage}}

\* The next of its two polls, when it is through with the rows of the last.  A
\* poll that finds nothing changes nothing, and the other one follows.
CarrierPolls(l) ==
  LET other == IF carrier[l].stage = "parties" THEN "others" ELSE "parties"
      next == IF Due(l, other) # {} THEN other ELSE carrier[l].stage
  IN /\ carrier[l].todo = {} /\ Due(l, next) # {}
     /\ carrier' = [carrier EXCEPT ![l] = [stage |-> next, todo |-> Due(l, next)]]
     /\ UNCHANGED <<raw, canonical, ledger, fresh, held, faults>>

Done(l, k, s) == carrier' = [carrier EXCEPT ![l].todo = @ \ {<<k, s>>}]

\* recordProjectionResult, in a transaction of its own whose error is swallowed.
Counted(k, attempts, quarantined) ==
  \/ /\ held' = [held EXCEPT ![k] = [attempts |-> attempts, quarantined |-> quarantined]]
     /\ UNCHANGED faults
  \/ Fault /\ UNCHANGED held

\* Writes the row as the poll read it, and clears what earlier failures left.
Carry(l, k, s) ==
  /\ <<k, s>> \in carrier[l].todo
  /\ Placeable(k) /\ ~Unreadable(k) /\ ~Rejected(k, s)
  /\ ledger' = ledger \cup Touched(k)
  /\ fresh' = fresh \cup Touched(k)
  /\ projector' = [w \in Projectors |->
       IF projector[w].step = "open" THEN [projector[w] EXCEPT !.since = @ \cup Touched(k)]
                                     ELSE projector[w]]
  /\ Counted(k, 0, FALSE)
  /\ Done(l, k, s)
  /\ UNCHANGED <<raw, log, canon, told, lost>>

\* Without the row it refers to nothing is written, which counts as a success.
Skip(l, k, s) ==
  /\ <<k, s>> \in carrier[l].todo
  /\ ~Placeable(k)
  /\ Counted(k, 0, FALSE)
  /\ Done(l, k, s)
  /\ UNCHANGED <<raw, canonical, ledger, fresh>>

\* The projection throws: always for what cannot be read or is refused.
CarryFails(l, k, s) ==
  LET attempts == held[k].attempts + 1 IN
  /\ <<k, s>> \in carrier[l].todo
  /\ Unreadable(k) \/ (Placeable(k) /\ Rejected(k, s))
  /\ Counted(k, attempts, attempts >= MaxAttempts)
  /\ Done(l, k, s)
  /\ UNCHANGED <<raw, canonical, ledger, fresh>>

\* The database fails it.
CarryErrs(l, k, s) ==
  LET attempts == held[k].attempts + 1 IN
  /\ <<k, s>> \in carrier[l].todo /\ Fault
  /\ held' = [held EXCEPT ![k] = [attempts |-> attempts,
                                  quarantined |-> attempts >= MaxAttempts]]
  /\ Done(l, k, s)
  /\ UNCHANGED <<raw, canonical, ledger, fresh>>

\* The worker dies, and another replica takes the lease.
CarrierCrashes(l) ==
  /\ carrier[l].todo # {} /\ Fault
  /\ carrier' = [carrier EXCEPT ![l] = [stage |-> "others", todo |-> {}]]
  /\ UNCHANGED <<raw, canonical, ledger, fresh, held>>

Carries(l) ==
  \/ CarrierPolls(l)
  \/ \E k \in Records, s \in Sources : Carry(l, k, s) \/ Skip(l, k, s) \/ CarryFails(l, k, s)
Hinders(l) ==
  \/ CarrierCrashes(l)
  \/ \E k \in Records, s \in Sources : CarryErrs(l, k, s)

Next ==
  \/ \E p \in Pages : Parse(p) \/ Replay(p)
  \/ \E w \in Projectors : Steps(w) \/ Mishaps(w)
  \/ \E l \in LedgerWorkers : Carries(l) \/ Hinders(l)

Fairness ==
  /\ WF_vars(Steps(Leased))
  /\ \A l \in LedgerWorkers : WF_vars(Carries(l))

Spec == Init /\ [][Next]_vars /\ Fairness

-----------------------------------------------------------------------------
(* Properties.                                                             *)

\* A page the projector will not look at again, and did not give up, is in the
\* canonical store: each record of its current version was written from that
\* version, or by another page since, though several projectors may have held
\* different versions of it and a repair may have come between poll and write.
TerminalIsCurrent ==
  \A p \in Pages : Projected(p) =>
    \A k \in Objects[Current(p)] :
      /\ canon[k] # None
      /\ canon[k] = Current(p) \/ canon[k][1] # p

\* The same page has canonical.projected for that version in the audit log, or
\* its projector is about to write it or to have the page tried again; only the
\* end of a process there, or a failure that could not be recorded, loses it.
ProjectedIsLogged ==
  \A p \in Pages : Projected(p) =>
    \/ Current(p) \in told \cup lost
    \/ \E w \in Projectors :
         projector[w].row = Current(p) /\ projector[w].step \in {"emit", "failed"}

\* Nothing is left over that a poll would select: each page ends projected or
\* quarantined with the version it carries, and each canonical record is carried
\* to the Ledger, quarantined there, or waits for a row that is not there.
Settled ==
  /\ \A p \in Pages : ~Pending(p)
  /\ \A k \in Records : Selected(k) => ~Placeable(k)
ProjectionSettles == []<>Settled
=============================================================================
