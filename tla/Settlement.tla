----------------------------- MODULE Settlement -----------------------------
(***************************************************************************)
(* What the execution path promises of a payment intent, with the outbox,  *)
(* its workers and their crashes hidden: it is committed to execution at   *)
(* most once, its funds are held from that moment until its outcome, it is *)
(* settled at most once, only after the money moved, and exactly the       *)
(* settled intents are recorded as executed.                               *)
(***************************************************************************)
CONSTANTS
  Intents,
  Reserving     \* the intents whose funds are held

VARIABLES
  phase,        \* [Intents -> Phases]
  funds,        \* [Intents -> {"free", "held", "spent"}]
  paid,         \* the intents whose money has moved
  recorded      \* the intents with an execution on record

vars == <<phase, funds, paid, recorded>>

Phases == {"open", "closed", "committed", "settled", "failed"}

Init ==
  /\ phase = [i \in Intents |-> "open"]
  /\ funds = [i \in Intents |-> "free"]
  /\ paid = {}
  /\ recorded = {}

SetFunds(i, state) ==
  funds' = IF i \in Reserving THEN [funds EXCEPT ![i] = state] ELSE funds

Close(i) ==
  /\ phase[i] = "open"
  /\ phase' = [phase EXCEPT ![i] = "closed"]
  /\ UNCHANGED <<funds, paid, recorded>>

Commit(i) ==
  /\ phase[i] = "open"
  /\ phase' = [phase EXCEPT ![i] = "committed"]
  /\ SetFunds(i, "held")
  /\ UNCHANGED <<paid, recorded>>

Pay(i) ==
  /\ phase[i] \in {"committed", "settled", "failed"}
  /\ paid' = paid \cup {i}
  /\ UNCHANGED <<phase, funds, recorded>>

Settle(i) ==
  /\ phase[i] = "committed"
  /\ i \in paid
  /\ phase' = [phase EXCEPT ![i] = "settled"]
  /\ recorded' = recorded \cup {i}
  /\ SetFunds(i, "spent")
  /\ UNCHANGED paid

Fail(i) ==
  /\ phase[i] = "committed"
  /\ phase' = [phase EXCEPT ![i] = "failed"]
  /\ SetFunds(i, "free")
  /\ UNCHANGED <<paid, recorded>>

Next == \E i \in Intents : Close(i) \/ Commit(i) \/ Pay(i) \/ Settle(i) \/ Fail(i)

Spec == Init /\ [][Next]_vars
=============================================================================
