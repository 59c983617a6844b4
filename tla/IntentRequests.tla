--------------------------- MODULE IntentRequests ---------------------------
(***************************************************************************)
(* Requests of one tenant that create payment intents: POST                *)
(* /payment-intents behind the Idempotency-Key plugin of                   *)
(* shared/src/idempotency, and the MCP tool payment_intent.propose, whose  *)
(* retries collide on a dedup key.  Both end in PaymentIntentService       *)
(* .create.                                                                *)
(*                                                                         *)
(* A retry is a request of its own with the key and the body of the first. *)
(* An intent is named by the request that inserted its row.                *)
(***************************************************************************)
EXTENDS Naturals

CONSTANTS
  Requests,
  Http,      \* those that arrive at POST /payment-intents, the others use MCP
  Keys,
  KeyOf,     \* the Idempotency-Key header of each request, None without one
  Bodies,
  BodyOf,    \* the body; of an MCP call, its arguments and its agent
  None

Statuses == {"approved", "not_approved"}   \* pending_approval or rejected

ASSUME RequestsAssumption ==
  /\ Http \subseteq Requests
  /\ KeyOf \in [Requests -> Keys \cup {None}]
  /\ BodyOf \in [Requests -> Bodies]
  /\ None \notin Keys \cup Requests \cup Statuses

Keyed(r) == r \in Http /\ KeyOf[r] # None

VARIABLES
  entry,    \* Redis: what is stored under each key
  intent,   \* ledger_payment_intents: the status of the row each request inserted
  logged,   \* audit_events: the events about each intent
  request   \* where each request is, and what it answers

vars == <<entry, intent, logged, request>>

Events == {"created", "auto_approved"}
Entries == [state : {"in_flight", "done"}, body : Bodies, intent : Requests \cup {None}]
Handling == {"handling", "inserting", "losing", "logging", "approving"}
Steps == {"new", "missed", "raced", "sending", "answered", "lost"} \cup Handling
Locals == [step : Steps, outcome : {"none", "intent", "refused"},
           answer : Requests \cup {None}]

TypeOK ==
  /\ entry \in [Keys -> Entries \cup {None}]
  /\ intent \in [Requests -> Statuses \cup {None}]
  /\ logged \in [Requests -> SUBSET Events]
  /\ request \in [Requests -> Locals]

Init ==
  /\ entry = [k \in Keys |-> None]
  /\ intent = [r \in Requests |-> None]
  /\ logged = [r \in Requests |-> {}]
  /\ request = [r \in Requests |-> [step |-> "new", outcome |-> "none", answer |-> None]]

At(r, step) == request[r].step = step
Goto(r, step) == request' = [request EXCEPT ![r].step = step]
Answer(r, outcome, i) ==
  request' = [request EXCEPT ![r] = [step |-> "sending", outcome |-> outcome, answer |-> i]]

----------------------------------------------------------------------------
(* The plugin's preHandler: probeAndMark.                                  *)

Interpret_AnyBody(r) ==
  LET stored == entry[KeyOf[r]] IN
  \/ stored.state = "in_flight" /\ Answer(r, "refused", None)
  \/ stored.state = "done" /\ Answer(r, "intent", stored.intent)
Interpret(r) ==
  LET stored == entry[KeyOf[r]] IN
  \/ /\ stored.body # BodyOf[r] \/ stored.state = "in_flight"
     /\ Answer(r, "refused", None)
  \/ /\ stored.body = BodyOf[r] /\ stored.state = "done"
     /\ Answer(r, "intent", stored.intent)

\* The GET.  Without a key the request goes to its handler.
Probe(r) ==
  /\ At(r, "new")
  /\ \/ ~Keyed(r) /\ Goto(r, "handling")
     \/ Keyed(r) /\ entry[KeyOf[r]] = None /\ Goto(r, "missed")
     \/ Keyed(r) /\ entry[KeyOf[r]] # None /\ Interpret(r)
  /\ UNCHANGED <<entry, intent, logged>>

\* The SET NX.
Mark(r) ==
  /\ At(r, "missed")
  /\ \/ /\ entry[KeyOf[r]] = None
        /\ entry' = [entry EXCEPT ![KeyOf[r]] = [state |-> "in_flight", body |-> BodyOf[r],
                                                 intent |-> None]]
        /\ Goto(r, "handling")
     \/ entry[KeyOf[r]] # None /\ Goto(r, "raced") /\ UNCHANGED entry
  /\ UNCHANGED <<intent, logged>>

\* The loser of the race reads again; an entry gone meanwhile counts as a miss.
Reprobe(r) ==
  /\ At(r, "raced")
  /\ \/ entry[KeyOf[r]] = None /\ Goto(r, "handling")
     \/ entry[KeyOf[r]] # None /\ Interpret(r)
  /\ UNCHANGED <<entry, intent, logged>>

----------------------------------------------------------------------------
(* The handler: PaymentIntentService.create.                               *)

\* The intents with the dedup key of r, which only MCP calls carry.
Twins(r) == {i \in Requests \ Http : r \notin Http /\ BodyOf[i] = BodyOf[r] /\ intent[i] # None}

\* findByDedupKey, before anything else is read.
Find(r) ==
  /\ At(r, "handling")
  /\ \/ \E i \in Twins(r) : Answer(r, "intent", i)
     \/ Twins(r) = {} /\ Goto(r, "inserting")
  /\ UNCHANGED <<entry, intent, logged>>

\* The row with the status the policy evaluation gives; the partial unique
\* index refuses a second one with the dedup key.
Insert(r) ==
  /\ At(r, "inserting")
  /\ \/ /\ Twins(r) = {}
        /\ \E status \in Statuses : intent' = [intent EXCEPT ![r] = status]
        /\ Goto(r, "logging")
     \/ Twins(r) # {} /\ Goto(r, "losing") /\ UNCHANGED intent
  /\ UNCHANGED <<entry, logged>>

\* The unique violation: the winner's row is the answer.
FindWinner(r) ==
  /\ At(r, "losing")
  /\ \E i \in Twins(r) : Answer(r, "intent", i)
  /\ UNCHANGED <<entry, intent, logged>>

\* payment_intent.created, and payment_intent.auto_approved if the policy allowed.
LogCreated_AnswersFirst(r) ==
  /\ At(r, "logging")
  /\ Answer(r, "intent", r)
  /\ UNCHANGED <<entry, intent, logged>>
LogCreated(r) ==
  /\ At(r, "logging")
  /\ logged' = [logged EXCEPT ![r] = @ \cup {"created"}]
  /\ IF intent[r] = "approved" THEN Goto(r, "approving") ELSE Answer(r, "intent", r)
  /\ UNCHANGED <<entry, intent>>
LogApproved(r) ==
  /\ At(r, "approving")
  /\ logged' = [logged EXCEPT ![r] = @ \cup {"auto_approved"}]
  /\ Answer(r, "intent", r)
  /\ UNCHANGED <<entry, intent>>

\* Redis, a check, a read, the policy, the insert or an emit throws.
Fail(r) ==
  /\ request[r].step \notin {"sending", "answered", "lost"}
  /\ Answer(r, "refused", None)
  /\ UNCHANGED <<entry, intent, logged>>

----------------------------------------------------------------------------
(* The plugin's onSend, and what happens to its entries.                   *)

\* An answer below 400 is stored; any other one deletes what the key holds.
Stored(r) ==
  IF request[r].outcome = "intent"
  THEN [state |-> "done", body |-> BodyOf[r], intent |-> request[r].answer]
  ELSE None

Send(r) ==
  /\ At(r, "sending")
  /\ entry' = IF Keyed(r) THEN [entry EXCEPT ![KeyOf[r]] = Stored(r)] ELSE entry
  /\ Goto(r, "answered")
  /\ UNCHANGED <<intent, logged>>

\* The process dies, or Redis does not answer: the client gets an error or
\* nothing, and the entry stays as it is.
Lose(r) ==
  /\ request[r].step \notin {"new", "answered", "lost"}
  /\ request' = [request EXCEPT ![r] = [step |-> "lost", outcome |-> "none", answer |-> None]]
  /\ UNCHANGED <<entry, intent, logged>>

\* The entry's 24 hours are over.  No request lasts that long.
Expire(k) ==
  /\ entry[k] # None
  /\ \A r \in Requests : Keyed(r) /\ KeyOf[r] = k =>
       request[r].step \in {"new", "answered", "lost"}
  /\ entry' = [entry EXCEPT ![k] = None]
  /\ UNCHANGED <<intent, logged, request>>

Serve(r) ==
  \/ Probe(r) \/ Mark(r) \/ Reprobe(r)
  \/ Find(r) \/ Insert(r) \/ FindWinner(r) \/ LogCreated(r) \/ LogApproved(r) \/ Fail(r)
  \/ Send(r) \/ Lose(r)

Next == (\E r \in Requests : Serve(r)) \/ (\E k \in Keys : Expire(k))

Spec == Init /\ [][Next]_vars

----------------------------------------------------------------------------
(* What the two kinds of idempotency promise.                              *)

Named(r) == request[r].answer
Answered(r) == request[r].outcome = "intent"

\* An answer names an intent that exists and was created from the same body;
\* behind the plugin, by a request with the same key; over MCP, the one intent
\* all retries of the call are answered with.
AnswersAgree ==
  \A r \in Requests : Answered(r) =>
    /\ intent[Named(r)] # None /\ BodyOf[Named(r)] = BodyOf[r]
    /\ r \in Http => Named(r) \in Http /\ KeyOf[Named(r)] = KeyOf[r]
    /\ r \notin Http =>
         \A s \in Requests \ Http : BodyOf[s] = BodyOf[r] =>
           /\ Answered(s) => Named(s) = Named(r)
           /\ intent[s] # None => s = Named(r)

\* Whatever was lost, repeated, discarded or replayed, an intent named in an
\* answer of POST /payment-intents is in the audit log, and so is its automatic
\* approval.  (An MCP retry may be answered with an intent whose first call was
\* lost before its event.)
AnsweredIsLogged ==
  \A r \in Http : Answered(r) =>
    /\ "created" \in logged[Named(r)]
    /\ intent[Named(r)] = "approved" => "auto_approved" \in logged[Named(r)]
=============================================================================
