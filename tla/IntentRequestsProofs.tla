------------------------ MODULE IntentRequestsProofs ------------------------
(***************************************************************************)
(* Proofs about IntentRequests, for any requests of either kind, with any  *)
(* keys and bodies.                                                        *)
(***************************************************************************)
EXTENDS IntentRequests, TLAPS

----------------------------------------------------------------------------
(* The inductive invariant.                                                *)

\* An intent with every event that its creation owes.
OnRecord(i) ==
  /\ intent[i] # None /\ "created" \in logged[i]
  /\ intent[i] = "approved" => "auto_approved" \in logged[i]

\* A stored response names an intent made under its key from its body.
EntriesReal ==
  \A k \in Keys : entry[k] # None /\ entry[k].state = "done" =>
    /\ entry[k].intent \in Http /\ KeyOf[entry[k].intent] = k
    /\ BodyOf[entry[k].intent] = entry[k].body
    /\ OnRecord(entry[k].intent)

\* So does an answer.
AnswerReal(r) ==
  /\ request[r].step \in {"sending", "answered"}
  /\ Named(r) \in Requests /\ intent[Named(r)] # None /\ BodyOf[Named(r)] = BodyOf[r]
  /\ r \in Http => Named(r) \in Http /\ KeyOf[Named(r)] = KeyOf[r] /\ OnRecord(Named(r))
  /\ r \notin Http => Named(r) \notin Http

AnswersReal == \A r \in Requests : Answered(r) => AnswerReal(r)

\* A request before its insert has no row, and one between its events has one.
\* Only keyed requests wait on Redis.
RowsFollowSteps ==
  \A r \in Requests :
    /\ request[r].step \in {"new", "missed", "raced", "handling", "inserting"} => intent[r] = None
    /\ request[r].step \in {"logging", "approving"} => intent[r] # None
    /\ request[r].step = "approving" => "created" \in logged[r]
    /\ request[r].step \in {"missed", "raced"} => Keyed(r)

\* The partial unique index.
DedupKeysUnique ==
  \A r, s \in Requests \ Http :
    intent[r] # None /\ intent[s] # None /\ BodyOf[r] = BodyOf[s] => r = s

IInv == TypeOK /\ EntriesReal /\ AnswersReal /\ RowsFollowSteps /\ DedupKeysUnique

----------------------------------------------------------------------------
(* What a step of one request leaves alone.                                *)

\* A keyed request has a key.
LEMMA KeyedHasKey == ASSUME NEW r \in Requests, Keyed(r) PROVE KeyOf[r] \in Keys
  BY RequestsAssumption DEF Keyed

\* A move of r changes its step alone.
LEMMA GotoFrame ==
  ASSUME TypeOK, NEW r \in Requests, NEW step \in Steps, Goto(r, step)
  PROVE  /\ request' \in [Requests -> Locals]
         /\ \A s \in Requests \ {r} : request'[s] = request[s]
         /\ request'[r].step = step /\ request'[r].outcome = request[r].outcome
         /\ request'[r].answer = request[r].answer
<1>1. request \in [Requests -> Locals] /\ request[r] \in Locals
  BY DEF TypeOK
<1>2. [request[r] EXCEPT !.step = step] \in Locals
  BY <1>1 DEF Locals
<1>3. request' = [request EXCEPT ![r] = [request[r] EXCEPT !.step = step]]
  BY DEF Goto
<1>4. request'[r] = [request[r] EXCEPT !.step = step]
  BY <1>1, <1>3
<1>5. request'[r].step = step /\ request'[r].outcome = request[r].outcome
      /\ request'[r].answer = request[r].answer
  BY <1>1, <1>4 DEF Locals
<1> QED  BY <1>1, <1>2, <1>3, <1>5

\* An answer of r changes r alone.
LEMMA AnswerFrame ==
  ASSUME TypeOK, NEW r \in Requests, NEW outcome \in {"none", "intent", "refused"},
         NEW i \in Requests \cup {None}, Answer(r, outcome, i)
  PROVE  /\ request' \in [Requests -> Locals]
         /\ \A s \in Requests \ {r} : request'[s] = request[s]
         /\ request'[r].step = "sending" /\ request'[r].outcome = outcome
         /\ request'[r].answer = i
<1>1. [step |-> "sending", outcome |-> outcome, answer |-> i] \in Locals
  BY DEF Locals, Steps
<1> QED  BY <1>1 DEF TypeOK, Answer

\* Rows are inserted and events appended; no request disturbs what others made.
Monotone ==
  \A i \in Requests : /\ intent[i] # None => intent'[i] = intent[i]
                      /\ logged[i] \subseteq logged'[i]

\* An answer survives what a monotone step of another request does.
LEMMA OthersAnswersStay ==
  ASSUME IInv, Monotone, NEW s \in Requests, request'[s] = request[s], Answered(s)'
  PROVE  AnswerReal(s)'
<1>1. Answered(s) /\ Named(s)' = Named(s)
  BY DEF Answered, Named
<1> DEFINE i == request[s].answer
<1>2. /\ request[s].step \in {"sending", "answered"}
      /\ i \in Requests /\ intent[i] # None /\ BodyOf[i] = BodyOf[s]
      /\ s \in Http => i \in Http /\ KeyOf[i] = KeyOf[s] /\ OnRecord(i)
      /\ s \notin Http => i \notin Http
  BY <1>1 DEF IInv, AnswersReal, AnswerReal, Named
<1>3. intent'[i] = intent[i] /\ logged[i] \subseteq logged'[i]
  BY <1>2 DEF Monotone
<1> QED  BY <1>1, <1>2, <1>3 DEF AnswerReal, Named, OnRecord

\* Stored responses survive any monotone step that does not touch Redis.
LEMMA EntriesStay ==
  ASSUME IInv, Monotone, UNCHANGED entry
  PROVE  EntriesReal'
<1>1. SUFFICES ASSUME NEW k \in Keys, entry[k] # None, entry[k].state = "done"
               PROVE  /\ entry[k].intent \in Http /\ KeyOf[entry[k].intent] = k
                      /\ BodyOf[entry[k].intent] = entry[k].body
                      /\ OnRecord(entry[k].intent)'
  BY DEF EntriesReal, OnRecord
<1> DEFINE i == entry[k].intent
<1>2. i \in Http /\ KeyOf[i] = k /\ BodyOf[i] = entry[k].body /\ OnRecord(i)
  BY <1>1 DEF IInv, EntriesReal
<1>3. i \in Requests
  BY <1>2, RequestsAssumption
<1>4. intent'[i] = intent[i] /\ logged[i] \subseteq logged'[i]
  BY <1>2, <1>3 DEF Monotone, OnRecord
<1> QED  BY <1>2, <1>4 DEF OnRecord

\* A request that only moves, before its answer and outside its insert.
LEMMA MoveKeepsIInv ==
  ASSUME IInv, NEW r \in Requests, NEW step \in Steps, Goto(r, step),
         UNCHANGED <<entry, intent, logged>>,
         Answered(r) => step \in {"sending", "answered"},
         step \in {"new", "missed", "raced", "handling", "inserting"} => intent[r] = None,
         step \in {"missed", "raced"} => Keyed(r), step \notin {"logging", "approving"}
  PROVE  IInv'
<1>1. TypeOK /\ Monotone
  BY DEF IInv, Monotone
<1>2. /\ request' \in [Requests -> Locals]
      /\ \A s \in Requests \ {r} : request'[s] = request[s]
      /\ request'[r].step = step /\ request'[r].outcome = request[r].outcome
      /\ request'[r].answer = request[r].answer
  BY <1>1, GotoFrame
<1>3. TypeOK'
  BY <1>1, <1>2 DEF TypeOK
<1>4. EntriesReal'
  BY <1>1, EntriesStay
<1>5. AnswersReal'
  BY <1>2 DEF IInv, AnswersReal, AnswerReal, Answered, Named, OnRecord
<1>6. RowsFollowSteps'
  BY <1>2 DEF IInv, RowsFollowSteps
<1>7. DedupKeysUnique'
  BY DEF IInv, DedupKeysUnique
<1> QED  BY <1>3, <1>4, <1>5, <1>6, <1>7 DEF IInv

\* A request that is answered with an intent it may be answered with, or refused.
LEMMA AnswerKeepsIInv ==
  ASSUME IInv, NEW r \in Requests, NEW outcome \in {"intent", "refused"},
         NEW i \in Requests \cup {None}, Answer(r, outcome, i),
         UNCHANGED <<entry, intent, logged>>,
         outcome = "intent" =>
           /\ i \in Requests /\ intent[i] # None /\ BodyOf[i] = BodyOf[r]
           /\ r \in Http => i \in Http /\ KeyOf[i] = KeyOf[r] /\ OnRecord(i)
           /\ r \notin Http => i \notin Http
  PROVE  IInv'
<1>1. TypeOK /\ Monotone
  BY DEF IInv, Monotone
<1>2. /\ request' \in [Requests -> Locals]
      /\ \A s \in Requests \ {r} : request'[s] = request[s]
      /\ request'[r].step = "sending" /\ request'[r].outcome = outcome
      /\ request'[r].answer = i
  BY <1>1, AnswerFrame
<1>3. TypeOK'
  BY <1>1, <1>2 DEF TypeOK
<1>4. EntriesReal'
  BY <1>1, EntriesStay
<1>5. AnswersReal'
  BY <1>2 DEF IInv, AnswersReal, AnswerReal, Answered, Named, OnRecord
<1>6. RowsFollowSteps'
  BY <1>2 DEF IInv, RowsFollowSteps
<1>7. DedupKeysUnique'
  BY DEF IInv, DedupKeysUnique
<1> QED  BY <1>3, <1>4, <1>5, <1>6, <1>7 DEF IInv

----------------------------------------------------------------------------
(* The plugin.                                                             *)

\* No answer has been given before "sending".
LEMMA NotYetAnswered ==
  ASSUME IInv, NEW r \in Requests, request[r].step \notin {"sending", "answered"}
  PROVE  ~Answered(r)
  BY DEF IInv, AnswersReal, AnswerReal

\* A stored entry answers its own key's requests.
LEMMA InterpretKeepsIInv ==
  ASSUME IInv, NEW r \in Requests, Keyed(r), entry[KeyOf[r]] # None, Interpret(r),
         UNCHANGED <<entry, intent, logged>>
  PROVE  IInv'
<1> DEFINE k == KeyOf[r]
<1>1. k \in Keys /\ r \in Http
  BY KeyedHasKey DEF Keyed
<1>2. entry[k] \in Entries
  BY <1>1 DEF IInv, TypeOK
<1>3. CASE Answer(r, "refused", None)
  BY <1>3, AnswerKeepsIInv
<1>4. CASE entry[k].body = BodyOf[r] /\ entry[k].state = "done" /\ Answer(r, "intent", entry[k].intent)
  <2> DEFINE i == entry[k].intent
  <2>1. i \in Http /\ KeyOf[i] = k /\ BodyOf[i] = entry[k].body /\ OnRecord(i)
    BY <1>1, <1>4 DEF IInv, EntriesReal
  <2>2. i \in Requests /\ intent[i] # None
    BY <2>1, RequestsAssumption DEF OnRecord
  <2> QED  BY <1>1, <1>4, <2>1, <2>2, AnswerKeepsIInv
<1> QED  BY <1>3, <1>4 DEF Interpret

\* A miss, a replay or a 409.
LEMMA ProbeStep ==
  ASSUME IInv, NEW r \in Requests, Probe(r)
  PROVE  IInv'
<1>1. request[r].step = "new" /\ intent[r] = None /\ UNCHANGED <<entry, intent, logged>>
  BY DEF Probe, At, IInv, RowsFollowSteps
<1>2. ~Answered(r)
  BY <1>1, NotYetAnswered
<1>3. "handling" \in Steps /\ "missed" \in Steps
  BY DEF Steps, Handling
<1>4. CASE Goto(r, "handling") \/ (Keyed(r) /\ Goto(r, "missed"))
  BY <1>1, <1>2, <1>3, <1>4, MoveKeepsIInv
<1>5. CASE Keyed(r) /\ entry[KeyOf[r]] # None /\ Interpret(r)
  BY <1>1, <1>5, InterpretKeepsIInv
<1> QED  BY <1>4, <1>5 DEF Probe

\* The same, after a lost race for the marker.
LEMMA ReprobeStep ==
  ASSUME IInv, NEW r \in Requests, Reprobe(r)
  PROVE  IInv'
<1>1. request[r].step = "raced" /\ Keyed(r) /\ intent[r] = None /\ UNCHANGED <<entry, intent, logged>>
  BY DEF Reprobe, At, IInv, RowsFollowSteps
<1>2. ~Answered(r)
  BY <1>1, NotYetAnswered
<1>3. "handling" \in Steps
  BY DEF Steps, Handling
<1>4. CASE Goto(r, "handling")
  BY <1>1, <1>2, <1>3, <1>4, MoveKeepsIInv
<1>5. CASE entry[KeyOf[r]] # None /\ Interpret(r)
  BY <1>1, <1>5, InterpretKeepsIInv
<1> QED  BY <1>4, <1>5 DEF Reprobe

\* The marker names no response, so it answers nobody.
LEMMA MarkStep ==
  ASSUME IInv, NEW r \in Requests, Mark(r)
  PROVE  IInv'
<1>1. /\ request[r].step = "missed" /\ Keyed(r) /\ intent[r] = None /\ KeyOf[r] \in Keys
      /\ UNCHANGED <<intent, logged>>
  BY KeyedHasKey DEF Mark, At, IInv, RowsFollowSteps
<1>2. ~Answered(r)
  BY <1>1, NotYetAnswered
<1>3. "handling" \in Steps /\ "raced" \in Steps
  BY DEF Steps, Handling
<1>4. CASE Goto(r, "raced") /\ UNCHANGED entry
  BY <1>1, <1>2, <1>3, <1>4, MoveKeepsIInv
<1>5. ASSUME Goto(r, "handling"),
             entry' = [entry EXCEPT ![KeyOf[r]] = [state |-> "in_flight", body |-> BodyOf[r],
                                                   intent |-> None]]
      PROVE  IInv'
  <2>1. TypeOK
    BY DEF IInv
  <2>2. /\ request' \in [Requests -> Locals]
        /\ \A s \in Requests \ {r} : request'[s] = request[s]
        /\ request'[r].step = "handling" /\ request'[r].outcome = request[r].outcome
        /\ request'[r].answer = request[r].answer
    BY <1>3, <1>5, <2>1, GotoFrame
  <2>3. [state |-> "in_flight", body |-> BodyOf[r], intent |-> None] \in Entries
    BY RequestsAssumption DEF Entries
  <2>4. TypeOK'
    BY <1>1, <1>5, <2>1, <2>2, <2>3 DEF TypeOK
  <2>5. /\ entry'[KeyOf[r]].state = "in_flight"
        /\ \A k \in Keys \ {KeyOf[r]} : entry'[k] = entry[k]
    BY <1>1, <1>5, <2>1 DEF TypeOK
  <2>6. EntriesReal'
    BY <1>1, <2>5 DEF IInv, EntriesReal, OnRecord
  <2>7. AnswersReal'
    BY <1>1, <1>2, <2>2 DEF IInv, AnswersReal, AnswerReal, Answered, Named, OnRecord
  <2>8. RowsFollowSteps'
    BY <1>1, <2>2 DEF IInv, RowsFollowSteps
  <2>9. DedupKeysUnique'
    BY <1>1 DEF IInv, DedupKeysUnique
  <2> QED  BY <2>4, <2>6, <2>7, <2>8, <2>9 DEF IInv
<1> QED  BY <1>4, <1>5 DEF Mark

\* The response is stored, or the key is freed.
LEMMA SendStep ==
  ASSUME IInv, NEW r \in Requests, Send(r)
  PROVE  IInv'
<1>1. /\ request[r].step = "sending" /\ Goto(r, "answered") /\ UNCHANGED <<intent, logged>>
      /\ "answered" \in Steps /\ TypeOK
  BY DEF Send, At, IInv, Steps
<1>2. /\ request' \in [Requests -> Locals]
      /\ \A s \in Requests \ {r} : request'[s] = request[s]
      /\ request'[r].step = "answered" /\ request'[r].outcome = request[r].outcome
      /\ request'[r].answer = request[r].answer
  BY <1>1, GotoFrame
<1>3. CASE ~Keyed(r)
  <2>1. UNCHANGED entry
    BY <1>3 DEF Send
  <2> QED  BY <1>1, <2>1, MoveKeepsIInv
<1>4. CASE Keyed(r)
  <2> DEFINE k == KeyOf[r]
  <2>1. entry' = [entry EXCEPT ![k] = Stored(r)] /\ k \in Keys /\ r \in Http
    BY <1>4, KeyedHasKey DEF Send, Keyed
  <2>2. entry \in [Keys -> Entries \cup {None}]
    BY <1>1 DEF TypeOK
  <2>3. Answered(r) =>
          LET i == request[r].answer IN
            i \in Http /\ i \in Requests /\ KeyOf[i] = k /\ BodyOf[i] = BodyOf[r] /\ OnRecord(i)
    BY <2>1 DEF IInv, AnswersReal, AnswerReal, Named
  <2>4. Stored(r) \in Entries \cup {None}
    BY <2>3, RequestsAssumption DEF Stored, Entries, Answered
  <2>5. TypeOK'
    BY <1>1, <1>2, <2>1, <2>2, <2>4 DEF TypeOK
  <2>6. /\ entry'[k] = Stored(r)
        /\ \A j \in Keys \ {k} : entry'[j] = entry[j]
    BY <2>1, <2>2
  <2>7. EntriesReal'
    <3>1. ASSUME NEW j \in Keys, j # k, entry'[j] # None, entry'[j].state = "done"
          PROVE  /\ entry'[j].intent \in Http /\ KeyOf[entry'[j].intent] = j
                 /\ BodyOf[entry'[j].intent] = entry'[j].body
                 /\ OnRecord(entry[j].intent)'
      BY <1>1, <2>6, <3>1 DEF IInv, EntriesReal, OnRecord
    <3>2. ASSUME Stored(r) # None
          PROVE  LET i == request[r].answer IN
                 /\ Stored(r).intent = i /\ Stored(r).body = BodyOf[r] /\ i \in Http
                 /\ KeyOf[i] = k /\ BodyOf[i] = BodyOf[r] /\ OnRecord(i)
      BY <2>3, <3>2 DEF Stored, Answered
    <3> QED  BY <1>1, <2>6, <3>1, <3>2 DEF EntriesReal, OnRecord
  <2>8. AnswersReal'
    BY <1>1, <1>2 DEF IInv, AnswersReal, AnswerReal, Answered, Named, OnRecord
  <2>9. RowsFollowSteps'
    BY <1>1, <1>2 DEF IInv, RowsFollowSteps
  <2>10. DedupKeysUnique'
    BY <1>1 DEF IInv, DedupKeysUnique
  <2> QED  BY <2>5, <2>7, <2>8, <2>9, <2>10 DEF IInv
<1> QED  BY <1>3, <1>4

\* A request is lost.
LEMMA LoseStep ==
  ASSUME IInv, NEW r \in Requests, Lose(r)
  PROVE  IInv'
<1>1. UNCHANGED <<entry, intent, logged>> /\ TypeOK
  BY DEF Lose, IInv
<1>2. [step |-> "lost", outcome |-> "none", answer |-> None] \in Locals
  BY DEF Locals, Steps
<1>3. /\ request' \in [Requests -> Locals]
      /\ \A s \in Requests \ {r} : request'[s] = request[s]
      /\ request'[r].step = "lost" /\ request'[r].outcome = "none"
  BY <1>1, <1>2 DEF Lose, TypeOK
<1>4. TypeOK'
  BY <1>1, <1>3 DEF TypeOK
<1>5. EntriesReal'
  BY <1>1, EntriesStay DEF Monotone
<1>6. AnswersReal'
  BY <1>1, <1>3 DEF IInv, AnswersReal, AnswerReal, Answered, Named, OnRecord
<1>7. RowsFollowSteps'
  BY <1>1, <1>3 DEF IInv, RowsFollowSteps
<1>8. DedupKeysUnique'
  BY <1>1 DEF IInv, DedupKeysUnique
<1> QED  BY <1>4, <1>5, <1>6, <1>7, <1>8 DEF IInv

\* An entry expires.
LEMMA ExpireStep ==
  ASSUME IInv, NEW k \in Keys, Expire(k)
  PROVE  IInv'
<1>1. /\ TypeOK /\ UNCHANGED <<intent, logged, request>>
      /\ entry' = [entry EXCEPT ![k] = None]
  BY DEF IInv, Expire
<1>2. TypeOK'
  BY <1>1 DEF TypeOK
<1>3. entry'[k] = None /\ \A j \in Keys \ {k} : entry'[j] = entry[j]
  BY <1>1 DEF TypeOK
<1>4. EntriesReal'
  BY <1>1, <1>3 DEF IInv, EntriesReal, OnRecord
<1>5. AnswersReal' /\ RowsFollowSteps' /\ DedupKeysUnique'
  BY <1>1 DEF IInv, AnswersReal, AnswerReal, RowsFollowSteps, DedupKeysUnique, Answered, Named, OnRecord
<1> QED  BY <1>2, <1>4, <1>5 DEF IInv

----------------------------------------------------------------------------
(* The handler.                                                            *)

\* The row found for a dedup key answers an MCP call.
LEMMA TwinAnswers ==
  ASSUME IInv, NEW r \in Requests, NEW i \in Twins(r), Answer(r, "intent", i),
         UNCHANGED <<entry, intent, logged>>
  PROVE  IInv'
<1>1. i \in Requests /\ i \notin Http /\ r \notin Http /\ BodyOf[i] = BodyOf[r] /\ intent[i] # None
  BY DEF Twins
<1> QED  BY <1>1, AnswerKeepsIInv

\* A repeated call finds the row; a first one goes on.
LEMMA FindStep ==
  ASSUME IInv, NEW r \in Requests, Find(r)
  PROVE  IInv'
<1>1. request[r].step = "handling" /\ intent[r] = None /\ UNCHANGED <<entry, intent, logged>>
  BY DEF Find, At, IInv, RowsFollowSteps
<1>2. ~Answered(r)
  BY <1>1, NotYetAnswered
<1>3. CASE Goto(r, "inserting")
  BY <1>1, <1>2, <1>3, MoveKeepsIInv DEF Steps, Handling
<1>4. CASE \E i \in Twins(r) : Answer(r, "intent", i)
  BY <1>1, <1>4, TwinAnswers
<1> QED  BY <1>3, <1>4 DEF Find

\* The loser of the insert is answered with the winner's row.
LEMMA FindWinnerStep ==
  ASSUME IInv, NEW r \in Requests, FindWinner(r)
  PROVE  IInv'
  BY TwinAnswers DEF FindWinner

\* An error names no intent.
LEMMA FailStep ==
  ASSUME IInv, NEW r \in Requests, Fail(r)
  PROVE  IInv'
  BY AnswerKeepsIInv DEF Fail

\* The new row is the only one with its dedup key.
LEMMA InsertStep ==
  ASSUME IInv, NEW r \in Requests, Insert(r)
  PROVE  IInv'
<1>1. /\ request[r].step = "inserting" /\ intent[r] = None /\ TypeOK
      /\ UNCHANGED <<entry, logged>>
      /\ "logging" \in Steps /\ "losing" \in Steps
  BY DEF Insert, At, IInv, RowsFollowSteps, Steps, Handling
<1>2. ~Answered(r)
  BY <1>1, NotYetAnswered
<1>3. CASE Goto(r, "losing") /\ UNCHANGED intent
  BY <1>1, <1>2, <1>3, MoveKeepsIInv
<1>4. ASSUME Twins(r) = {}, NEW status \in Statuses,
             intent' = [intent EXCEPT ![r] = status], Goto(r, "logging")
      PROVE  IInv'
  <2>1. /\ request' \in [Requests -> Locals]
        /\ \A s \in Requests \ {r} : request'[s] = request[s]
        /\ request'[r].step = "logging" /\ request'[r].outcome = request[r].outcome
        /\ request'[r].answer = request[r].answer
    BY <1>1, <1>4, GotoFrame
  <2>2. intent \in [Requests -> Statuses \cup {None}]
    BY <1>1 DEF TypeOK
  <2>3. intent' \in [Requests -> Statuses \cup {None}]
    BY <1>4, <2>2
  <2>4. intent'[r] = status /\ \A s \in Requests \ {r} : intent'[s] = intent[s]
    BY <1>4, <2>2
  <2>5. TypeOK'
    BY <1>1, <2>1, <2>3 DEF TypeOK
  <2>6. Monotone
    BY <1>1, <2>4 DEF Monotone
  <2>7. EntriesReal'
    BY <1>1, <2>6, EntriesStay
  <2>8. AnswersReal'
    <3>1. ASSUME NEW s \in Requests, s # r, Answered(s)'
          PROVE  AnswerReal(s)'
      BY <2>1, <2>6, <3>1, OthersAnswersStay
    <3>2. ~Answered(r)'
      BY <1>2, <2>1 DEF Answered
    <3> QED  BY <3>1, <3>2 DEF AnswersReal
  <2>9. status # None
    BY RequestsAssumption
  <2>10. RowsFollowSteps'
    BY <1>1, <2>1, <2>4, <2>9 DEF IInv, RowsFollowSteps
  <2>11. \A s \in Requests \ Http : r \notin Http /\ BodyOf[s] = BodyOf[r] => intent[s] = None
    BY <1>4 DEF Twins
  <2>12. DedupKeysUnique'
    BY <2>4, <2>11 DEF IInv, DedupKeysUnique
  <2> QED  BY <2>5, <2>7, <2>8, <2>10, <2>12 DEF IInv
<1> QED  BY <1>3, <1>4 DEF Insert

\* The creator of a row, answered with it, and everyone answered before.
LEMMA OwnAnswer ==
  ASSUME IInv, Monotone, NEW r \in Requests, OnRecord(r)',
         \A s \in Requests \ {r} : request'[s] = request[s],
         request'[r].step = "sending", request'[r].answer = r
  PROVE  AnswersReal'
<1>1. ASSUME NEW s \in Requests, s # r, Answered(s)'
      PROVE  AnswerReal(s)'
  BY <1>1, OthersAnswersStay
<1>2. AnswerReal(r)'
  BY DEF AnswerReal, Named, OnRecord
<1> QED  BY <1>1, <1>2 DEF AnswersReal

\* The events of the new row.
LEMMA LogCreatedStep ==
  ASSUME IInv, NEW r \in Requests, LogCreated(r)
  PROVE  IInv'
<1>1. /\ request[r].step = "logging" /\ intent[r] # None /\ TypeOK
      /\ logged' = [logged EXCEPT ![r] = @ \cup {"created"}]
      /\ UNCHANGED <<entry, intent>>
  BY DEF LogCreated, At, IInv, RowsFollowSteps
<1>2. ~Answered(r)
  BY <1>1, NotYetAnswered
<1>3. /\ logged' \in [Requests -> SUBSET Events]
      /\ logged'[r] = logged[r] \cup {"created"}
      /\ \A s \in Requests \ {r} : logged'[s] = logged[s]
  BY <1>1 DEF TypeOK, Events
<1>4. Monotone
  BY <1>1, <1>3 DEF Monotone
<1>5. EntriesReal' /\ DedupKeysUnique'
  BY <1>1, <1>4, EntriesStay DEF IInv, DedupKeysUnique
<1>6. CASE intent[r] = "approved"
  <2>1. /\ request' \in [Requests -> Locals]
        /\ \A s \in Requests \ {r} : request'[s] = request[s]
        /\ request'[r].step = "approving" /\ request'[r].outcome = request[r].outcome
        /\ request'[r].answer = request[r].answer
    BY <1>1, <1>6, GotoFrame DEF LogCreated, Steps, Handling
  <2>2. TypeOK'
    BY <1>1, <1>3, <2>1 DEF TypeOK
  <2>3. ASSUME NEW s \in Requests, Answered(s)'
        PROVE  AnswerReal(s)'
    <3>1. s # r
      BY <1>2, <2>1, <2>3 DEF Answered
    <3> QED  BY <1>4, <2>1, <2>3, <3>1, OthersAnswersStay
  <2>4. AnswersReal'
    BY <2>3 DEF AnswersReal
  <2>5. RowsFollowSteps'
    BY <1>1, <1>3, <2>1 DEF IInv, RowsFollowSteps
  <2> QED  BY <1>5, <2>2, <2>4, <2>5 DEF IInv
<1>7. CASE intent[r] # "approved"
  <2>1. /\ request' \in [Requests -> Locals]
        /\ \A s \in Requests \ {r} : request'[s] = request[s]
        /\ request'[r].step = "sending" /\ request'[r].outcome = "intent"
        /\ request'[r].answer = r
    BY <1>1, <1>7, AnswerFrame DEF LogCreated
  <2>2. TypeOK'
    BY <1>1, <1>3, <2>1 DEF TypeOK
  <2>3. OnRecord(r)'
    BY <1>1, <1>3, <1>7 DEF OnRecord
  <2>4. AnswersReal'
    BY <1>1, <1>4, <2>1, <2>3, OwnAnswer
  <2>5. RowsFollowSteps'
    BY <1>1, <1>3, <2>1 DEF IInv, RowsFollowSteps
  <2> QED  BY <1>5, <2>2, <2>4, <2>5 DEF IInv
<1> QED  BY <1>6, <1>7

\* The second event completes an approved row's record.
LEMMA LogApprovedStep ==
  ASSUME IInv, NEW r \in Requests, LogApproved(r)
  PROVE  IInv'
<1>1. /\ request[r].step = "approving" /\ intent[r] # None /\ "created" \in logged[r] /\ TypeOK
      /\ logged' = [logged EXCEPT ![r] = @ \cup {"auto_approved"}]
      /\ UNCHANGED <<entry, intent>> /\ Answer(r, "intent", r)
  BY DEF LogApproved, At, IInv, RowsFollowSteps
<1>2. /\ logged' \in [Requests -> SUBSET Events]
      /\ logged'[r] = logged[r] \cup {"auto_approved"}
      /\ \A s \in Requests \ {r} : logged'[s] = logged[s]
  BY <1>1 DEF TypeOK, Events
<1>3. Monotone
  BY <1>1, <1>2 DEF Monotone
<1>4. EntriesReal' /\ DedupKeysUnique'
  BY <1>1, <1>3, EntriesStay DEF IInv, DedupKeysUnique
<1>5. /\ request' \in [Requests -> Locals]
      /\ \A s \in Requests \ {r} : request'[s] = request[s]
      /\ request'[r].step = "sending" /\ request'[r].outcome = "intent"
      /\ request'[r].answer = r
  BY <1>1, AnswerFrame
<1>6. TypeOK'
  BY <1>1, <1>2, <1>5 DEF TypeOK
<1>7. OnRecord(r)'
  BY <1>1, <1>2 DEF OnRecord
<1>8. AnswersReal'
  BY <1>1, <1>3, <1>5, <1>7, OwnAnswer
<1>9. RowsFollowSteps'
  BY <1>1, <1>2, <1>5 DEF IInv, RowsFollowSteps
<1> QED  BY <1>4, <1>6, <1>8, <1>9 DEF IInv

----------------------------------------------------------------------------
(* The theorems.                                                           *)

\* Nothing is stored, inserted or answered at first.
LEMMA InitIInv == Init => IInv
<1> SUFFICES ASSUME Init PROVE IInv
  OBVIOUS
<1>1. [step |-> "new", outcome |-> "none", answer |-> None] \in Locals
  BY DEF Locals, Steps
<1>2. TypeOK
  BY <1>1 DEF Init, TypeOK
<1> QED  BY <1>2 DEF Init, IInv, EntriesReal, AnswersReal, AnswerReal, RowsFollowSteps, DedupKeysUnique, Answered

\* Every step keeps the invariant.
LEMMA NextIInv == IInv /\ [Next]_vars => IInv'
<1> SUFFICES ASSUME IInv, [Next]_vars PROVE IInv'
  OBVIOUS
<1>1. ASSUME NEW r \in Requests, Serve(r) PROVE IInv'
  BY <1>1, ProbeStep, MarkStep, ReprobeStep, FindStep, InsertStep, FindWinnerStep, LogCreatedStep,
     LogApprovedStep, FailStep, SendStep, LoseStep DEF Serve
<1>2. ASSUME NEW k \in Keys, Expire(k) PROVE IInv'
  BY <1>2, ExpireStep
<1>3. CASE UNCHANGED vars
  BY <1>3 DEF vars, IInv, TypeOK, EntriesReal, AnswersReal, AnswerReal, RowsFollowSteps, DedupKeysUnique,
     Answered, Named, OnRecord
<1> QED  BY <1>1, <1>2, <1>3 DEF Next

\* So it always holds.
LEMMA IInvHolds == Spec => []IInv
  BY InitIInv, NextIInv, PTL DEF Spec

\* Type correctness of the stored entries, the rows, the events and the
\* requests' progress.
THEOREM TypeCorrect == Spec => []TypeOK
<1>1. IInv => TypeOK
  BY DEF IInv
<1> QED  BY <1>1, IInvHolds, PTL

\* Whatever is lost, repeated, discarded or expired, an answer names an intent
\* created from the same body: under the same key over HTTP, and over MCP the
\* one intent of the call and all its retries.
THEOREM AnswersAgreeHolds == Spec => []AnswersAgree
<1>1. ASSUME IInv, NEW r \in Requests, Answered(r)
      PROVE  /\ intent[Named(r)] # None /\ BodyOf[Named(r)] = BodyOf[r]
             /\ r \in Http => Named(r) \in Http /\ KeyOf[Named(r)] = KeyOf[r]
  BY <1>1 DEF IInv, AnswersReal, AnswerReal
<1>2. ASSUME IInv, NEW r \in Requests \ Http, Answered(r), NEW s \in Requests \ Http,
             BodyOf[s] = BodyOf[r]
      PROVE  /\ Answered(s) => Named(s) = Named(r)
             /\ intent[s] # None => s = Named(r)
  <2>1. /\ Named(r) \in Requests \ Http /\ intent[Named(r)] # None /\ BodyOf[Named(r)] = BodyOf[r]
        /\ Answered(s) => /\ Named(s) \in Requests \ Http /\ intent[Named(s)] # None
                          /\ BodyOf[Named(s)] = BodyOf[s]
    BY <1>2 DEF IInv, AnswersReal, AnswerReal
  <2> QED  BY <1>2, <2>1 DEF IInv, DedupKeysUnique
<1>3. IInv => AnswersAgree
  BY <1>1, <1>2 DEF AnswersAgree
<1> QED  BY <1>3, IInvHolds, PTL

\* An intent named in an answer of POST /payment-intents has its audit events,
\* also when the answer is a replay or the first call died on the way.
THEOREM AnsweredIsLoggedHolds == Spec => []AnsweredIsLogged
<1>1. IInv => AnsweredIsLogged
  BY RequestsAssumption DEF IInv, AnswersReal, AnswerReal, AnsweredIsLogged, OnRecord
<1> QED  BY <1>1, IInvHolds, PTL
=============================================================================
