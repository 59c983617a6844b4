-------------------------- MODULE MCIntentRequests --------------------------
(* Instances of IntentRequests for TLC.                                    *)
EXTENDS IntentRequests, TLC

CONSTANTS first, again, other, call, recall, key

\* Two requests with one key and body, a third with another body, and an MCP
\* call with its retry.
Headers == [r \in Requests |-> IF r \in Http THEN key ELSE None]
Payloads == other :> "y" @@ [r \in Requests \ {other} |-> "x"]

\* first and again are alike, and so are call and recall.
Retries == {f @@ g @@ other :> other :
              f \in Permutations({first, again}), g \in Permutations({call, recall})}
=============================================================================
