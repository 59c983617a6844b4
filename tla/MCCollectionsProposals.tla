----------------------- MODULE MCCollectionsProposals -----------------------
(* Instances of CollectionsProposals for TLC.                              *)
EXTENDS CollectionsProposals, TLC

CONSTANTS scan, event, ann, bob, worker

\* The agent may only notify, or acts under a policy that rejects.
SomeRules ==
  {[authority |-> "notify_only", outcome |-> "confirm"],
   [authority |-> "propose", outcome |-> "reject"]}
=============================================================================
