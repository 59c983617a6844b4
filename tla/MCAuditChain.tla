---------------------------- MODULE MCAuditChain ----------------------------
(* Instances of AuditChain for TLC.                                        *)
EXTENDS AuditChain, TLC

CONSTANTS older, first, again, key

\* The call of the revision before has no key; two calls of the new revision
\* use one key for different contents, and each may be repeated.
Keyed == first :> key @@ again :> key @@ older :> None
Told == first :> "a" @@ again :> "b" @@ older :> "b"
\* One event before the deployment, hashed as events were then; later ones may have older stamps.
Legacy == <<2>>
Sizes == "content" :> 1 @@ "root" :> 1
============================================================================
