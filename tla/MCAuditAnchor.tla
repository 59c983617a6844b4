--------------------------- MODULE MCAuditAnchor ---------------------------
(* Instances of AuditAnchor for TLC.                                       *)
EXTENDS AuditAnchor, TLC

Interchangeable == Permutations(Events)
=============================================================================
