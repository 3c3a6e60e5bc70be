----------------------------- MODULE MCSidecars -----------------------------
(* Sidecars with three batches: one finds what two others have left. *)
EXTENDS Sidecars
=============================================================================
