----------------------------- MODULE MCCodexRpc -----------------------------
(* Model-checking instances of CodexRpc. *)
EXTENDS CodexRpc, TLC

Interchangeable == Permutations(Callers) \cup Permutations(Lifecycle)
=============================================================================
