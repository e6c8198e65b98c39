----------------------------- MODULE MCAccounts -----------------------------
(* Instances of AuthService for TLC. *)
EXTENDS AuthInvariant, TLC

Symmetry ==
  Permutations(Session) \cup Permutations(Permission) \cup Permutations(Password)
=============================================================================
