------------------------------ MODULE MCTicket ------------------------------
(* Instances of TicketService and its invariant for TLC. *)
EXTENDS TicketInvariant, TLC

Symmetry == Permutations(Session)
=============================================================================
