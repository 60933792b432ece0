------------------------------ MODULE MCAccounts ------------------------------
(* Accounts with two handles, two did:plc and two requests at a time. *)
EXTENDS Accounts, TLC

\* Handles (each with its did:web), did:plc and requests are interchangeable.
Symmetry == Permutations(Handle) \cup Permutations(PlcDid) \cup Permutations(Req)
=============================================================================
