------------------------------- MODULE MCBlobs -------------------------------
(***************************************************************************)
(* The blob store and the paged lists.  They share no variable: a          *)
(* behaviour is one of the one or of the other, so that the states add up  *)
(* and do not multiply.                                                    *)
(***************************************************************************)
EXTENDS Blobs, Listing, TLC

VARIABLE part

Symmetry == Permutations(Did) \cup Permutations(Cid) \cup Permutations(Req)

MCInit ==
  /\ Init /\ ListInit
  /\ part \in {"store", "lists"}
  /\ part = "store" => listed = {}

MCNext ==
  /\ \/ part = "store" /\ Next /\ UNCHANGED listVars
     \/ part = "lists" /\ ListNext /\ UNCHANGED vars
  /\ UNCHANGED part

MCSpec == MCInit /\ [][MCNext]_<<vars, listVars, part>>
====
