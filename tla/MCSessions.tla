------------------------------ MODULE MCSessions ------------------------------
(***************************************************************************)
(* A DID that has two accounts one after the other, two passwords, one     *)
(* address and one name of an app password, two requests at a time.        *)
(***************************************************************************)
EXTENDS Sessions, TLC

Symmetry == Permutations(Did) \cup Permutations(Secret) \cup Permutations(Email) \cup Permutations(Req)
====
