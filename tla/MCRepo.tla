-------------------------------- MODULE MCRepo --------------------------------
(* Repo with one or two paths and two contents of records. *)
EXTENDS Repo, TLC

\* The contents are interchangeable.
CidSymmetry == Permutations(Cid)

\* Only writes and exports, no imports.
WritesSpec == Init /\ [][Write \/ ReadHead \/ ReadCids]_vars
=============================================================================
