------------------------------ MODULE RepoViews ------------------------------
(***************************************************************************)
(* What the PDS promises about one account's repository to those who look  *)
(* at it from three sides: the head commit (com.atproto.sync), the record  *)
(* index (com.atproto.repo) and the copy that a relay keeps by applying    *)
(* the operations of the events it is sent.                                *)
(*                                                                         *)
(*   - a write shows at the head, then in the index, then in the relay's   *)
(*     copy, and no two writes overlap;                                    *)
(*   - the copy never strays from the repository: it is the head, or the   *)
(*     version right before it, unless the repository was replaced by an   *)
(*     import, of which the relay learns at the next write.                *)
(*                                                                         *)
(* Repo.tla implements this specification as long as no request fails      *)
(* between its statements and writes are single operations.                *)
(***************************************************************************)
CONSTANTS Version,   \* the contents a repository can have
          Empty      \* the content of a repository with no record

VARIABLES head,      \* the content of the head commit
          shown,     \* the content of the record index
          told,      \* the content of the relay's copy
          stale      \* the repository was replaced since the relay was told

vars == <<head, shown, told, stale>>

Init ==
  /\ head = Empty
  /\ shown = Empty
  /\ told = Empty
  /\ stale = FALSE

Settled == shown = head /\ (told = head \/ stale)

Write ==
  /\ Settled
  /\ head' \in Version
  /\ UNCHANGED <<shown, told, stale>>

Show ==
  /\ shown' = head
  /\ UNCHANGED <<head, told, stale>>

Tell ==
  /\ shown = head
  /\ told' = head
  /\ stale' = FALSE
  /\ UNCHANGED <<head, shown>>

Replace ==
  /\ Settled
  /\ head' \in Version
  /\ shown' = head'
  /\ stale' \in BOOLEAN
  /\ ~stale' => told = head'
  /\ UNCHANGED told

Next == Write \/ Show \/ Tell \/ Replace

Spec == Init /\ [][Next]_vars
=============================================================================
