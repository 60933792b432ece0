----------------------------- MODULE EventStream -----------------------------
(***************************************************************************)
(* What the firehose promises to the relays and app views that follow it,  *)
(* with no word on channels, goroutines or the database connection:        *)
(*                                                                         *)
(*   - the log only grows, and always at its end;                          *)
(*   - a client is handed an event it has not had only once every earlier  *)
(*     event of the log has been handed to it, or has been lost to it;     *)
(*   - an event lost to a client ahead of its position comes back when the *)
(*     client resumes from that position.                                  *)
(*                                                                         *)
(* Firehose.tla implements this specification.                             *)
(***************************************************************************)
EXTENDS Naturals

CONSTANTS Client,   \* the subscribers
          Frame     \* the frames, records with a field seq \in Nat

VARIABLES log,      \* the set of frames stored so far
          seen,     \* seen[c]: the frames client c has been handed
          missed    \* missed[c]: the frames lost to client c

vars == <<log, seen, missed>>

Init ==
  /\ log = {}
  /\ seen = [c \in Client |-> {}]
  /\ missed = [c \in Client |-> {}]

Append ==
  \E f \in Frame :
    /\ \A g \in log : g.seq < f.seq
    /\ log' = log \cup {f}
    /\ UNCHANGED <<seen, missed>>

Deliver(c) ==
  \E f \in log \ seen[c] :
    /\ \A g \in log : g.seq < f.seq => g \in seen[c] \cup missed[c]
    /\ seen' = [seen EXCEPT ![c] = @ \cup {f}]
    /\ UNCHANGED <<log, missed>>

Lose ==
  /\ missed' \in [Client -> SUBSET log]
  /\ \A c \in Client : missed[c] \subseteq missed'[c]
  /\ UNCHANGED <<log, seen>>

Resume(c) ==
  /\ missed' = [missed EXCEPT ![c] =
                  {f \in @ : \E g \in seen[c] : f.seq <= g.seq}]
  /\ UNCHANGED <<log, seen>>

Next ==
  \/ Append
  \/ Lose
  \/ \E c \in Client : Deliver(c) \/ Resume(c)

Spec == Init /\ [][Next]_vars
=============================================================================
