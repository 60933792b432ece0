------------------------------ MODULE MCProcess ------------------------------
(***************************************************************************)
(* A put of settings and the supervisor share nothing but the start of the *)
(* process: a behaviour is one without puts, or one in which the           *)
(* supervisor and Stop rest.                                               *)
(***************************************************************************)
EXTENDS Process

CONSTANTS h1, h2

VARIABLE part

Settled(url, method, port) == [public_url |-> url, did_method |-> method, smtp_port |-> port]

MCEnv == Settled(h1, "plc", "587")
MCForm == {Settled(h2, "plc", Blank), Settled(h1, "web", "25"), Settled(Blank, "plc", "587")}

MCNext ==
  /\ Next
  /\ part = "tunnel" => made' <= 1 /\ \A r \in Req : req'[r].at \notin {"store", "method"}
  /\ part = "settings" => sup' = sup /\ stop' = stop
  /\ UNCHANGED part

MCInit == Init /\ part \in {"tunnel", "settings"}

MCSpec ==
  /\ MCInit
  /\ [][MCNext]_<<vars, part>>
  /\ Fairness
====
