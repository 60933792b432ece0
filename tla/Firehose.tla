------------------------------- MODULE Firehose -------------------------------
(***************************************************************************)
(* The event stream of the PDS: internal/firehose/firehose.go and the      *)
(* handler of com.atproto.sync.subscribeRepos that feeds a client from it. *)
(*                                                                         *)
(* Publish numbers a frame, stores it in firehose_events and hands it to   *)
(* every live subscriber, all under the emitter's mutex.  Subscribe        *)
(* registers a live channel under that mutex; a goroutine then replays the *)
(* stored rows past the client's cursor and goes over to the channel.  The *)
(* replay's open cursor keeps the ONE connection of the database           *)
(* (SetMaxOpenConns(1) in internal/db/db.go), so no row is stored while a  *)
(* replay is under way, and a publisher waiting for the connection keeps   *)
(* the emitter's mutex.                                                    *)
(*                                                                         *)
(* A frame is its sequence number and the event it announces; events are   *)
(* numbered in the order in which Publish is called.  Publish's early      *)
(* returns on a failed build or marshal give the number back before the    *)
(* mutex is released: nothing changes, and they are left out.              *)
(***************************************************************************)
EXTENDS Integers, Sequences, Functions

CONSTANTS Client,     \* the subscribers (relays, app views)
          MaxEvent,   \* bound on the calls of Publish
          LiveCap,    \* capacity of a subscriber's live channel (4096)
          OutCap      \* capacity of a subscriber's out channel (4096)

ASSUME FirehoseAssumption ==
  /\ MaxEvent \in Nat
  /\ LiveCap \in Nat \ {0}
  /\ OutCap \in Nat \ {0}

Frame == [seq : 1..MaxEvent, ev : 1..MaxEvent]

VARIABLES
  rows,     \* the table firehose_events
  seq,      \* Emitter.seq
  called,   \* how many events Publish has been called for
  mu,       \* where the holder of Emitter.mu is: "free", "insert", "send"
  pend,     \* the frame of the Publish that holds the mutex
  subs,     \* Emitter.subs: the clients with a registered live channel
  g,        \* g[c]: "off", or where the goroutine of c's subscription is
  gone,     \* gone[c]: the context of c's request is done
  cursor,   \* cursor[c]: the cursor c connected with
  todo,     \* todo[c]: the rows that c's replay has yet to read
  live,     \* live[c]: the live channel
  out,      \* out[c]: the channel that the handler reads
  got,      \* got[c]: what this connection of c has been sent, in order
  seen,     \* seen[c]: the frames c has been sent on any connection
  missed    \* missed[c]: the frames that the code will not send c

emitter == <<seq, called, mu, pend>>
channels == <<todo, live, out, got>>
vars == <<rows, emitter, subs, g, gone, cursor, channels, seen, missed>>

NoFrame == [seq |-> 0, ev |-> 0]

TypeOK ==
  /\ rows \subseteq Frame
  /\ seq \in 0..MaxEvent
  /\ called \in 0..MaxEvent
  /\ mu \in {"free", "insert", "send"}
  /\ pend \in Frame \cup {NoFrame}
  /\ subs \subseteq Client
  /\ g \in [Client -> {"off", "start", "replay", "live"}]
  /\ gone \in [Client -> BOOLEAN]
  /\ cursor \in [Client -> 0..MaxEvent]
  /\ todo \in [Client -> SUBSET Frame]
  /\ live \in [Client -> Seq(Frame)]
  /\ out \in [Client -> Seq(Frame)]
  /\ got \in [Client -> Seq(Frame)]
  /\ seen \in [Client -> SUBSET Frame]
  /\ missed \in [Client -> SUBSET Frame]

(***************************************************************************)
(* The largest sequence number among the frames of F, 0 when there is none *)
(* (COALESCE(MAX(seq), 0)).                                                *)
(***************************************************************************)
MaxSeq(F) ==
  IF F = {} THEN 0
  ELSE CHOOSE n \in {f.seq : f \in F} : \A f \in F : f.seq <= n

After(F, n) == {f \in F : f.seq > n}

ConnBusy == \E c \in Client : g[c] = "replay"

Init ==
  /\ rows = {}
  /\ seq = 0
  /\ called = 0
  /\ mu = "free"
  /\ pend = NoFrame
  /\ subs = {}
  /\ g = [c \in Client |-> "off"]
  /\ gone = [c \in Client |-> FALSE]
  /\ cursor = [c \in Client |-> 0]
  /\ todo = [c \in Client |-> {}]
  /\ live = [c \in Client |-> <<>>]
  /\ out = [c \in Client |-> <<>>]
  /\ got = [c \in Client |-> <<>>]
  /\ seen = [c \in Client |-> {}]
  /\ missed = [c \in Client |-> {}]

-----------------------------------------------------------------------------
(***************************************************************************)
(* Publish.                                                                *)
(***************************************************************************)
\* Publish takes the mutex, takes the next number and builds the frame.
BeginPublish ==
  /\ mu = "free"
  /\ called < MaxEvent
  /\ called' = called + 1
  /\ seq' = seq + 1
  /\ pend' = [seq |-> seq + 1, ev |-> called + 1]
  /\ mu' = "insert"
  /\ UNCHANGED <<rows, subs, g, gone, cursor, channels, seen, missed>>

\* The INSERT gets the connection; seq is the table's primary key.
InsertOk ==
  /\ mu = "insert"
  /\ ~ConnBusy
  /\ \A f \in rows : f.seq # pend.seq
  /\ rows' = rows \cup {pend}
  /\ mu' = "send"
  /\ UNCHANGED <<seq, called, pend, subs, g, gone, cursor, channels, seen, missed>>

\* Variant: Publish sends the frame whatever the INSERT said.
InsertErrorIgnored ==
  /\ mu = "insert"
  /\ mu' = "send"
  /\ UNCHANGED <<rows, seq, called, pend, subs, g, gone, cursor, channels, seen, missed>>

\* The INSERT fails, or the caller's context ends while it waits for the
\* connection: Publish returns, and the number it took is not given back.
InsertFails ==
  /\ mu = "insert"
  /\ mu' = "free"
  /\ pend' = NoFrame
  /\ UNCHANGED <<rows, seq, called, subs, g, gone, cursor, channels, seen, missed>>

\* A send that never blocks to every live channel: a full one is skipped.
Broadcast ==
  /\ mu = "send"
  /\ live' = [c \in Client |->
                IF c \in subs /\ Len(live[c]) < LiveCap
                THEN Append(live[c], pend) ELSE live[c]]
  /\ missed' = [c \in Client |->
                  IF c \in subs /\ ~gone[c] /\ Len(live[c]) >= LiveCap
                  THEN missed[c] \cup {pend} ELSE missed[c]]
  /\ mu' = "free"
  /\ pend' = NoFrame
  /\ UNCHANGED <<rows, seq, called, subs, g, gone, cursor, todo, out, got, seen>>

-----------------------------------------------------------------------------
(***************************************************************************)
(* Subscribe, its goroutine and the handler.                               *)
(***************************************************************************)
\* Variant: the subscription starts at the emitter's present number.
ConnectAtHead(c) ==
  /\ g[c] = "off"
  /\ c \notin subs
  /\ mu = "free"
  /\ subs' = subs \cup {c}
  /\ g' = [g EXCEPT ![c] = "start"]
  /\ gone' = [gone EXCEPT ![c] = FALSE]
  /\ cursor' = [cursor EXCEPT ![c] = seq]
  /\ missed' = [missed EXCEPT ![c] = @ \ After(@, MaxSeq(seen[c]))]
  /\ UNCHANGED <<rows, emitter, channels, seen>>

\* A client connects with the last number it has been sent; Subscribe
\* registers its channel under the mutex, before anything is replayed.
Connect(c) ==
  /\ g[c] = "off"
  /\ c \notin subs
  /\ mu = "free"
  /\ subs' = subs \cup {c}
  /\ g' = [g EXCEPT ![c] = "start"]
  /\ gone' = [gone EXCEPT ![c] = FALSE]
  /\ cursor' = [cursor EXCEPT ![c] = MaxSeq(seen[c])]
  /\ missed' = [missed EXCEPT ![c] = @ \ After(@, MaxSeq(seen[c]))]
  /\ UNCHANGED <<rows, emitter, channels, seen>>

\* Variant: the query is off by one at the cursor.
QuerySkipsOne(c) ==
  /\ g[c] = "start"
  /\ ~gone[c]
  /\ ~ConnBusy
  /\ todo' = [todo EXCEPT ![c] = After(rows, cursor[c] + 1)]
  /\ g' = [g EXCEPT ![c] = "replay"]
  /\ UNCHANGED <<rows, emitter, subs, gone, cursor, live, out, got, seen, missed>>

\* The goroutine's SELECT ... WHERE seq > cursor gets the connection.
Query(c) ==
  /\ g[c] = "start"
  /\ ~gone[c]
  /\ ~ConnBusy
  /\ todo' = [todo EXCEPT ![c] = After(rows, cursor[c])]
  /\ g' = [g EXCEPT ![c] = "replay"]
  /\ UNCHANGED <<rows, emitter, subs, gone, cursor, live, out, got, seen, missed>>

\* The query or the iteration over its rows fails.  The code looks at no
\* error and goes live: what it has not read, and is not in the live
\* channel either, is never sent.
ReplayFails(c) ==
  /\ g[c] \in {"start", "replay"}
  /\ ~gone[c]
  /\ LET unread == IF g[c] = "start" THEN After(rows, cursor[c]) ELSE todo[c]
     IN missed' = [missed EXCEPT ![c] = @ \cup (unread \ Range(live[c]))]
  /\ g' = [g EXCEPT ![c] = "live"]
  /\ todo' = [todo EXCEPT ![c] = {}]
  /\ UNCHANGED <<rows, emitter, subs, gone, cursor, live, out, got, seen>>

\* Variant: the query has no ORDER BY.
ReplayRowUnordered(c) ==
  /\ g[c] = "replay"
  /\ ~gone[c]
  /\ Len(out[c]) < OutCap
  /\ \E f \in todo[c] :
       /\ todo' = [todo EXCEPT ![c] = @ \ {f}]
       /\ out' = [out EXCEPT ![c] = Append(@, f)]
  /\ UNCHANGED <<rows, emitter, subs, g, gone, cursor, live, got, seen, missed>>

\* One row, in the order of ORDER BY seq ASC, goes to the out channel; the
\* goroutine waits, with the connection, for room there.
ReplayRow(c) ==
  /\ g[c] = "replay"
  /\ ~gone[c]
  /\ Len(out[c]) < OutCap
  /\ \E f \in todo[c] :
       /\ \A h \in todo[c] : f.seq <= h.seq
       /\ todo' = [todo EXCEPT ![c] = @ \ {f}]
       /\ out' = [out EXCEPT ![c] = Append(@, f)]
  /\ UNCHANGED <<rows, emitter, subs, g, gone, cursor, live, got, seen, missed>>

\* No row is left: the cursor is closed and the connection given back.
ReplayDone(c) ==
  /\ g[c] = "replay"
  /\ ~gone[c]
  /\ todo[c] = {}
  /\ g' = [g EXCEPT ![c] = "live"]
  /\ UNCHANGED <<rows, emitter, subs, gone, cursor, channels, seen, missed>>

\* A live frame moves to the out channel.  The frame the goroutine holds
\* while it waits for room counts as still being in the live channel.
Forward(c) ==
  /\ g[c] = "live"
  /\ ~gone[c]
  /\ live[c] # <<>>
  /\ Len(out[c]) < OutCap
  /\ out' = [out EXCEPT ![c] = Append(@, Head(live[c]))]
  /\ live' = [live EXCEPT ![c] = Tail(@)]
  /\ UNCHANGED <<rows, emitter, subs, g, gone, cursor, todo, got, seen, missed>>

\* Variant: the replay's send does not select on the context.
GoroutineExitNotInReplay(c) ==
  /\ g[c] \in {"start", "live"}
  /\ gone[c]
  /\ g' = [g EXCEPT ![c] = "off"]
  /\ todo' = [todo EXCEPT ![c] = {}]
  /\ UNCHANGED <<rows, emitter, subs, gone, cursor, live, out, got, seen, missed>>

\* Every wait of the goroutine also selects on the request's context.
GoroutineExit(c) ==
  /\ g[c] # "off"
  /\ gone[c]
  /\ g' = [g EXCEPT ![c] = "off"]
  /\ todo' = [todo EXCEPT ![c] = {}]
  /\ UNCHANGED <<rows, emitter, subs, gone, cursor, live, out, got, seen, missed>>

\* The handler writes the next frame to the client, which takes it.
Receive(c) ==
  /\ ~gone[c]
  /\ out[c] # <<>>
  /\ LET f == Head(out[c])
     IN /\ got' = [got EXCEPT ![c] = Append(@, f)]
        /\ seen' = [seen EXCEPT ![c] = @ \cup {f}]
  /\ out' = [out EXCEPT ![c] = Tail(@)]
  /\ UNCHANGED <<rows, emitter, subs, g, gone, cursor, todo, live, missed>>

\* The client goes away: its request's context is done.  What its goroutine
\* could still move to the out channel before it notices is read by nobody
\* and left out, but a replay keeps the connection until GoroutineExit.
Disconnect(c) ==
  /\ g[c] # "off"
  /\ ~gone[c]
  /\ gone' = [gone EXCEPT ![c] = TRUE]
  /\ out' = [out EXCEPT ![c] = <<>>]
  /\ got' = [got EXCEPT ![c] = <<>>]
  /\ UNCHANGED <<rows, emitter, subs, g, cursor, todo, live, seen, missed>>

\* The handler returns and its deferred cleanup takes the mutex.
Cleanup(c) ==
  /\ c \in subs
  /\ gone[c]
  /\ mu = "free"
  /\ subs' = subs \ {c}
  /\ live' = [live EXCEPT ![c] = <<>>]
  /\ UNCHANGED <<rows, emitter, g, gone, cursor, todo, out, got, seen, missed>>

-----------------------------------------------------------------------------
(***************************************************************************)
(* The process stops at any point and starts again: NewEmitter reads the   *)
(* largest stored number, and every connection is gone.                    *)
(***************************************************************************)
Restart ==
  /\ seq' = MaxSeq(rows)
  /\ mu' = "free"
  /\ pend' = NoFrame
  /\ subs' = {}
  /\ g' = [c \in Client |-> "off"]
  /\ gone' = [c \in Client |-> TRUE]
  /\ todo' = [c \in Client |-> {}]
  /\ live' = [c \in Client |-> <<>>]
  /\ out' = [c \in Client |-> <<>>]
  /\ got' = [c \in Client |-> <<>>]
  /\ UNCHANGED <<rows, called, cursor, seen, missed>>

Goroutine(c) ==
  Query(c) \/ ReplayFails(c) \/ ReplayRow(c) \/ ReplayDone(c) \/ Forward(c) \/ GoroutineExit(c)

Next ==
  \/ BeginPublish \/ InsertOk \/ InsertFails \/ Broadcast
  \/ \E c \in Client :
       Connect(c) \/ Goroutine(c) \/ Receive(c) \/ Disconnect(c) \/ Cleanup(c)
  \/ Restart

Spec == Init /\ [][Next]_vars

(***************************************************************************)
(* Fairness.  The goroutines and the holder of the mutex run whenever they *)
(* can.  The connection is handed out in the order in which it was asked   *)
(* for (database/sql queues the requests), so a waiter that can take it    *)
(* again and again gets it: SF.  Whether an INSERT fails, a client comes   *)
(* or goes, or the process restarts is not assumed, nor that a client      *)
(* reads: no write to it has a deadline, and a connected client that has   *)
(* stopped reading keeps its handler, and with it the goroutine that waits *)
(* for room in the out channel, for as long as it likes.                   *)
(***************************************************************************)
FairSpec ==
  /\ Spec
  /\ SF_vars(InsertOk)
  /\ WF_vars(Broadcast)
  /\ \A c \in Client :
       /\ SF_vars(Query(c))
       /\ WF_vars(ReplayRow(c))
       /\ WF_vars(ReplayDone(c))
       /\ WF_vars(Forward(c))
       /\ WF_vars(GoroutineExit(c))

-----------------------------------------------------------------------------
(***************************************************************************)
(* Safety.                                                                 *)
(***************************************************************************)
\* Every frame that a client was ever sent is stored: no restart can give
\* its number to another event (Publish stores before it sends, and
\* NewEmitter starts from the largest stored number).
SentIsStored == \A c \in Client : seen[c] \cup Range(out[c]) \cup Range(live[c]) \subseteq rows

\* The stream of one connection goes back at most once, where the replay
\* hands over to the live channel, and what it repeats was already sent
\* on it; a client that skips numbers it has seen gets each event once.
OneRewind ==
  \A c \in Client :
    LET back == {i \in 2..Len(got[c]) : got[c][i].seq <= got[c][i-1].seq}
    IN /\ \A i, j \in back : i = j
       /\ \A i \in back : \E j \in 1..i-1 : got[c][j] = got[c][i]

\* What Publish says of the stream it feeds (firehose.go:101-103): it "broadcasts
\* to live subscribers atomically, so stream order always matches sequence
\* order".  A frame broadcast between Subscribe and its query is also a row of
\* that query: if the next one is stored by then, it is sent again behind it,
\* out of the live channel.  A frame sent twice in a row does not count here.
StreamOrder ==
  \A c \in Client : \A i \in 2..Len(got[c]) : got[c][i-1].seq <= got[c][i].seq

\* The firehose implements the event stream: in particular a client whose
\* connection breaks at any point, and that resumes from the last number it
\* was sent, skips no event but those the code dropped.
Stream == INSTANCE EventStream WITH log <- rows

ImplementsStream == Stream!Spec

(***************************************************************************)
(* The inductive invariant behind SentIsStored and ImplementsStream.  What *)
(* a subscriber still has to be sent sits in four places, read in this     *)
(* order: out, todo, live, and the frame that is being broadcast.          *)
(***************************************************************************)
\* The numbers of the rows and of the frame that is being published.
Numbering ==
  /\ seq <= called
  /\ \A f \in rows : f.seq <= seq
  /\ \A f, h \in rows : f.seq = h.seq => f = h
  /\ mu = "insert" => /\ pend \in Frame
                      /\ \A f \in rows : f.seq < pend.seq
                      /\ pend.seq <= seq
  /\ mu = "send" => /\ pend \in rows
                    /\ \A f \in rows : f.seq <= pend.seq
                    /\ \A c \in Client : pend \notin Range(live[c])

\* Everything that has left Publish is a row.
FromRows ==
  \A c \in Client :
    seen[c] \cup missed[c] \cup todo[c] \cup Range(out[c]) \cup Range(live[c]) \subseteq rows

\* The channels and the cursor agree with where the subscription is.
Phases ==
  \A c \in Client :
    /\ g[c] # "off" /\ ~gone[c] => c \in subs
    /\ c \notin subs => live[c] = <<>>
    /\ g[c] \in {"off", "start"} \/ gone[c] => out[c] = <<>>
    /\ g[c] # "replay" => todo[c] = {}
    /\ cursor[c] = 0 \/ \E f \in rows : cursor[c] <= f.seq
    /\ \A i, j \in 1..Len(live[c]) : i < j => live[c][i].seq < live[c][j].seq

\* What c has been sent has no hole but the frames it has lost.
SeenClosed ==
  \A c \in Client : \A f \in seen[c] : \A r \in rows :
    r.seq < f.seq => r \in seen[c] \cup missed[c]

\* Nothing at or below the cursor is left to replay.
CursorClosed ==
  \A c \in Client : g[c] = "start" /\ ~gone[c] =>
    \A r \in rows : r.seq <= cursor[c] => r \in seen[c] \cup missed[c]

\* The rows that a frame of the out channel follows have been sent, are
\* lost, or are ahead of it there.
OutInOrder ==
  \A c \in Client : ~gone[c] =>
    \A i \in 1..Len(out[c]) : \A r \in rows :
      r.seq < out[c][i].seq =>
        r \in seen[c] \cup missed[c] \cup {out[c][j] : j \in 1..i-1}

\* The same for the rows still to be replayed.
TodoInOrder ==
  \A c \in Client : g[c] = "replay" /\ ~gone[c] =>
    \A f \in todo[c] : \A r \in rows :
      r.seq < f.seq => r \in seen[c] \cup missed[c] \cup Range(out[c]) \cup todo[c]

\* No row slips between the replay and the live channel.
Covered ==
  \A c \in Client : g[c] \in {"replay", "live"} /\ ~gone[c] =>
    rows \subseteq seen[c] \cup missed[c] \cup Range(out[c]) \cup todo[c]
                   \cup Range(live[c]) \cup (IF mu = "send" THEN {pend} ELSE {})

IInv ==
  /\ TypeOK
  /\ Numbering
  /\ FromRows
  /\ Phases
  /\ SeenClosed
  /\ CursorClosed
  /\ OutInOrder
  /\ TodoInOrder
  /\ Covered

(***************************************************************************)
(* And behind OneRewind.  What a connection was sent and what waits in its *)
(* out channel is the replay, up to some place, and then the live frames.  *)
(***************************************************************************)
Sent(c) == got[c] \o out[c]

\* The connection of c goes over from the replay to the live frames after
\* p frames.  Both parts ascend.  The replay leaves no row out between the
\* cursor and any frame it has sent, and every live frame is past the cursor:
\* so one that is not past the replay repeats it.
GoesOverAt(c, p) ==
  LET s == Sent(c)
  IN /\ g[c] \in {"start", "replay"} => p = Len(s)
     /\ \A i \in 1..Len(s) : s[i] \in rows
     /\ \A i, j \in 1..p : i < j => s[i].seq < s[j].seq
     /\ \A i, j \in p+1..Len(s) : i < j => s[i].seq < s[j].seq
     /\ \A i \in 1..p : \A r \in After(rows, cursor[c]) :
          r.seq <= s[i].seq => \E j \in 1..p : s[j] = r
     /\ \A f \in todo[c] :
          /\ \A i \in 1..p : s[i].seq < f.seq
          /\ \A r \in After(rows, cursor[c]) :
               r.seq <= f.seq => r \in todo[c] \/ \E j \in 1..p : s[j] = r
     /\ \A i \in p+1..Len(s) :
          /\ cursor[c] < s[i].seq
          /\ \A x \in Range(live[c]) : s[i].seq < x.seq
          /\ mu = "send" => s[i].seq < pend.seq

HandsOver(c) ==
  /\ g[c] \in {"off", "start"} \/ gone[c] => got[c] = <<>>
  /\ g[c] # "off" /\ ~gone[c] =>
       /\ \A x \in Range(live[c]) : cursor[c] < x.seq
       /\ mu = "send" => cursor[c] < pend.seq
       /\ \E p \in 0..Len(Sent(c)) : GoesOverAt(c, p)

RInv == IInv /\ \A c \in Client : HandsOver(c)

-----------------------------------------------------------------------------
(***************************************************************************)
(* Liveness.                                                               *)
(***************************************************************************)
\* A client that is connected, and for which its replay waits: it does not read.
Stalled(c) == g[c] = "replay" /\ ~gone[c] /\ Len(out[c]) = OutCap

\* A Publish that waits for the connection gets it or fails, however the
\* subscribers replay, come and go: the replay of a client that is gone gives
\* the connection back.  ONE thing can hold it for ever: a connected client
\* that has stopped reading in the middle of its replay.
PublishReturns ==
  \/ mu = "insert" ~> mu # "insert"
  \/ \E c \in Client : <>[]Stalled(c)

\* A stored event reaches every subscriber that stays connected and reads, or
\* the code has dropped it, however slowly the other subscribers read, and
\* wherever they stop, except in the middle of a replay.
EventArrives ==
  \A c \in Client : WF_vars(Receive(c)) =>
    \/ \A n \in 1..MaxEvent :
         (c \in subs /\ \E f \in rows : f.seq = n)
           ~> (gone[c] \/ \E f \in seen[c] \cup missed[c] : f.seq = n)
    \/ \E d \in Client \ {c} : <>[]Stalled(d)
=============================================================================
