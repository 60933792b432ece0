---------------------------- MODULE FirehoseProofs ----------------------------
(***************************************************************************)
(* Proofs about Firehose for every set of clients, number of events and    *)
(* channel capacity: the inductive invariant, that the firehose implements *)
(* EventStream, and that a stream goes back once at most.                  *)
(***************************************************************************)
EXTENDS Firehose, TLAPS, WellFoundedInduction

-----------------------------------------------------------------------------
(***************************************************************************)
(* Sequences: what Append, Head and Tail do to the elements of a channel.  *)
(***************************************************************************)
LEMMA AppendFacts ==
  ASSUME NEW S, NEW q \in Seq(S), NEW x \in S
  PROVE  /\ Append(q, x) \in Seq(S)
         /\ Len(Append(q, x)) = Len(q) + 1
         /\ \A i \in 1..Len(q) : Append(q, x)[i] = q[i]
         /\ Append(q, x)[Len(q) + 1] = x
         /\ Range(Append(q, x)) = Range(q) \cup {x}
<1>1. /\ Append(q, x) \in Seq(S)
      /\ Len(Append(q, x)) = Len(q) + 1
      /\ \A i \in 1..Len(q) : Append(q, x)[i] = q[i]
      /\ Append(q, x)[Len(q) + 1] = x
  OBVIOUS
<1>2. DOMAIN Append(q, x) = 1..(Len(q) + 1) /\ DOMAIN q = 1..Len(q) /\ Len(q) \in Nat
  BY <1>1
<1>3. Range(Append(q, x)) = Range(q) \cup {x}
  BY <1>1, <1>2 DEF Range
<1> QED
  BY <1>1, <1>3

LEMMA HeadTailFacts ==
  ASSUME NEW S, NEW q \in Seq(S), q # <<>>
  PROVE  /\ Len(q) \in Nat \ {0}
         /\ Head(q) = q[1]
         /\ Head(q) \in S
         /\ Tail(q) \in Seq(S)
         /\ Len(Tail(q)) = Len(q) - 1
         /\ \A i \in 1..Len(q)-1 : Tail(q)[i] = q[i+1]
         /\ Range(q) = Range(Tail(q)) \cup {Head(q)}
<1>1. /\ Len(q) \in Nat \ {0}
      /\ Head(q) = q[1]
      /\ Head(q) \in S
      /\ Tail(q) \in Seq(S)
      /\ Len(Tail(q)) = Len(q) - 1
      /\ \A i \in 1..Len(q)-1 : Tail(q)[i] = q[i+1]
  OBVIOUS
<1>2. DOMAIN q = 1..Len(q) /\ DOMAIN Tail(q) = 1..Len(q)-1
  BY <1>1
<1>3. Range(q) \subseteq Range(Tail(q)) \cup {Head(q)}
  <2> SUFFICES ASSUME NEW i \in 1..Len(q), i # 1
               PROVE  q[i] \in Range(Tail(q))
    BY <1>1, <1>2 DEF Range
  <2>1. i - 1 \in 1..Len(q)-1 /\ Tail(q)[i-1] = q[i]
    BY <1>1
  <2> QED
    BY <2>1, <1>2 DEF Range
<1>4. Range(Tail(q)) \subseteq Range(q)
  BY <1>1, <1>2 DEF Range
<1>5. Head(q) \in Range(q)
  BY <1>1, <1>2 DEF Range
<1> QED
  BY <1>1, <1>3, <1>4, <1>5

LEMMA RangeFacts ==
  ASSUME NEW S, NEW q \in Seq(S)
  PROVE  /\ Range(q) \subseteq S
         /\ Len(q) \in Nat
         /\ \A i \in 1..Len(q) : q[i] \in Range(q) /\ q[i] \in S
         /\ \A x \in Range(q) : \E i \in 1..Len(q) : q[i] = x
BY DEF Range

LEMMA EmptyFacts ==
  ASSUME NEW S
  PROVE  <<>> \in Seq(S) /\ Len(<<>>) = 0 /\ Range(<<>>) = {}
BY DEF Range

-----------------------------------------------------------------------------
(***************************************************************************)
(* MaxSeq is the largest number of a set of frames: the set of distances   *)
(* to MaxEvent has a least element.                                        *)
(***************************************************************************)
LEMMA MaxSeqFacts ==
  ASSUME NEW F, F \subseteq Frame
  PROVE  /\ MaxSeq(F) \in 0..MaxEvent
         /\ \A f \in F : f.seq <= MaxSeq(F)
         /\ F # {} => \E f \in F : f.seq = MaxSeq(F)
         /\ F = {} => MaxSeq(F) = 0
<1>1. CASE F = {}
  BY <1>1, FirehoseAssumption DEF MaxSeq
<1>2. CASE F # {}
  <2> DEFINE T == {MaxEvent - f.seq : f \in F}
  <2>1. T \subseteq Nat /\ T # {}
    BY <1>2, FirehoseAssumption DEF Frame
  <2>2. PICK d \in T : \A e \in T : ~ (<<e, d>> \in OpToRel(<, Nat))
    <3> HIDE DEF T
    <3> QED BY <2>1, WFMin, NatLessThanWellFounded
  <2>3. \A e \in T : d <= e
    <3> HIDE DEF T
    <3> TAKE e \in T
    <3>1. e \in Nat /\ d \in Nat
      BY <2>1, <2>2
    <3>2. ~ (e < d)
      BY <3>1, <2>2 DEF OpToRel
    <3> QED BY <3>1, <3>2
  <2>4. PICK m \in F : d = MaxEvent - m.seq
    BY <2>2
  <2>5. ASSUME NEW f \in F PROVE f.seq <= m.seq
    <3>1. MaxEvent - f.seq \in T
      OBVIOUS
    <3>2. f.seq \in Int /\ m.seq \in Int /\ MaxEvent \in Int
      BY FirehoseAssumption DEF Frame
    <3>3. MaxEvent - m.seq <= MaxEvent - f.seq
      BY <2>3, <2>4, <3>1
    <3> QED BY <3>2, <3>3
  <2>6. MaxSeq(F) \in {f.seq : f \in F} /\ \A f \in F : f.seq <= MaxSeq(F)
    <3>1. \E n \in {f.seq : f \in F} : \A f \in F : f.seq <= n
      BY <2>5
    <3> QED BY <1>2, <3>1 DEF MaxSeq
  <2> QED
    BY <1>2, <2>6, FirehoseAssumption DEF Frame
<1> QED
  BY <1>1, <1>2

-----------------------------------------------------------------------------
(***************************************************************************)
(* Types.                                                                  *)
(***************************************************************************)
LEMMA TypeStep == IInv /\ [Next]_vars => TypeOK'
<1> SUFFICES ASSUME IInv, [Next]_vars PROVE TypeOK'
  OBVIOUS
<1> USE FirehoseAssumption
<1>0. TypeOK /\ Numbering /\ FromRows /\ <<>> \in Seq(Frame)
  BY EmptyFacts DEF IInv
<1>1. CASE BeginPublish
  <2>1. seq' \in 1..MaxEvent /\ called' \in 1..MaxEvent
    BY <1>0, <1>1 DEF BeginPublish, TypeOK, Numbering
  <2>2. pend' \in Frame
    BY <1>1, <2>1 DEF BeginPublish, Frame
  <2> QED
    BY <1>0, <1>1, <2>1, <2>2 DEF BeginPublish, TypeOK, channels
<1>2. CASE InsertOk
  BY <1>0, <1>2 DEF InsertOk, TypeOK, Numbering, channels
<1>3. CASE InsertFails
  BY <1>0, <1>3 DEF InsertFails, TypeOK, channels
<1>4. CASE Broadcast
  <2>1. live' \in [Client -> Seq(Frame)]
    BY <1>0, <1>4, AppendFacts DEF Broadcast, TypeOK, Numbering
  <2>2. missed' \in [Client -> SUBSET Frame]
    BY <1>0, <1>4 DEF Broadcast, TypeOK, Numbering
  <2> QED
    BY <1>0, <1>4, <2>1, <2>2 DEF Broadcast, TypeOK
<1>5. ASSUME NEW c \in Client, Connect(c) PROVE TypeOK'
  BY <1>0, <1>5, MaxSeqFacts DEF Connect, TypeOK, emitter, channels
<1>6. ASSUME NEW c \in Client, Query(c) PROVE TypeOK'
  BY <1>0, <1>6 DEF Query, TypeOK, emitter, After
<1>7. ASSUME NEW c \in Client, ReplayFails(c) PROVE TypeOK'
  <2>1. missed' \in [Client -> SUBSET Frame]
    BY <1>0, <1>7 DEF ReplayFails, TypeOK, After
  <2> QED
    BY <1>0, <1>7, <2>1 DEF ReplayFails, TypeOK, emitter
<1>8. ASSUME NEW c \in Client, ReplayRow(c) PROVE TypeOK'
  BY <1>0, <1>8, AppendFacts DEF ReplayRow, TypeOK, emitter
<1>9. ASSUME NEW c \in Client, ReplayDone(c) PROVE TypeOK'
  BY <1>0, <1>9 DEF ReplayDone, TypeOK, emitter, channels
<1>10. ASSUME NEW c \in Client, Forward(c) PROVE TypeOK'
  <2>1. live[c] \in Seq(Frame) /\ live[c] # <<>> /\ out[c] \in Seq(Frame)
    BY <1>0, <1>10 DEF Forward, TypeOK
  <2>2. Head(live[c]) \in Frame /\ Tail(live[c]) \in Seq(Frame)
    BY <2>1, HeadTailFacts
  <2>3. Append(out[c], Head(live[c])) \in Seq(Frame)
    BY <2>1, <2>2, AppendFacts
  <2> QED
    BY <1>0, <1>10, <2>2, <2>3 DEF Forward, TypeOK, emitter
<1>11. ASSUME NEW c \in Client, GoroutineExit(c) PROVE TypeOK'
  BY <1>0, <1>11 DEF GoroutineExit, TypeOK, emitter
<1>12. ASSUME NEW c \in Client, Receive(c) PROVE TypeOK'
  <2>1. out[c] \in Seq(Frame) /\ out[c] # <<>> /\ got[c] \in Seq(Frame)
    BY <1>0, <1>12 DEF Receive, TypeOK
  <2>2. Head(out[c]) \in Frame /\ Tail(out[c]) \in Seq(Frame)
    BY <2>1, HeadTailFacts
  <2>3. Append(got[c], Head(out[c])) \in Seq(Frame)
    BY <2>1, <2>2, AppendFacts
  <2> QED
    BY <1>0, <1>12, <2>2, <2>3 DEF Receive, TypeOK, emitter
<1>13. ASSUME NEW c \in Client, Disconnect(c) PROVE TypeOK'
  BY <1>0, <1>13 DEF Disconnect, TypeOK, emitter
<1>14. ASSUME NEW c \in Client, Cleanup(c) PROVE TypeOK'
  BY <1>0, <1>14 DEF Cleanup, TypeOK, emitter
<1>15. CASE Restart
  BY <1>0, <1>15, MaxSeqFacts DEF Restart, TypeOK
<1>16. CASE UNCHANGED vars
  BY <1>0, <1>16 DEF vars, emitter, channels, TypeOK
<1> QED
  BY <1>1, <1>2, <1>3, <1>4, <1>5, <1>6, <1>7, <1>8, <1>9, <1>10, <1>11, <1>12,
     <1>13, <1>14, <1>15, <1>16 DEF Next, Goroutine

-----------------------------------------------------------------------------
(***************************************************************************)
(* Each action preserves the invariant.                                    *)
(***************************************************************************)
LEMMA FrameSeq == \A f \in Frame : f.seq \in Nat /\ 1 <= f.seq
BY FirehoseAssumption DEF Frame

\* A row that a live frame follows is on its way ahead of that frame.
LEMMA LiveInOrder ==
  ASSUME IInv, NEW c \in Client, g[c] \in {"replay", "live"}, ~gone[c],
         NEW i \in 1..Len(live[c]), NEW r \in rows, r.seq < live[c][i].seq
  PROVE  r \in seen[c] \cup missed[c] \cup Range(out[c]) \cup todo[c]
                 \cup {live[c][j] : j \in 1..i-1}
<1>1. live[c] \in Seq(Frame) /\ live[c][i] \in rows /\ rows \subseteq Frame
  BY RangeFacts DEF IInv, TypeOK, FromRows
<1>2. live[c][i].seq \in Nat /\ r.seq \in Nat
  BY <1>1, FrameSeq
<1>3. mu = "send" => r # pend
  BY <1>1, <1>2 DEF IInv, Numbering
<1>4. ASSUME r \in Range(live[c]) PROVE r \in {live[c][j] : j \in 1..i-1}
  <2>1. PICK j \in 1..Len(live[c]) : live[c][j] = r
    BY <1>1, <1>4, RangeFacts
  <2>2. j # i /\ ~ (i < j)
    BY <2>1, <1>2 DEF IInv, Phases
  <2> QED
    BY <2>1, <2>2, <1>1
<1> QED
  BY <1>3, <1>4 DEF IInv, Covered

LEMMA BeginPublishStep ==
  ASSUME IInv, TypeOK', BeginPublish
  PROVE  IInv'
<1>0. /\ TypeOK /\ Numbering /\ FromRows /\ Phases /\ SeenClosed
      /\ CursorClosed /\ OutInOrder /\ TodoInOrder /\ Covered
  BY DEF IInv
<1>1. Numbering'
  <2>1. pend' = [seq |-> seq + 1, ev |-> called + 1] /\ seq' = seq + 1
    BY DEF BeginPublish
  <2>2. /\ seq + 1 \in 1..MaxEvent
        /\ called + 1 \in 1..MaxEvent
        /\ \A f \in rows : f.seq \in Nat
    BY <1>0, FrameSeq, FirehoseAssumption DEF BeginPublish, TypeOK, Numbering
  <2>3. pend' \in Frame /\ pend'.seq = seq + 1
    BY <2>1, <2>2 DEF Frame
  <2> QED
    BY <1>0, <2>1, <2>2, <2>3 DEF BeginPublish, TypeOK, Numbering
<1>2. FromRows'
  BY <1>0 DEF BeginPublish, TypeOK, Numbering, FromRows, Phases, emitter, channels
<1>3. Phases'
  BY <1>0 DEF BeginPublish, TypeOK, Numbering, FromRows, Phases, emitter, channels
<1>4. SeenClosed'
  BY <1>0 DEF BeginPublish, TypeOK, Numbering, FromRows, Phases, SeenClosed, emitter, channels
<1>5. CursorClosed'
  BY <1>0 DEF BeginPublish, TypeOK, Numbering, FromRows, Phases, CursorClosed, emitter, channels
<1>6. OutInOrder'
  BY <1>0 DEF BeginPublish, TypeOK, Numbering, FromRows, Phases, OutInOrder, emitter, channels
<1>7. TodoInOrder'
  BY <1>0 DEF BeginPublish, TypeOK, Numbering, FromRows, Phases, TodoInOrder, emitter, channels
<1>8. Covered'
  BY <1>0 DEF BeginPublish, TypeOK, Numbering, FromRows, Phases, Covered, emitter, channels
<1> QED
  BY <1>1, <1>2, <1>3, <1>4, <1>5, <1>6, <1>7, <1>8 DEF IInv

LEMMA InsertOkStep ==
  ASSUME IInv, TypeOK', InsertOk
  PROVE  IInv'
<1>0. /\ TypeOK /\ Numbering /\ FromRows /\ Phases /\ SeenClosed
      /\ CursorClosed /\ OutInOrder /\ TodoInOrder /\ Covered
  BY DEF IInv
<1>a. /\ rows' = rows \cup {pend}
      /\ pend \in Frame
      /\ \A f \in rows : f.seq < pend.seq
      /\ \A f \in rows' : f.seq \in Nat
  BY <1>0, FrameSeq DEF InsertOk, TypeOK, Numbering
<1>1. Numbering'
  <2>1. \A c \in Client : pend \notin Range(live[c])
    BY <1>0, <1>a DEF FromRows
  <2>2. \A f \in rows' : f.seq <= seq /\ f.seq <= pend.seq
    BY <1>0, <1>a DEF InsertOk, TypeOK, Numbering
  <2>3. \A f, h \in rows' : f.seq = h.seq => f = h
    BY <1>0, <1>a DEF Numbering
  <2> QED
    BY <1>0, <1>a, <2>1, <2>2, <2>3 DEF InsertOk, Numbering, channels
<1>2. FromRows'
  BY <1>0 DEF InsertOk, TypeOK, Numbering, FromRows, Phases, channels
<1>3. Phases'
  BY <1>0 DEF InsertOk, TypeOK, Numbering, FromRows, Phases, channels
<1>4. SeenClosed'
  <2>1. \A c \in Client : \A f \in seen[c] : f \in rows
    BY <1>0 DEF FromRows
  <2>2. \A c \in Client : \A f \in seen[c] : ~ (pend.seq < f.seq)
    BY <1>a, <2>1
  <2> QED
    BY <1>0, <1>a, <2>2 DEF InsertOk, SeenClosed
<1>5. CursorClosed'
  <2>1. \A c \in Client : cursor[c] \in Nat
    BY <1>0, FirehoseAssumption DEF TypeOK
  <2>2. \A c \in Client : ~ (pend.seq <= cursor[c])
    BY <1>0, <1>a, <2>1, FrameSeq DEF Phases
  <2> QED
    BY <1>0, <1>a, <2>2 DEF InsertOk, CursorClosed
<1>6. OutInOrder'
  <2>1. \A c \in Client : \A i \in 1..Len(out[c]) : out[c][i] \in rows
    BY <1>0, RangeFacts DEF TypeOK, FromRows
  <2>2. \A c \in Client : \A i \in 1..Len(out[c]) : ~ (pend.seq < out[c][i].seq)
    BY <1>a, <2>1
  <2> QED
    BY <1>0, <1>a, <2>2 DEF InsertOk, channels, OutInOrder
<1>7. TodoInOrder'
  <2>1. \A c \in Client : \A f \in todo[c] : f \in rows
    BY <1>0 DEF FromRows
  <2>2. \A c \in Client : \A f \in todo[c] : ~ (pend.seq < f.seq)
    BY <1>a, <2>1
  <2> QED
    BY <1>0, <1>a, <2>2 DEF InsertOk, channels, TodoInOrder
<1>8. Covered'
  BY <1>0 DEF InsertOk, TypeOK, Numbering, FromRows, Phases, Covered, channels
<1> QED
  BY <1>1, <1>2, <1>3, <1>4, <1>5, <1>6, <1>7, <1>8 DEF IInv

LEMMA InsertFailsStep ==
  ASSUME IInv, TypeOK', InsertFails
  PROVE  IInv'
<1>0. /\ TypeOK /\ Numbering /\ FromRows /\ Phases /\ SeenClosed
      /\ CursorClosed /\ OutInOrder /\ TodoInOrder /\ Covered
  BY DEF IInv
<1>1. Numbering'
  BY <1>0 DEF InsertFails, TypeOK, Numbering, FromRows, Phases, channels
<1>2. FromRows'
  BY <1>0 DEF InsertFails, TypeOK, Numbering, FromRows, Phases, channels
<1>3. Phases'
  BY <1>0 DEF InsertFails, TypeOK, Numbering, FromRows, Phases, channels
<1>4. SeenClosed'
  BY <1>0 DEF InsertFails, TypeOK, Numbering, FromRows, Phases, SeenClosed, channels
<1>5. CursorClosed'
  BY <1>0 DEF InsertFails, TypeOK, Numbering, FromRows, Phases, CursorClosed, channels
<1>6. OutInOrder'
  BY <1>0 DEF InsertFails, TypeOK, Numbering, FromRows, Phases, OutInOrder, channels
<1>7. TodoInOrder'
  BY <1>0 DEF InsertFails, TypeOK, Numbering, FromRows, Phases, TodoInOrder, channels
<1>8. Covered'
  BY <1>0 DEF InsertFails, TypeOK, Numbering, FromRows, Phases, Covered, channels
<1> QED
  BY <1>1, <1>2, <1>3, <1>4, <1>5, <1>6, <1>7, <1>8 DEF IInv

LEMMA BroadcastStep ==
  ASSUME IInv, TypeOK', Broadcast
  PROVE  IInv'
<1>0. /\ TypeOK /\ Numbering /\ FromRows /\ Phases /\ SeenClosed
      /\ CursorClosed /\ OutInOrder /\ TodoInOrder /\ Covered
  BY DEF IInv
<1>a. mu = "send" /\ pend \in rows /\ pend \in Frame /\ mu' = "free"
  BY <1>0 DEF Broadcast, TypeOK, Numbering
<1>b. ASSUME NEW c \in Client
      PROVE  \/ live'[c] = live[c]
             \/ /\ Len(live'[c]) = Len(live[c]) + 1
                /\ \A i \in 1..Len(live[c]) : live'[c][i] = live[c][i]
                /\ live'[c][Len(live[c]) + 1] = pend
                /\ Range(live'[c]) = Range(live[c]) \cup {pend}
                /\ c \in subs
  <2>1. live[c] \in Seq(Frame)
    BY <1>0 DEF TypeOK
  <2>2. \/ live'[c] = live[c]
        \/ live'[c] = Append(live[c], pend) /\ c \in subs
    BY <1>0 DEF Broadcast, TypeOK
  <2>3. LET q == Append(live[c], pend)
        IN  /\ Len(q) = Len(live[c]) + 1
            /\ \A i \in 1..Len(live[c]) : q[i] = live[c][i]
            /\ q[Len(live[c]) + 1] = pend
            /\ Range(q) = Range(live[c]) \cup {pend}
    BY <1>a, <2>1, AppendFacts
  <2> QED
    BY <2>2, <2>3
<1>c. \A c \in Client : missed'[c] \in {missed[c], missed[c] \cup {pend}}
  BY <1>0 DEF Broadcast
<1>d. /\ UNCHANGED <<rows, seq, called, subs, g, gone, cursor, todo, out, seen>>
      /\ \A c \in Client : live[c] \in Seq(Frame) /\ Len(live[c]) \in Nat
  BY <1>0, RangeFacts DEF Broadcast, TypeOK
<1>1. Numbering'
  BY <1>0 DEF Broadcast, TypeOK, Numbering, FromRows, Phases
<1>2. FromRows'
  BY <1>0, <1>a, <1>b, <1>c, <1>d DEF FromRows
<1>3. Phases'
  <2>1. ASSUME NEW c \in Client, NEW i \in 1..Len(live'[c]), NEW j \in 1..Len(live'[c]), i < j
        PROVE  live'[c][i].seq < live'[c][j].seq
    <3>1. CASE live'[c] = live[c]
      BY <1>0, <2>1, <3>1 DEF Phases
    <3>2. CASE live'[c] # live[c]
      <4>1. i \in 1..Len(live[c]) /\ live'[c][i] = live[c][i]
        BY <1>b, <1>d, <2>1, <3>2
      <4>2. CASE j \in 1..Len(live[c])
        BY <1>0, <1>b, <2>1, <3>2, <4>1, <4>2 DEF Phases
      <4>3. CASE j = Len(live[c]) + 1
        <5>1. live[c][i] \in Range(live[c]) /\ live[c][i] \in rows
          BY <1>0, <1>d, <4>1, RangeFacts DEF FromRows
        <5>2. live[c][i].seq <= pend.seq /\ live[c][i].seq # pend.seq
          BY <1>0, <1>a, <5>1 DEF Numbering
        <5>3. live[c][i].seq \in Nat /\ pend.seq \in Nat
          BY <1>0, <1>a, <5>1, FrameSeq DEF TypeOK
        <5> QED
          BY <1>b, <3>2, <4>1, <4>3, <5>2, <5>3
      <4> QED
        BY <1>b, <1>d, <3>2, <4>2, <4>3
    <3> QED
      BY <3>1, <3>2
  <2>2. \A c \in Client : c \notin subs => live'[c] = <<>>
    BY <1>0, <1>b DEF Phases
  <2> QED
    <3>1. \A c \in Client : \A i, j \in 1..Len(live'[c]) :
            i < j => live'[c][i].seq < live'[c][j].seq
      BY <2>1
    <3>2. \A c \in Client :
            /\ g[c] # "off" /\ ~gone[c] => c \in subs
            /\ g[c] \in {"off", "start"} \/ gone[c] => out[c] = <<>>
            /\ g[c] # "replay" => todo[c] = {}
            /\ cursor[c] = 0 \/ \E f \in rows : cursor[c] <= f.seq
      BY <1>0 DEF Phases
    <3> QED
      BY <1>d, <2>2, <3>1, <3>2 DEF Phases
<1>4. SeenClosed'
  BY <1>0 DEF Broadcast, TypeOK, Numbering, FromRows, Phases, SeenClosed
<1>5. CursorClosed'
  BY <1>0 DEF Broadcast, TypeOK, Numbering, FromRows, Phases, CursorClosed
<1>6. OutInOrder'
  BY <1>0 DEF Broadcast, TypeOK, Numbering, FromRows, Phases, OutInOrder
<1>7. TodoInOrder'
  BY <1>0 DEF Broadcast, TypeOK, Numbering, FromRows, Phases, TodoInOrder
<1>8. Covered'
  <2>1. ASSUME NEW c \in Client, g[c] \in {"replay", "live"}, ~gone[c]
        PROVE  pend \in Range(live'[c]) \cup missed'[c]
    <3>1. c \in subs
      BY <1>0, <2>1 DEF Phases
    <3>2. CASE Len(live[c]) < LiveCap
      BY <1>a, <1>d, <3>1, <3>2, AppendFacts DEF Broadcast
    <3>3. CASE Len(live[c]) >= LiveCap
      BY <2>1, <3>1, <3>3 DEF Broadcast
    <3> QED
      BY <1>d, <3>2, <3>3, FirehoseAssumption
  <2> QED
    <3> SUFFICES ASSUME NEW c \in Client, g[c] \in {"replay", "live"}, ~gone[c], NEW r \in rows
                 PROVE  r \in seen[c] \cup missed'[c] \cup Range(out[c]) \cup todo[c]
                                \cup Range(live'[c])
      BY <1>a, <1>d DEF Covered
    <3>1. r \in seen[c] \cup missed[c] \cup Range(out[c]) \cup todo[c]
                  \cup Range(live[c]) \cup {pend}
      BY <1>0 DEF Covered
    <3>2. Range(live[c]) \subseteq Range(live'[c])
      BY <1>b
    <3> QED
      BY <1>c, <2>1, <3>1, <3>2
<1> QED
  BY <1>1, <1>2, <1>3, <1>4, <1>5, <1>6, <1>7, <1>8 DEF IInv

LEMMA ConnectStep ==
  ASSUME IInv, TypeOK', NEW c \in Client, Connect(c)
  PROVE  IInv'
<1>0. /\ TypeOK /\ Numbering /\ FromRows /\ Phases /\ SeenClosed
      /\ CursorClosed /\ OutInOrder /\ TodoInOrder /\ Covered
  BY DEF IInv
<1> DEFINE m == MaxSeq(seen[c])
<1>b. /\ m \in Nat
      /\ \A f \in seen[c] : f.seq <= m
      /\ \A f \in rows : f.seq \in Nat /\ 1 <= f.seq
      /\ m = 0 \/ \E f \in seen[c] : f.seq = m
  <2>1. seen[c] \subseteq Frame /\ rows \subseteq Frame
    BY <1>0 DEF TypeOK
  <2>2. 0..MaxEvent \subseteq Nat
    BY FirehoseAssumption
  <2> QED
    BY <2>1, <2>2, MaxSeqFacts, FrameSeq
<1>c. /\ cursor' = [cursor EXCEPT ![c] = m]
      /\ missed'[c] = {f \in missed[c] : ~ (f.seq > m)}
      /\ \A d \in Client : d # c => missed'[d] = missed[d] /\ cursor'[d] = cursor[d]
      /\ cursor'[c] = m
      /\ UNCHANGED <<rows, emitter, channels, seen>>
  BY <1>0 DEF Connect, TypeOK, After
<1> HIDE DEF m
<1>1. Numbering'
  BY <1>0 DEF Connect, TypeOK, Numbering, FromRows, Phases, emitter, channels
<1>2. FromRows'
  BY <1>0 DEF Connect, TypeOK, Numbering, FromRows, Phases, emitter, channels
<1>3. Phases'
  <2>1. cursor'[c] = 0 \/ \E f \in rows : cursor'[c] <= f.seq
    BY <1>0, <1>b, <1>c DEF FromRows
  <2> QED
    <3>1. \A d \in Client : cursor'[d] = 0 \/ \E f \in rows : cursor'[d] <= f.seq
      BY <1>0, <1>c, <2>1 DEF Phases
    <3>2. \A d \in Client :
            /\ g'[d] # "off" /\ ~gone'[d] => d \in subs'
            /\ d \notin subs' => live[d] = <<>>
            /\ g'[d] \in {"off", "start"} \/ gone'[d] => out[d] = <<>>
            /\ g'[d] # "replay" => todo[d] = {}
            /\ \A i, j \in 1..Len(live[d]) : i < j => live[d][i].seq < live[d][j].seq
      BY <1>0 DEF Connect, TypeOK, Phases
    <3> QED
      BY <1>c, <3>1, <3>2 DEF Phases, channels
<1>4. SeenClosed'
  <2>1. ASSUME NEW f \in seen[c], NEW r \in rows, r.seq < f.seq
        PROVE  r \in seen[c] \cup missed'[c]
    <3>1. f.seq \in Nat /\ f \in rows
      BY <1>0, <1>b DEF FromRows
    <3>2. ~ (r.seq > m)
      BY <1>b, <2>1, <3>1
    <3> QED
      BY <1>0, <1>c, <2>1, <3>2 DEF SeenClosed
  <2> QED
    BY <1>0, <1>c, <2>1 DEF SeenClosed
<1>5. CursorClosed'
  <2>1. ASSUME NEW r \in rows, r.seq <= m
        PROVE  r \in seen[c] \cup missed'[c]
    <3>1. PICK f \in seen[c] : f.seq = m
      BY <1>b, <2>1
    <3>2. f \in rows
      BY <1>0 DEF FromRows
    <3>3. CASE r.seq = m
      BY <1>0, <3>1, <3>2, <3>3 DEF Numbering
    <3>4. CASE r.seq < m
      BY <1>0, <1>b, <1>c, <3>1, <3>4 DEF SeenClosed
    <3> QED
      BY <1>b, <2>1, <3>3, <3>4
  <2> QED
    BY <1>0, <1>c, <2>1 DEF Connect, TypeOK, CursorClosed
<1>6. OutInOrder'
  BY <1>0 DEF Connect, TypeOK, Numbering, FromRows, Phases, OutInOrder, emitter, channels
<1>7. TodoInOrder'
  BY <1>0 DEF Connect, TypeOK, Numbering, FromRows, Phases, TodoInOrder, emitter, channels
<1>8. Covered'
  BY <1>0 DEF Connect, TypeOK, Numbering, FromRows, Phases, Covered, emitter, channels
<1> QED
  BY <1>1, <1>2, <1>3, <1>4, <1>5, <1>6, <1>7, <1>8 DEF IInv

LEMMA QueryStep ==
  ASSUME IInv, TypeOK', NEW c \in Client, Query(c)
  PROVE  IInv'
<1>0. /\ TypeOK /\ Numbering /\ FromRows /\ Phases /\ SeenClosed
      /\ CursorClosed /\ OutInOrder /\ TodoInOrder /\ Covered
  BY DEF IInv
<1>a. /\ todo'[c] = {f \in rows : f.seq > cursor[c]}
      /\ g[c] = "start" /\ ~gone[c]
      /\ \A d \in Client : d # c => todo'[d] = todo[d] /\ g'[d] = g[d]
      /\ UNCHANGED <<rows, mu, pend, subs, gone, cursor, live, out, seen, missed>>
  BY <1>0 DEF Query, TypeOK, After, emitter
<1>b. cursor[c] \in Nat /\ \A f \in rows : f.seq \in Nat
  BY <1>0, FrameSeq, FirehoseAssumption DEF TypeOK
<1>c. \A r \in rows : r \in seen[c] \cup missed[c] \cup todo'[c]
  BY <1>0, <1>a, <1>b DEF CursorClosed
<1>1. Numbering'
  BY <1>0 DEF Query, TypeOK, Numbering, FromRows, Phases, emitter, After
<1>2. FromRows'
  BY <1>0, <1>a DEF FromRows
<1>3. Phases'
  BY <1>0 DEF Query, TypeOK, Numbering, FromRows, Phases, emitter, After
<1>4. SeenClosed'
  BY <1>0 DEF Query, TypeOK, Numbering, FromRows, Phases, SeenClosed, emitter, After
<1>5. CursorClosed'
  BY <1>0 DEF Query, TypeOK, Numbering, FromRows, Phases, CursorClosed, emitter, After
<1>6. OutInOrder'
  BY <1>0 DEF Query, TypeOK, Numbering, FromRows, Phases, OutInOrder, emitter, After
<1>7. TodoInOrder'
  BY <1>0, <1>a, <1>c DEF TodoInOrder
<1>8. Covered'
  BY <1>0, <1>a, <1>c DEF Covered
<1> QED
  BY <1>1, <1>2, <1>3, <1>4, <1>5, <1>6, <1>7, <1>8 DEF IInv

LEMMA ReplayFailsStep ==
  ASSUME IInv, TypeOK', NEW c \in Client, ReplayFails(c)
  PROVE  IInv'
<1>0. /\ TypeOK /\ Numbering /\ FromRows /\ Phases /\ SeenClosed
      /\ CursorClosed /\ OutInOrder /\ TodoInOrder /\ Covered
  BY DEF IInv
<1> DEFINE unread == IF g[c] = "start" THEN After(rows, cursor[c]) ELSE todo[c]
<1>a. /\ g[c] \in {"start", "replay"} /\ ~gone[c]
      /\ missed'[c] = missed[c] \cup (unread \ Range(live[c]))
      /\ todo'[c] = {}
      /\ \A d \in Client : d # c =>
           todo'[d] = todo[d] /\ g'[d] = g[d] /\ missed'[d] = missed[d]
      /\ UNCHANGED <<rows, mu, pend, subs, gone, cursor, live, out, seen>>
  BY <1>0 DEF ReplayFails, TypeOK, emitter
<1>b. cursor[c] \in Nat /\ \A f \in rows : f.seq \in Nat
  BY <1>0, FrameSeq, FirehoseAssumption DEF TypeOK
<1>c. unread \subseteq rows
  BY <1>0 DEF After, FromRows
<1>d. g[c] = "start" => \A r \in rows : r \in seen[c] \cup missed[c] \cup unread
  BY <1>0, <1>a, <1>b DEF CursorClosed, After
<1>e. g[c] = "replay" => unread = todo[c]
  OBVIOUS
<1> HIDE DEF unread
<1>1. Numbering'
  BY <1>0 DEF ReplayFails, TypeOK, Numbering, FromRows, Phases, emitter, After
<1>2. FromRows'
  BY <1>0, <1>a, <1>c DEF FromRows
<1>3. Phases'
  BY <1>0 DEF ReplayFails, TypeOK, Numbering, FromRows, Phases, emitter, After
<1>4. SeenClosed'
  BY <1>0 DEF ReplayFails, TypeOK, Numbering, FromRows, Phases, SeenClosed, emitter, After
<1>5. CursorClosed'
  BY <1>0 DEF ReplayFails, TypeOK, Numbering, FromRows, Phases, CursorClosed, emitter, After
<1>6. OutInOrder'
  BY <1>0 DEF ReplayFails, TypeOK, Numbering, FromRows, Phases, OutInOrder, emitter, After
<1>7. TodoInOrder'
  BY <1>0 DEF ReplayFails, TypeOK, Numbering, FromRows, Phases, TodoInOrder, emitter, After
<1>8. Covered'
  <2>1. \A r \in rows : r \in seen[c] \cup missed'[c] \cup Range(out[c]) \cup Range(live[c])
                              \cup (IF mu = "send" THEN {pend} ELSE {})
    BY <1>0, <1>a, <1>d, <1>e DEF Covered
  <2> QED
    BY <1>0, <1>a, <2>1 DEF Covered
<1> QED
  BY <1>1, <1>2, <1>3, <1>4, <1>5, <1>6, <1>7, <1>8 DEF IInv

LEMMA ReplayRowStep ==
  ASSUME IInv, TypeOK', NEW c \in Client, ReplayRow(c)
  PROVE  IInv'
<1>0. /\ TypeOK /\ Numbering /\ FromRows /\ Phases /\ SeenClosed
      /\ CursorClosed /\ OutInOrder /\ TodoInOrder /\ Covered
  BY DEF IInv
<1>a. PICK f \in todo[c] :
        /\ \A h \in todo[c] : f.seq <= h.seq
        /\ todo' = [todo EXCEPT ![c] = @ \ {f}]
        /\ out' = [out EXCEPT ![c] = Append(@, f)]
  BY DEF ReplayRow
<1>b. out[c] \in Seq(Frame) /\ f \in Frame /\ Len(out[c]) \in Nat
  BY <1>0, RangeFacts DEF TypeOK
<1>c. /\ Len(out'[c]) = Len(out[c]) + 1
      /\ \A i \in 1..Len(out[c]) : out'[c][i] = out[c][i]
      /\ out'[c][Len(out[c]) + 1] = f
      /\ Range(out'[c]) = Range(out[c]) \cup {f}
  BY <1>0, <1>a, <1>b, AppendFacts DEF TypeOK
<1>d. /\ g[c] = "replay" /\ ~gone[c]
      /\ todo'[c] = todo[c] \ {f}
      /\ \A d \in Client : d # c => todo'[d] = todo[d] /\ out'[d] = out[d]
      /\ UNCHANGED <<rows, mu, pend, subs, g, gone, cursor, live, seen, missed>>
  BY <1>0, <1>a DEF ReplayRow, TypeOK, emitter
<1>1. Numbering'
  BY <1>0 DEF ReplayRow, TypeOK, Numbering, FromRows, Phases, emitter
<1>2. FromRows'
  BY <1>0, <1>c, <1>d DEF FromRows
<1>3. Phases'
  BY <1>0 DEF ReplayRow, TypeOK, Numbering, FromRows, Phases, emitter
<1>4. SeenClosed'
  BY <1>0 DEF ReplayRow, TypeOK, Numbering, FromRows, Phases, SeenClosed, emitter
<1>5. CursorClosed'
  BY <1>0 DEF ReplayRow, TypeOK, Numbering, FromRows, Phases, CursorClosed, emitter
<1>6. OutInOrder'
  <2>1. ASSUME NEW i \in 1..Len(out'[c]), NEW r \in rows, r.seq < out'[c][i].seq
        PROVE  r \in seen[c] \cup missed[c] \cup {out'[c][j] : j \in 1..i-1}
    <3>1. CASE i \in 1..Len(out[c])
      BY <1>0, <1>b, <1>c, <1>d, <2>1, <3>1, SMTT(30) DEF OutInOrder
    <3>2. CASE i = Len(out[c]) + 1
      <4>1. r \in seen[c] \cup missed[c] \cup Range(out[c]) \cup todo[c]
        BY <1>0, <1>c, <1>d, <2>1, <3>2 DEF TodoInOrder
      <4>2. r \notin todo[c]
        BY <1>0, <1>a, <1>b, <1>c, <2>1, <3>2, FrameSeq DEF TypeOK
      <4>3. r \in Range(out[c]) => \E j \in 1..i-1 : out'[c][j] = r
        BY <1>b, <1>c, <3>2, RangeFacts
      <4> QED
        BY <4>1, <4>2, <4>3
    <3> QED
      BY <1>b, <1>c, <3>1, <3>2
  <2> QED
    BY <1>0, <1>d, <2>1, SMTT(30) DEF OutInOrder
<1>7. TodoInOrder'
  BY <1>0, <1>c, <1>d DEF TodoInOrder
<1>8. Covered'
  BY <1>0, <1>c, <1>d DEF Covered
<1> QED
  BY <1>1, <1>2, <1>3, <1>4, <1>5, <1>6, <1>7, <1>8 DEF IInv

LEMMA ReplayDoneStep ==
  ASSUME IInv, TypeOK', NEW c \in Client, ReplayDone(c)
  PROVE  IInv'
<1>0. /\ TypeOK /\ Numbering /\ FromRows /\ Phases /\ SeenClosed
      /\ CursorClosed /\ OutInOrder /\ TodoInOrder /\ Covered
  BY DEF IInv
<1>1. Numbering'
  BY <1>0 DEF ReplayDone, TypeOK, Numbering, FromRows, Phases, emitter, channels
<1>2. FromRows'
  BY <1>0 DEF ReplayDone, TypeOK, Numbering, FromRows, Phases, emitter, channels
<1>3. Phases'
  BY <1>0 DEF ReplayDone, TypeOK, Numbering, FromRows, Phases, emitter, channels
<1>4. SeenClosed'
  BY <1>0 DEF ReplayDone, TypeOK, Numbering, FromRows, Phases, SeenClosed, emitter, channels
<1>5. CursorClosed'
  BY <1>0 DEF ReplayDone, TypeOK, Numbering, FromRows, Phases, CursorClosed, emitter, channels
<1>6. OutInOrder'
  BY <1>0 DEF ReplayDone, TypeOK, Numbering, FromRows, Phases, OutInOrder, emitter, channels
<1>7. TodoInOrder'
  BY <1>0 DEF ReplayDone, TypeOK, Numbering, FromRows, Phases, TodoInOrder, emitter, channels
<1>8. Covered'
  BY <1>0 DEF ReplayDone, TypeOK, Numbering, FromRows, Phases, Covered, emitter, channels
<1> QED
  BY <1>1, <1>2, <1>3, <1>4, <1>5, <1>6, <1>7, <1>8 DEF IInv

LEMMA ForwardStep ==
  ASSUME IInv, TypeOK', NEW c \in Client, Forward(c)
  PROVE  IInv'
<1>0. /\ TypeOK /\ Numbering /\ FromRows /\ Phases /\ SeenClosed
      /\ CursorClosed /\ OutInOrder /\ TodoInOrder /\ Covered
  BY DEF IInv
<1> DEFINE x == Head(live[c])
<1>a. /\ g[c] = "live" /\ ~gone[c] /\ live[c] # <<>>
      /\ out'[c] = Append(out[c], x) /\ live'[c] = Tail(live[c])
      /\ \A d \in Client : d # c => out'[d] = out[d] /\ live'[d] = live[d]
      /\ UNCHANGED <<rows, emitter, subs, g, gone, cursor, todo, seen, missed>>
  BY <1>0 DEF Forward, TypeOK
<1>b. live[c] \in Seq(Frame) /\ out[c] \in Seq(Frame) /\ Len(out[c]) \in Nat
  BY <1>0, RangeFacts DEF TypeOK
<1>c. /\ Len(live[c]) \in Nat \ {0}
      /\ x = live[c][1] /\ x \in Frame
      /\ Len(live'[c]) = Len(live[c]) - 1
      /\ \A i \in 1..Len(live[c])-1 : live'[c][i] = live[c][i+1]
      /\ Range(live[c]) = Range(live'[c]) \cup {x}
  BY <1>a, <1>b, HeadTailFacts
<1>d. /\ Len(out'[c]) = Len(out[c]) + 1
      /\ \A i \in 1..Len(out[c]) : out'[c][i] = out[c][i]
      /\ out'[c][Len(out[c]) + 1] = x
      /\ Range(out'[c]) = Range(out[c]) \cup {x}
  BY <1>a, <1>b, <1>c, AppendFacts
<1> HIDE DEF x
<1>1. Numbering'
  BY <1>0, <1>a, <1>c DEF Numbering, emitter
<1>2. FromRows'
  BY <1>0, <1>a, <1>c, <1>d, ZenonT(30) DEF FromRows
<1>3. Phases'
  BY <1>0 DEF Forward, TypeOK, Numbering, FromRows, Phases, emitter
<1>4. SeenClosed'
  BY <1>0 DEF Forward, TypeOK, Numbering, FromRows, Phases, SeenClosed, emitter
<1>5. CursorClosed'
  BY <1>0 DEF Forward, TypeOK, Numbering, FromRows, Phases, CursorClosed, emitter
<1>6. OutInOrder'
  <2>1. ASSUME NEW i \in 1..Len(out'[c]), NEW r \in rows, r.seq < out'[c][i].seq
        PROVE  r \in seen[c] \cup missed[c] \cup {out'[c][j] : j \in 1..i-1}
    <3>1. CASE i \in 1..Len(out[c])
      BY <1>0, <1>a, <1>b, <1>d, <2>1, <3>1 DEF OutInOrder
    <3>2. CASE i = Len(out[c]) + 1
      <4>1. r.seq < live[c][1].seq /\ 1 \in 1..Len(live[c])
        BY <1>c, <1>d, <2>1, <3>2
      <4>2. r \in seen[c] \cup missed[c] \cup Range(out[c]) \cup todo[c]
                    \cup {live[c][j] : j \in 1..1-1}
        BY <1>a, <4>1, LiveInOrder
      <4>3. todo[c] = {}
        BY <1>0, <1>a DEF Phases
      <4>4. r \in Range(out[c]) => \E j \in 1..i-1 : out'[c][j] = r
        BY <1>b, <1>d, <3>2, RangeFacts
      <4> QED
        BY <4>2, <4>3, <4>4
    <3> QED
      BY <1>b, <1>d, <3>1, <3>2
  <2> QED
    <3> DEFINE Ordered(d) == \A i \in 1..Len(out'[d]) : \A r \in rows :
                               r.seq < out'[d][i].seq =>
                                 r \in seen'[d] \cup missed[d] \cup {out'[d][j] : j \in 1..i-1}
    <3>1. Ordered(c)
      BY <1>a, <2>1
    <3>2. \A d \in Client : d # c /\ ~gone[d] => Ordered(d)
      BY <1>0, <1>a DEF OutInOrder
    <3>3. (\A d \in Client : ~gone[d] => Ordered(d)) => OutInOrder'
      BY <1>a DEF OutInOrder
    <3> HIDE DEF Ordered
    <3> QED
      BY <3>1, <3>2, <3>3
<1>7. TodoInOrder'
  BY <1>0 DEF Forward, TypeOK, Numbering, FromRows, Phases, TodoInOrder, emitter
<1>8. Covered'
  BY <1>0, <1>a, <1>c, <1>d DEF Covered, emitter
<1> QED
  BY <1>1, <1>2, <1>3, <1>4, <1>5, <1>6, <1>7, <1>8 DEF IInv

LEMMA GoroutineExitStep ==
  ASSUME IInv, TypeOK', NEW c \in Client, GoroutineExit(c)
  PROVE  IInv'
<1>0. /\ TypeOK /\ Numbering /\ FromRows /\ Phases /\ SeenClosed
      /\ CursorClosed /\ OutInOrder /\ TodoInOrder /\ Covered
  BY DEF IInv
<1>1. Numbering'
  BY <1>0 DEF GoroutineExit, TypeOK, Numbering, FromRows, Phases, emitter
<1>2. FromRows'
  BY <1>0 DEF GoroutineExit, TypeOK, Numbering, FromRows, Phases, emitter
<1>3. Phases'
  BY <1>0 DEF GoroutineExit, TypeOK, Numbering, FromRows, Phases, emitter
<1>4. SeenClosed'
  BY <1>0 DEF GoroutineExit, TypeOK, Numbering, FromRows, Phases, SeenClosed, emitter
<1>5. CursorClosed'
  BY <1>0 DEF GoroutineExit, TypeOK, Numbering, FromRows, Phases, CursorClosed, emitter
<1>6. OutInOrder'
  BY <1>0 DEF GoroutineExit, TypeOK, Numbering, FromRows, Phases, OutInOrder, emitter
<1>7. TodoInOrder'
  BY <1>0 DEF GoroutineExit, TypeOK, Numbering, FromRows, Phases, TodoInOrder, emitter
<1>8. Covered'
  BY <1>0 DEF GoroutineExit, TypeOK, Numbering, FromRows, Phases, Covered, emitter
<1> QED
  BY <1>1, <1>2, <1>3, <1>4, <1>5, <1>6, <1>7, <1>8 DEF IInv

LEMMA ReceiveStep ==
  ASSUME IInv, TypeOK', NEW c \in Client, Receive(c)
  PROVE  IInv'
<1>0. /\ TypeOK /\ Numbering /\ FromRows /\ Phases /\ SeenClosed
      /\ CursorClosed /\ OutInOrder /\ TodoInOrder /\ Covered
  BY DEF IInv
<1> DEFINE x == Head(out[c])
<1>a. /\ ~gone[c] /\ out[c] # <<>>
      /\ out'[c] = Tail(out[c]) /\ seen'[c] = seen[c] \cup {x}
      /\ \A d \in Client : d # c => out'[d] = out[d] /\ seen'[d] = seen[d]
      /\ UNCHANGED <<rows, emitter, subs, g, gone, cursor, todo, live, missed>>
  BY <1>0 DEF Receive, TypeOK
<1>b. /\ Len(out[c]) \in Nat \ {0}
      /\ x = out[c][1] /\ x \in Frame
      /\ Len(out'[c]) = Len(out[c]) - 1
      /\ \A i \in 1..Len(out[c])-1 : out'[c][i] = out[c][i+1]
      /\ Range(out[c]) = Range(out'[c]) \cup {x}
  BY <1>0, <1>a, HeadTailFacts DEF TypeOK
<1> HIDE DEF x
<1>1. Numbering'
  BY <1>0 DEF Receive, TypeOK, Numbering, FromRows, Phases, emitter
<1>2. FromRows'
  BY <1>0, <1>a, <1>b DEF FromRows
<1>3. Phases'
  BY <1>0 DEF Receive, TypeOK, Numbering, FromRows, Phases, emitter
<1>4. SeenClosed'
  <2>1. ASSUME NEW r \in rows, r.seq < x.seq PROVE r \in seen[c] \cup missed[c]
    <3>1. r \in seen[c] \cup missed[c] \cup {out[c][j] : j \in 1..1-1}
      BY <1>0, <1>a, <1>b, <2>1 DEF OutInOrder
    <3> QED
      BY <3>1
  <2> QED
    BY <1>0, <1>a, <2>1 DEF SeenClosed
<1>5. CursorClosed'
  BY <1>0 DEF Receive, TypeOK, Numbering, FromRows, Phases, CursorClosed, emitter
<1>6. OutInOrder'
  <2>1. ASSUME NEW i \in 1..Len(out'[c]), NEW r \in rows, r.seq < out'[c][i].seq
        PROVE  r \in seen'[c] \cup missed[c] \cup {out'[c][j] : j \in 1..i-1}
    <3>1. i + 1 \in 1..Len(out[c]) /\ out[c][i+1] = out'[c][i]
      BY <1>b
    <3>2. r \in seen[c] \cup missed[c] \cup {out[c][j] : j \in 1..i}
      BY <1>0, <1>a, <2>1, <3>1 DEF OutInOrder
    <3>3. ASSUME NEW j \in 1..i, out[c][j] = r, r # x
          PROVE  \E k \in 1..i-1 : out'[c][k] = r
      <4>1. j # 1
        BY <1>b, <3>3
      <4>2. j - 1 \in 1..i-1 /\ out'[c][j-1] = r
        BY <1>b, <3>1, <3>3, <4>1, SMTT(30)
      <4> QED
        BY <4>2
    <3> QED
      BY <1>a, <3>2, <3>3
  <2> QED
    <3> DEFINE Ordered(d) == \A i \in 1..Len(out'[d]) : \A r \in rows :
                               r.seq < out'[d][i].seq =>
                                 r \in seen'[d] \cup missed[d] \cup {out'[d][j] : j \in 1..i-1}
    <3>1. Ordered(c)
      BY <1>a, <2>1
    <3>2. \A d \in Client : d # c /\ ~gone[d] => Ordered(d)
      BY <1>0, <1>a DEF OutInOrder
    <3>3. (\A d \in Client : ~gone[d] => Ordered(d)) => OutInOrder'
      BY <1>a DEF OutInOrder
    <3> HIDE DEF Ordered
    <3> QED
      BY <3>1, <3>2, <3>3
<1>7. TodoInOrder'
  BY <1>0, <1>a, <1>b DEF TodoInOrder
<1>8. Covered'
  BY <1>0, <1>a, <1>b DEF Covered, emitter
<1> QED
  BY <1>1, <1>2, <1>3, <1>4, <1>5, <1>6, <1>7, <1>8 DEF IInv

LEMMA DisconnectStep ==
  ASSUME IInv, TypeOK', NEW c \in Client, Disconnect(c)
  PROVE  IInv'
<1>0. /\ TypeOK /\ Numbering /\ FromRows /\ Phases /\ SeenClosed
      /\ CursorClosed /\ OutInOrder /\ TodoInOrder /\ Covered
  BY DEF IInv
<1>1. Numbering'
  BY <1>0 DEF Disconnect, TypeOK, Numbering, FromRows, Phases, emitter
<1>2. FromRows'
  BY <1>0, EmptyFacts DEF FromRows, Disconnect, TypeOK
<1>3. Phases'
  BY <1>0 DEF Disconnect, TypeOK, Numbering, FromRows, Phases, emitter
<1>4. SeenClosed'
  BY <1>0 DEF Disconnect, TypeOK, Numbering, FromRows, Phases, SeenClosed, emitter
<1>5. CursorClosed'
  BY <1>0 DEF Disconnect, TypeOK, Numbering, FromRows, Phases, CursorClosed, emitter
<1>6. OutInOrder'
  BY <1>0 DEF Disconnect, TypeOK, Numbering, FromRows, Phases, OutInOrder, emitter
<1>7. TodoInOrder'
  BY <1>0 DEF Disconnect, TypeOK, Numbering, FromRows, Phases, TodoInOrder, emitter
<1>8. Covered'
  BY <1>0 DEF Disconnect, TypeOK, Numbering, FromRows, Phases, Covered, emitter
<1> QED
  BY <1>1, <1>2, <1>3, <1>4, <1>5, <1>6, <1>7, <1>8 DEF IInv

LEMMA CleanupStep ==
  ASSUME IInv, TypeOK', NEW c \in Client, Cleanup(c)
  PROVE  IInv'
<1>0. /\ TypeOK /\ Numbering /\ FromRows /\ Phases /\ SeenClosed
      /\ CursorClosed /\ OutInOrder /\ TodoInOrder /\ Covered
  BY DEF IInv
<1>1. Numbering'
  BY <1>0 DEF Cleanup, TypeOK, Numbering, FromRows, Phases, emitter
<1>2. FromRows'
  BY <1>0 DEF Cleanup, TypeOK, Numbering, FromRows, Phases, emitter
<1>3. Phases'
  BY <1>0 DEF Cleanup, TypeOK, Numbering, FromRows, Phases, emitter
<1>4. SeenClosed'
  BY <1>0 DEF Cleanup, TypeOK, Numbering, FromRows, Phases, SeenClosed, emitter
<1>5. CursorClosed'
  BY <1>0 DEF Cleanup, TypeOK, Numbering, FromRows, Phases, CursorClosed, emitter
<1>6. OutInOrder'
  BY <1>0 DEF Cleanup, TypeOK, Numbering, FromRows, Phases, OutInOrder, emitter
<1>7. TodoInOrder'
  BY <1>0 DEF Cleanup, TypeOK, Numbering, FromRows, Phases, TodoInOrder, emitter
<1>8. Covered'
  BY <1>0 DEF Cleanup, TypeOK, Numbering, FromRows, Phases, Covered, emitter
<1> QED
  BY <1>1, <1>2, <1>3, <1>4, <1>5, <1>6, <1>7, <1>8 DEF IInv

LEMMA RestartStep ==
  ASSUME IInv, TypeOK', Restart
  PROVE  IInv'
<1>0. /\ TypeOK /\ Numbering /\ FromRows /\ Phases /\ SeenClosed
      /\ CursorClosed /\ OutInOrder /\ TodoInOrder /\ Covered
  BY DEF IInv
<1>1. Numbering'
  <2>1. /\ MaxSeq(rows) \in Nat
        /\ \A f \in rows : f.seq <= MaxSeq(rows)
        /\ MaxSeq(rows) = 0 \/ \E f \in rows : f.seq = MaxSeq(rows)
    <3>1. rows \subseteq Frame
      BY <1>0 DEF TypeOK
    <3>2. 0..MaxEvent \subseteq Nat
      BY FirehoseAssumption
    <3> QED
      BY <3>1, <3>2, MaxSeqFacts
  <2>2. MaxSeq(rows) <= called
    BY <1>0, <2>1, FirehoseAssumption DEF TypeOK, Numbering
  <2> QED
    BY <1>0, <2>1, <2>2 DEF Restart, Numbering
<1>2. FromRows'
  BY <1>0, EmptyFacts DEF FromRows, Restart, TypeOK
<1>3. Phases'
  BY <1>0 DEF Restart, TypeOK, Numbering, FromRows, Phases
<1>4. SeenClosed'
  BY <1>0 DEF Restart, TypeOK, Numbering, FromRows, Phases, SeenClosed
<1>5. CursorClosed'
  BY <1>0 DEF Restart, TypeOK, Numbering, FromRows, Phases, CursorClosed
<1>6. OutInOrder'
  BY <1>0 DEF Restart, TypeOK, Numbering, FromRows, Phases, OutInOrder
<1>7. TodoInOrder'
  BY <1>0 DEF Restart, TypeOK, Numbering, FromRows, Phases, TodoInOrder
<1>8. Covered'
  BY <1>0 DEF Restart, TypeOK, Numbering, FromRows, Phases, Covered
<1> QED
  BY <1>1, <1>2, <1>3, <1>4, <1>5, <1>6, <1>7, <1>8 DEF IInv

-----------------------------------------------------------------------------
(***************************************************************************)
(* The theorems.                                                           *)
(***************************************************************************)
LEMMA InitIInv == Init => IInv
<1> SUFFICES ASSUME Init PROVE IInv
  OBVIOUS
<1>1. TypeOK
  BY EmptyFacts, FirehoseAssumption DEF Init, TypeOK
<1> QED
  BY <1>1, EmptyFacts DEF Init, IInv, Numbering, FromRows, Phases, SeenClosed,
     CursorClosed, OutInOrder, TodoInOrder, Covered

LEMMA NextIInv == IInv /\ [Next]_vars => IInv'
<1> SUFFICES ASSUME IInv, [Next]_vars PROVE IInv'
  OBVIOUS
<1>1. TypeOK'
  BY TypeStep
<1>2. CASE UNCHANGED vars
  BY <1>2 DEF vars, emitter, channels, IInv, TypeOK, Numbering, FromRows, Phases, SeenClosed,
     CursorClosed, OutInOrder, TodoInOrder, Covered
<1>3. CASE BeginPublish \/ InsertOk \/ InsertFails \/ Broadcast \/ Restart
  BY <1>1, <1>3, BeginPublishStep, InsertOkStep, InsertFailsStep, BroadcastStep, RestartStep
<1>4. ASSUME NEW c \in Client, Goroutine(c) PROVE IInv'
  BY <1>1, <1>4, QueryStep, ReplayFailsStep, ReplayRowStep, ReplayDoneStep, ForwardStep,
     GoroutineExitStep DEF Goroutine
<1>5. ASSUME NEW c \in Client, Connect(c) \/ Receive(c) \/ Disconnect(c) \/ Cleanup(c)
      PROVE  IInv'
  BY <1>1, <1>5, ConnectStep, ReceiveStep, DisconnectStep, CleanupStep
<1> QED
  BY <1>2, <1>3, <1>4, <1>5 DEF Next

\* What a subscriber has yet to be sent is in its out channel, its replay,
\* its live channel or the frame that is being broadcast, in this order:
\* the hand-over from replay to live channel loses nothing.
THEOREM Invariance == Spec => []IInv
<1> QED
  BY InitIInv, NextIInv, PTL DEF Spec

\* The variables keep their types.
THEOREM TypeCorrect == Spec => []TypeOK
<1>1. IInv => TypeOK
  BY DEF IInv
<1> QED
  BY <1>1, Invariance, PTL

\* No frame leaves the emitter before its row is stored.
THEOREM Stored == Spec => []SentIsStored
<1>1. IInv => SentIsStored
  BY DEF IInv, FromRows, SentIsStored
<1> QED
  BY <1>1, Invariance, PTL

LEMMA InitStream == Init => Stream!Init
BY DEF Init, Stream!Init

\* One step of the firehose is a step of the event stream or a stutter.
LEMMA NextStream == IInv /\ [Next]_vars => [Stream!Next]_(Stream!vars)
<1> SUFFICES ASSUME IInv, [Next]_vars PROVE [Stream!Next]_(Stream!vars)
  OBVIOUS
<1>0. TypeOK /\ Numbering /\ FromRows /\ Phases
  BY DEF IInv
<1>1. CASE InsertOk
  <2>1. Stream!Append
    BY <1>0, <1>1 DEF InsertOk, Numbering, Stream!Append
  <2> QED
    BY <2>1 DEF Stream!Next
<1>2. ASSUME UNCHANGED rows, UNCHANGED seen, missed' \in [Client -> SUBSET rows],
             \A c \in Client : missed[c] \subseteq missed'[c]
      PROVE  Stream!Next
  BY <1>2 DEF Stream!Next, Stream!Lose
<1>3. CASE Broadcast
  <2>1. missed' \in [Client -> SUBSET rows] /\ \A c \in Client : missed[c] \subseteq missed'[c]
    BY <1>0, <1>3 DEF Broadcast, TypeOK, Numbering, FromRows
  <2> QED
    BY <1>2, <1>3, <2>1 DEF Broadcast
<1>4. ASSUME NEW c \in Client, ReplayFails(c) PROVE Stream!Next
  <2>1. missed' \in [Client -> SUBSET rows] /\ \A d \in Client : missed[d] \subseteq missed'[d]
    BY <1>0, <1>4 DEF ReplayFails, TypeOK, FromRows, After
  <2> QED
    BY <1>2, <1>4, <2>1 DEF ReplayFails
<1>5. ASSUME NEW c \in Client, Connect(c) PROVE Stream!Next
  <2> DEFINE m == MaxSeq(seen[c])
  <2>1. seen[c] \subseteq Frame /\ missed[c] \subseteq Frame
    BY <1>0 DEF TypeOK
  <2>2. /\ m \in 0..MaxEvent
        /\ \A f \in seen[c] : f.seq <= m
        /\ seen[c] # {} => \E f \in seen[c] : f.seq = m
        /\ seen[c] = {} => m = 0
    BY <2>1, MaxSeqFacts
  <2>3. ASSUME NEW f \in missed[c]
        PROVE  ~ (f.seq > m) <=> \E h \in seen[c] : f.seq <= h.seq
    <3> HIDE DEF m
    <3>1. m \in Nat /\ f.seq \in Nat /\ 1 <= f.seq /\ \A h \in seen[c] : h.seq \in Nat
      BY <2>1, <2>2, FrameSeq, FirehoseAssumption
    <3> QED
      BY <2>2, <3>1
  <2>4. missed[c] \ After(missed[c], m) = {f \in missed[c] : \E h \in seen[c] : f.seq <= h.seq}
    BY <2>3 DEF After
  <2>5. Stream!Resume(c)
    BY <1>0, <1>5, <2>4 DEF Connect, TypeOK, Stream!Resume
  <2> QED
    BY <2>5 DEF Stream!Next
<1>6. ASSUME NEW c \in Client, Receive(c) PROVE [Stream!Next]_(Stream!vars)
  <2> DEFINE x == Head(out[c])
  <2>1. /\ Len(out[c]) \in Nat \ {0} /\ x = out[c][1] /\ x \in rows
        /\ ~gone[c] /\ UNCHANGED <<rows, missed>>
        /\ seen' = [seen EXCEPT ![c] = @ \cup {x}]
    BY <1>0, <1>6, HeadTailFacts DEF Receive, TypeOK, FromRows
  <2> HIDE DEF x
  <2>2. ASSUME NEW r \in rows, r.seq < x.seq PROVE r \in seen[c] \cup missed[c]
    <3>1. r \in seen[c] \cup missed[c] \cup {out[c][j] : j \in 1..1-1}
      BY <2>1, <2>2 DEF IInv, OutInOrder
    <3> QED
      BY <3>1
  <2>3. CASE x \in seen[c]
    BY <1>0, <2>1, <2>3 DEF TypeOK, Stream!vars
  <2>4. CASE x \notin seen[c]
    <3>1. Stream!Deliver(c)
      BY <2>1, <2>2, <2>4 DEF Stream!Deliver
    <3> QED
      BY <3>1 DEF Stream!Next
  <2> QED
    BY <2>3, <2>4
<1>7. ASSUME UNCHANGED <<rows, seen, missed>> PROVE [Stream!Next]_(Stream!vars)
  BY <1>7 DEF Stream!vars
<1>8. CASE BeginPublish \/ InsertFails \/ Restart \/ UNCHANGED vars
  BY <1>7, <1>8 DEF BeginPublish, InsertFails, Restart, vars
<1>9. ASSUME NEW c \in Client,
             Query(c) \/ ReplayRow(c) \/ ReplayDone(c) \/ Forward(c) \/ GoroutineExit(c)
               \/ Disconnect(c) \/ Cleanup(c)
      PROVE  UNCHANGED <<rows, seen, missed>>
  BY <1>9 DEF Query, ReplayRow, ReplayDone, Forward, GoroutineExit, Disconnect, Cleanup
<1> QED
  BY <1>1, <1>3, <1>4, <1>5, <1>6, <1>7, <1>8, <1>9 DEF Next, Goroutine

\* The firehose, for any number of clients and any capacities, implements
\* the event stream: a client that resumes from the last number it was sent
\* is handed an event only when every earlier one was handed or lost to it.
THEOREM Implements == Spec => ImplementsStream
<1> QED
  BY InitStream, NextStream, Invariance, PTL DEF Spec, ImplementsStream, Stream!Spec

-----------------------------------------------------------------------------
(***************************************************************************)
(* Where a connection goes over from the replay to the live frames.        *)
(***************************************************************************)
LEMMA ConcatFacts ==
  ASSUME NEW q \in Seq(Frame), NEW s \in Seq(Frame)
  PROVE  /\ q \o s \in Seq(Frame)
         /\ Len(q \o s) = Len(q) + Len(s)
         /\ \A i \in 1..Len(q) : (q \o s)[i] = q[i]
         /\ \A i \in 1..Len(s) : (q \o s)[Len(q) + i] = s[i]
OBVIOUS

\* A frame that joins the out channel joins what is sent, at its end.
LEMMA SentGrows ==
  ASSUME NEW q \in Seq(Frame), NEW s \in Seq(Frame), NEW x \in Frame
  PROVE  q \o Append(s, x) = Append(q \o s, x)
OBVIOUS

\* A frame that goes from the out channel to the client stays where it is.
LEMMA SentStays ==
  ASSUME NEW q \in Seq(Frame), NEW s \in Seq(Frame), s # <<>>
  PROVE  Append(q, Head(s)) \o Tail(s) = q \o s
OBVIOUS

LEMMA SentFacts ==
  ASSUME TypeOK, NEW c \in Client
  PROVE  /\ Sent(c) \in Seq(Frame)
         /\ Len(Sent(c)) \in Nat
         /\ \A i \in 1..Len(Sent(c)) : Sent(c)[i] \in Frame
         /\ got[c] = <<>> /\ out[c] = <<>> => Sent(c) = <<>>
<1>1. got[c] \in Seq(Frame) /\ out[c] \in Seq(Frame)
  BY DEF TypeOK
<1>2. Sent(c) \in Seq(Frame)
  BY <1>1, ConcatFacts DEF Sent
<1>3. <<>> \o <<>> = <<>>
  OBVIOUS
<1>4. got[c] = <<>> /\ out[c] = <<>> => Sent(c) = <<>>
  BY <1>3 DEF Sent
<1> QED
  BY <1>2, <1>4, RangeFacts

\* Rows and cursors are numbers that can be compared.
LEMMA Numbers ==
  ASSUME TypeOK
  PROVE  /\ \A f \in Frame : f.seq \in Nat
         /\ \A c \in Client : /\ cursor[c] \in Nat
                              /\ todo[c] \subseteq Frame
                              /\ Range(live[c]) \subseteq Frame
         /\ rows \subseteq Frame
<1>1. \A c \in Client : live[c] \in Seq(Frame) /\ cursor[c] \in 0..MaxEvent
  BY DEF TypeOK
<1>2. \A c \in Client : Range(live[c]) \subseteq Frame /\ cursor[c] \in Nat
  BY <1>1, RangeFacts, FirehoseAssumption
<1>3. \A c \in Client : todo[c] \subseteq Frame
  BY DEF TypeOK
<1> QED
  BY <1>2, <1>3, FrameSeq DEF TypeOK

-----------------------------------------------------------------------------
\* A step that leaves the connection of c, the rows and a frame that is being
\* broadcast alone.
LEMMA Untouched ==
  ASSUME NEW c \in Client, HandsOver(c), rows' = rows,
         g'[c] = g[c], gone'[c] = gone[c], got'[c] = got[c], out'[c] = out[c],
         todo'[c] = todo[c], live'[c] = live[c], cursor'[c] = cursor[c],
         mu' = "send" => mu = "send" /\ pend' = pend
  PROVE  HandsOver(c)'
<1>1. Sent(c)' = Sent(c)
  BY DEF Sent
<1>2. \A p : GoesOverAt(c, p) => GoesOverAt(c, p)'
  BY <1>1 DEF GoesOverAt, After
<1> QED
  BY <1>1, <1>2 DEF HandsOver

\* A connection that has broken has nothing to hand over.
LEMMA Broken ==
  ASSUME NEW c \in Client, got'[c] = <<>>, g'[c] = "off" \/ gone'[c]
  PROVE  HandsOver(c)'
BY DEF HandsOver

\* The new row is above every row, so above every frame that was sent.
LEMMA InsertOkHands ==
  ASSUME RInv, InsertOk, TypeOK', NEW c \in Client
  PROVE  HandsOver(c)'
<1>1. /\ TypeOK /\ Numbering /\ Phases /\ HandsOver(c)
      /\ rows' = rows \cup {pend} /\ mu = "insert" /\ mu' = "send"
      /\ UNCHANGED <<pend, g, gone, cursor, todo, live, out, got>>
      /\ ~ConnBusy
  BY DEF RInv, IInv, InsertOk, channels
<1>2. /\ Sent(c)' = Sent(c) /\ todo[c] = {}
      /\ pend \in Frame /\ \A f \in rows : f.seq < pend.seq
  BY <1>1 DEF Sent, ConnBusy, Phases, Numbering
<1>3. cursor[c] < pend.seq
  <2>1. cursor[c] = 0 \/ \E f \in rows : cursor[c] <= f.seq
    BY <1>1 DEF Phases
  <2>2. pend.seq \in Nat /\ 1 <= pend.seq
    BY <1>2, FrameSeq
  <2> QED
    BY <1>1, <1>2, <2>1, <2>2, Numbers
<1>4. ASSUME NEW p \in 0..Len(Sent(c)), GoesOverAt(c, p)
      PROVE  GoesOverAt(c, p)'
  <2> DEFINE s == Sent(c)
  <2>1. /\ Len(s) \in Nat /\ \A i \in 1..Len(s) : s[i] \in Frame /\ s[i] \in rows
    BY <1>1, <1>4, SentFacts DEF GoesOverAt
  <2>2. \A i \in 1..Len(s) : s[i].seq < pend.seq /\ ~(pend.seq <= s[i].seq)
    BY <1>1, <1>2, <2>1, Numbers
  <2>3. After(rows', cursor[c]) \subseteq After(rows, cursor[c]) \cup {pend}
    BY <1>1 DEF After
  <2>4. /\ g[c] \in {"start", "replay"} => p = Len(s)
        /\ \A i, j \in 1..p : i < j => s[i].seq < s[j].seq
        /\ \A i, j \in p+1..Len(s) : i < j => s[i].seq < s[j].seq
        /\ \A i \in 1..p : \A r \in After(rows, cursor[c]) :
             r.seq <= s[i].seq => \E j \in 1..p : s[j] = r
        /\ \A i \in p+1..Len(s) :
             /\ cursor[c] < s[i].seq
             /\ \A x \in Range(live[c]) : s[i].seq < x.seq
    BY <1>4 DEF GoesOverAt
  <2>5. p \in Nat /\ p <= Len(s)
    BY <2>1
  <2> HIDE DEF s
  <2>6. /\ \A i \in 1..Len(s) : s[i] \in rows'
        /\ \A i \in 1..p : \A r \in After(rows', cursor[c]) :
             r.seq <= s[i].seq => \E j \in 1..p : s[j] = r
        /\ \A i \in p+1..Len(s) : s[i].seq < pend.seq
    <3>1. \A i \in 1..p : i \in 1..Len(s)
      BY <2>1, <2>5
    <3>2. \A i \in p+1..Len(s) : i \in 1..Len(s)
      BY <2>1, <2>5
    <3> QED
      BY <1>1, <2>1, <2>2, <2>3, <2>4, <3>1, <3>2
  <2> QED
    BY <1>1, <1>2, <2>4, <2>6 DEF GoesOverAt, s
<1> QED
  BY <1>1, <1>2, <1>3, <1>4 DEF HandsOver

\* The frame joins the live channel above all that came live before it.
LEMMA BroadcastHands ==
  ASSUME RInv, Broadcast, TypeOK', NEW c \in Client
  PROVE  HandsOver(c)'
<1>1. /\ TypeOK /\ HandsOver(c) /\ mu = "send" /\ mu' = "free"
      /\ UNCHANGED <<rows, g, gone, cursor, todo, out, got>>
      /\ live'[c] = IF c \in subs /\ Len(live[c]) < LiveCap THEN Append(live[c], pend)
                    ELSE live[c]
      /\ pend \in Frame
  BY DEF RInv, IInv, Broadcast, TypeOK, Numbering
<1>2. Range(live[c])' \subseteq Range(live[c]) \cup {pend}
  <2>1. live[c] \in Seq(Frame)
    BY <1>1 DEF TypeOK
  <2> QED
    BY <1>1, <2>1, AppendFacts
<1>3. Sent(c)' = Sent(c)
  BY <1>1 DEF Sent
<1>4. ASSUME NEW p \in 0..Len(Sent(c)), GoesOverAt(c, p)
      PROVE  GoesOverAt(c, p)'
  BY <1>1, <1>2, <1>3, <1>4 DEF GoesOverAt
<1> QED
  BY <1>1, <1>2, <1>3, <1>4 DEF HandsOver

\* A new connection has been sent nothing.
LEMMA ConnectHands ==
  ASSUME RInv, NEW c \in Client, Connect(c), TypeOK', NEW d \in Client
  PROVE  HandsOver(d)'
<1>1. /\ TypeOK /\ Phases /\ HandsOver(c) /\ HandsOver(d)
      /\ g[c] = "off" /\ c \notin subs /\ mu = "free"
      /\ UNCHANGED <<rows, mu, pend, todo, live, out, got>>
      /\ g' = [g EXCEPT ![c] = "start"]
      /\ gone' = [gone EXCEPT ![c] = FALSE]
      /\ cursor' = [cursor EXCEPT ![c] = MaxSeq(seen[c])]
  BY DEF RInv, IInv, Connect, emitter, channels
<1>2. CASE d # c
  <2>1. g'[d] = g[d] /\ gone'[d] = gone[d] /\ cursor'[d] = cursor[d]
    BY <1>1, <1>2 DEF TypeOK
  <2> QED
    BY <1>1, <2>1, Untouched
<1>3. CASE d = c
  <2>1. /\ got'[c] = <<>> /\ out'[c] = <<>> /\ live'[c] = <<>> /\ todo'[c] = {}
        /\ g'[c] = "start"
    BY <1>1 DEF HandsOver, Phases, TypeOK
  <2>2. Sent(c)' = <<>> /\ Len(Sent(c)') = 0 /\ Range(live[c])' = {}
    BY <2>1, EmptyFacts DEF Sent
  <2>3. GoesOverAt(c, 0)'
    BY <2>1, <2>2 DEF GoesOverAt
  <2>4. 0 \in 0..Len(Sent(c)')
    BY <2>2
  <2> QED
    BY <1>1, <1>3, <2>1, <2>2, <2>3, <2>4 DEF HandsOver
<1> QED
  BY <1>2, <1>3

\* The replay starts with every row past the cursor.
LEMMA QueryHands ==
  ASSUME RInv, NEW c \in Client, Query(c), TypeOK', NEW d \in Client
  PROVE  HandsOver(d)'
<1>1. /\ TypeOK /\ Phases /\ HandsOver(c) /\ HandsOver(d)
      /\ g[c] = "start" /\ ~gone[c]
      /\ UNCHANGED <<rows, mu, pend, gone, cursor, live, out, got>>
      /\ todo' = [todo EXCEPT ![c] = After(rows, cursor[c])]
      /\ g' = [g EXCEPT ![c] = "replay"]
  BY DEF RInv, IInv, Query, emitter
<1>2. CASE d # c
  <2>1. g'[d] = g[d] /\ todo'[d] = todo[d]
    BY <1>1, <1>2 DEF TypeOK
  <2> QED
    BY <1>1, <2>1, Untouched
<1>3. CASE d = c
  <2>1. /\ got'[c] = <<>> /\ out'[c] = <<>> /\ todo'[c] = After(rows, cursor[c])
        /\ g'[c] = "replay"
    BY <1>1 DEF HandsOver, Phases, TypeOK
  <2>2. Sent(c)' = <<>> /\ Len(Sent(c)') = 0
    BY <2>1, EmptyFacts DEF Sent
  <2>3. GoesOverAt(c, 0)'
    BY <1>1, <2>1, <2>2 DEF GoesOverAt
  <2>4. 0 \in 0..Len(Sent(c)')
    BY <2>2
  <2> QED
    BY <1>1, <1>3, <2>1, <2>2, <2>3, <2>4 DEF HandsOver
<1> QED
  BY <1>2, <1>3

\* The replay ends, with its last row or at an error: what was sent is all
\* there is of it.
LEMMA ReplayEndsHands ==
  ASSUME RInv, NEW c \in Client, ReplayFails(c) \/ ReplayDone(c), TypeOK', NEW d \in Client
  PROVE  HandsOver(d)'
<1>1. /\ TypeOK /\ HandsOver(c) /\ HandsOver(d)
      /\ g[c] \in {"start", "replay"} /\ ~gone[c]
      /\ UNCHANGED <<rows, mu, pend, gone, cursor, live, out, got>>
      /\ g' = [g EXCEPT ![c] = "live"]
      /\ todo'[c] = {}
      /\ \A e \in Client \ {c} : todo'[e] = todo[e]
  BY DEF RInv, IInv, TypeOK, ReplayFails, ReplayDone, emitter, channels
<1>2. CASE d # c
  <2>1. g'[d] = g[d] /\ todo'[d] = todo[d]
    BY <1>1, <1>2 DEF TypeOK
  <2> QED
    BY <1>1, <2>1, Untouched
<1>3. CASE d = c
  <2>1. Sent(c)' = Sent(c) /\ g'[c] = "live"
    BY <1>1 DEF Sent, TypeOK
  <2>2. ASSUME NEW p \in 0..Len(Sent(c)), GoesOverAt(c, p)
        PROVE  GoesOverAt(c, p)'
    BY <1>1, <2>1, <2>2 DEF GoesOverAt
  <2> QED
    BY <1>1, <1>3, <2>1, <2>2 DEF HandsOver
<1> QED
  BY <1>2, <1>3

\* The next row of the replay is above those before it, and no row lies
\* between.
LEMMA ReplayRowHands ==
  ASSUME RInv, NEW c \in Client, ReplayRow(c), TypeOK', NEW d \in Client
  PROVE  HandsOver(d)'
<1>1. PICK f \in todo[c] :
        /\ TypeOK /\ Numbering /\ FromRows /\ HandsOver(c) /\ HandsOver(d)
        /\ g[c] = "replay" /\ ~gone[c]
        /\ UNCHANGED <<rows, mu, pend, g, gone, cursor, live, got>>
        /\ \A h \in todo[c] : f.seq <= h.seq
        /\ todo' = [todo EXCEPT ![c] = @ \ {f}]
        /\ out' = [out EXCEPT ![c] = Append(@, f)]
  BY DEF RInv, IInv, ReplayRow, emitter
<1>2. CASE d # c
  <2>1. out'[d] = out[d] /\ todo'[d] = todo[d]
    BY <1>1, <1>2 DEF TypeOK
  <2> QED
    BY <1>1, <2>1, Untouched
<1>3. CASE d = c
  <2> DEFINE s == Sent(c)
             n == Len(s)
             t == Append(s, f)
  <2>1. s \in Seq(Frame) /\ n \in Nat /\ f \in Frame /\ f \in rows
    BY <1>1, SentFacts DEF TypeOK, FromRows
  <2>2. Sent(c)' = t /\ todo'[c] = todo[c] \ {f}
    <3>1. got[c] \in Seq(Frame) /\ out[c] \in Seq(Frame)
      BY <1>1 DEF TypeOK
    <3>2. out'[c] = Append(out[c], f) /\ got'[c] = got[c] /\ todo'[c] = todo[c] \ {f}
      BY <1>1 DEF TypeOK
    <3>3. got[c] \o Append(out[c], f) = Append(got[c] \o out[c], f)
      <4>1. f \in Frame
        BY <2>1
      <4> QED
        BY <3>1, <4>1, SentGrows
    <3> QED
      BY <3>2, <3>3 DEF Sent
  <2>3. /\ Len(t) = n + 1 /\ t[n + 1] = f /\ \A i \in 1..n : t[i] = s[i]
    BY <2>1, AppendFacts
  <2>4. GoesOverAt(c, n)
    BY <1>1 DEF HandsOver, GoesOverAt
  <2>5. /\ \A i \in 1..n : s[i] \in rows /\ s[i] \in Frame
        /\ \A i, j \in 1..n : i < j => s[i].seq < s[j].seq
        /\ \A i \in 1..n : \A r \in After(rows, cursor[c]) :
             r.seq <= s[i].seq => \E j \in 1..n : s[j] = r
        /\ \A h \in todo[c] :
             /\ \A i \in 1..n : s[i].seq < h.seq
             /\ \A r \in After(rows, cursor[c]) :
                  r.seq <= h.seq => r \in todo[c] \/ \E j \in 1..n : s[j] = r
    BY <2>1, <2>4, <1>1, SentFacts DEF GoesOverAt
  <2>6. \A h \in todo[c] : h \in rows /\ (h.seq <= f.seq => h = f) /\ (h # f => f.seq < h.seq)
    <3>1. todo[c] \subseteq rows
      BY <1>1 DEF FromRows
    <3>2. \A h \in rows : h.seq \in Nat
      BY <1>1, Numbers
    <3> QED
      BY <1>1, <2>1, <3>1, <3>2 DEF Numbering
  <2> HIDE DEF s, t, n
  <2>7. \A i \in 1..n+1 : i \in 1..n \/ i = n + 1
    BY <2>1
  <2>8. 1..n \subseteq 1..n+1 /\ n + 1 \in 1..n+1 /\ n+1 \in 0..n+1
    BY <2>1
  <2>9. \A i \in 1..n+1 : t[i] \in rows
    BY <2>1, <2>3, <2>5, <2>7
  <2>10. \A i, j \in 1..n+1 : i < j => t[i].seq < t[j].seq
    BY <2>1, <2>3, <2>5, <2>7
  <2>11. \A r : (\E j \in 1..n : s[j] = r) => \E j \in 1..n+1 : t[j] = r
    BY <2>3, <2>8
  <2>12. \A i \in 1..n+1 : \A r \in After(rows, cursor[c]) :
           r.seq <= t[i].seq => \E j \in 1..n+1 : t[j] = r
    BY <2>3, <2>5, <2>6, <2>7, <2>8, <2>11
  <2>13. \A h \in todo[c] \ {f} :
           /\ \A i \in 1..n+1 : t[i].seq < h.seq
           /\ \A r \in After(rows, cursor[c]) :
                r.seq <= h.seq => r \in todo[c] \ {f} \/ \E j \in 1..n+1 : t[j] = r
    BY <2>3, <2>5, <2>6, <2>7, <2>8, <2>11
  <2>14. \A i \in (n+1)+1..n+1 : FALSE
    BY <2>1
  <2> PICK p \in Nat : p = n + 1
    BY <2>1
  <2>15. /\ Len(t) = p /\ p \in 0..p
         /\ \A i \in 1..p : t[i] \in rows
         /\ \A i, j \in 1..p : i < j => t[i].seq < t[j].seq
         /\ \A i \in 1..p : \A r \in After(rows, cursor[c]) :
              r.seq <= t[i].seq => \E j \in 1..p : t[j] = r
         /\ \A h \in todo[c] \ {f} :
              /\ \A i \in 1..p : t[i].seq < h.seq
              /\ \A r \in After(rows, cursor[c]) :
                   r.seq <= h.seq => r \in todo[c] \ {f} \/ \E j \in 1..p : t[j] = r
         /\ \A i \in p+1..p : FALSE
    BY <2>3, <2>8, <2>9, <2>10, <2>12, <2>13, <2>14
  <2>16. GoesOverAt(c, p)'
    BY <1>1, <2>2, <2>15 DEF GoesOverAt
  <2> QED
    BY <1>1, <1>3, <2>2, <2>15, <2>16 DEF HandsOver
<1> QED
  BY <1>2, <1>3

\* A live frame follows the live frames before it.
LEMMA ForwardHands ==
  ASSUME RInv, NEW c \in Client, Forward(c), TypeOK', NEW d \in Client
  PROVE  HandsOver(d)'
<1>1. /\ TypeOK /\ Numbering /\ FromRows /\ Phases /\ HandsOver(c) /\ HandsOver(d)
      /\ g[c] = "live" /\ ~gone[c] /\ live[c] # <<>>
      /\ UNCHANGED <<rows, mu, pend, g, gone, cursor, todo, got>>
      /\ out' = [out EXCEPT ![c] = Append(@, Head(live[c]))]
      /\ live' = [live EXCEPT ![c] = Tail(@)]
  BY DEF RInv, IInv, Forward, emitter
<1>2. CASE d # c
  <2>1. out'[d] = out[d] /\ live'[d] = live[d]
    BY <1>1, <1>2 DEF TypeOK
  <2> QED
    BY <1>1, <2>1, Untouched
<1>3. CASE d = c
  <2> DEFINE s == Sent(c)
             n == Len(s)
             f == Head(live[c])
             t == Append(s, f)
  <2>1. live[c] \in Seq(Frame) /\ out[c] \in Seq(Frame) /\ got[c] \in Seq(Frame)
    BY <1>1 DEF TypeOK
  <2>2. /\ s \in Seq(Frame) /\ n \in Nat /\ f \in Frame
        /\ Range(live[c]) = Range(Tail(live[c])) \cup {f}
    BY <1>1, <2>1, SentFacts, HeadTailFacts
  <2>3. f \in rows
    BY <1>1, <2>2 DEF FromRows
  <2>4. Sent(c)' = t /\ live'[c] = Tail(live[c]) /\ Range(live[c])' = Range(Tail(live[c]))
    <3>1. out'[c] = Append(out[c], f) /\ got'[c] = got[c] /\ live'[c] = Tail(live[c])
      BY <1>1 DEF TypeOK
    <3> QED
      <4>1. got[c] \o Append(out[c], f) = Append(got[c] \o out[c], f)
        <5>1. f \in Frame
          BY <2>2
        <5> HIDE DEF f
        <5> QED
          BY <2>1, <5>1, SentGrows
      <4> QED
        BY <3>1, <4>1 DEF Sent
  <2>5. /\ Len(t) = n + 1 /\ t[n + 1] = f /\ \A i \in 1..n : t[i] = s[i]
    BY <2>2, AppendFacts
  <2>6. \A x \in Range(Tail(live[c])) : f.seq < x.seq
    <3>1. /\ Tail(live[c]) \in Seq(Frame) /\ f = live[c][1] /\ Len(live[c]) \in Nat \ {0}
          /\ Len(Tail(live[c])) = Len(live[c]) - 1
          /\ \A i \in 1..Len(live[c])-1 : Tail(live[c])[i] = live[c][i+1]
      BY <1>1, <2>1, HeadTailFacts
    <3> SUFFICES ASSUME NEW x \in Range(Tail(live[c])) PROVE f.seq < x.seq
      OBVIOUS
    <3>2. PICK i \in 1..Len(live[c])-1 : x = live[c][i+1]
      <4>1. PICK i \in 1..Len(Tail(live[c])) : Tail(live[c])[i] = x
        BY <3>1, RangeFacts
      <4> QED
        BY <3>1, <4>1
    <3>3. 1 \in 1..Len(live[c]) /\ i+1 \in 1..Len(live[c]) /\ 1 < i+1
      BY <3>1
    <3>4. live[c][1].seq < live[c][i+1].seq
      BY <1>1, <3>3 DEF Phases
    <3> QED
      BY <3>1, <3>2, <3>4
  <2>7. mu = "send" => f.seq < pend.seq
    <3> SUFFICES ASSUME mu = "send" PROVE f.seq < pend.seq
      OBVIOUS
    <3>1. /\ f.seq <= pend.seq /\ pend \in rows /\ f # pend
          /\ f.seq = pend.seq => f = pend
      BY <1>1, <2>2, <2>3 DEF Numbering
    <3>2. f.seq \in Nat /\ pend.seq \in Nat
      BY <1>1, <2>3, <3>1, Numbers
    <3> QED
      BY <3>1, <3>2
  <2>8. /\ \A x \in Range(live[c]) : cursor[c] < x.seq
        /\ mu = "send" => cursor[c] < pend.seq
    BY <1>1 DEF HandsOver
  <2>9. PICK p \in 0..n : GoesOverAt(c, p)
    BY <1>1 DEF HandsOver
  <2>10. /\ \A i \in 1..n : s[i] \in rows
         /\ \A i, j \in 1..p : i < j => s[i].seq < s[j].seq
         /\ \A i, j \in p+1..n : i < j => s[i].seq < s[j].seq
         /\ \A i \in 1..p : \A r \in After(rows, cursor[c]) :
              r.seq <= s[i].seq => \E j \in 1..p : s[j] = r
         /\ \A h \in todo[c] :
              /\ \A i \in 1..p : s[i].seq < h.seq
              /\ \A r \in After(rows, cursor[c]) :
                   r.seq <= h.seq => r \in todo[c] \/ \E j \in 1..p : s[j] = r
         /\ \A i \in p+1..n :
              /\ cursor[c] < s[i].seq
              /\ \A x \in Range(live[c]) : s[i].seq < x.seq
              /\ mu = "send" => s[i].seq < pend.seq
    BY <2>9 DEF GoesOverAt
  <2> HIDE DEF s, t, n, f
  <2>11. /\ p \in Nat /\ p <= n /\ p \in 0..n+1
         /\ \A i \in 1..p : i \in 1..n /\ t[i] = s[i]
         /\ \A i \in p+1..n+1 : i = n + 1 \/ (i \in p+1..n /\ i \in 1..n /\ t[i] = s[i])
         /\ \A i \in 1..n+1 : i = n + 1 \/ i \in 1..n
    BY <2>2, <2>5
  <2>12. \A i \in 1..n+1 : t[i] \in rows
    BY <2>3, <2>5, <2>10, <2>11
  <2>13. \A i, j \in 1..p : i < j => t[i].seq < t[j].seq
    BY <2>10, <2>11
  <2>14. \A i, j \in p+1..n+1 : i < j => t[i].seq < t[j].seq
    <3>1. f \in Range(live[c])
      BY <2>2
    <3> TAKE i, j \in p+1..n+1
    <3> HAVE i < j
    <3>2. i # n + 1
      BY <2>2, <2>11
    <3> QED
      BY <2>5, <2>10, <2>11, <3>1, <3>2
  <2>15. \A r : (\E j \in 1..p : s[j] = r) => \E j \in 1..p : t[j] = r
    BY <2>11
  <2>16. \A i \in 1..p : \A r \in After(rows, cursor[c]) :
           r.seq <= t[i].seq => \E j \in 1..p : t[j] = r
    BY <2>10, <2>11, <2>15
  <2>17. \A h \in todo[c] :
           /\ \A i \in 1..p : t[i].seq < h.seq
           /\ \A r \in After(rows, cursor[c]) :
                r.seq <= h.seq => r \in todo[c] \/ \E j \in 1..p : t[j] = r
    BY <2>10, <2>11, <2>15
  <2>18. \A i \in p+1..n+1 :
           /\ cursor[c] < t[i].seq
           /\ \A x \in Range(Tail(live[c])) : t[i].seq < x.seq
           /\ mu = "send" => t[i].seq < pend.seq
    BY <2>2, <2>5, <2>6, <2>7, <2>8, <2>10, <2>11
  <2>19. GoesOverAt(c, p)'
    BY <1>1, <2>4, <2>5, <2>12, <2>13, <2>14, <2>16, <2>17, <2>18 DEF GoesOverAt
  <2>20. \A x \in Range(live[c])' : cursor[c] < x.seq
    BY <2>2, <2>4, <2>8
  <2> QED
    BY <1>1, <1>3, <2>4, <2>5, <2>8, <2>11, <2>19, <2>20 DEF HandsOver
<1> QED
  BY <1>2, <1>3

\* What the client takes from the out channel was already counted as sent.
LEMMA ReceiveHands ==
  ASSUME RInv, NEW c \in Client, Receive(c), TypeOK', NEW d \in Client
  PROVE  HandsOver(d)'
<1>1. /\ TypeOK /\ Phases /\ HandsOver(c) /\ HandsOver(d)
      /\ ~gone[c] /\ out[c] # <<>>
      /\ UNCHANGED <<rows, mu, pend, g, gone, cursor, todo, live>>
      /\ got' = [got EXCEPT ![c] = Append(@, Head(out[c]))]
      /\ out' = [out EXCEPT ![c] = Tail(@)]
  BY DEF RInv, IInv, Receive, emitter
<1>2. CASE d # c
  <2>1. out'[d] = out[d] /\ got'[d] = got[d]
    BY <1>1, <1>2 DEF TypeOK
  <2> QED
    BY <1>1, <2>1, Untouched
<1>3. CASE d = c
  <2>1. Sent(c)' = Sent(c)
    <3>1. got[c] \in Seq(Frame) /\ out[c] \in Seq(Frame)
      BY <1>1 DEF TypeOK
    <3>2. got'[c] = Append(got[c], Head(out[c])) /\ out'[c] = Tail(out[c])
      BY <1>1 DEF TypeOK
    <3>3. Append(got[c], Head(out[c])) \o Tail(out[c]) = got[c] \o out[c]
      BY <1>1, <3>1, SentStays
    <3> QED
      BY <3>2, <3>3 DEF Sent
  <2>2. g[c] \notin {"off", "start"}
    BY <1>1 DEF Phases
  <2>3. \A p : GoesOverAt(c, p) => GoesOverAt(c, p)'
    BY <1>1, <2>1 DEF GoesOverAt, After
  <2> QED
    BY <1>1, <1>3, <2>1, <2>2, <2>3 DEF HandsOver
<1> QED
  BY <1>2, <1>3

\* The client's connection breaks, its goroutine ends, its handler cleans up.
LEMMA LeaveHands ==
  ASSUME RInv, NEW c \in Client, Disconnect(c) \/ GoroutineExit(c) \/ Cleanup(c),
         NEW d \in Client
  PROVE  HandsOver(d)'
<1>1. /\ TypeOK /\ HandsOver(c) /\ HandsOver(d)
      /\ UNCHANGED <<rows, mu, pend, cursor>>
      /\ gone'[c] = TRUE /\ got'[c] = <<>>
  BY DEF RInv, IInv, TypeOK, HandsOver, Disconnect, GoroutineExit, Cleanup, emitter
<1>2. CASE d # c
  <2>1. /\ g'[d] = g[d] /\ gone'[d] = gone[d] /\ todo'[d] = todo[d] /\ live'[d] = live[d]
        /\ out'[d] = out[d] /\ got'[d] = got[d] /\ cursor'[d] = cursor[d]
    BY <1>1, <1>2 DEF TypeOK, Disconnect, GoroutineExit, Cleanup
  <2> QED
    BY <1>1, <2>1, Untouched
<1>3. CASE d = c
  BY <1>1, <1>3, Broken
<1> QED
  BY <1>2, <1>3

LEMMA InitRInv == Init => RInv
<1> SUFFICES ASSUME Init PROVE RInv
  OBVIOUS
<1>1. IInv
  BY InitIInv
<1>2. \A c \in Client : g[c] = "off" /\ got[c] = <<>>
  BY DEF Init
<1> QED
  BY <1>1, <1>2 DEF RInv, HandsOver

LEMMA NextRInv == RInv /\ [Next]_vars => RInv'
<1> SUFFICES ASSUME RInv, [Next]_vars PROVE RInv'
  OBVIOUS
<1>1. IInv' /\ TypeOK'
  BY NextIInv DEF RInv, IInv
<1>2. ASSUME NEW d \in Client PROVE HandsOver(d)'
  <2>1. HandsOver(d)
    BY DEF RInv
  <2>2. CASE BeginPublish \/ InsertFails \/ UNCHANGED vars
    BY <2>1, <2>2, Untouched DEF BeginPublish, InsertFails, vars, emitter, channels
  <2>3. CASE InsertOk \/ Broadcast
    BY <1>1, <2>3, InsertOkHands, BroadcastHands
  <2>4. ASSUME NEW c \in Client,
               Connect(c) \/ Goroutine(c) \/ Receive(c) \/ Disconnect(c) \/ Cleanup(c)
        PROVE  HandsOver(d)'
    BY <1>1, <2>4, ConnectHands, QueryHands, ReplayEndsHands, ReplayRowHands, ForwardHands,
       ReceiveHands, LeaveHands DEF Goroutine
  <2>5. CASE Restart
    BY <2>5, Broken DEF Restart
  <2> QED
    BY <2>2, <2>3, <2>4, <2>5 DEF Next
<1> QED
  BY <1>1, <1>2 DEF RInv

\* The invariant with the place where each connection goes over.
THEOREM HandoverInvariance == Spec => []RInv
BY InitRInv, NextRInv, PTL DEF Spec

\* Two parts that ascend meet at one place, and what goes back there has been
\* replayed.
LEMMA HandoverRewind == RInv => OneRewind
<1> SUFFICES ASSUME RInv, NEW c \in Client
             PROVE  LET back == {i \in 2..Len(got[c]) : got[c][i].seq <= got[c][i-1].seq}
                    IN /\ \A i, j \in back : i = j
                       /\ \A i \in back : \E j \in 1..i-1 : got[c][j] = got[c][i]
  BY DEF OneRewind
<1> DEFINE back == {i \in 2..Len(got[c]) : got[c][i].seq <= got[c][i-1].seq}
           s == Sent(c)
           n == Len(s)
           m == Len(got[c])
<1>1. /\ TypeOK /\ HandsOver(c) /\ FromRows
  BY DEF RInv, IInv
<1>2. /\ got[c] \in Seq(Frame) /\ out[c] \in Seq(Frame)
      /\ m \in Nat /\ n \in Nat /\ m <= n
      /\ \A i \in 1..m : s[i] = got[c][i]
      /\ \A i \in 1..n : s[i] \in Frame
  <2>1. got[c] \in Seq(Frame) /\ out[c] \in Seq(Frame)
    BY <1>1 DEF TypeOK
  <2>2. Len(got[c]) \in Nat /\ Len(out[c]) \in Nat
    BY <2>1, RangeFacts
  <2>3. n = m + Len(out[c]) /\ \A i \in 1..m : s[i] = got[c][i]
    <3>1. /\ Len(got[c] \o out[c]) = Len(got[c]) + Len(out[c])
          /\ \A i \in 1..Len(got[c]) : (got[c] \o out[c])[i] = got[c][i]
      BY <2>1, ConcatFacts
    <3> QED
      BY <3>1 DEF Sent
  <2>4. \A i \in 1..n : s[i] \in Frame
    BY <1>1, SentFacts
  <2>5. m \in Nat /\ n \in Nat /\ m <= n
    <3> DEFINE k == Len(out[c])
    <3>1. m \in Nat /\ k \in Nat /\ n = m + k
      BY <2>2, <2>3
    <3> HIDE DEF m, n, k
    <3> QED
      BY <3>1
  <2> QED
    BY <2>1, <2>3, <2>4, <2>5
<1>3. CASE got[c] = <<>>
  <2>1. back = {}
    BY <1>3
  <2> QED
    BY <2>1
<1>4. CASE got[c] # <<>>
  <2>1. PICK p \in 0..n : GoesOverAt(c, p)
    BY <1>1, <1>4 DEF HandsOver
  <2>2. /\ \A i \in 1..n : s[i] \in rows
        /\ \A i, j \in 1..p : i < j => s[i].seq < s[j].seq
        /\ \A i, j \in p+1..n : i < j => s[i].seq < s[j].seq
        /\ \A i \in 1..p : \A r \in After(rows, cursor[c]) :
             r.seq <= s[i].seq => \E j \in 1..p : s[j] = r
        /\ \A i \in p+1..n : cursor[c] < s[i].seq
    BY <2>1 DEF GoesOverAt
  <2> HIDE DEF s, n, m
  <2>3. \A i \in 1..n : s[i].seq \in Nat
    BY <1>1, <1>2, Numbers
  <2>4. ASSUME NEW i \in back PROVE i = p + 1 /\ \E j \in 1..i-1 : got[c][j] = got[c][i]
    <3>1. /\ i \in 2..m /\ got[c][i].seq <= got[c][i-1].seq
      BY DEF m
    <3>2. /\ i \in 1..n /\ i-1 \in 1..n /\ i \in 1..m /\ i-1 \in 1..m /\ i \in Nat
      BY <1>2, <3>1
    <3>3. s[i].seq <= s[i-1].seq /\ ~(s[i-1].seq < s[i].seq)
      BY <1>2, <2>3, <3>1, <3>2
    <3>4. i = p + 1
      <4>1. ~(i <= p)
        <5> SUFFICES ASSUME i <= p PROVE FALSE
          OBVIOUS
        <5>1. i-1 \in 1..p /\ i \in 1..p /\ i-1 < i
          BY <3>1, <3>2
        <5> QED
          BY <2>2, <3>3, <5>1
      <4>2. ~(i - 1 >= p + 1)
        <5> SUFFICES ASSUME i - 1 >= p + 1 PROVE FALSE
          OBVIOUS
        <5>1. i-1 \in p+1..n /\ i \in p+1..n /\ i-1 < i
          BY <3>1, <3>2, <1>2
        <5> QED
          BY <2>2, <3>3, <5>1
      <4> QED
        BY <3>2, <4>1, <4>2
    <3>5. p \in 1..p /\ i \in p+1..n /\ i - 1 = p
      BY <3>1, <3>2, <3>4, <1>2
    <3>6. s[i] \in After(rows, cursor[c])
      BY <2>2, <3>2, <3>5 DEF After
    <3>7. PICK j \in 1..p : s[j] = s[i]
      BY <2>2, <3>3, <3>5, <3>6
    <3>8. j \in 1..i-1 /\ j \in 1..m
      BY <3>1, <3>5, <1>2
    <3> QED
      BY <1>2, <3>2, <3>4, <3>7, <3>8
  <2> QED
    BY <2>4
<1> QED
  BY <1>3, <1>4

\* Whatever publishers, other subscribers, failing queries, broken connections
\* and restarts do, the stream of a connection goes back at most once, and
\* then to a frame it was already sent (firehose.go, Subscribe).
THEOREM RewindsOnce == Spec => []OneRewind
BY HandoverInvariance, HandoverRewind, PTL
=============================================================================
