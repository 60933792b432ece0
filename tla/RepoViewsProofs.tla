---------------------------- MODULE RepoViewsProofs ----------------------------
(***************************************************************************)
(* Proofs about Repo when no fault interrupts a write (Spec) and a write   *)
(* is one operation (MaxBatch = 1), as a create, a put and a delete are:   *)
(* for every set of paths and contents and every number of revisions, with *)
(* imports and unlocked readers in between.  With larger batches the       *)
(* properties are false (run repo_batch): the hypothesis is needed.        *)
(***************************************************************************)
EXTENDS RepoProofs

-----------------------------------------------------------------------------
(***************************************************************************)
(* Folds.  FoldLeft takes the elements of a sequence by the largest index  *)
(* of a set of indices.                                                    *)
(***************************************************************************)
\* The element of a singleton is its largest.
LEMMA MaxOfOne == ASSUME NEW n \in Nat PROVE Max({n}) = n
BY DEF Max

LEMMA AppliedNone == ASSUME NEW t PROVE Applied(t, <<>>) = t
<1> DEFINE f == [s \in SUBSET {} |-> t]
<1>1. Applied(t, <<>>) = (CHOOSE g : g = [s \in SUBSET {} |->
        IF s = {} THEN t
        ELSE [g[s \ {Max(s)}] EXCEPT ![<<>>[Max(s)].path] = <<>>[Max(s)].cid]])[{}]
  BY DEF Applied, FoldLeft, MapThenFoldSet
<1>2. \A g : (g = [s \in SUBSET {} |->
        IF s = {} THEN t
        ELSE [g[s \ {Max(s)}] EXCEPT ![<<>>[Max(s)].path] = <<>>[Max(s)].cid]]) => g[{}] = t
  OBVIOUS
<1>3. f = [s \in SUBSET {} |->
        IF s = {} THEN t
        ELSE [f[s \ {Max(s)}] EXCEPT ![<<>>[Max(s)].path] = <<>>[Max(s)].cid]]
  OBVIOUS
<1> QED
  BY <1>1, <1>2, <1>3

LEMMA AppliedOne ==
  ASSUME NEW t, NEW op
  PROVE  Applied(t, <<op>>) = [t EXCEPT ![op.path] = op.cid]
<1> DEFINE u == [t EXCEPT ![op.path] = op.cid]
           G(g, s) == IF s = {} THEN t
                      ELSE [g[s \ {Max(s)}] EXCEPT ![<<op>>[Max(s)].path] = <<op>>[Max(s)].cid]
           f == [s \in SUBSET {1} |-> IF s = {} THEN t ELSE u]
<1>1. Applied(t, <<op>>) = (CHOOSE g : g = [s \in SUBSET {1} |-> G(g, s)])[{1}]
  <2>1. DOMAIN <<op>> = {1}
    OBVIOUS
  <2> QED
    BY <2>1 DEF Applied, FoldLeft, MapThenFoldSet
<1>2. {} \in SUBSET {1} /\ {1} \in SUBSET {1} /\ \A s \in SUBSET {1} : s = {} \/ s = {1}
  OBVIOUS
<1>3. /\ \A g : G(g, {}) = t
      /\ \A g : G(g, {1}) = [g[{}] EXCEPT ![op.path] = op.cid]
  <2>1. Max({1}) = 1 /\ {1} \ {1} = {} /\ <<op>>[1] = op /\ {1} # {}
    BY MaxOfOne
  <2> QED
    BY <2>1
<1>4. f[{}] = t /\ f[{1}] = u
  BY <1>2
<1> HIDE DEF G
<1>5. ASSUME NEW g, g = [s \in SUBSET {1} |-> G(g, s)] PROVE g[{1}] = u
  <2>1. g[{}] = G(g, {}) /\ g[{1}] = G(g, {1})
    BY <1>2, <1>5
  <2> QED
    BY <1>3, <2>1
<1>6. f = [s \in SUBSET {1} |-> G(f, s)]
  <2>1. G(f, {}) = t /\ G(f, {1}) = u
    BY <1>3, <1>4
  <2>2. \A s \in SUBSET {1} : (IF s = {} THEN t ELSE u) = G(f, s)
    BY <1>2, <2>1
  <2> QED
    BY <2>2
<1> HIDE DEF f, u
<1>7. \E g : g = [s \in SUBSET {1} |-> G(g, s)]
  BY <1>6
<1>8. (CHOOSE g : g = [s \in SUBSET {1} |-> G(g, s)])
        = [a \in SUBSET {1} |-> G(CHOOSE g : g = [s \in SUBSET {1} |-> G(g, s)], a)]
  BY <1>7, Zenon
<1> QED
  BY <1>1, <1>5, <1>8 DEF u

\* Every set of numbers that is not empty has a least one.
LEMMA LeastNumber ==
  ASSUME NEW T \in SUBSET Nat, T # {}
  PROVE  \E n \in T : \A m \in T : n <= m
<1> DEFINE R == OpToRel(<, Nat)
<1>1. IsWellFoundedOn(R, Nat)
  BY NatLessThanWellFounded
<1>2. \A x, y \in Nat : y < x => <<y, x>> \in R
  BY DEF OpToRel
<1> HIDE DEF R
<1>3. PICK n \in T : \A y \in T : ~ (<<y, n>> \in R)
  <2>1. T \subseteq Nat
    OBVIOUS
  <2> QED
    BY <2>1, <1>1, WFMin, Zenon
<1>4. \A m \in T : n <= m
  <2> TAKE m \in T
  <2>1. m \in Nat /\ n \in Nat
    OBVIOUS
  <2>2. ~(m < n)
    BY <1>2, <1>3, <2>1
  <2> QED
    BY <2>1, <2>2
<1> QED
  BY <1>4

LEMMA MaxFacts ==
  ASSUME NEW n \in Nat, NEW S \in SUBSET (1..n), S # {}
  PROVE  Max(S) \in S /\ \A i \in S : i <= Max(S)
<1> DEFINE T == {n - i : i \in S}
<1>1. T \in SUBSET Nat /\ T # {}
  <2>1. \A i \in S : n - i \in Nat
    OBVIOUS
  <2> QED
    BY <2>1
<1>2. PICK d \in T : \A e \in T : d <= e
  <2> HIDE DEF T
  <2> QED
    BY <1>1, LeastNumber
<1>3. PICK m \in S : d = n - m
  BY <1>2
<1>4. ASSUME NEW i \in S PROVE m >= i
  <2>1. n - i \in T
    OBVIOUS
  <2>2. n - m <= n - i
    BY <1>2, <1>3, <2>1
  <2> QED
    BY <2>2
<1>5. Max(S) \in S /\ \A i \in S : Max(S) >= i
  BY <1>4 DEF Max
<1> QED
  BY <1>5

\* A relay's copy has the revision and the tree of the last event, whether it
\* has applied the operations of an event or taken the repository afresh.
LEMMA CopyIsLast ==
  ASSUME TypeOK, EventsLinked
  PROVE  Copy = IF events = <<>> THEN [rev |-> 0, tree |-> Empty]
                ELSE [rev |-> events[Len(events)].rev, tree |-> events[Len(events)].data]
<1> DEFINE n == Len(events)
           Empty0 == [rev |-> 0, tree |-> Empty]
           Of(i) == [rev |-> events[i].rev, tree |-> events[i].data]
           Step(c, e) == [rev |-> e.rev,
                          tree |-> IF e.since = c.rev THEN Applied(c.tree, e.ops) ELSE e.data]
           G(g, s) == IF s = {} THEN Empty0 ELSE Step(g[s \ {Max(s)}], events[Max(s)])
           F(s) == IF s = {} THEN Empty0 ELSE Of(Max(s))
           f == [s \in SUBSET (1..n) |-> F(s)]
<1>1. events \in Seq(Event) /\ n \in Nat /\ DOMAIN events = 1..n
      /\ (events = <<>> <=> n = 0) /\ \A i \in 1..n : events[i] \in Event
  BY DEF TypeOK
<1>2. Copy = (CHOOSE g : g = [s \in SUBSET (1..n) |-> G(g, s)])[1..n]
  <2>1. Copy = (CHOOSE g : g = [s \in SUBSET DOMAIN events |-> G(g, s)])[DOMAIN events]
    BY DEF Copy, FoldLeft, MapThenFoldSet
  <2> QED
    BY <1>1, <2>1
\* One event after a copy that has the tree announced for its revision.
<1>3. ASSUME NEW i \in 1..n, NEW c, c.rev = events[i].since => c.tree = events[i].prevData
      PROVE  Step(c, events[i]) = Of(i)
  <2> DEFINE e == events[i]
  <2>1. Leads(e.prevData, e.ops, e.data)
    BY <1>1 DEF EventsLinked
  <2>2. Applied(e.prevData, e.ops) = e.data
    <3>1. CASE e.ops = <<>> /\ e.data = e.prevData
      BY <3>1, AppliedNone
    <3>2. CASE \E op \in EventOp :
                 e.ops = <<op>> /\ e.data = [e.prevData EXCEPT ![op.path] = op.cid]
      BY <3>2, AppliedOne
    <3> HIDE DEF e
    <3> QED
      BY <2>1, <3>1, <3>2 DEF Leads
  <2> QED
    BY <1>3, <2>2
<1>4. ASSUME NEW s \in SUBSET (1..n), s # {}
      PROVE  /\ Max(s) \in 1..n /\ s \ {Max(s)} \in SUBSET (1..n)
             /\ s \ {Max(s)} \in SUBSET (1..(Max(s) - 1))
             /\ Step(F(s \ {Max(s)}), events[Max(s)]) = F(s)
  <2> DEFINE m == Max(s)
             k == Max(s \ {m})
  <2>1. m \in s /\ m \in 1..n /\ \A i \in s : i <= m
    BY <1>1, <1>4, MaxFacts
  <2>2. s \ {m} \in SUBSET (1..n)
    OBVIOUS
  <2>3. s \ {m} \in SUBSET (1..(m - 1))
    <3> HIDE DEF m
    <3> QED
      BY <1>1, <2>1
  <2>4. F(s) = Of(m)
    BY <1>4
  <2>5. CASE s \ {m} = {}
    <3>1. F(s \ {m}) = Empty0
      BY <2>5
    <3>2. Empty0.rev = events[m].since => Empty0.tree = events[m].prevData
      <4>1. events[m].since = 0 => events[m].prevData = Empty
        <5> HIDE DEF m
        <5> QED
          BY <1>1, <2>1 DEF EventsLinked
      <4> QED
        BY <4>1
    <3> HIDE DEF m, F, Step, Of, Empty0
    <3>3. Step(Empty0, events[m]) = Of(m)
      BY <1>3, <2>1, <3>2
    <3> QED
      BY <2>1, <2>2, <2>3, <2>4, <3>1, <3>3 DEF m
  <2>6. CASE s \ {m} # {}
    <3>1. k \in s \ {m}
      <4> HIDE DEF m
      <4> QED
        BY <1>1, <2>2, <2>6, MaxFacts
    <3>2. F(s \ {m}) = Of(k)
      BY <2>6
    <3>3. Of(k).rev = events[m].since => Of(k).tree = events[m].prevData
      <4> HIDE DEF m, k
      <4>1. k \in 1..n /\ k < m
        BY <1>1, <2>1, <3>1
      <4>2. events[m].since = events[k].rev => events[m].prevData = events[k].data
        BY <1>1, <2>1, <4>1 DEF EventsLinked
      <4> QED
        BY <4>2
    <3> HIDE DEF m, k, F, Step, Of
    <3>4. Step(Of(k), events[m]) = Of(m)
      BY <1>3, <2>1, <3>3
    <3> QED
      BY <2>1, <2>2, <2>3, <2>4, <3>2, <3>4 DEF m
  <2> HIDE DEF m, F, Step
  <2> QED
    BY <2>1, <2>2, <2>3, <2>5, <2>6 DEF m
\* The closed form satisfies the equation of the fold ...
<1>5. f = [s \in SUBSET (1..n) |-> G(f, s)]
  <2>1. ASSUME NEW s \in SUBSET (1..n) PROVE F(s) = G(f, s)
    <3>1. CASE s = {}
      BY <3>1
    <3>2. CASE s # {}
      <4>1. s \ {Max(s)} \in SUBSET (1..n) /\ Step(F(s \ {Max(s)}), events[Max(s)]) = F(s)
        BY <1>4, <3>2
      <4>2. f[s \ {Max(s)}] = F(s \ {Max(s)})
        <5> HIDE DEF F
        <5> QED
          BY <4>1
      <4>3. G(f, s) = Step(f[s \ {Max(s)}], events[Max(s)])
        BY <3>2
      <4> HIDE DEF F, f, Step, G
      <4> QED
        BY <4>1, <4>2, <4>3
    <3> QED
      BY <3>1, <3>2
  <2> HIDE DEF F, G
  <2>2. f = [s \in SUBSET (1..n) |-> F(s)]
    OBVIOUS
  <2> HIDE DEF f
  <2> QED
    BY <2>1, <2>2
\* ... and is the only function that does: a least bound of a set on which
\* another one differs is contradicted by the set without its largest element.
<1>6. ASSUME NEW g, g = [s \in SUBSET (1..n) |-> G(g, s)] PROVE \A s \in SUBSET (1..n) : g[s] = F(s)
  <2> DEFINE T == {k \in Nat : \E s \in SUBSET (1..n) : s \in SUBSET (1..k) /\ g[s] # F(s)}
  <2>0. \A s \in SUBSET (1..n) : g[s] = G(g, s)
    <3> HIDE DEF G
    <3> QED
      BY <1>6
  <2>1. ASSUME T # {} PROVE FALSE
    <3>1. PICK k \in T : \A m \in T : k <= m
      <4>1. T \in SUBSET Nat
        OBVIOUS
      <4> HIDE DEF T
      <4> QED
        BY <2>1, <4>1, LeastNumber
    <3>2. PICK s \in SUBSET (1..n) : s \in SUBSET (1..k) /\ g[s] # F(s)
      <4> HIDE DEF F
      <4> QED
        BY <3>1
    <3>3. s # {}
      <4>1. g[s] = G(g, s)
        BY <2>0
      <4> QED
        BY <3>2, <4>1
    <3> DEFINE m == Max(s)
    <3>4. m \in 1..n /\ m \in 1..k /\ k \in Nat
      <4>1. k \in Nat
        BY <3>1
      <4>2. m \in s
        BY <1>1, <3>3, MaxFacts
      <4> QED
        BY <3>2, <4>1, <4>2
    <3>5. s \ {m} \in SUBSET (1..n) /\ s \ {m} \in SUBSET (1..(m-1))
          /\ Step(F(s \ {m}), events[m]) = F(s)
      BY <1>4, <3>3
    <3>6. g[s \ {m}] = F(s \ {m})
      <4>1. m - 1 \in Nat /\ ~(k <= m - 1)
        <5> HIDE DEF m
        <5> QED
          BY <3>4
      <4>2. m - 1 \notin T
        <5> HIDE DEF T, m
        <5> QED
          BY <3>1, <4>1
      <4> HIDE DEF F, m
      <4> QED
        BY <3>5, <4>1, <4>2
    <3>7. g[s] = Step(g[s \ {m}], events[m])
      <4>1. g[s] = G(g, s)
        BY <2>0
      <4> QED
        BY <3>3, <4>1
    <3> HIDE DEF F, Step, m
    <3> QED
      BY <3>2, <3>5, <3>6, <3>7
  <2>2. n \in Nat /\ n \notin T
    BY <1>1, <2>1
  <2> HIDE DEF F
  <2> QED
    BY <2>2
<1>7. Copy = F(1..n)
  <2> HIDE DEF F, G, f
  <2>1. \E g : g = [s \in SUBSET (1..n) |-> G(g, s)]
    BY <1>5
  <2> DEFINE h == CHOOSE g : g = [s \in SUBSET (1..n) |-> G(g, s)]
  <2>2. h = [s \in SUBSET (1..n) |-> G(h, s)]
    BY <2>1, Zenon
  <2>3. h[1..n] = F(1..n)
    <3> HIDE DEF h
    <3> QED
      BY <1>6, <2>2
  <2> QED
    BY <1>2, <2>3
<1>8. CASE n = 0
  BY <1>1, <1>7, <1>8
<1>9. CASE n # 0
  <2>1. n \in 1..n
    BY <1>1, <1>9
  <2>2. Max(1..n) = n
    <3>1. Max(1..n) \in 1..n /\ \A i \in 1..n : i <= Max(1..n)
      BY <1>1, <2>1, MaxFacts
    <3> QED
      BY <1>1, <2>1, <3>1
  <2> QED
    BY <1>1, <1>7, <1>9, <2>1, <2>2
<1> QED
  BY <1>8, <1>9

-----------------------------------------------------------------------------
(***************************************************************************)
(* The head.                                                               *)
(***************************************************************************)
\* A largest revision is the head, before and after a step.
LEMMA HeadIs ==
  ASSUME NEW D, D \subseteq Int, NEW r \in D, \A q \in D : q <= r
  PROVE  (CHOOSE n \in D : \A q \in D : q <= n) = r
<1> DEFINE h == CHOOSE n \in D : \A q \in D : q <= n
<1>1. h \in D /\ \A q \in D : q <= h
  OBVIOUS
<1> HIDE DEF h
<1>2. h <= r /\ r <= h /\ h \in Int /\ r \in Int
  BY <1>1
<1> QED
  BY <1>2 DEF h

LEMMA HeadZero ==
  ASSUME TypeOK
  PROVE  /\ DOMAIN commits \subseteq Rev
         /\ HeadRev = 0 <=> DOMAIN commits = {}
         /\ HeadRev = 0 => HeadTree = Empty
         /\ HeadRev # 0 => HeadRev \in DOMAIN commits /\ HeadTree = commits[HeadRev]
         /\ \A r \in DOMAIN commits : r <= HeadRev
<1>1. DOMAIN commits \subseteq Rev
  BY PartialFacts DEF TypeOK
<1>2. CASE DOMAIN commits = {}
  BY <1>2 DEF HeadRev, HeadTree
<1>3. CASE DOMAIN commits # {}
  <2>1. HeadRev \in DOMAIN commits /\ HeadTree = commits[HeadRev]
        /\ \A r \in DOMAIN commits : r <= HeadRev
    BY <1>1, <1>3, HeadFacts
  <2>2. HeadRev # 0
    BY <1>1, <2>1 DEF Rev
  <2> QED
    BY <1>1, <1>3, <2>1, <2>2
<1> QED
  BY <1>1, <1>2, <1>3

\* A step that leaves the table of commits alone leaves the head alone.
LEMMA HeadStays ==
  ASSUME UNCHANGED commits
  PROVE  HeadRev' = HeadRev /\ HeadTree' = HeadTree
BY DEF HeadRev, HeadTree

\* What the types say of the locals of a write.
LEMMA LocalFacts ==
  ASSUME TypeOK, OneOperation
  PROVE  /\ w \in Locals
         /\ w.todo \in Seq(Op) /\ w.ups \in Seq(Path \X Cid) /\ w.dels \in Seq(Path)
         /\ w.rev \in Int /\ w.since \in Int /\ w.prevData \in Tree
         /\ w.todo # <<>> =>
              w.ups = <<>> /\ w.dels = <<>> /\ Head(w.todo) \in Op /\ Tail(w.todo) = <<>>
         /\ w.ups # <<>> =>
              w.todo = <<>> /\ w.dels = <<>> /\ Head(w.ups) = w.ups[1] /\ Tail(w.ups) = <<>>
              /\ w.ups[1] \in Path \X Cid
         /\ w.dels # <<>> =>
              w.todo = <<>> /\ w.ups = <<>> /\ Head(w.dels) = w.dels[1] /\ Tail(w.dels) = <<>>
              /\ w.dels[1] \in Path
<1>1. /\ w \in Locals
      /\ w.todo \in Seq(Op) /\ w.ups \in Seq(Path \X Cid) /\ w.dels \in Seq(Path)
      /\ w.rev \in Int /\ w.since \in Int /\ w.prevData \in Tree
  BY DEF TypeOK, Locals
<1>2. Len(w.todo) + Len(w.ups) + Len(w.dels) <= 1
  BY DEF OneOperation
<1>3. ASSUME NEW X, NEW s \in Seq(X)
      PROVE  /\ Len(s) \in Nat /\ (s = <<>> <=> Len(s) = 0)
             /\ s # <<>> /\ Len(s) <= 1 => Head(s) = s[1] /\ s[1] \in X /\ Tail(s) = <<>>
  OBVIOUS
<1> HIDE DEF Locals
<1>4. /\ Len(w.todo) \in Nat /\ Len(w.ups) \in Nat /\ Len(w.dels) \in Nat
      /\ w.todo = <<>> <=> Len(w.todo) = 0
      /\ w.ups = <<>> <=> Len(w.ups) = 0
      /\ w.dels = <<>> <=> Len(w.dels) = 0
  BY <1>1, <1>3
<1>5. /\ w.todo # <<>> => Len(w.todo) <= 1 /\ Len(w.ups) = 0 /\ Len(w.dels) = 0
      /\ w.ups # <<>> => Len(w.ups) <= 1 /\ Len(w.todo) = 0 /\ Len(w.dels) = 0
      /\ w.dels # <<>> => Len(w.dels) <= 1 /\ Len(w.todo) = 0 /\ Len(w.ups) = 0
  <2> DEFINE a == Len(w.todo)
             b == Len(w.ups)
             c == Len(w.dels)
  <2>1. a \in Nat /\ b \in Nat /\ c \in Nat /\ a + b + c <= 1
    BY <1>2, <1>4
  <2>2. (w.todo # <<>> => a # 0) /\ (w.ups # <<>> => b # 0) /\ (w.dels # <<>> => c # 0)
    BY <1>4
  <2> HIDE DEF a, b, c
  <2>3. /\ a # 0 => a <= 1 /\ b = 0 /\ c = 0
        /\ b # 0 => b <= 1 /\ a = 0 /\ c = 0
        /\ c # 0 => c <= 1 /\ a = 0 /\ b = 0
    BY <2>1
  <2> QED
    BY <2>2, <2>3 DEF a, b, c
<1> QED
  BY <1>1, <1>3, <1>4, <1>5

-----------------------------------------------------------------------------
(***************************************************************************)
(* The invariant, action by action.                                        *)
(***************************************************************************)
LEMMA InitSInv == Init => SInv
<1> SUFFICES ASSUME Init PROVE SInv
  OBVIOUS
<1>1. IInv /\ TypeOK
  BY InitIInv DEF IInv
<1>2. /\ DOMAIN commits = {} /\ events = <<>> /\ DOMAIN events = {} /\ index = Empty
      /\ HeadRev = 0 /\ HeadTree = Empty
      /\ w = Idle /\ pc = "idle" /\ reader.at = "none" /\ ~repo.open /\ ~repo.flushed
  BY DEF Init, Closed, NoReader, HeadRev, HeadTree
<1>3. Len(Idle.todo) = 0 /\ Len(Idle.ups) = 0 /\ Len(Idle.dels) = 0 /\ Idle.todo = <<>>
  BY DEF Idle
<1>4. OneOperation
  BY <1>2, <1>3 DEF OneOperation
<1>5. InStep /\ Follows /\ IndexFollows /\ Numbered /\ Recorded /\ ReaderServed
  BY <1>2 DEF InStep, Follows, IndexFollows, Numbered, Recorded, ReaderServed, Committing,
     BaseTree, Base
<1>6. EventsLinked /\ EventBlocks
  BY <1>2 DEF EventsLinked, EventBlocks
<1> QED
  BY <1>1, <1>4, <1>5, <1>6 DEF SInv

\* A write that begins, with one operation or none.
LEMMA BeginStep ==
  ASSUME SInv, IInv', NEW ops,
         pc = "idle", pc' \in {"ops", "sign"}, Len(ops) <= 1, Len(ops) \in Nat,
         pc' = "sign" => ops = <<>>,
         w'.todo = ops, w'.ups = <<>>, w'.dels = <<>>, w'.ops = <<>>, w'.cur = <<>>,
         repo' = Opened,
         UNCHANGED <<commits, blockRev, index, events, history, reader>>
  PROVE  SInv'
<1>0. /\ TypeOK /\ TypeOK' /\ OneOperation /\ InStep /\ Follows /\ IndexFollows /\ Numbered
      /\ ReaderServed /\ EventsLinked /\ EventBlocks
  BY DEF SInv, IInv
<1>1. HeadRev' = HeadRev /\ HeadTree' = HeadTree
  BY HeadStays
<1>2. Len(w'.ups) = 0 /\ Len(w'.dels) = 0
  OBVIOUS
<1>3. /\ Opened.rev = HeadRev /\ Opened.data = HeadTree /\ Opened.tree = HeadTree
      /\ Opened.flushed => DOMAIN commits # {}
  BY <1>0 DEF Opened, InStep, Committing
<1> HIDE DEF Opened
<1>4. OneOperation'
  <2> DEFINE a == Len(w'.todo)
             b == Len(w'.ups)
             c == Len(w'.dels)
  <2>1. a \in Nat /\ a <= 1 /\ b = 0 /\ c = 0
    BY <1>2
  <2> HIDE DEF a, b, c
  <2>2. a + b + c <= 1
    BY <2>1
  <2> QED
    BY <1>2, <2>2 DEF OneOperation, a, b, c
<1>5. InStep'
  BY <1>1, <1>2, <1>3 DEF InStep, Committing, Changed, Leads
<1>6. Follows' /\ IndexFollows'
  BY <1>0, <1>1 DEF Follows, IndexFollows, Committing, BaseTree
<1>7. Numbered'
  BY <1>0, <1>1 DEF Numbered, Base, BaseTree, Committing
<1>8. Recorded'
  BY <1>1, <1>3 DEF Recorded
<1>9. ReaderServed' /\ EventsLinked' /\ EventBlocks'
  BY <1>0 DEF ReaderServed, EventsLinked, EventBlocks
<1> QED
  BY <1>4, <1>5, <1>6, <1>7, <1>8, <1>9 DEF SInv

LEMMA RequestSStep ==
  ASSUME MaxBatch = 1, SInv, IInv', Request
  PROVE  SInv'
<1>1. PICK op : ApplyWrites(<<op>>)
  <2>1. HandleApplyWrites => \E op : ApplyWrites(<<op>>)
    <3> SUFFICES ASSUME HandleApplyWrites PROVE \E op : ApplyWrites(<<op>>)
      OBVIOUS
    <3>1. PICK n \in 1..1 : \E ops \in [1..n -> {op \in Op : op.swap = AnyCid}] : ApplyWrites(ops)
      BY DEF HandleApplyWrites
    <3>2. PICK ops \in [1..1 -> {op \in Op : op.swap = AnyCid}] : ApplyWrites(ops)
      BY <3>1
    <3>3. ops = <<ops[1]>>
      BY <3>2
    <3> QED
      BY <3>2, <3>3
  <2>2. HandleCreateRecord => \E op : ApplyWrites(<<op>>)
    BY DEF HandleCreateRecord
  <2>3. HandlePutRecord => \E op : ApplyWrites(<<op>>)
    BY DEF HandlePutRecord
  <2>4. HandleDeleteRecord => \E op : ApplyWrites(<<op>>)
    BY DEF HandleDeleteRecord
  <2> QED
    BY <2>1, <2>2, <2>3, <2>4 DEF Request
<1> DEFINE ops == <<op>>
<1>2. Len(ops) = 1
  OBVIOUS
<1>3. ApplyWrites(ops)
  BY <1>1
<1> HIDE DEF ops
<1>4. /\ pc = "idle" /\ pc' = "ops" /\ Len(ops) <= 1 /\ Len(ops) \in Nat /\ repo' = Opened
      /\ UNCHANGED <<commits, blockRev, index, events, history, reader>>
  BY <1>2, <1>3 DEF ApplyWrites, tables, ghosts
<1>5. w'.todo = ops /\ w'.ups = <<>> /\ w'.dels = <<>> /\ w'.ops = <<>> /\ w'.cur = <<>>
  BY <1>3 DEF ApplyWrites, Idle
<1> QED
  BY <1>4, <1>5, BeginStep

LEMMA CreateAccountSStep ==
  ASSUME SInv, IInv', CreateAccount
  PROVE  SInv'
<1> DEFINE ops == <<>>
<1>1. Len(ops) = 0
  OBVIOUS
<1>2. w'.todo = ops /\ w'.ups = <<>> /\ w'.dels = <<>> /\ w'.ops = <<>> /\ w'.cur = <<>>
  BY DEF CreateAccount, Idle
<1>3. /\ pc = "idle" /\ pc' = "sign" /\ repo' = Opened
      /\ UNCHANGED <<commits, blockRev, index, events, history, reader>>
  BY DEF CreateAccount, tables, ghosts
<1> HIDE DEF ops
<1> QED
  BY <1>1, <1>2, <1>3, BeginStep DEF ops

LEMMA ApplyOpSStep ==
  ASSUME SInv, IInv', ApplyOp
  PROVE  SInv'
<1>0. /\ TypeOK /\ TypeOK' /\ OneOperation /\ InStep /\ Follows /\ IndexFollows /\ Numbered
      /\ Recorded /\ ReaderServed /\ EventsLinked /\ EventBlocks
  BY DEF SInv, IInv
<1> DEFINE op == Head(w.todo)
           put == IF op.act = "delete" THEN {} ELSE {RecordBlock(op.cid)}
<1>1. /\ w.todo # <<>> /\ w.ups = <<>> /\ w.dels = <<>> /\ op \in Op /\ Tail(w.todo) = <<>>
      /\ w.ops = <<>> /\ w.cur = <<>> /\ pc = "ops" /\ w \in Locals
  BY <1>0, LocalFacts DEF ApplyOp, OneOperation
<1>2. op.path \in Path /\ op.cid \in Cid \cup {None} /\ (op.act = "delete" <=> op.cid = None)
      /\ op.act \in {"create", "update", "delete"}
  BY <1>1, RepoAssumption DEF Op
<1>a. /\ Legal(op) /\ pc' = "ops"
      /\ repo' = [repo EXCEPT !.tree[op.path] = op.cid, !.flushed = FALSE]
      /\ w' = [w EXCEPT
                 !.todo = Tail(@),
                 !.cur = Put(@, op.path, op.cid),
                 !.ups = IF op.act = "delete" THEN @ ELSE Append(@, <<op.path, op.cid>>),
                 !.dels = IF op.act = "delete" THEN Append(@, op.path) ELSE @,
                 !.ops = Append(@, Announced(op))]
      /\ recorded' = recorded \cup put
      /\ UNCHANGED <<commits, blockRev, index, events, history, reader>>
  BY DEF ApplyOp, tables, ghosts
<1>3. Current(op.path) = HeadTree[op.path]
  <2>1. DOMAIN w.cur = {}
    BY <1>1
  <2>2. index = HeadTree
    BY <1>0, <1>1 DEF IndexFollows, BaseTree, Committing
  <2> QED
    BY <2>1, <2>2 DEF Current
<1> HIDE DEF op
<1>b. /\ w'.todo = <<>> /\ w'.ops = <<Announced(op)>>
      /\ w'.ups = IF op.act = "delete" THEN <<>> ELSE <<<<op.path, op.cid>>>>
      /\ w'.dels = IF op.act = "delete" THEN <<op.path>> ELSE <<>>
  BY <1>1, <1>a DEF Locals
<1>4. HeadRev' = HeadRev /\ HeadTree' = HeadTree /\ HeadTree \in Tree
  BY <1>0, <1>a, HeadStays, HeadType
<1>5. /\ repo.tree = HeadTree /\ repo.data = HeadTree /\ repo.rev = HeadRev
  BY <1>0, <1>1, SMTT(30) DEF InStep, Changed, Committing, SInv, IInv, HandleAhead
<1>6. /\ repo'.tree = [HeadTree EXCEPT ![op.path] = op.cid] /\ repo'.data = repo.data
      /\ repo'.rev = repo.rev /\ ~repo'.flushed
  BY <1>0, <1>a, <1>5 DEF TypeOK
<1>7. OneOperation'
  <2> DEFINE a == Len(w'.todo)
             b == Len(w'.ups)
             c == Len(w'.dels)
  <2>1. a = 0 /\ ((b = 1 /\ c = 0) \/ (b = 0 /\ c = 1))
    BY <1>b
  <2> HIDE DEF a, b, c
  <2>2. a + b + c <= 1
    BY <2>1
  <2> QED
    BY <1>a, <1>b, <2>2 DEF OneOperation, a, b, c
<1>8. /\ Announced(op) \in EventOp /\ Announced(op).path = op.path /\ Announced(op).cid = op.cid
      /\ Announced(op).prev = HeadTree[op.path]
      /\ Announced(op).act = IF HeadTree[op.path] = None THEN "create"
                             ELSE IF op.cid = None THEN "delete" ELSE "update"
  <2>1. HeadTree[op.path] \in Cid \cup {None}
    BY <1>2, <1>4 DEF Tree
  <2> QED
    BY <1>2, <1>3, <1>a, <2>1 DEF Announced, EventOp, Legal
<1>9. InStep'
  <2>1. Changed(HeadTree)' = [HeadTree EXCEPT ![op.path] = op.cid]
    <3>1. CASE op.act = "delete"
      <4>1. w'.ups = <<>> /\ w'.dels # <<>> /\ w'.dels[1] = op.path
        BY <1>b, <3>1
      <4> QED
        BY <1>2, <1>4, <3>1, <4>1 DEF Changed
    <3>2. CASE op.act # "delete"
      <4>1. w'.ups # <<>> /\ w'.ups[1][1] = op.path /\ w'.ups[1][2] = op.cid
        BY <1>b, <3>2
      <4> QED
        BY <1>4, <4>1 DEF Changed
    <3> QED
      BY <3>1, <3>2
  <2>2. Leads(HeadTree, <<Announced(op)>>, [HeadTree EXCEPT ![op.path] = op.cid])
    BY <1>8 DEF Leads
  <2> QED
    BY <1>a, <1>b, <1>4, <1>5, <1>6, <2>1, <2>2 DEF InStep, Committing
<1>10. Follows' /\ IndexFollows'
  BY <1>0, <1>1, <1>a, <1>4 DEF Follows, IndexFollows, Committing, BaseTree
<1>11. Numbered'
  BY <1>0, <1>1, <1>a, <1>4 DEF Numbered, Base, BaseTree, Committing
<1>12. Recorded'
  <2> SUFFICES ASSUME NEW p \in Path, repo'.tree[p] # None
               PROVE  RecordBlock(repo'.tree[p]) \in recorded'
                      \/ \E q \in Path : HeadTree'[q] = repo'.tree[p]
    BY <1>a DEF Recorded
  <2>1. repo'.tree[p] = IF p = op.path THEN op.cid ELSE HeadTree[p]
    BY <1>2, <1>4, <1>6 DEF Tree
  <2> QED
    BY <1>2, <1>a, <1>4, <2>1
<1>13. ReaderServed' /\ EventsLinked' /\ EventBlocks'
  BY <1>0, <1>a DEF ReaderServed, EventsLinked, EventBlocks
<1> QED
  BY <1>7, <1>9, <1>10, <1>11, <1>12, <1>13 DEF SInv

LEMMA RefusedSStep ==
  ASSUME SInv, IInv', RejectOp \/ PutRefused
  PROVE  SInv'
<1>0. /\ TypeOK /\ TypeOK' /\ OneOperation /\ InStep /\ Follows /\ IndexFollows /\ Numbered
      /\ Recorded /\ ReaderServed /\ EventsLinked /\ EventBlocks
  BY DEF SInv, IInv
<1>a. /\ w.todo # <<>> /\ pc = "ops" /\ pc' = "idle" /\ w' = Idle
      /\ UNCHANGED <<commits, blockRev, index, events, repo, history, reader>>
  BY DEF RejectOp, PutRefused, tables, ghosts
<1>1. HeadRev' = HeadRev /\ HeadTree' = HeadTree
  BY <1>a, HeadStays
<1>2. repo.tree = HeadTree
  BY <1>0, <1>a, LocalFacts DEF InStep, Changed
<1>3. OneOperation'
  BY <1>a DEF OneOperation, Idle
<1>4. InStep'
  BY <1>0, <1>a, <1>1, <1>2 DEF InStep, Committing
<1>5. Follows' /\ IndexFollows'
  BY <1>0, <1>a, <1>1 DEF Follows, IndexFollows, Committing, BaseTree
<1>6. Numbered' /\ Recorded'
  BY <1>0, <1>a, <1>1 DEF Numbered, Base, BaseTree, Committing, Recorded
<1>7. ReaderServed' /\ EventsLinked' /\ EventBlocks'
  BY <1>0, <1>a DEF ReaderServed, EventsLinked, EventBlocks
<1> QED
  BY <1>3, <1>4, <1>5, <1>6, <1>7 DEF SInv

LEMMA OpsDoneSStep ==
  ASSUME SInv, IInv', OpsDone
  PROVE  SInv'
<1>0. /\ TypeOK /\ TypeOK' /\ OneOperation /\ InStep /\ Follows /\ IndexFollows /\ Numbered
      /\ Recorded /\ ReaderServed /\ EventsLinked /\ EventBlocks
  BY DEF SInv, IInv
<1>a. /\ w.todo = <<>> /\ pc = "ops" /\ pc' = "sign"
      /\ UNCHANGED <<commits, blockRev, index, events, repo, recorded, w, history, reader>>
  BY DEF OpsDone, tables, ghosts
<1>1. HeadRev' = HeadRev /\ HeadTree' = HeadTree
  BY <1>a, HeadStays
<1>2. OneOperation'
  BY <1>0, <1>a DEF OneOperation
<1>3. InStep'
  BY <1>0, <1>a, <1>1 DEF InStep, Committing, Changed
<1>4. Follows' /\ IndexFollows'
  BY <1>0, <1>a, <1>1 DEF Follows, IndexFollows, Committing, BaseTree
<1>5. Numbered' /\ Recorded'
  BY <1>0, <1>a, <1>1 DEF Numbered, Base, BaseTree, Committing, Recorded
<1>6. ReaderServed' /\ EventsLinked' /\ EventBlocks'
  BY <1>0, <1>a DEF ReaderServed, EventsLinked, EventBlocks
<1> QED
  BY <1>2, <1>3, <1>4, <1>5, <1>6 DEF SInv

\* The handle is signed: what the tree has and the head has not is recorded.
LEMMA SignSStep ==
  ASSUME SInv, IInv', Sign
  PROVE  SInv'
<1>0. /\ TypeOK /\ TypeOK' /\ OneOperation /\ InStep /\ Follows /\ IndexFollows /\ Numbered
      /\ Recorded /\ ReaderServed /\ EventsLinked /\ EventBlocks /\ HandleAhead
  BY DEF SInv, IInv
<1> DEFINE rev == clock + 1
           put == {CommitBlock(rev)} \cup (IF repo.flushed THEN {} ELSE {TreeBlock(repo.tree)})
<1>a. /\ pc = "sign" /\ pc' = "insert"
      /\ w'.rev = rev /\ w'.since = repo.rev /\ w'.prevData = repo.data
      /\ w'.todo = w.todo /\ w'.ups = w.ups /\ w'.dels = w.dels /\ w'.ops = w.ops
      /\ repo'.open = repo.open /\ repo'.flushed /\ repo'.rev = rev
      /\ repo'.data = repo.tree /\ repo'.tree = repo.tree
      /\ recorded' = recorded \cup put
      /\ UNCHANGED <<commits, blockRev, index, events, history, reader>>
  BY <1>0, LocalFacts DEF Sign, TypeOK, Locals, tables, ghosts
<1> HIDE DEF rev
<1>1. HeadRev' = HeadRev /\ HeadTree' = HeadTree
  BY <1>a, HeadStays
<1>2. repo.rev = HeadRev /\ repo.data = HeadTree
  BY <1>0, <1>a DEF InStep, HandleAhead, Committing
<1>3. /\ HeadRev = 0 => HeadTree = Empty
      /\ HeadRev # 0 => HeadRev \in DOMAIN commits
      /\ HeadRev = 0 <=> DOMAIN commits = {}
  BY <1>0, HeadZero
<1>4. OneOperation'
  BY <1>0, <1>a DEF OneOperation
<1>5. InStep'
  BY <1>0, <1>a, <1>1, <1>2 DEF InStep, Committing
<1>6. Follows'
  BY <1>a, <1>1, <1>2, <1>3 DEF Follows, Committing
<1>7. IndexFollows'
  BY <1>0, <1>a, <1>1, <1>2 DEF IndexFollows, InStep, Committing, BaseTree, Changed
<1>8. Numbered'
  BY <1>0, <1>a, <1>1, <1>2 DEF Numbered, Base, BaseTree, Committing
<1>9. Recorded'
  <2> SUFFICES ASSUME NEW b \in NewBlocks' PROVE b \in recorded'
    BY <1>a DEF Recorded
  <2>1. /\ b \in Blocks(rev, repo.tree)
        /\ HeadRev # 0 => b \notin Blocks(HeadRev, HeadTree)
    BY <1>a, <1>2 DEF NewBlocks
  <2>2. CASE b = CommitBlock(rev)
    BY <1>a, <2>2
  <2>3. CASE b = TreeBlock(repo.tree)
    <3>1. repo.flushed => HeadRev # 0 /\ repo.tree = HeadTree
      BY <1>0, <1>a, <1>2, <1>3 DEF InStep, Committing
    <3> QED
      BY <1>a, <2>1, <2>3, <3>1 DEF Blocks
  <2>4. ASSUME NEW p \in Path, repo.tree[p] # None, b = RecordBlock(repo.tree[p])
        PROVE  b \in recorded'
    <3>1. CASE b \in recorded
      BY <1>a, <3>1
    <3>2. ASSUME NEW q \in Path, HeadTree[q] = repo.tree[p] PROVE FALSE
      <4>1. HeadTree[q] # None
        BY <2>4, <3>2
      <4>2. HeadRev # 0
        BY <1>3, <4>1 DEF Empty
      <4> QED
        BY <2>1, <2>4, <3>2, <4>1, <4>2 DEF Blocks
    <3> QED
      BY <1>0, <1>a, <2>4, <3>1, <3>2 DEF Recorded
  <2> HIDE DEF put
  <2> QED
    BY <2>1, <2>2, <2>3, <2>4 DEF Blocks
<1>10. ReaderServed' /\ EventsLinked' /\ EventBlocks'
  BY <1>0, <1>a DEF ReaderServed, EventsLinked, EventBlocks
<1> QED
  BY <1>4, <1>5, <1>6, <1>7, <1>8, <1>9, <1>10 DEF SInv

LEMMA InsertCommitSStep ==
  ASSUME SInv, IInv', InsertCommit
  PROVE  SInv'
<1>0. /\ TypeOK /\ TypeOK' /\ OneOperation /\ InStep /\ Follows /\ IndexFollows /\ Numbered
      /\ Recorded /\ ReaderServed /\ EventsLinked /\ EventBlocks /\ HandleAhead /\ Revisions
  BY DEF SInv, IInv
<1>a. /\ pc = "insert" /\ pc' = "blocks"
      /\ w'.rev = w.rev /\ w'.since = w.since /\ w'.prevData = w.prevData
      /\ w'.todo = w.todo /\ w'.ups = w.ups /\ w'.dels = w.dels /\ w'.ops = w.ops
      /\ w'.blocks = recorded
      /\ UNCHANGED <<blockRev, index, events, repo, reader>>
  BY <1>0, LocalFacts DEF InsertCommit, Locals
<1>b. /\ DOMAIN commits' = DOMAIN commits \cup {w.rev} /\ commits'[w.rev] = repo.data
      /\ \A r \in DOMAIN commits : r # w.rev => commits'[r] = commits[r]
  <2>1. commits' = Put(commits, w.rev, repo.data)
    BY DEF InsertCommit
  <2> QED
    BY <2>1 DEF Put
<1>c. /\ DOMAIN history' = DOMAIN history \cup {w.rev}
      /\ \A r \in DOMAIN history : history'[r] = history[r]
  <2>1. history' = Put(history, w.rev, repo.data)
    BY DEF InsertCommit
  <2>2. w.rev \notin DOMAIN history
    BY <1>0, <1>a DEF Revisions
  <2> QED
    BY <2>1, <2>2 DEF Put
<1>d. /\ w.since < w.rev /\ w.since \in Int /\ w.rev \in Int
      /\ \A r \in DOMAIN commits : r \in Int /\ r <= w.since /\ r # w.rev
      /\ w.since = HeadRev /\ w.prevData = HeadTree
  <2>1. w.since < w.rev /\ w.since \in Int /\ w.rev \in Int
    BY <1>0, <1>a, LocalFacts DEF Revisions, Committing
  <2>2. w.since = HeadRev /\ w.prevData = HeadTree
    BY <1>0, <1>a DEF Follows
  <2>3. \A r \in DOMAIN commits : r \in Int /\ r <= HeadRev
    BY <1>0, HeadZero DEF Rev
  <2> QED
    BY <2>1, <2>2, <2>3
<1>1. HeadRev' = w.rev /\ HeadTree' = repo.data
  <2> DEFINE D == DOMAIN commits'
  <2>1. D \subseteq Int /\ w.rev \in D /\ \A r \in D : r <= w.rev
    BY <1>b, <1>d
  <2>2. HeadRev' = CHOOSE n \in D : \A q \in D : q <= n
    BY <2>1 DEF HeadRev
  <2> HIDE DEF D
  <2>3. HeadRev' = w.rev
    BY <2>1, <2>2, HeadIs
  <2> QED
    BY <1>b, <2>1, <2>3 DEF HeadTree, D
<1>2. OneOperation'
  BY <1>0, <1>a DEF OneOperation
<1>3. InStep'
  BY <1>0, <1>a DEF InStep, Committing
<1>4. Follows'
  BY <1>0, <1>a, <1>b, <1>1 DEF Follows, Committing
<1>5. IndexFollows'
  BY <1>0, <1>a DEF IndexFollows, Committing, BaseTree, Changed
<1>6. Numbered'
  <2>1. Base' = Base /\ BaseTree' = BaseTree /\ Base = w.since
    BY <1>a DEF Base, BaseTree, Committing
  <2> QED
    BY <1>0, <1>a, <1>b, <1>d, <2>1 DEF Numbered
<1>7. Recorded'
  <2>1. NewBlocks' = NewBlocks
    BY <1>a DEF NewBlocks
  <2> QED
    BY <1>0, <1>a, <2>1 DEF Recorded
<1>8. ReaderServed'
  BY <1>0, <1>a, <1>c DEF ReaderServed
<1>9. EventsLinked' /\ EventBlocks'
  BY <1>0, <1>a DEF EventsLinked, EventBlocks
<1> QED
  BY <1>2, <1>3, <1>4, <1>5, <1>6, <1>7, <1>8, <1>9 DEF SInv

LEMMA PersistBlockRevSStep ==
  ASSUME SInv, IInv', PersistBlockRev
  PROVE  SInv'
<1>0. /\ TypeOK /\ TypeOK' /\ OneOperation /\ InStep /\ Follows /\ IndexFollows /\ Numbered
      /\ Recorded /\ ReaderServed /\ EventsLinked /\ EventBlocks /\ Revisions
  BY DEF SInv, IInv
<1>1. PICK b \in w.blocks : blockRev' = Put(blockRev, b, w.rev) /\ w' = [w EXCEPT !.blocks = @ \ {b}]
  BY DEF PersistBlockRev
<1>a. /\ pc = "blocks" /\ pc' = "blocks"
      /\ w'.rev = w.rev /\ w'.since = w.since /\ w'.prevData = w.prevData
      /\ w'.todo = w.todo /\ w'.ups = w.ups /\ w'.dels = w.dels /\ w'.ops = w.ops
      /\ w'.blocks = w.blocks \ {b}
      /\ UNCHANGED <<commits, index, events, repo, recorded, history, reader>>
  BY <1>0, <1>1, LocalFacts DEF PersistBlockRev, Locals, ghosts
<1>b. /\ DOMAIN blockRev' = DOMAIN blockRev \cup {b} /\ blockRev'[b] = w.rev
      /\ \A c \in DOMAIN blockRev : c # b => blockRev'[c] = blockRev[c]
  BY <1>1 DEF Put
<1>2. HeadRev' = HeadRev /\ HeadTree' = HeadTree
  BY <1>a, HeadStays
<1>3. /\ w.since < w.rev /\ w.since \in Int /\ w.rev \in Int
      /\ \A r \in DOMAIN commits : r \in Int
  BY <1>0, <1>a, LocalFacts, HeadZero DEF Revisions, Committing, Rev
<1>4. OneOperation'
  BY <1>0, <1>a DEF OneOperation
<1>5. InStep'
  BY <1>0, <1>a DEF InStep, Committing
<1>6. Follows'
  BY <1>0, <1>a, <1>2 DEF Follows, Committing
<1>7. IndexFollows'
  BY <1>0, <1>a DEF IndexFollows, Committing, BaseTree, Changed
<1>8. Numbered'
  <2>1. Base' = Base /\ BaseTree' = BaseTree /\ Base = w.since
    BY <1>a DEF Base, BaseTree, Committing
  <2>2. ASSUME NEW r \in DOMAIN commits, r <= Base PROVE w.rev > r
    BY <1>3, <2>1, <2>2
  <2> QED
    BY <1>0, <1>a, <1>b, <2>1, <2>2 DEF Numbered
<1>9. Recorded'
  <2>1. NewBlocks' = NewBlocks
    BY <1>a DEF NewBlocks
  <2>2. Renumbered \cup {b} \subseteq Renumbered'
    BY <1>a, <1>b DEF Renumbered
  <2> QED
    BY <1>0, <1>a, <2>1, <2>2 DEF Recorded
<1>10. ReaderServed'
  BY <1>0, <1>a, <1>b DEF ReaderServed
<1>11. EventsLinked' /\ EventBlocks'
  BY <1>0, <1>a DEF EventsLinked, EventBlocks
<1> QED
  BY <1>4, <1>5, <1>6, <1>7, <1>8, <1>9, <1>10, <1>11 DEF SInv

LEMMA BlockRevsDoneSStep ==
  ASSUME SInv, IInv', BlockRevsDone
  PROVE  SInv'
<1>0. /\ TypeOK /\ TypeOK' /\ OneOperation /\ InStep /\ Follows /\ IndexFollows /\ Numbered
      /\ Recorded /\ ReaderServed /\ EventsLinked /\ EventBlocks
  BY DEF SInv, IInv
<1>a. /\ pc = "blocks" /\ pc' = "index" /\ w.blocks = {}
      /\ UNCHANGED <<commits, blockRev, index, events, repo, recorded, w, history, reader>>
  BY DEF BlockRevsDone, tables, ghosts
<1>1. HeadRev' = HeadRev /\ HeadTree' = HeadTree
  BY <1>a, HeadStays
<1>2. OneOperation'
  BY <1>0, <1>a DEF OneOperation
<1>3. InStep' /\ Follows'
  BY <1>0, <1>a, <1>1 DEF InStep, Follows, Committing
<1>4. IndexFollows'
  BY <1>0, <1>a DEF IndexFollows, Committing, BaseTree, Changed
<1>5. Numbered'
  BY <1>0, <1>a, <1>1 DEF Numbered, Base, BaseTree, Committing
<1>6. Recorded'
  BY <1>0, <1>a DEF Recorded, NewBlocks, Renumbered
<1>7. ReaderServed' /\ EventsLinked' /\ EventBlocks'
  BY <1>0, <1>a DEF ReaderServed, EventsLinked, EventBlocks
<1> QED
  BY <1>2, <1>3, <1>4, <1>5, <1>6, <1>7 DEF SInv

\* A row of the index changes, the one that was pending.
LEMMA IndexStep ==
  ASSUME SInv, IInv',
         pc = "index", pc' = "index", index' = Changed(index),
         w'.rev = w.rev, w'.since = w.since, w'.prevData = w.prevData,
         w'.todo = w.todo, w'.ups = <<>>, w'.dels = <<>>, w'.ops = w.ops,
         UNCHANGED <<commits, blockRev, events, repo, recorded, history, reader>>
  PROVE  SInv'
<1>0. /\ TypeOK /\ TypeOK' /\ OneOperation /\ InStep /\ Follows /\ IndexFollows /\ Numbered
      /\ Recorded /\ ReaderServed /\ EventsLinked /\ EventBlocks
  BY DEF SInv, IInv
<1>1. HeadRev' = HeadRev /\ HeadTree' = HeadTree
  BY HeadStays
<1>2. OneOperation'
  <2>1. w'.todo = <<>> /\ Len(w'.todo) = 0 /\ Len(w'.ups) = 0 /\ Len(w'.dels) = 0
    BY <1>0 DEF OneOperation
  <2> QED
    BY <2>1 DEF OneOperation
<1>3. InStep' /\ Follows'
  BY <1>0, <1>1 DEF InStep, Follows, Committing
<1>4. IndexFollows'
  BY <1>0 DEF IndexFollows, Committing, Changed
<1>5. Numbered'
  BY <1>0, <1>1 DEF Numbered, Base, BaseTree, Committing
<1>6. Recorded'
  BY <1>0 DEF Recorded, NewBlocks, Renumbered
<1>7. ReaderServed' /\ EventsLinked' /\ EventBlocks'
  BY <1>0 DEF ReaderServed, EventsLinked, EventBlocks
<1> QED
  BY <1>2, <1>3, <1>4, <1>5, <1>6, <1>7 DEF SInv

LEMMA UpsertRecordChanges ==
  ASSUME SInv, UpsertRecord
  PROVE  /\ pc = "index" /\ pc' = "index" /\ index' = Changed(index)
         /\ w'.rev = w.rev /\ w'.since = w.since /\ w'.prevData = w.prevData
         /\ w'.todo = w.todo /\ w'.ups = <<>> /\ w'.dels = <<>> /\ w'.ops = w.ops
         /\ UNCHANGED <<commits, blockRev, events, repo, recorded, history, reader>>
<1>0. TypeOK /\ OneOperation
  BY DEF SInv, IInv
<1>1. /\ w.ups # <<>> /\ Head(w.ups) = w.ups[1] /\ Tail(w.ups) = <<>> /\ w.dels = <<>>
      /\ w \in Locals
  BY <1>0, LocalFacts DEF UpsertRecord
<1>2. index' = Changed(index)
  BY <1>1 DEF UpsertRecord, Changed
<1> QED
  BY <1>1, <1>2 DEF UpsertRecord, Locals, ghosts

LEMMA DeleteIndexRowChanges ==
  ASSUME SInv, DeleteIndexRow
  PROVE  /\ pc = "index" /\ pc' = "index" /\ index' = Changed(index)
         /\ w'.rev = w.rev /\ w'.since = w.since /\ w'.prevData = w.prevData
         /\ w'.todo = w.todo /\ w'.ups = <<>> /\ w'.dels = <<>> /\ w'.ops = w.ops
         /\ UNCHANGED <<commits, blockRev, events, repo, recorded, history, reader>>
<1>0. TypeOK /\ OneOperation
  BY DEF SInv, IInv
<1>1. /\ w.dels # <<>> /\ Head(w.dels) = w.dels[1] /\ Tail(w.dels) = <<>> /\ w.ups = <<>>
      /\ w \in Locals
  BY <1>0, LocalFacts DEF DeleteIndexRow
<1>2. index' = Changed(index)
  BY <1>1 DEF DeleteIndexRow, Changed
<1> QED
  BY <1>1, <1>2 DEF DeleteIndexRow, Locals, ghosts

\* Once the blocks are numbered, the head's are: those that the commit added
\* have its revision, the others had a number before.
LEMMA HeadNumbered ==
  ASSUME SInv, pc = "index"
  PROVE  /\ w.rev \in DOMAIN commits /\ HeadRev = w.rev /\ HeadTree = repo.data
         /\ \A b \in Blocks(w.rev, repo.data) :
              /\ b \in DOMAIN blockRev
              /\ \A r \in DOMAIN commits : blockRev[b] > r \/ b \in Blocks(r, commits[r])
<1>0. /\ TypeOK /\ OneOperation /\ Follows /\ Numbered /\ Recorded /\ HandleAhead /\ Revisions
  BY DEF SInv, IInv
<1>1. /\ w.rev \in DOMAIN commits /\ commits[w.rev] = repo.data /\ HeadRev = w.rev
      /\ w.since < w.rev /\ w.since \in Int /\ w.rev \in Int /\ w.rev # 0
      /\ \A r \in DOMAIN commits : r \in Int /\ (r <= w.since \/ r = w.rev)
  BY <1>0, LocalFacts, HeadZero DEF Revisions, Follows, HandleAhead, Committing, Rev
<1>2. HeadTree = repo.data
  BY <1>0, <1>1, HeadZero
<1>3. ASSUME NEW b \in Blocks(w.rev, repo.data)
      PROVE  /\ b \in DOMAIN blockRev
             /\ \A r \in DOMAIN commits : blockRev[b] > r \/ b \in Blocks(r, commits[r])
  <2>1. CASE b \in NewBlocks
    <3>1. b \in DOMAIN blockRev /\ blockRev[b] = w.rev
      BY <1>0, <2>1 DEF Recorded, Renumbered
    <3>2. ASSUME NEW r \in DOMAIN commits, r # w.rev PROVE w.rev > r
      BY <1>1, <3>2
    <3> QED
      BY <1>1, <1>3, <3>1, <3>2
  <2>2. CASE b \notin NewBlocks
    <3>1. w.since # 0 /\ b \in Blocks(w.since, w.prevData)
      BY <1>3, <2>2 DEF NewBlocks
    <3>2. w.since \in DOMAIN commits /\ Base = w.since /\ BaseTree = w.prevData
      BY <1>0, <3>1 DEF Follows, Base, BaseTree, Committing
    <3>3. /\ b \in DOMAIN blockRev
          /\ \A r \in DOMAIN commits : r <= w.since => blockRev[b] > r \/ b \in Blocks(r, commits[r])
      BY <1>0, <3>1, <3>2 DEF Numbered
    <3> QED
      BY <1>1, <1>3, <3>3
  <2> QED
    BY <2>1, <2>2
<1> QED
  BY <1>1, <1>2, <1>3

LEMMA EmitCommitSStep ==
  ASSUME SInv, IInv', EmitCommit
  PROVE  SInv'
<1>0. /\ TypeOK /\ TypeOK' /\ OneOperation /\ InStep /\ Follows /\ IndexFollows /\ Numbered
      /\ Recorded /\ ReaderServed /\ EventsLinked /\ EventBlocks /\ Revisions /\ OneTree
  BY DEF SInv, IInv
<1> DEFINE e == [rev |-> w.rev, since |-> w.since, prevData |-> w.prevData, data |-> repo.data,
                 root |-> HeadRev, ops |-> w.ops, blocks |-> RepoCids(w.since)]
<1>a. /\ pc = "index" /\ pc' = "idle" /\ w.ups = <<>> /\ w.dels = <<>> /\ w' = Idle
      /\ events' = Append(events, e)
      /\ UNCHANGED <<commits, blockRev, index, repo, recorded, history, reader>>
  BY DEF EmitCommit, tables
<1>b. /\ e.rev = w.rev /\ e.since = w.since /\ e.prevData = w.prevData /\ e.data = repo.data
      /\ e.root = HeadRev /\ e.ops = w.ops /\ e.blocks = RepoCids(w.since)
  OBVIOUS
<1> HIDE DEF e
<1>c. /\ Len(events) \in Nat /\ DOMAIN events = 1..Len(events)
      /\ DOMAIN events' = 1..Len(events)+1
      /\ \A i \in 1..Len(events) : events'[i] = events[i]
      /\ events'[Len(events)+1] = e
  <2>1. events \in Seq(Event)
    BY <1>0 DEF TypeOK
  <2> QED
    BY <1>a, <2>1
<1>1. HeadRev' = HeadRev /\ HeadTree' = HeadTree
  BY <1>a, HeadStays
<1>2. /\ w.rev \in DOMAIN commits /\ HeadRev = w.rev /\ HeadTree = repo.data
      /\ \A b \in Blocks(w.rev, repo.data) :
           /\ b \in DOMAIN blockRev
           /\ \A r \in DOMAIN commits : blockRev[b] > r \/ b \in Blocks(r, commits[r])
  BY <1>a, HeadNumbered
<1>3. index = repo.data
  BY <1>0, <1>a DEF IndexFollows, Changed, Committing
<1>4. OneOperation'
  BY <1>a DEF OneOperation, Idle
<1>5. InStep'
  BY <1>0, <1>a, <1>1, <1>2 DEF InStep, Revisions, Committing
<1>6. Follows' /\ IndexFollows'
  BY <1>a, <1>1, <1>2, <1>3 DEF Follows, IndexFollows, Committing, BaseTree
<1>7. Numbered'
  <2>1. Base' = w.rev /\ BaseTree' = repo.data
    BY <1>a, <1>1, <1>2 DEF Base, BaseTree, Committing
  <2> QED
    BY <1>a, <1>2, <2>1 DEF Numbered
<1>8. Recorded' /\ ReaderServed'
  BY <1>0, <1>a DEF Recorded, ReaderServed
<1>9. EventsLinked'
  <2>1. /\ Leads(w.prevData, w.ops, repo.data)
        /\ w.since = 0 => w.prevData = Empty
    BY <1>0, <1>a DEF InStep, Follows, Committing
  <2>2. ASSUME NEW i \in 1..Len(events), w.since = events[i].rev
        PROVE  w.prevData = events[i].data
    BY <1>0, <1>a, <1>c, <2>2 DEF OneTree, Committing
  <2>3. \A i \in 1..Len(events)+1 : i = Len(events)+1 \/ i \in 1..Len(events)
    BY <1>c
  <2>4. \A i \in DOMAIN events' :
          /\ Leads(events'[i].prevData, events'[i].ops, events'[i].data)
          /\ events'[i].since = 0 => events'[i].prevData = Empty
    BY <1>0, <1>b, <1>c, <2>1, <2>3 DEF EventsLinked
  <2>5. ASSUME NEW i \in 1..Len(events)+1, NEW j \in 1..Len(events)+1,
               i < j, events'[j].since = events'[i].rev
        PROVE  events'[j].prevData = events'[i].data
    <3>1. i \in 1..Len(events)
      BY <1>c, <2>5
    <3>2. CASE j \in 1..Len(events)
      BY <1>0, <1>c, <2>5, <3>1, <3>2 DEF EventsLinked
    <3>3. CASE j = Len(events)+1
      BY <1>b, <1>c, <2>2, <2>5, <3>1, <3>3
    <3> QED
      BY <2>3, <3>2, <3>3
  <2> QED
    BY <1>c, <2>4, <2>5 DEF EventsLinked
<1>10. EventBlocks'
  <2>1. e.root = e.rev
    BY <1>b, <1>2
  <2>2. ASSUME NEW b \in Blocks(w.rev, repo.data), b \notin Blocks(w.since, w.prevData)
        PROVE  b \in RepoCids(w.since)
    <3>1. b \in NewBlocks
      BY <2>2 DEF NewBlocks
    <3>2. b \in DOMAIN blockRev /\ blockRev[b] = w.rev
      BY <1>0, <1>a, <3>1 DEF Recorded, Renumbered
    <3>3. w.rev > w.since
      BY <1>0, <1>a, LocalFacts DEF Revisions, Committing
    <3> QED
      BY <3>2, <3>3 DEF RepoCids
  <2>3. Blocks(e.rev, e.data) \ Blocks(e.since, e.prevData) \subseteq e.blocks
    BY <1>b, <2>2
  <2> QED
    BY <1>0, <1>c, <2>1, <2>3 DEF EventBlocks
<1> QED
  BY <1>4, <1>5, <1>6, <1>7, <1>8, <1>9, <1>10 DEF SInv

LEMMA ImportChanges ==
  ASSUME TypeOK, Revisions, Import
  PROVE  \E rev \in Rev, tree \in Tree :
           /\ DOMAIN commits' = {rev} /\ commits'[rev] = tree
           /\ HeadRev' = rev /\ HeadTree' = tree /\ index' = tree
           /\ rev \in DOMAIN history' /\ history'[rev] = tree
           /\ \A r \in DOMAIN history : r \in DOMAIN history' /\ history'[r] = history[r]
           /\ DOMAIN blockRev' = Blocks(rev, tree)
           /\ \A b \in Blocks(rev, tree) : blockRev'[b] = rev
<1>1. PICK rev \in Rev, tree \in Tree :
        /\ (rev \in DOMAIN history /\ tree = history[rev]) \/ rev = clock + 1
        /\ commits' = [r \in {rev} |-> tree]
        /\ history' = Put(history, rev, tree)
        /\ index' = tree
        /\ blockRev' = [b \in Blocks(rev, tree) |-> rev]
  BY DEF Import
<1>2. DOMAIN commits' = {rev} /\ commits'[rev] = tree
  BY <1>1
<1>3. HeadRev' = rev /\ HeadTree' = tree
  <2> DEFINE D == DOMAIN commits'
  <2>1. D \subseteq Int /\ rev \in D /\ \A r \in D : r <= rev
    BY <1>2 DEF Rev
  <2>2. HeadRev' = CHOOSE n \in D : \A q \in D : q <= n
    BY <2>1 DEF HeadRev
  <2> HIDE DEF D
  <2>3. HeadRev' = rev
    BY <2>1, <2>2, HeadIs
  <2> QED
    BY <1>2, <2>1, <2>3 DEF HeadTree, D
<1>4. /\ DOMAIN history' = DOMAIN history \cup {rev} /\ history'[rev] = tree
      /\ \A r \in DOMAIN history : r # rev => history'[r] = history[r]
  BY <1>1 DEF Put
<1>5. rev \in DOMAIN history => history[rev] = tree
  <2>1. clock + 1 \notin DOMAIN history
    BY DEF Revisions, TypeOK
  <2> QED
    BY <1>1, <2>1
<1>6. DOMAIN blockRev' = Blocks(rev, tree) /\ \A b \in Blocks(rev, tree) : blockRev'[b] = rev
  BY <1>1
<1>7. /\ rev \in DOMAIN history' /\ history'[rev] = tree
      /\ \A r \in DOMAIN history : r \in DOMAIN history' /\ history'[r] = history[r]
  BY <1>4, <1>5
<1>8. index' = tree
  BY <1>1
<1> QED
  BY <1>2, <1>3, <1>6, <1>7, <1>8

LEMMA ImportSStep ==
  ASSUME SInv, IInv', Import
  PROVE  SInv'
<1>0. /\ TypeOK /\ TypeOK' /\ OneOperation /\ EventsLinked /\ EventBlocks /\ Revisions
  BY DEF SInv, IInv
<1>1. PICK rev \in Rev, tree \in Tree :
        /\ DOMAIN commits' = {rev} /\ commits'[rev] = tree
        /\ HeadRev' = rev /\ HeadTree' = tree /\ index' = tree
        /\ DOMAIN blockRev' = Blocks(rev, tree)
        /\ \A b \in Blocks(rev, tree) : blockRev'[b] = rev
  BY <1>0, ImportChanges
<1>a. /\ pc = "idle" /\ pc' = "idle" /\ w' = w /\ repo' = Closed /\ ~reader'.settled
      /\ UNCHANGED events
  BY <1>0 DEF Import, TypeOK
<1>2. OneOperation'
  BY <1>0, <1>a DEF OneOperation
<1>3. InStep'
  BY <1>a DEF InStep, Committing, Closed
<1>4. Follows' /\ IndexFollows' /\ Recorded'
  BY <1>1, <1>a DEF Follows, IndexFollows, Recorded, Committing, BaseTree
<1>5. Numbered'
  <2>1. Base' = rev /\ BaseTree' = tree
    BY <1>1, <1>a DEF Base, BaseTree, Committing
  <2> QED
    BY <1>1, <2>1 DEF Numbered
<1>6. ReaderServed' /\ EventsLinked' /\ EventBlocks'
  BY <1>0, <1>a DEF ReaderServed, EventsLinked, EventBlocks
<1> QED
  BY <1>2, <1>3, <1>4, <1>5, <1>6 DEF SInv

\* A reader changes nothing but itself.
LEMMA ReadSStep ==
  ASSUME SInv, IInv', ReadHead \/ ReadCids
  PROVE  SInv'
<1>0. /\ TypeOK /\ TypeOK' /\ OneOperation /\ InStep /\ Follows /\ IndexFollows /\ Numbered
      /\ Recorded /\ ReaderServed /\ EventsLinked /\ EventBlocks /\ Revisions /\ OneTree
  BY DEF SInv, IInv
<1>a. UNCHANGED <<commits, blockRev, index, events, repo, recorded, pc, w, history>>
  BY DEF ReadHead, ReadCids, tables, ghosts
<1>1. HeadRev' = HeadRev /\ HeadTree' = HeadTree
  BY <1>a, HeadStays
<1>2. OneOperation' /\ InStep' /\ Follows' /\ IndexFollows'
  BY <1>0, <1>a, <1>1 DEF OneOperation, InStep, Follows, IndexFollows, Committing, BaseTree, Changed
<1>3. Numbered' /\ Recorded' /\ EventsLinked' /\ EventBlocks'
  BY <1>0, <1>a, <1>1 DEF Numbered, Base, BaseTree, Committing, Recorded, NewBlocks, Renumbered,
     EventsLinked, EventBlocks
<1>4. ReaderServed'
  <2>1. CASE ReadCids
    BY <2>1 DEF ReadCids, NoReader, ReaderServed
  <2>2. CASE ReadHead
    <3>1. /\ DOMAIN commits # {} /\ reader'.rev = HeadRev /\ (reader'.settled <=> pc # "blocks")
      BY <2>2 DEF ReadHead
    <3>2. HeadRev \in DOMAIN commits /\ HeadTree = commits[HeadRev]
      BY <1>0, <3>1, HeadZero
    <3>3. HeadRev \in DOMAIN history /\ history[HeadRev] = HeadTree
      BY <1>0, <3>2 DEF OneTree
    <3>4. ASSUME pc # "blocks" PROVE Blocks(HeadRev, HeadTree) \subseteq DOMAIN blockRev
      <4>1. CASE pc = "index"
        BY <4>1, HeadNumbered
      <4>2. CASE pc # "index"
        <5>1. Base = HeadRev /\ BaseTree = HeadTree
          BY <1>0, <3>4, <4>2 DEF Base, BaseTree, Committing, Follows
        <5> QED
          BY <1>0, <3>2, <5>1 DEF Numbered
      <4> QED
        BY <4>1, <4>2
    <3> QED
      BY <1>a, <3>1, <3>3, <3>4 DEF ReaderServed
  <2> QED
    BY <2>1, <2>2
<1> QED
  BY <1>2, <1>3, <1>4 DEF SInv

LEMMA NextSInv ==
  ASSUME MaxBatch = 1, SInv, [Next]_vars
  PROVE  SInv'
<1>1. IInv'
  BY NextIInv DEF SInv
<1>2. CASE UNCHANGED vars
  <2>1. HeadRev' = HeadRev /\ HeadTree' = HeadTree
    BY <1>2, HeadStays DEF vars, tables
  <2>2. UNCHANGED <<commits, blockRev, index, events, repo, recorded, pc, w, history, reader>>
    BY <1>2 DEF vars, tables, ghosts
  <2>3. OneOperation' /\ InStep' /\ Follows' /\ IndexFollows'
    BY <2>1, <2>2 DEF SInv, OneOperation, InStep, Follows, IndexFollows, Committing, BaseTree, Changed
  <2>4. Numbered' /\ Recorded' /\ ReaderServed' /\ EventsLinked' /\ EventBlocks'
    BY <2>1, <2>2 DEF SInv, Numbered, Base, BaseTree, Committing, Recorded, NewBlocks, Renumbered,
       ReaderServed, EventsLinked, EventBlocks
  <2> QED
    BY <1>1, <2>3, <2>4 DEF SInv
<1>3. CASE Write
  BY <1>1, <1>3, RequestSStep, CreateAccountSStep, ApplyOpSStep, RefusedSStep, OpsDoneSStep,
     SignSStep, InsertCommitSStep, PersistBlockRevSStep, BlockRevsDoneSStep,
     UpsertRecordChanges, DeleteIndexRowChanges, IndexStep, EmitCommitSStep DEF Write
<1>4. CASE Import \/ ReadHead \/ ReadCids
  BY <1>1, <1>4, ImportSStep, ReadSStep
<1> QED
  BY <1>2, <1>3, <1>4 DEF Next

-----------------------------------------------------------------------------
(***************************************************************************)
(* The theorems.                                                           *)
(***************************************************************************)
\* The inductive invariant of undisturbed single-operation writes.
THEOREM SteadyInvariance == ASSUME MaxBatch = 1 PROVE Spec => []SInv
<1>1. SInv /\ [Next]_vars => SInv'
  BY NextSInv
<1> QED
  BY <1>1, InitSInv, PTL DEF Spec

\* Between writes the index is the tree of the head.
THEOREM IndexAgrees == ASSUME MaxBatch = 1 PROVE Spec => []IndexIsHead
<1>1. SInv => IndexIsHead
  BY DEF SInv, IndexFollows, IndexIsHead, BaseTree, Committing
<1> QED
  BY <1>1, SteadyInvariance, PTL

\* The operations of an event lead from the tree it names as the previous one
\* to its own, and each says what its path held.
THEOREM EventsExplained == ASSUME MaxBatch = 1 PROVE Spec => []OpsExplainCommit
<1>1. SInv => OpsExplainCommit
  <2> SUFFICES ASSUME SInv, NEW i \in DOMAIN events
               PROVE  LET e == events[i]
                      IN /\ Applied(e.prevData, e.ops) = e.data
                         /\ \A k \in DOMAIN e.ops :
                              LET op == e.ops[k]
                                  held == Applied(e.prevData, SubSeq(e.ops, 1, k - 1))[op.path]
                              IN /\ op.prev = held
                                 /\ op.act = IF held = None THEN "create"
                                             ELSE IF op.cid = None THEN "delete" ELSE "update"
    BY DEF OpsExplainCommit
  <2> DEFINE e == events[i]
  <2>1. Leads(e.prevData, e.ops, e.data)
    BY DEF SInv, EventsLinked
  <2> HIDE DEF e
  <2>2. CASE e.ops = <<>> /\ e.data = e.prevData
    <3>1. DOMAIN e.ops = {}
      BY <2>2
    <3> QED
      BY <2>2, <3>1, AppliedNone DEF e
  <2>3. ASSUME NEW op \in EventOp,
               e.ops = <<op>>, e.data = [e.prevData EXCEPT ![op.path] = op.cid],
               op.prev = e.prevData[op.path],
               op.act = IF op.prev = None THEN "create"
                        ELSE IF op.cid = None THEN "delete" ELSE "update"
        PROVE  /\ Applied(e.prevData, e.ops) = e.data
               /\ \A k \in DOMAIN e.ops :
                    LET o == e.ops[k]
                        held == Applied(e.prevData, SubSeq(e.ops, 1, k - 1))[o.path]
                    IN /\ o.prev = held
                       /\ o.act = IF held = None THEN "create"
                                  ELSE IF o.cid = None THEN "delete" ELSE "update"
    <3>1. Applied(e.prevData, e.ops) = e.data
      BY <2>3, AppliedOne
    <3>2. ASSUME NEW k \in DOMAIN e.ops
          PROVE  e.ops[k] = op /\ Applied(e.prevData, SubSeq(e.ops, 1, k - 1)) = e.prevData
      <4>1. k = 1 /\ e.ops[k] = op
        BY <2>3
      <4>2. SubSeq(e.ops, 1, k - 1) = <<>>
        BY <4>1, <2>3
      <4> QED
        BY <4>1, <4>2, AppliedNone
    <3> QED
      BY <2>3, <3>1, <3>2
  <2> QED
    BY <2>1, <2>2, <2>3 DEF Leads, e
<1> QED
  BY <1>1, SteadyInvariance, PTL

\* An event carries every block that its commit has and the one before had not.
THEOREM EventsComplete == ASSUME MaxBatch = 1 PROVE Spec => []EventBlocks
<1>1. SInv => EventBlocks
  BY DEF SInv
<1> QED
  BY <1>1, SteadyInvariance, PTL

\* Between writes an export since any commit gives all that is lacking.
THEOREM ExportsSince == ASSUME MaxBatch = 1 PROVE Spec => []SinceExport
<1>1. SInv => SinceExport
  <2> SUFFICES ASSUME SInv, pc = "idle", NEW r \in DOMAIN commits,
                      NEW b \in Blocks(HeadRev, HeadTree)
               PROVE  b \in RepoCids(r) \cup Blocks(r, commits[r])
    BY DEF SinceExport
  <2>1. TypeOK /\ Numbered /\ Base = HeadRev /\ BaseTree = HeadTree
    BY DEF SInv, IInv, Base, BaseTree, Committing
  <2>2. HeadRev \in DOMAIN commits /\ r <= HeadRev
    BY <2>1, HeadZero
  <2>3. b \in DOMAIN blockRev /\ (blockRev[b] > r \/ b \in Blocks(r, commits[r]))
    BY <2>1, <2>2 DEF Numbered
  <2> QED
    BY <2>3 DEF RepoCids
<1> QED
  BY <1>1, SteadyInvariance, PTL

\* An export without the lock is complete if the head it read was settled.
THEOREM ExportsSettled == ASSUME MaxBatch = 1 PROVE Spec => []SettledExport
<1>1. SInv => SettledExport
  BY DEF SInv, ReaderServed, SettledExport, RepoCids
<1> QED
  BY <1>1, SteadyInvariance, PTL

-----------------------------------------------------------------------------
(***************************************************************************)
(* The refinement of RepoViews.                                            *)
(***************************************************************************)
Told ==
  Copy = IF events = <<>> THEN [rev |-> 0, tree |-> Empty]
         ELSE [rev |-> events[Len(events)].rev, tree |-> events[Len(events)].data]

LEMMA SInvTold == SInv => Told
<1> SUFFICES ASSUME SInv PROVE Told
  OBVIOUS
<1>1. TypeOK /\ EventsLinked
  BY DEF SInv, IInv
<1> QED
  BY <1>1, CopyIsLast DEF Told

\* The copy has the tree of its revision.
LEMMA CopyAgrees ==
  ASSUME SInv, Told
  PROVE  /\ Copy.rev = 0 \/ Copy.rev \in DOMAIN history
         /\ Copy.rev = 0 => Copy.tree = Empty
         /\ Copy.rev \in DOMAIN history => Copy.tree = history[Copy.rev]
<1>0. TypeOK /\ OneTree
  BY DEF SInv, IInv
<1>1. 0 \notin DOMAIN history
  <2>1. DOMAIN history \subseteq Rev
    BY <1>0, PartialFacts DEF TypeOK
  <2> QED
    BY <2>1 DEF Rev
<1>2. CASE events = <<>>
  BY <1>1, <1>2 DEF Told
<1>3. CASE events # <<>>
  <2>1. events \in Seq(Event) /\ Len(events) \in DOMAIN events
    BY <1>0, <1>3 DEF TypeOK
  <2>2. Copy.rev = events[Len(events)].rev /\ Copy.tree = events[Len(events)].data
    BY <1>3 DEF Told
  <2>3. Copy.rev \in DOMAIN history /\ Copy.tree = history[Copy.rev]
    BY <1>0, <2>1, <2>2 DEF OneTree
  <2> QED
    BY <1>1, <2>3
<1> QED
  BY <1>2, <1>3

LEMMA SettledViews ==
  ASSUME SInv, Told, pc \in {"idle", "insert"}
  PROVE  index = HeadTree /\ (Copy.tree = HeadTree \/ Base # Copy.rev)
<1>0. TypeOK /\ IndexFollows /\ Follows /\ OneTree
  BY DEF SInv, IInv
<1>1. Base = HeadRev /\ BaseTree = HeadTree
  BY <1>0 DEF Base, BaseTree, Committing, Follows
<1>2. index = HeadTree
  BY <1>0, <1>1 DEF IndexFollows
<1>3. ASSUME HeadRev = Copy.rev PROVE Copy.tree = HeadTree
  <2>1. CASE HeadRev = 0
    BY <1>0, <1>3, <2>1, HeadZero, CopyAgrees
  <2>2. CASE HeadRev # 0
    <3>1. HeadRev \in DOMAIN commits /\ HeadTree = commits[HeadRev]
      BY <1>0, <2>2, HeadZero
    <3>2. HeadRev \in DOMAIN history /\ HeadTree = history[HeadRev]
      BY <1>0, <3>1 DEF OneTree
    <3> QED
      BY <1>3, <3>2, CopyAgrees
  <2> QED
    BY <2>1, <2>2
<1> QED
  BY <1>1, <1>2, <1>3

\* Every step shows as one of the promised ones or not at all.
LEMMA ViewsStep ==
  ASSUME MaxBatch = 1, SInv, SInv', Told, Told', [Next]_vars
  PROVE  [Views!Next]_(Views!vars)
<1>0. /\ TypeOK /\ OneOperation /\ InStep /\ Follows /\ IndexFollows /\ HandleAhead /\ Revisions
      /\ IndexFollows' /\ Follows' /\ Revisions'
  BY DEF SInv, IInv
\* A step that touches neither the tables nor the base does not show.
<1>1. ASSUME UNCHANGED <<commits, index, events>>, Base' = Base PROVE UNCHANGED Views!vars
  <2>1. HeadTree' = HeadTree
    BY <1>1, HeadStays
  <2>2. Copy' = Copy
    BY <1>1 DEF Told
  <2> QED
    BY <1>1, <2>1, <2>2 DEF Views!vars
<1>2. ASSUME UNCHANGED <<commits, index, events>>,
             \/ pc \notin {"insert", "blocks", "index"} /\ pc' \notin {"insert", "blocks", "index"}
             \/ pc' = pc /\ w'.since = w.since
             \/ pc \in {"blocks", "index"} /\ pc' \in {"blocks", "index"} /\ w'.since = w.since
      PROVE  UNCHANGED Views!vars
  <2>1. HeadRev' = HeadRev
    BY <1>2, HeadStays
  <2>2. Base' = Base
    BY <1>2, <2>1 DEF Base
  <2> QED
    BY <1>1, <1>2, <2>2
<1>3. CASE Request \/ CreateAccount
  <2>1. /\ UNCHANGED <<commits, index, events>>
        /\ pc \notin {"insert", "blocks", "index"} /\ pc' \notin {"insert", "blocks", "index"}
    BY <1>3, RequestFacts DEF ApplyWrites, CreateAccount, tables
  <2> QED
    BY <1>2, <2>1
<1>4. CASE ApplyOp \/ RejectOp \/ PutRefused \/ OpsDone
  <2>1. /\ UNCHANGED <<commits, index, events>>
        /\ pc \notin {"insert", "blocks", "index"} /\ pc' \notin {"insert", "blocks", "index"}
    BY <1>4 DEF ApplyOp, RejectOp, PutRefused, OpsDone, tables
  <2> QED
    BY <1>2, <2>1
<1>5. CASE Sign
  <2>1. UNCHANGED <<commits, index, events>> /\ w'.since = repo.rev /\ pc = "sign" /\ pc' = "insert"
    BY <1>0, <1>5, LocalFacts DEF Sign, Locals, tables
  <2>2. repo.rev = HeadRev
    BY <1>0, <2>1 DEF InStep, HandleAhead, Committing
  <2>3. Base' = Base
    BY <2>1, <2>2 DEF Base
  <2> QED
    BY <1>1, <2>1, <2>3
<1>6. CASE InsertCommit
  <2>1. /\ pc = "insert" /\ pc' = "blocks" /\ w'.since = w.since /\ w'.rev = w.rev
        /\ UNCHANGED <<index, events, repo>>
    BY <1>0, <1>6, LocalFacts DEF InsertCommit, Locals
  <2>2. HeadTree' = repo.data
    BY <1>0, <2>1 DEF Follows, Revisions, Committing, HeadTree
  <2>3. repo.data \in Tree
    BY <1>0 DEF TypeOK
  <2>4. Base' = Base
    BY <2>1 DEF Base
  <2>5. Copy' = Copy
    BY <2>1 DEF Told
  <2>6. Views!Settled
    BY <2>1, SettledViews DEF Views!Settled
  <2> QED
    BY <2>1, <2>2, <2>3, <2>4, <2>5, <2>6 DEF Views!Next, Views!Write
<1>7. CASE PersistBlockRev \/ BlockRevsDone
  <2>1. /\ UNCHANGED <<commits, index, events>> /\ w'.since = w.since
        /\ pc \in {"blocks", "index"} /\ pc' \in {"blocks", "index"}
    BY <1>0, <1>7, LocalFacts DEF PersistBlockRev, BlockRevsDone, Locals, tables
  <2> QED
    BY <1>2, <2>1
<1>8. CASE UpsertRecord \/ DeleteIndexRow
  <2>1. /\ pc = "index" /\ pc' = "index" /\ index' = Changed(index) /\ w'.since = w.since
        /\ UNCHANGED <<commits, events>>
    BY <1>8, UpsertRecordChanges, DeleteIndexRowChanges
  <2>2. HeadTree' = HeadTree /\ HeadTree = repo.data
    BY <2>1, HeadStays, HeadNumbered
  <2>3. index' = HeadTree
    BY <1>0, <2>1, <2>2 DEF IndexFollows, Committing
  <2>4. Base' = Base
    BY <2>1 DEF Base
  <2>5. Copy' = Copy
    BY <2>1 DEF Told
  <2> QED
    BY <2>2, <2>3, <2>4, <2>5 DEF Views!Next, Views!Show
<1>9. CASE EmitCommit
  <2> DEFINE e == [rev |-> w.rev, since |-> w.since, prevData |-> w.prevData, data |-> repo.data,
                   root |-> HeadRev, ops |-> w.ops, blocks |-> RepoCids(w.since)]
  <2>1. /\ pc = "index" /\ pc' = "idle" /\ w.ups = <<>> /\ w.dels = <<>>
        /\ UNCHANGED <<commits, index>>
    BY <1>9 DEF EmitCommit, tables
  <2>2. /\ HeadRev' = HeadRev /\ HeadTree' = HeadTree /\ HeadTree = repo.data /\ HeadRev = w.rev
    BY <2>1, HeadStays, HeadNumbered
  <2>3. index = HeadTree
    BY <1>0, <2>1, <2>2 DEF IndexFollows, Changed, Committing
  <2>4. Copy'.rev = w.rev /\ Copy'.tree = repo.data
    <3>1. events' = Append(events, e)
      BY <1>9 DEF EmitCommit
    <3>2. e.rev = w.rev /\ e.data = repo.data
      OBVIOUS
    <3> HIDE DEF e
    <3>3. events' # <<>> /\ events'[Len(events')] = e
      <4>1. events \in Seq(Event)
        BY <1>0 DEF TypeOK
      <4> QED
        BY <3>1, <4>1
    <3> QED
      BY <3>2, <3>3 DEF Told
  <2>5. Base' = w.rev
    BY <2>1, <2>2 DEF Base
  <2> QED
    BY <2>1, <2>2, <2>3, <2>4, <2>5 DEF Views!Next, Views!Tell
<1>10. CASE Import
  <2>1. PICK rev \in Rev, tree \in Tree :
          /\ HeadRev' = rev /\ HeadTree' = tree /\ index' = tree /\ history'[rev] = tree
          /\ rev \in DOMAIN history'
          /\ \A r \in DOMAIN history : history'[r] = history[r]
    BY <1>0, <1>10, ImportChanges
  <2>2. pc = "idle" /\ pc' = "idle" /\ UNCHANGED events
    BY <1>10 DEF Import
  <2>3. Copy' = Copy
    BY <2>2 DEF Told
  <2>4. Views!Settled
    BY <2>2, SettledViews DEF Views!Settled
  <2>5. ASSUME rev = Copy.rev PROVE Copy.tree = tree
    <3>1. /\ Copy.rev = 0 \/ Copy.rev \in DOMAIN history
          /\ Copy.rev \in DOMAIN history => Copy.tree = history[Copy.rev]
      BY CopyAgrees
    <3> QED
      BY <2>1, <2>5, <3>1 DEF Rev
  <2>6. Base' = rev
    BY <2>1, <2>2 DEF Base
  <2> QED
    BY <2>1, <2>2, <2>3, <2>4, <2>5, <2>6 DEF Views!Next, Views!Replace
<1>11. CASE ReadHead \/ ReadCids \/ UNCHANGED vars
  <2>1. UNCHANGED <<commits, index, events>> /\ pc' = pc /\ w'.since = w.since
    BY <1>11 DEF ReadHead, ReadCids, vars, tables
  <2> QED
    BY <1>2, <2>1
<1> QED
  BY <1>3, <1>4, <1>5, <1>6, <1>7, <1>8, <1>9, <1>10, <1>11 DEF Next, Write

\* Head, index and the relay's copy show every write in this order, one write
\* at a time, and the copy never strays but for an import.
THEOREM Implements == ASSUME MaxBatch = 1 PROVE Spec => ImplementsViews
<1>1. Init => Views!Init
  <2> SUFFICES ASSUME Init PROVE Views!Init
    OBVIOUS
  <2>1. Told
    BY InitSInv, SInvTold
  <2>2. events = <<>> /\ DOMAIN commits = {} /\ index = Empty /\ pc = "idle"
    BY DEF Init
  <2>3. Copy = [rev |-> 0, tree |-> Empty] /\ HeadTree = Empty /\ Base = 0
    BY <2>1, <2>2 DEF Told, HeadTree, HeadRev, Base
  <2> QED
    BY <2>2, <2>3 DEF Views!Init
<1>2. SInv /\ SInv' /\ Told /\ Told' /\ [Next]_vars => [Views!Next]_(Views!vars)
  BY ViewsStep
<1>3. Spec => []SInv
  BY SteadyInvariance
<1> QED
  BY <1>1, <1>2, <1>3, SInvTold, PTL DEF Spec, ImplementsViews, Views!Spec
=============================================================================
