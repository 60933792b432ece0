------------------------------ MODULE RepoProofs ------------------------------
(***************************************************************************)
(* Proofs about Repo for every set of paths and contents, every number of  *)
(* revisions and every size of a batch, with faults at any step: what an   *)
(* interrupted write cannot break.                                         *)
(***************************************************************************)
EXTENDS Repo, TLAPS, WellFoundedInduction

-----------------------------------------------------------------------------
(***************************************************************************)
(* Partial functions and the head.                                         *)
(***************************************************************************)
LEMMA PutFacts ==
  ASSUME NEW f, NEW x, NEW y
  PROVE  /\ DOMAIN Put(f, x, y) = DOMAIN f \cup {x}
         /\ Put(f, x, y)[x] = y
         /\ \A z \in DOMAIN f : z # x => Put(f, x, y)[z] = f[z]
BY DEF Put

LEMMA PartialFacts ==
  ASSUME NEW S, NEW T, NEW f \in Partial(S, T)
  PROVE  /\ DOMAIN f \subseteq S
         /\ f \in [DOMAIN f -> T]
         /\ \A x \in DOMAIN f : f[x] \in T
BY DEF Partial

LEMMA PartialPut ==
  ASSUME NEW S, NEW T, NEW f \in Partial(S, T), NEW x \in S, NEW y \in T
  PROVE  Put(f, x, y) \in Partial(S, T)
<1>1. DOMAIN f \subseteq S /\ f \in [DOMAIN f -> T]
  BY PartialFacts
<1>2. Put(f, x, y) \in [DOMAIN f \cup {x} -> T]
  BY <1>1 DEF Put
<1>3. DOMAIN f \cup {x} \in SUBSET S
  BY <1>1
<1> QED
  BY <1>2, <1>3 DEF Partial

LEMMA PartialSingle ==
  ASSUME NEW S, NEW T, NEW x \in S, NEW y \in T
  PROVE  [z \in {x} |-> y] \in Partial(S, T)
<1>1. [z \in {x} |-> y] \in [{x} -> T] /\ {x} \in SUBSET S
  OBVIOUS
<1> QED
  BY <1>1 DEF Partial

LEMMA PartialEmpty ==
  ASSUME NEW S, NEW T
  PROVE  <<>> \in Partial(S, T) /\ DOMAIN <<>> = {}
<1>1. <<>> \in [{} -> T] /\ {} \in SUBSET S
  OBVIOUS
<1> QED
  BY <1>1 DEF Partial

\* The head is the largest revision of the table: the distances to MaxRev
\* have a least element.
LEMMA HeadFacts ==
  ASSUME DOMAIN commits \subseteq Rev, DOMAIN commits # {}
  PROVE  /\ HeadRev \in DOMAIN commits
         /\ \A r \in DOMAIN commits : r <= HeadRev
         /\ HeadTree = commits[HeadRev]
<1> DEFINE D == DOMAIN commits
           T == {MaxRev - r : r \in D}
<1>1. T \subseteq Nat /\ T # {}
  BY RepoAssumption DEF Rev
<1>2. PICK d \in T : \A e \in T : ~ (<<e, d>> \in OpToRel(<, Nat))
  <2> HIDE DEF T
  <2> QED
    BY <1>1, WFMin, NatLessThanWellFounded
<1>3. \A e \in T : d <= e
  <2> HIDE DEF T
  <2> TAKE e \in T
  <2>1. e \in Nat /\ d \in Nat
    BY <1>1, <1>2
  <2>2. ~ (e < d)
    BY <2>1, <1>2 DEF OpToRel
  <2> QED
    BY <2>1, <2>2
<1>4. PICK m \in D : d = MaxRev - m
  BY <1>2
<1>5. ASSUME NEW r \in D PROVE r <= m
  <2>1. MaxRev - r \in T
    OBVIOUS
  <2>2. r \in Int /\ m \in Int /\ MaxRev \in Int
    BY RepoAssumption DEF Rev
  <2>3. MaxRev - m <= MaxRev - r
    BY <1>3, <1>4, <2>1
  <2> QED
    BY <2>2, <2>3
<1>6. HeadRev \in D /\ \A r \in D : r <= HeadRev
  <2>1. \E n \in D : \A r \in D : r <= n
    BY <1>5
  <2> QED
    BY <2>1 DEF HeadRev
<1> QED
  BY <1>6 DEF HeadTree

LEMMA HeadType ==
  ASSUME TypeOK
  PROVE  HeadRev \in 0..MaxRev /\ HeadTree \in Tree /\ (DOMAIN commits # {} => HeadRev \in Rev)
<1>1. CASE DOMAIN commits = {}
  BY <1>1, RepoAssumption DEF HeadRev, HeadTree, Tree, Empty
<1>2. CASE DOMAIN commits # {}
  <2>1. DOMAIN commits \subseteq Rev /\ \A r \in DOMAIN commits : commits[r] \in Tree
    BY PartialFacts DEF TypeOK
  <2> QED
    BY <1>2, <2>1, HeadFacts, RepoAssumption DEF Rev
<1> QED
  BY <1>1, <1>2

LEMMA OpenedType ==
  ASSUME TypeOK
  PROVE  Opened \in [open : {TRUE}, tree : Tree, flushed : BOOLEAN, rev : 0..MaxRev, data : Tree]
BY HeadType DEF Opened, TypeOK

LEMMA BlockTypes ==
  /\ \A r \in Rev : CommitBlock(r) \in Block
  /\ \A t \in Tree : TreeBlock(t) \in Block
  /\ \A v \in Cid : RecordBlock(v) \in Block
  /\ \A r \in Rev, t \in Tree : Blocks(r, t) \subseteq Block
  /\ Empty \in Tree
BY DEF Block, Blocks, Tree, Empty

-----------------------------------------------------------------------------
(***************************************************************************)
(* Types.                                                                  *)
(***************************************************************************)
LEMMA IdleType == Idle \in Locals
<1>1. <<>> \in Seq(Op) /\ <<>> \in Seq(Path \X Cid) /\ <<>> \in Seq(Path) /\ <<>> \in Seq(EventOp)
  OBVIOUS
<1>2. <<>> \in Partial(Path, Cid \cup {None})
  BY PartialEmpty
<1>3. Empty \in Tree /\ 0 \in 0..MaxRev
  BY BlockTypes, RepoAssumption
<1> QED
  BY <1>1, <1>2, <1>3 DEF Idle, Locals

\* Whatever the record API asks of ApplyWrites is a list of operations.
LEMMA RequestFacts == Request => \E ops \in Seq(Op) : ApplyWrites(ops)
<1> SUFFICES ASSUME Request PROVE \E ops \in Seq(Op) : ApplyWrites(ops)
  OBVIOUS
<1>1. CASE HandleCreateRecord
  <2>1. PICK p \in Path, v \in Cid :
          ApplyWrites(<<[act |-> "create", path |-> p, cid |-> v, swap |-> AnyCid]>>)
    BY <1>1 DEF HandleCreateRecord
  <2> DEFINE op == [act |-> "create", path |-> p, cid |-> v, swap |-> AnyCid]
  <2> DEFINE list == <<op>>
  <2>2. op \in Op
    BY <2>1 DEF Op
  <2>3. list \in Seq(Op)
    BY <2>2
  <2>4. ApplyWrites(list)
    BY <2>1
  <2> HIDE DEF list
  <2> QED
    BY <2>3, <2>4
<1>2. CASE HandlePutRecord
  <2>1. PICK p \in Path, v \in Cid, s \in Swap :
          ApplyWrites(<<[act |-> "update", path |-> p, cid |-> v, swap |-> s]>>)
    BY <1>2 DEF HandlePutRecord
  <2> DEFINE op == [act |-> "update", path |-> p, cid |-> v, swap |-> s]
  <2> DEFINE list == <<op>>
  <2>2. op \in Op
    BY <2>1 DEF Op
  <2>3. list \in Seq(Op)
    BY <2>2
  <2>4. ApplyWrites(list)
    BY <2>1
  <2> HIDE DEF list
  <2> QED
    BY <2>3, <2>4
<1>3. CASE HandleDeleteRecord
  <2>1. PICK p \in Path, s \in Swap :
          ApplyWrites(<<[act |-> "delete", path |-> p, cid |-> None, swap |-> s]>>)
    BY <1>3 DEF HandleDeleteRecord
  <2> DEFINE op == [act |-> "delete", path |-> p, cid |-> None, swap |-> s]
  <2> DEFINE list == <<op>>
  <2>2. op \in Op
    BY <2>1 DEF Op
  <2>3. list \in Seq(Op)
    BY <2>2
  <2>4. ApplyWrites(list)
    BY <2>1
  <2> HIDE DEF list
  <2> QED
    BY <2>3, <2>4
<1>4. CASE HandleApplyWrites
  <2>1. PICK n \in 1..MaxBatch :
          \E ops \in [1..n -> {op \in Op : op.swap = AnyCid}] : ApplyWrites(ops)
    BY <1>4 DEF HandleApplyWrites
  <2>2. PICK ops \in [1..n -> {op \in Op : op.swap = AnyCid}] : ApplyWrites(ops)
    BY <2>1
  <2>3. ops \in Seq(Op)
    BY <2>2, RepoAssumption
  <2> QED
    BY <2>2, <2>3
<1> QED
  BY <1>1, <1>2, <1>3, <1>4 DEF Request

LEMMA TypeStep == IInv /\ [Next \/ Fault]_vars => TypeOK'
<1> SUFFICES ASSUME IInv, [Next \/ Fault]_vars PROVE TypeOK'
  OBVIOUS
<1>0. TypeOK /\ Revisions /\ w \in Locals /\ Idle \in Locals
  BY IdleType DEF IInv, TypeOK
<1>a. Closed \in [open : BOOLEAN, tree : Tree, flushed : BOOLEAN, rev : 0..MaxRev, data : Tree]
  BY BlockTypes, RepoAssumption DEF Closed
<1>1. CASE Request
  <2>1. PICK ops \in Seq(Op) : ApplyWrites(ops)
    BY <1>1, RequestFacts
  <2>2. w' \in Locals
    BY <1>0, <2>1 DEF ApplyWrites, Locals, Idle
  <2> QED
    BY <1>0, <2>1, <2>2, OpenedType DEF ApplyWrites, TypeOK, tables, ghosts
<1>2. CASE CreateAccount
  BY <1>0, <1>2, OpenedType DEF CreateAccount, TypeOK, tables, ghosts
<1>3. CASE ApplyOp
  <2> DEFINE op == Head(w.todo)
             put == IF op.act = "delete" THEN {} ELSE {RecordBlock(op.cid)}
  <2>1. op \in Op /\ Tail(w.todo) \in Seq(Op)
    BY <1>0, <1>3 DEF ApplyOp, Locals
  <2>2. op.path \in Path /\ op.cid \in Cid \cup {None} /\ (op.act # "delete" => op.cid \in Cid)
        /\ op.act \in {"create", "update", "delete"}
    BY <2>1 DEF Op
  <2>3. Current(op.path) \in Cid \cup {None}
    BY <1>0, <2>2, PartialFacts, SMTT(30) DEF Current, Locals, TypeOK, Tree
  <2>4. Announced(op) \in EventOp
    BY <2>2, <2>3 DEF Announced, EventOp
  <2>5. put \subseteq Block
    BY <2>2, BlockTypes
  <2> HIDE DEF op
  <2>6. w' = [w EXCEPT !.todo = Tail(w.todo), !.cur = Put(w.cur, op.path, op.cid),
                       !.ups = IF op.act = "delete" THEN w.ups ELSE Append(w.ups, <<op.path, op.cid>>),
                       !.dels = IF op.act = "delete" THEN Append(w.dels, op.path) ELSE w.dels,
                       !.ops = Append(w.ops, Announced(op))]
    BY <1>3 DEF ApplyOp, op
  <2>7. Put(w.cur, op.path, op.cid) \in Partial(Path, Cid \cup {None})
    BY <1>0, <2>2, PartialPut DEF Locals
  <2>8. (IF op.act = "delete" THEN w.ups ELSE Append(w.ups, <<op.path, op.cid>>)) \in Seq(Path \X Cid)
    BY <1>0, <2>2 DEF Locals
  <2>9. (IF op.act = "delete" THEN Append(w.dels, op.path) ELSE w.dels) \in Seq(Path)
    BY <1>0, <2>2 DEF Locals
  <2>10. Append(w.ops, Announced(op)) \in Seq(EventOp)
    BY <1>0, <2>4 DEF Locals
  <2>11. w' \in Locals
    BY <1>0, <2>1, <2>6, <2>7, <2>8, <2>9, <2>10 DEF Locals
  <2>12. repo' = [repo EXCEPT !.tree[op.path] = op.cid, !.flushed = FALSE]
         /\ stored' = stored \cup put /\ recorded' = recorded \cup put
    BY <1>3 DEF ApplyOp, op
  <2>13. repo' \in [open : BOOLEAN, tree : Tree, flushed : BOOLEAN, rev : 0..MaxRev, data : Tree]
    BY <1>0, <2>2, <2>12 DEF TypeOK, Tree
  <2> HIDE DEF put
  <2> QED
    BY <1>0, <1>3, <2>5, <2>11, <2>12, <2>13 DEF ApplyOp, TypeOK, tables, ghosts
<1>4. CASE RejectOp
  BY <1>0, <1>4 DEF RejectOp, TypeOK, tables, ghosts
<1>19. CASE PutRefused
  <2>1. Head(w.todo) \in Op
    BY <1>0, <1>19 DEF PutRefused, Locals
  <2>2. RecordBlock(Head(w.todo).cid) \in Block
    BY <1>19, <2>1, BlockTypes DEF PutRefused, Op
  <2> QED
    BY <1>0, <1>19, <2>2 DEF PutRefused, TypeOK, tables, ghosts
<1>5. CASE OpsDone
  BY <1>0, <1>5 DEF OpsDone, TypeOK, tables, ghosts
<1>6. CASE Sign
  <2> DEFINE rev == clock + 1
             put == {CommitBlock(rev)} \cup (IF repo.flushed THEN {} ELSE {TreeBlock(repo.tree)})
  <2>1. rev \in Rev /\ rev \in 0..MaxRev
    BY <1>0, <1>6, RepoAssumption DEF Sign, TypeOK, Revisions, Rev
  <2>2. put \subseteq Block
    BY <1>0, <2>1, BlockTypes DEF TypeOK
  <2>3. w' = [w EXCEPT !.rev = rev, !.since = repo.rev, !.prevData = repo.data]
        /\ repo' = [repo EXCEPT !.flushed = TRUE, !.rev = rev, !.data = repo.tree]
        /\ stored' = stored \cup put /\ recorded' = recorded \cup put /\ clock' = rev
    BY <1>6 DEF Sign
  <2> HIDE DEF rev, put
  <2>4. w' \in Locals
    BY <1>0, <2>1, <2>3 DEF Locals, TypeOK
  <2>5. repo' \in [open : BOOLEAN, tree : Tree, flushed : BOOLEAN, rev : 0..MaxRev, data : Tree]
    BY <1>0, <2>1, <2>3 DEF TypeOK
  <2> QED
    BY <1>0, <1>6, <2>1, <2>2, <2>3, <2>4, <2>5 DEF Sign, TypeOK, tables, ghosts
<1>7. CASE InsertCommit
  <2>1. w.rev \in Rev /\ repo.data \in Tree
    BY <1>0, <1>7, RepoAssumption DEF InsertCommit, TypeOK, Revisions, Committing, Locals, Rev
  <2>2. w' \in Locals
    BY <1>0, <1>7 DEF InsertCommit, TypeOK, Locals
  <2>3. commits' \in Partial(Rev, Tree) /\ history' \in Partial(Rev, Tree)
    BY <1>0, <1>7, <2>1, PartialPut DEF InsertCommit, TypeOK
  <2> QED
    BY <1>0, <1>7, <2>2, <2>3 DEF InsertCommit, TypeOK
<1>8. CASE PersistBlockRev
  <2>1. PICK b \in w.blocks : blockRev' = Put(blockRev, b, w.rev) /\ w' = [w EXCEPT !.blocks = @ \ {b}]
    BY <1>8 DEF PersistBlockRev
  <2>2. w.rev \in Rev /\ b \in Block
    BY <1>0, <1>8, PartialFacts DEF PersistBlockRev, TypeOK, Revisions, Committing, Locals
  <2>3. DOMAIN blockRev' \subseteq Block /\ blockRev' \in [DOMAIN blockRev' -> Rev]
    BY <1>0, <2>1, <2>2 DEF TypeOK, Put
  <2>4. w' \in Locals
    BY <1>0, <2>1 DEF Locals
  <2> QED
    BY <1>0, <1>8, <2>3, <2>4 DEF PersistBlockRev, TypeOK, ghosts
<1>9. CASE BlockRevsDone
  BY <1>0, <1>9 DEF BlockRevsDone, TypeOK, tables, ghosts
<1>10. CASE UpsertRecord
  <2>1. Head(w.ups) \in Path \X Cid /\ Tail(w.ups) \in Seq(Path \X Cid)
    BY <1>0, <1>10 DEF UpsertRecord, Locals
  <2>2. w' \in Locals
    BY <1>0, <1>10, <2>1 DEF UpsertRecord, Locals
  <2>3. index' \in Tree
    BY <1>0, <1>10, <2>1 DEF UpsertRecord, TypeOK, Tree
  <2> QED
    BY <1>0, <1>10, <2>2, <2>3 DEF UpsertRecord, TypeOK, ghosts
<1>11. CASE DeleteIndexRow
  <2>1. Head(w.dels) \in Path /\ Tail(w.dels) \in Seq(Path)
    BY <1>0, <1>11 DEF DeleteIndexRow, Locals
  <2>2. w' \in Locals
    BY <1>0, <1>11, <2>1 DEF DeleteIndexRow, Locals
  <2>3. index' \in Tree
    BY <1>0, <1>11, <2>1 DEF DeleteIndexRow, TypeOK, Tree
  <2> QED
    BY <1>0, <1>11, <2>2, <2>3 DEF DeleteIndexRow, TypeOK, ghosts
<1>12. CASE EmitCommit
  <2> DEFINE e == [rev |-> w.rev, since |-> w.since, prevData |-> w.prevData, data |-> repo.data,
                   root |-> HeadRev, ops |-> w.ops, blocks |-> RepoCids(w.since)]
  <2>1. w.rev \in Rev /\ w.rev \in DOMAIN commits
    BY <1>0, <1>12, PartialFacts DEF EmitCommit, IInv, TypeOK, Revisions, OneTree, Committing
  <2>2. HeadRev \in Rev
    BY <1>0, <2>1, HeadType
  <2>3. RepoCids(w.since) \subseteq Block
    BY <1>0 DEF RepoCids, TypeOK
  <2>4. e \in Event
    BY <1>0, <2>1, <2>2, <2>3 DEF Event, Locals, TypeOK
  <2>5. events' = Append(events, e)
    BY <1>12 DEF EmitCommit
  <2> HIDE DEF e
  <2>6. events' \in Seq(Event)
    BY <1>0, <2>4, <2>5 DEF TypeOK
  <2>7. acked' \in 0..MaxRev
    BY <1>0, <1>12 DEF EmitCommit, Locals
  <2> QED
    BY <1>0, <1>12, <2>6, <2>7 DEF EmitCommit, TypeOK, tables
<1>13. CASE Import
  <2>1. PICK rev \in Rev, tree \in Tree :
          /\ UNCHANGED clock \/ clock' = rev
          /\ stored' = stored \cup Blocks(rev, tree)
          /\ commits' = [r \in {rev} |-> tree]
          /\ history' = Put(history, rev, tree)
          /\ index' = tree
          /\ blockRev' = [b \in Blocks(rev, tree) |-> rev]
    BY <1>13 DEF Import
  <2>2. clock' \in 0..MaxRev
    BY <1>0, <2>1, RepoAssumption DEF TypeOK, Rev
  <2>3. commits' \in Partial(Rev, Tree) /\ history' \in Partial(Rev, Tree)
    BY <1>0, <2>1, PartialPut, PartialSingle DEF TypeOK
  <2>4. Blocks(rev, tree) \subseteq Block
    BY BlockTypes
  <2>5. reader' \in [at : {"none", "head"}, rev : 0..MaxRev, settled : BOOLEAN]
    BY <1>0, <1>13 DEF Import, TypeOK
  <2> QED
    BY <1>0, <1>a, <1>13, <2>1, <2>2, <2>3, <2>4, <2>5 DEF Import, TypeOK
<1>14. CASE ReadHead \/ ReadCids
  <2>1. reader' \in [at : {"none", "head"}, rev : 0..MaxRev, settled : BOOLEAN]
    <3>1. CASE ReadHead
      <4>1. (pc # "blocks") \in BOOLEAN
        OBVIOUS
      <4>2. reader' = [at |-> "head", rev |-> HeadRev, settled |-> (pc # "blocks")]
        BY <3>1 DEF ReadHead
      <4>3. HeadRev \in 0..MaxRev
        BY <1>0, HeadType
      <4> QED
        BY <4>1, <4>2, <4>3
    <3>2. CASE ReadCids
      <4>1. 0 \in 0..MaxRev
        BY RepoAssumption
      <4> QED
        BY <3>2, <4>1 DEF ReadCids, NoReader
    <3> QED
      BY <1>14, <3>1, <3>2
  <2> QED
    BY <1>0, <1>14, <2>1 DEF ReadHead, ReadCids, TypeOK, tables, ghosts
<1>15. CASE StatementFails
  BY <1>0, <1>15 DEF StatementFails, TypeOK, tables, ghosts
<1>16. CASE SignFails
  BY <1>0, <1>16, BlockTypes DEF SignFails, TypeOK, tables, ghosts
<1>17. CASE Crash
  BY <1>0, <1>a, <1>17, RepoAssumption DEF Crash, NoReader, TypeOK, tables, ghosts
<1>18. CASE UNCHANGED vars
  BY <1>0, <1>18 DEF vars, tables, ghosts, TypeOK
<1> QED
  BY <1>1, <1>2, <1>3, <1>4, <1>5, <1>6, <1>7, <1>8, <1>9, <1>10, <1>11, <1>12, <1>13,
     <1>14, <1>15, <1>16, <1>17, <1>18, <1>19 DEF Next, Fault, Write

-----------------------------------------------------------------------------
(***************************************************************************)
(* The invariant.                                                          *)
(***************************************************************************)
LEMMA InitIInv == Init => IInv
<1> SUFFICES ASSUME Init PROVE IInv
  OBVIOUS
<1>1. <<>> \in Seq(Event) /\ DOMAIN <<>> = {} /\ Idle \in Locals /\ Empty \in Tree
      /\ 0 \in 0..MaxRev
  BY IdleType, BlockTypes, RepoAssumption
<1>2. TypeOK
  <2>1. commits \in Partial(Rev, Tree) /\ history \in Partial(Rev, Tree)
    BY PartialEmpty DEF Init
  <2>2. DOMAIN blockRev \subseteq Block /\ blockRev \in [DOMAIN blockRev -> Rev]
    BY DEF Init
  <2> QED
    BY <1>1, <2>1, <2>2, IdleType DEF Init, TypeOK, Closed, NoReader
<1>3. DOMAIN commits = {} /\ DOMAIN history = {} /\ DOMAIN events = {} /\ DOMAIN w.ups = {}
  BY <1>1 DEF Init, Idle
<1>4. Revisions /\ OneTree /\ HandleAhead /\ EventsBehind
  BY <1>3 DEF Init, Revisions, OneTree, HandleAhead, EventsBehind, Committing, Closed
<1>5. StoredFirst
  BY <1>3 DEF Init, StoredFirst, RecordsStored, Closed, Empty
<1> QED
  BY <1>2, <1>3, <1>4, <1>5 DEF Init, IInv, AckedIsKept, EventOrder

\* What the invariant says of the head, and of a handle opened from it.
LEMMA OpenedFacts ==
  ASSUME IInv
  PROVE  /\ Opened.open
         /\ \A r \in DOMAIN commits : r <= Opened.rev
         /\ Opened.rev \in Int /\ Opened.rev <= clock
         /\ Opened.rev \in DOMAIN history => Opened.data = history[Opened.rev]
         /\ RecordsStored(Opened.tree)
         /\ Opened.flushed => TreeBlock(Opened.tree) \in stored
<1>0. TypeOK /\ Revisions /\ OneTree /\ HandleAhead /\ StoredFirst
  BY DEF IInv
<1>1. CASE repo.open
  BY <1>0, <1>1 DEF Opened, TypeOK, Revisions, OneTree, HandleAhead, StoredFirst
<1>2. CASE ~repo.open /\ DOMAIN commits = {}
  <2>1. DOMAIN history \subseteq Rev
    BY <1>0, PartialFacts DEF TypeOK
  <2>2. 0 \notin DOMAIN history
    BY <2>1 DEF Rev
  <2> QED
    BY <1>0, <1>2, <2>2 DEF Opened, HeadRev, HeadTree, RecordsStored, Empty, TypeOK
<1>3. CASE ~repo.open /\ DOMAIN commits # {}
  <2>1. DOMAIN commits \subseteq Rev
    BY <1>0, PartialFacts DEF TypeOK
  <2>2. HeadRev \in DOMAIN commits /\ HeadTree = commits[HeadRev]
        /\ \A r \in DOMAIN commits : r <= HeadRev
    BY <1>3, <2>1, HeadFacts
  <2>3. HeadRev \in DOMAIN history /\ HeadTree = history[HeadRev]
    BY <1>0, <2>2 DEF OneTree
  <2>4. Blocks(HeadRev, HeadTree) \subseteq stored
    BY <1>0, <2>3 DEF StoredFirst
  <2>5. HeadRev \in Int /\ HeadRev <= clock
    BY <1>0, <2>1, <2>2, <2>3 DEF Revisions, Rev
  <2>6. Opened.rev = HeadRev /\ Opened.data = HeadTree /\ Opened.tree = HeadTree /\ Opened.open
    BY <1>3 DEF Opened
  <2> QED
    BY <2>2, <2>3, <2>4, <2>5, <2>6 DEF RecordsStored, Blocks
<1> QED
  BY <1>1, <1>2, <1>3

LEMMA ApplyWritesStep ==
  ASSUME IInv, TypeOK', NEW ops, ApplyWrites(ops)
  PROVE  IInv'
<1>0. /\ TypeOK /\ Revisions /\ OneTree /\ HandleAhead /\ EventsBehind /\ StoredFirst
      /\ AckedIsKept /\ EventOrder /\ w \in Locals
  BY DEF IInv, TypeOK
<1>a. /\ Opened.open
      /\ \A r \in DOMAIN commits : r <= Opened.rev
      /\ Opened.rev \in Int /\ Opened.rev <= clock
      /\ Opened.rev \in DOMAIN history => Opened.data = history[Opened.rev]
      /\ RecordsStored(Opened.tree)
      /\ Opened.flushed => TreeBlock(Opened.tree) \in stored
  BY OpenedFacts
<1>b. /\ w'.ups = <<>> /\ DOMAIN w'.ups = {}
      /\ repo' = Opened /\ pc' \in {"ops", "sign"} /\ clock < MaxRev
      /\ UNCHANGED <<tables, stored, events, clock, ghosts>>
  BY DEF ApplyWrites, Idle
<1> HIDE DEF Opened
<1>1. Revisions'
  BY <1>0, <1>a, <1>b DEF Revisions, Committing, tables, ghosts
<1>2. OneTree'
  BY <1>0, <1>a, <1>b DEF OneTree, Committing, tables, ghosts
<1>3. HandleAhead'
  BY <1>0, <1>a, <1>b DEF HandleAhead, Committing, tables
<1>4. EventsBehind'
  BY <1>0 DEF ApplyWrites, EventsBehind, TypeOK, Locals, tables, ghosts, Committing
<1>5. StoredFirst'
  BY <1>0, <1>a, <1>b DEF StoredFirst, RecordsStored, tables, ghosts
<1>6. AckedIsKept'
  BY <1>0 DEF ApplyWrites, AckedIsKept, TypeOK, Locals, tables, ghosts
<1>7. EventOrder'
  BY <1>0 DEF ApplyWrites, EventOrder, TypeOK, Locals, tables, ghosts
<1> QED
  BY <1>1, <1>2, <1>3, <1>4, <1>5, <1>6, <1>7 DEF IInv

LEMMA CreateAccountStep ==
  ASSUME IInv, TypeOK', CreateAccount
  PROVE  IInv'
<1>0. /\ TypeOK /\ Revisions /\ OneTree /\ HandleAhead /\ EventsBehind /\ StoredFirst
      /\ AckedIsKept /\ EventOrder /\ w \in Locals
  BY DEF IInv, TypeOK
<1>a. /\ Opened.open
      /\ \A r \in DOMAIN commits : r <= Opened.rev
      /\ Opened.rev \in Int /\ Opened.rev <= clock
      /\ Opened.rev \in DOMAIN history => Opened.data = history[Opened.rev]
      /\ RecordsStored(Opened.tree)
      /\ Opened.flushed => TreeBlock(Opened.tree) \in stored
  BY OpenedFacts
<1>b. /\ w'.ups = <<>> /\ DOMAIN w'.ups = {}
      /\ repo' = Opened /\ pc' \in {"ops", "sign"} /\ clock < MaxRev
      /\ UNCHANGED <<tables, stored, events, clock, ghosts>>
  BY DEF CreateAccount, Idle
<1> HIDE DEF Opened
<1>1. Revisions'
  BY <1>0, <1>a, <1>b DEF Revisions, Committing, tables, ghosts
<1>2. OneTree'
  BY <1>0, <1>a, <1>b DEF OneTree, Committing, tables, ghosts
<1>3. HandleAhead'
  BY <1>0, <1>a, <1>b DEF HandleAhead, Committing, tables
<1>4. EventsBehind'
  BY <1>0 DEF CreateAccount, EventsBehind, TypeOK, Locals, tables, ghosts, Committing
<1>5. StoredFirst'
  BY <1>0, <1>a, <1>b DEF StoredFirst, RecordsStored, tables, ghosts
<1>6. AckedIsKept'
  BY <1>0 DEF CreateAccount, AckedIsKept, TypeOK, Locals, tables, ghosts
<1>7. EventOrder'
  BY <1>0 DEF CreateAccount, EventOrder, TypeOK, Locals, tables, ghosts
<1> QED
  BY <1>1, <1>2, <1>3, <1>4, <1>5, <1>6, <1>7 DEF IInv

LEMMA ApplyOpStep ==
  ASSUME IInv, TypeOK', ApplyOp
  PROVE  IInv'
<1>0. /\ TypeOK /\ Revisions /\ OneTree /\ HandleAhead /\ EventsBehind /\ StoredFirst
      /\ AckedIsKept /\ EventOrder /\ w \in Locals
  BY DEF IInv, TypeOK
<1>1. Revisions'
  BY <1>0 DEF ApplyOp, Revisions, TypeOK, Locals, tables, ghosts, Committing, Idle, Closed
<1>2. OneTree'
  BY <1>0 DEF ApplyOp, OneTree, TypeOK, Locals, tables, ghosts, Committing, Idle, Closed
<1>3. HandleAhead'
  BY <1>0 DEF ApplyOp, HandleAhead, TypeOK, Locals, tables, ghosts, Committing, Idle, Closed
<1>4. EventsBehind'
  BY <1>0 DEF ApplyOp, EventsBehind, TypeOK, Locals, tables, ghosts, Committing
<1>5. StoredFirst'
  <2> DEFINE op == Head(w.todo)
             put == IF op.act = "delete" THEN {} ELSE {RecordBlock(op.cid)}
  <2>1. op \in Op
    BY <1>0 DEF ApplyOp, Locals
  <2>2. op.path \in Path /\ (op.act = "delete" => op.cid = None)
    BY <2>1 DEF Op
  <2>3. /\ repo' = [repo EXCEPT !.tree[op.path] = op.cid, !.flushed = FALSE]
        /\ w'.ups = IF op.act = "delete" THEN w.ups ELSE Append(w.ups, <<op.path, op.cid>>)
        /\ stored' = stored \cup put
        /\ pc' = "ops" /\ UNCHANGED <<index, history>>
    BY <1>0 DEF ApplyOp, tables, ghosts, Locals
  <2> HIDE DEF op
  <2>4. RecordsStored(repo.tree)'
    <3> SUFFICES ASSUME NEW p \in Path, repo'.tree[p] # None
                 PROVE  RecordBlock(repo'.tree[p]) \in stored'
      BY DEF RecordsStored
    <3>1. repo'.tree[p] = IF p = op.path THEN op.cid ELSE repo.tree[p]
      BY <1>0, <2>2, <2>3 DEF TypeOK, Tree
    <3> QED
      BY <1>0, <2>2, <2>3, <3>1 DEF StoredFirst, RecordsStored
  <2>5. \A i \in DOMAIN w'.ups : RecordBlock(w'.ups[i][2]) \in stored'
    <3>1. CASE op.act = "delete"
      BY <1>0, <2>3, <3>1 DEF StoredFirst
    <3>2. CASE op.act # "delete"
      <4>1. /\ w.ups \in Seq(Path \X Cid) /\ <<op.path, op.cid>> \in Path \X Cid
        BY <1>0, <2>1, <3>2 DEF Locals, Op
      <4>2. /\ Len(w'.ups) = Len(w.ups) + 1 /\ DOMAIN w'.ups = 1..Len(w'.ups)
            /\ DOMAIN w.ups = 1..Len(w.ups) /\ Len(w.ups) \in Nat
            /\ \A i \in 1..Len(w.ups) : w'.ups[i] = w.ups[i]
            /\ w'.ups[Len(w.ups) + 1] = <<op.path, op.cid>>
        BY <2>3, <3>2, <4>1
      <4>3. \A i \in DOMAIN w.ups : RecordBlock(w.ups[i][2]) \in stored'
        BY <1>0, <2>3 DEF StoredFirst
      <4>4. RecordBlock(op.cid) \in stored'
        BY <2>3, <3>2
      <4> QED
        BY <4>2, <4>3, <4>4
    <3> QED
      BY <3>1, <3>2
  <2>6. repo'.flushed = FALSE
    BY <1>0, <2>3 DEF TypeOK
  <2> HIDE DEF put
  <2> QED
    BY <1>0, <2>3, <2>4, <2>5, <2>6 DEF StoredFirst, RecordsStored
<1>6. AckedIsKept'
  BY <1>0 DEF ApplyOp, AckedIsKept, TypeOK, Locals, tables, ghosts
<1>7. EventOrder'
  BY <1>0 DEF ApplyOp, EventOrder, TypeOK, Locals, tables, ghosts
<1> QED
  BY <1>1, <1>2, <1>3, <1>4, <1>5, <1>6, <1>7 DEF IInv

LEMMA RejectOpStep ==
  ASSUME IInv, TypeOK', RejectOp
  PROVE  IInv'
<1>0. /\ TypeOK /\ Revisions /\ OneTree /\ HandleAhead /\ EventsBehind /\ StoredFirst
      /\ AckedIsKept /\ EventOrder /\ w \in Locals
  BY DEF IInv, TypeOK
<1>1. Revisions'
  BY <1>0 DEF RejectOp, Revisions, TypeOK, Locals, tables, ghosts, Committing, Idle, Closed
<1>2. OneTree'
  BY <1>0 DEF RejectOp, OneTree, TypeOK, Locals, tables, ghosts, Committing, Idle, Closed
<1>3. HandleAhead'
  BY <1>0 DEF RejectOp, HandleAhead, TypeOK, Locals, tables, ghosts, Committing, Idle, Closed
<1>4. EventsBehind'
  BY <1>0 DEF RejectOp, EventsBehind, TypeOK, Locals, tables, ghosts, Committing
<1>5. StoredFirst'
  BY <1>0 DEF RejectOp, StoredFirst, TypeOK, Locals, tables, ghosts, RecordsStored, Idle, Closed, Empty
<1>6. AckedIsKept'
  BY <1>0 DEF RejectOp, AckedIsKept, TypeOK, Locals, tables, ghosts
<1>7. EventOrder'
  BY <1>0 DEF RejectOp, EventOrder, TypeOK, Locals, tables, ghosts
<1> QED
  BY <1>1, <1>2, <1>3, <1>4, <1>5, <1>6, <1>7 DEF IInv

LEMMA PutRefusedStep ==
  ASSUME IInv, TypeOK', PutRefused
  PROVE  IInv'
<1>0. /\ TypeOK /\ Revisions /\ OneTree /\ HandleAhead /\ EventsBehind /\ StoredFirst
      /\ AckedIsKept /\ EventOrder /\ w \in Locals
  BY DEF IInv, TypeOK
<1>1. Revisions'
  BY <1>0 DEF PutRefused, Revisions, TypeOK, Locals, tables, ghosts, Committing, Idle, Closed
<1>2. OneTree'
  BY <1>0 DEF PutRefused, OneTree, TypeOK, Locals, tables, ghosts, Committing, Idle, Closed
<1>3. HandleAhead'
  BY <1>0 DEF PutRefused, HandleAhead, TypeOK, Locals, tables, ghosts, Committing, Idle, Closed
<1>4. EventsBehind'
  BY <1>0 DEF PutRefused, EventsBehind, TypeOK, Locals, tables, ghosts, Committing
<1>5. StoredFirst'
  BY <1>0 DEF PutRefused, StoredFirst, TypeOK, Locals, tables, ghosts, RecordsStored, Idle, Closed, Empty
<1>6. AckedIsKept'
  BY <1>0 DEF PutRefused, AckedIsKept, TypeOK, Locals, tables, ghosts
<1>7. EventOrder'
  BY <1>0 DEF PutRefused, EventOrder, TypeOK, Locals, tables, ghosts
<1> QED
  BY <1>1, <1>2, <1>3, <1>4, <1>5, <1>6, <1>7 DEF IInv

LEMMA OpsDoneStep ==
  ASSUME IInv, TypeOK', OpsDone
  PROVE  IInv'
<1>0. /\ TypeOK /\ Revisions /\ OneTree /\ HandleAhead /\ EventsBehind /\ StoredFirst
      /\ AckedIsKept /\ EventOrder /\ w \in Locals
  BY DEF IInv, TypeOK
<1>1. Revisions'
  BY <1>0 DEF OpsDone, Revisions, TypeOK, Locals, tables, ghosts, Committing, Idle, Closed
<1>2. OneTree'
  BY <1>0 DEF OpsDone, OneTree, TypeOK, Locals, tables, ghosts, Committing, Idle, Closed
<1>3. HandleAhead'
  BY <1>0 DEF OpsDone, HandleAhead, TypeOK, Locals, tables, ghosts, Committing, Idle, Closed
<1>4. EventsBehind'
  BY <1>0 DEF OpsDone, EventsBehind, TypeOK, Locals, tables, ghosts, Committing
<1>5. StoredFirst'
  BY <1>0 DEF OpsDone, StoredFirst, TypeOK, Locals, tables, ghosts, RecordsStored, Idle, Closed, Empty
<1>6. AckedIsKept'
  BY <1>0 DEF OpsDone, AckedIsKept, TypeOK, Locals, tables, ghosts
<1>7. EventOrder'
  BY <1>0 DEF OpsDone, EventOrder, TypeOK, Locals, tables, ghosts
<1> QED
  BY <1>1, <1>2, <1>3, <1>4, <1>5, <1>6, <1>7 DEF IInv

LEMMA SignStep ==
  ASSUME IInv, TypeOK', Sign
  PROVE  IInv'
<1>0. /\ TypeOK /\ Revisions /\ OneTree /\ HandleAhead /\ EventsBehind /\ StoredFirst
      /\ AckedIsKept /\ EventOrder /\ w \in Locals
  BY DEF IInv, TypeOK
<1> DEFINE rev == clock + 1
           put == {CommitBlock(rev)} \cup (IF repo.flushed THEN {} ELSE {TreeBlock(repo.tree)})
<1>a. /\ pc = "sign" /\ pc' = "insert" /\ clock' = rev
      /\ w'.rev = rev /\ w'.since = repo.rev /\ w'.prevData = repo.data /\ w'.ups = w.ups
      /\ repo'.open = repo.open /\ repo'.flushed /\ repo'.rev = rev
      /\ repo'.data = repo.tree /\ repo'.tree = repo.tree
      /\ stored' = stored \cup put
      /\ UNCHANGED <<tables, events, ghosts>>
  BY <1>0 DEF Sign, TypeOK, Locals
<1>b. /\ clock \in Nat /\ rev \in Int /\ rev > clock /\ repo.rev \in Int
      /\ \A r \in DOMAIN history : r \in Int /\ r < rev
      /\ rev \notin DOMAIN history
  <2>1. DOMAIN history \subseteq Rev
    BY <1>0, PartialFacts DEF TypeOK
  <2> QED
    BY <1>0, <2>1, RepoAssumption DEF TypeOK, Revisions, Rev
<1> HIDE DEF rev
<1>1. Revisions'
  BY <1>0, <1>a, <1>b DEF Revisions, Committing, ghosts, rev
<1>2. OneTree'
  BY <1>0, <1>a, <1>b DEF OneTree, Committing, tables, ghosts
<1>3. HandleAhead'
  <2>1. \A r \in DOMAIN commits : r <= repo.rev /\ r \in Int
    BY <1>0, <1>a, <1>b DEF HandleAhead, OneTree
  <2>2. repo.rev < rev
    BY <1>0, <1>b DEF Revisions, rev
  <2> QED
    BY <1>0, <1>a, <1>b, <2>1, <2>2 DEF HandleAhead, Committing, tables
<1>4. EventsBehind'
  BY <1>0, <1>a, <1>b DEF EventsBehind, OneTree
<1>5. StoredFirst'
  <2>1. \A p \in Path : repo.tree[p] # None => RecordBlock(repo.tree[p]) \in stored
    BY <1>0 DEF StoredFirst, RecordsStored
  <2>2. TreeBlock(repo.tree) \in stored' /\ CommitBlock(rev) \in stored'
    BY <1>0, <1>a DEF StoredFirst
  <2>3. Blocks(rev, repo.tree) \subseteq stored'
    BY <1>a, <2>1, <2>2 DEF Blocks
  <2> HIDE DEF put
  <2> QED
    BY <1>0, <1>a, <2>1, <2>2, <2>3 DEF StoredFirst, RecordsStored, tables, ghosts
<1>6. AckedIsKept'
  BY <1>0 DEF Sign, AckedIsKept, TypeOK, Locals, tables, ghosts
<1>7. EventOrder'
  BY <1>0 DEF Sign, EventOrder, TypeOK, Locals, tables, ghosts
<1> QED
  BY <1>1, <1>2, <1>3, <1>4, <1>5, <1>6, <1>7 DEF IInv

LEMMA InsertCommitStep ==
  ASSUME IInv, TypeOK', InsertCommit
  PROVE  IInv'
<1>0. /\ TypeOK /\ Revisions /\ OneTree /\ HandleAhead /\ EventsBehind /\ StoredFirst
      /\ AckedIsKept /\ EventOrder /\ w \in Locals
  BY DEF IInv, TypeOK
<1>a. /\ pc = "insert" /\ pc' = "blocks"
      /\ commits' = Put(commits, w.rev, repo.data)
      /\ history' = Put(history, w.rev, repo.data)
      /\ w'.rev = w.rev /\ w'.since = w.since /\ w'.prevData = w.prevData /\ w'.ups = w.ups
      /\ UNCHANGED <<stored, index, events, clock, repo, acked>>
  BY <1>0 DEF InsertCommit, Locals
<1>b. /\ DOMAIN commits' = DOMAIN commits \cup {w.rev} /\ commits'[w.rev] = repo.data
      /\ DOMAIN history' = DOMAIN history \cup {w.rev} /\ history'[w.rev] = repo.data
      /\ \A r \in DOMAIN commits : r # w.rev => commits'[r] = commits[r]
      /\ \A r \in DOMAIN history : r # w.rev => history'[r] = history[r]
  <2>1. /\ DOMAIN commits' = DOMAIN commits \cup {w.rev} /\ commits'[w.rev] = repo.data
        /\ \A r \in DOMAIN commits : r # w.rev => commits'[r] = commits[r]
    <3>1. commits' = Put(commits, w.rev, repo.data)
      BY <1>a
    <3> QED
      BY <3>1 DEF Put
  <2>2. /\ DOMAIN history' = DOMAIN history \cup {w.rev} /\ history'[w.rev] = repo.data
        /\ \A r \in DOMAIN history : r # w.rev => history'[r] = history[r]
    <3>1. history' = Put(history, w.rev, repo.data)
      BY <1>a
    <3> QED
      BY <3>1 DEF Put
  <2> QED
    BY <2>1, <2>2
<1>c. /\ w.rev = clock /\ repo.rev = w.rev /\ w.since < w.rev /\ w.rev \notin DOMAIN history
      /\ w.rev \in Int /\ w.since \in Int
  BY <1>0, <1>a DEF Revisions, Committing, Locals
<1>1. Revisions'
  BY <1>0, <1>a, <1>b, <1>c DEF Revisions, Committing
<1>2. OneTree'
  BY <1>0, <1>a, <1>b, <1>c DEF OneTree, Committing
<1>3. HandleAhead'
  BY <1>0, <1>a, <1>b, <1>c DEF HandleAhead, Committing
<1>4. EventsBehind'
  BY <1>0 DEF InsertCommit, EventsBehind, TypeOK, Locals, tables, ghosts, Committing
<1>5. StoredFirst'
  BY <1>0, <1>a, <1>b, <1>c DEF StoredFirst, RecordsStored
<1>6. AckedIsKept'
  BY <1>0, <1>a, <1>b DEF AckedIsKept
<1>7. EventOrder'
  BY <1>0 DEF InsertCommit, EventOrder, TypeOK, Locals, tables, ghosts
<1> QED
  BY <1>1, <1>2, <1>3, <1>4, <1>5, <1>6, <1>7 DEF IInv

LEMMA PersistBlockRevStep ==
  ASSUME IInv, TypeOK', PersistBlockRev
  PROVE  IInv'
<1>0. /\ TypeOK /\ Revisions /\ OneTree /\ HandleAhead /\ EventsBehind /\ StoredFirst
      /\ AckedIsKept /\ EventOrder /\ w \in Locals
  BY DEF IInv, TypeOK
<1>1. Revisions'
  BY <1>0 DEF PersistBlockRev, Revisions, TypeOK, Locals, tables, ghosts, Committing, Idle, Closed
<1>2. OneTree'
  BY <1>0 DEF PersistBlockRev, OneTree, TypeOK, Locals, tables, ghosts, Committing, Idle, Closed
<1>3. HandleAhead'
  BY <1>0 DEF PersistBlockRev, HandleAhead, TypeOK, Locals, tables, ghosts, Committing, Idle, Closed
<1>4. EventsBehind'
  BY <1>0 DEF PersistBlockRev, EventsBehind, TypeOK, Locals, tables, ghosts, Committing
<1>5. StoredFirst'
  BY <1>0 DEF PersistBlockRev, StoredFirst, TypeOK, Locals, tables, ghosts, RecordsStored, Idle, Closed, Empty
<1>6. AckedIsKept'
  BY <1>0 DEF PersistBlockRev, AckedIsKept, TypeOK, Locals, tables, ghosts
<1>7. EventOrder'
  BY <1>0 DEF PersistBlockRev, EventOrder, TypeOK, Locals, tables, ghosts
<1> QED
  BY <1>1, <1>2, <1>3, <1>4, <1>5, <1>6, <1>7 DEF IInv

LEMMA BlockRevsDoneStep ==
  ASSUME IInv, TypeOK', BlockRevsDone
  PROVE  IInv'
<1>0. /\ TypeOK /\ Revisions /\ OneTree /\ HandleAhead /\ EventsBehind /\ StoredFirst
      /\ AckedIsKept /\ EventOrder /\ w \in Locals
  BY DEF IInv, TypeOK
<1>1. Revisions'
  BY <1>0 DEF BlockRevsDone, Revisions, TypeOK, Locals, tables, ghosts, Committing, Idle, Closed
<1>2. OneTree'
  BY <1>0 DEF BlockRevsDone, OneTree, TypeOK, Locals, tables, ghosts, Committing, Idle, Closed
<1>3. HandleAhead'
  BY <1>0 DEF BlockRevsDone, HandleAhead, TypeOK, Locals, tables, ghosts, Committing, Idle, Closed
<1>4. EventsBehind'
  BY <1>0 DEF BlockRevsDone, EventsBehind, TypeOK, Locals, tables, ghosts, Committing
<1>5. StoredFirst'
  BY <1>0 DEF BlockRevsDone, StoredFirst, TypeOK, Locals, tables, ghosts, RecordsStored, Idle, Closed, Empty
<1>6. AckedIsKept'
  BY <1>0 DEF BlockRevsDone, AckedIsKept, TypeOK, Locals, tables, ghosts
<1>7. EventOrder'
  BY <1>0 DEF BlockRevsDone, EventOrder, TypeOK, Locals, tables, ghosts
<1> QED
  BY <1>1, <1>2, <1>3, <1>4, <1>5, <1>6, <1>7 DEF IInv

LEMMA UpsertRecordStep ==
  ASSUME IInv, TypeOK', UpsertRecord
  PROVE  IInv'
<1>0. /\ TypeOK /\ Revisions /\ OneTree /\ HandleAhead /\ EventsBehind /\ StoredFirst
      /\ AckedIsKept /\ EventOrder /\ w \in Locals
  BY DEF IInv, TypeOK
<1>1. Revisions'
  BY <1>0 DEF UpsertRecord, Revisions, TypeOK, Locals, tables, ghosts, Committing, Idle, Closed
<1>2. OneTree'
  BY <1>0 DEF UpsertRecord, OneTree, TypeOK, Locals, tables, ghosts, Committing, Idle, Closed
<1>3. HandleAhead'
  BY <1>0 DEF UpsertRecord, HandleAhead, TypeOK, Locals, tables, ghosts, Committing, Idle, Closed
<1>4. EventsBehind'
  BY <1>0 DEF UpsertRecord, EventsBehind, TypeOK, Locals, tables, ghosts, Committing
<1>5. StoredFirst'
  <2> DEFINE u == Head(w.ups)
  <2>1. w.ups \in Seq(Path \X Cid) /\ w.ups # <<>>
    BY <1>0 DEF UpsertRecord, Locals
  <2>2. /\ u = w.ups[1] /\ u \in Path \X Cid /\ 1 \in DOMAIN w.ups
        /\ \A i \in DOMAIN Tail(w.ups) : i + 1 \in DOMAIN w.ups /\ Tail(w.ups)[i] = w.ups[i+1]
    BY <2>1
  <2>3. /\ index' = [index EXCEPT ![u[1]] = u[2]] /\ w'.ups = Tail(w.ups)
        /\ UNCHANGED <<stored, history, repo, pc>> /\ pc = "index"
    BY <1>0 DEF UpsertRecord, Locals, ghosts
  <2> HIDE DEF u
  <2>4. RecordsStored(index)'
    BY <1>0, <2>2, <2>3 DEF StoredFirst, RecordsStored, TypeOK, Tree
  <2>5. \A i \in DOMAIN w'.ups : RecordBlock(w'.ups[i][2]) \in stored
    BY <1>0, <2>2, <2>3 DEF StoredFirst
  <2> QED
    BY <1>0, <2>3, <2>4, <2>5 DEF StoredFirst, RecordsStored
<1>6. AckedIsKept'
  BY <1>0 DEF UpsertRecord, AckedIsKept, TypeOK, Locals, tables, ghosts
<1>7. EventOrder'
  BY <1>0 DEF UpsertRecord, EventOrder, TypeOK, Locals, tables, ghosts
<1> QED
  BY <1>1, <1>2, <1>3, <1>4, <1>5, <1>6, <1>7 DEF IInv

LEMMA DeleteIndexRowStep ==
  ASSUME IInv, TypeOK', DeleteIndexRow
  PROVE  IInv'
<1>0. /\ TypeOK /\ Revisions /\ OneTree /\ HandleAhead /\ EventsBehind /\ StoredFirst
      /\ AckedIsKept /\ EventOrder /\ w \in Locals
  BY DEF IInv, TypeOK
<1>1. Revisions'
  BY <1>0 DEF DeleteIndexRow, Revisions, TypeOK, Locals, tables, ghosts, Committing, Idle, Closed
<1>2. OneTree'
  BY <1>0 DEF DeleteIndexRow, OneTree, TypeOK, Locals, tables, ghosts, Committing, Idle, Closed
<1>3. HandleAhead'
  BY <1>0 DEF DeleteIndexRow, HandleAhead, TypeOK, Locals, tables, ghosts, Committing, Idle, Closed
<1>4. EventsBehind'
  BY <1>0 DEF DeleteIndexRow, EventsBehind, TypeOK, Locals, tables, ghosts, Committing
<1>5. StoredFirst'
  BY <1>0, SMTT(30) DEF DeleteIndexRow, StoredFirst, TypeOK, Locals, tables, ghosts, RecordsStored, Idle, Closed, Empty
<1>6. AckedIsKept'
  BY <1>0 DEF DeleteIndexRow, AckedIsKept, TypeOK, Locals, tables, ghosts
<1>7. EventOrder'
  BY <1>0 DEF DeleteIndexRow, EventOrder, TypeOK, Locals, tables, ghosts
<1> QED
  BY <1>1, <1>2, <1>3, <1>4, <1>5, <1>6, <1>7 DEF IInv

LEMMA EmitCommitStep ==
  ASSUME IInv, TypeOK', EmitCommit
  PROVE  IInv'
<1>0. /\ TypeOK /\ Revisions /\ OneTree /\ HandleAhead /\ EventsBehind /\ StoredFirst
      /\ AckedIsKept /\ EventOrder /\ w \in Locals
  BY DEF IInv, TypeOK
<1> DEFINE e == [rev |-> w.rev, since |-> w.since, prevData |-> w.prevData, data |-> repo.data,
                 root |-> HeadRev, ops |-> w.ops, blocks |-> RepoCids(w.since)]
<1>a. /\ pc = "index" /\ pc' = "idle" /\ events' = Append(events, e) /\ acked' = w.rev
      /\ w' = Idle /\ UNCHANGED <<tables, stored, clock, repo, history>>
  BY DEF EmitCommit
<1>b. /\ events \in Seq(Event) /\ Len(events) \in Nat /\ DOMAIN events = 1..Len(events)
      /\ DOMAIN events' = 1..Len(events)+1
      /\ \A i \in 1..Len(events) : events'[i] = events[i]
      /\ events'[Len(events)+1] = e
  <2> HIDE DEF e
  <2>1. events \in Seq(Event)
    BY <1>0 DEF TypeOK
  <2> QED
    BY <1>a, <2>1
<1>c. e.rev = w.rev /\ e.data = repo.data
  OBVIOUS
<1>d. w.rev \in DOMAIN commits /\ w.rev \in DOMAIN history /\ history[w.rev] = repo.data
  BY <1>0, <1>a DEF Revisions, OneTree, Committing
<1> HIDE DEF e
<1>1. Revisions'
  BY <1>0 DEF EmitCommit, Revisions, TypeOK, Locals, tables, ghosts, Committing, Idle, Closed
<1>2. OneTree'
  BY <1>0, <1>a, <1>b, <1>c, <1>d DEF OneTree, Committing, tables
<1>3. HandleAhead'
  BY <1>0 DEF EmitCommit, HandleAhead, TypeOK, Locals, tables, ghosts, Committing, Idle, Closed
<1>4. EventsBehind'
  BY <1>0 DEF EmitCommit, EventsBehind, TypeOK, Locals, tables, ghosts, Committing
<1>5. StoredFirst'
  BY <1>0 DEF EmitCommit, StoredFirst, TypeOK, Locals, tables, ghosts, RecordsStored, Idle, Closed, Empty
<1>6. AckedIsKept'
  BY <1>a, <1>d DEF AckedIsKept
<1>7. EventOrder'
  <2>1. \A i \in 1..Len(events) : events[i].rev < w.rev
    BY <1>0, <1>a, <1>b DEF EventsBehind, Committing
  <2>2. \A i, j \in 1..Len(events) : i < j => events[i].rev < events[j].rev
    BY <1>0, <1>b DEF EventOrder
  <2>3. ASSUME NEW i \in 1..Len(events)+1, NEW j \in 1..Len(events)+1, i < j
        PROVE  events'[i].rev < events'[j].rev
    <3>1. i \in 1..Len(events)
      BY <1>b, <2>3
    <3>2. CASE j \in 1..Len(events)
      BY <1>b, <2>2, <2>3, <3>1, <3>2
    <3>3. CASE j = Len(events) + 1
      BY <1>b, <1>c, <2>1, <3>1, <3>3
    <3> QED
      BY <1>b, <3>2, <3>3
  <2> QED
    BY <1>b, <2>3 DEF EventOrder
<1> QED
  BY <1>1, <1>2, <1>3, <1>4, <1>5, <1>6, <1>7 DEF IInv

LEMMA ImportStep ==
  ASSUME IInv, TypeOK', Import
  PROVE  IInv'
<1>0. /\ TypeOK /\ Revisions /\ OneTree /\ HandleAhead /\ EventsBehind /\ StoredFirst
      /\ AckedIsKept /\ EventOrder /\ w \in Locals
  BY DEF IInv, TypeOK
<1>1a. PICK rev \in Rev, tree \in Tree :
         /\ \/ rev \in DOMAIN history /\ tree = history[rev] /\ UNCHANGED clock
            \/ rev = clock + 1 /\ clock' = rev
         /\ stored' = stored \cup Blocks(rev, tree)
         /\ commits' = [r \in {rev} |-> tree]
         /\ history' = Put(history, rev, tree)
         /\ index' = tree
  BY DEF Import
<1>a. /\ pc = "idle" /\ pc' = "idle" /\ repo' = Closed /\ UNCHANGED <<events, w, acked>>
  BY DEF Import
<1>b. /\ DOMAIN history' = DOMAIN history \cup {rev} /\ history'[rev] = tree
      /\ \A r \in DOMAIN history : history'[r] = history[r]
      /\ DOMAIN commits' = {rev} /\ commits'[rev] = tree
  <2>1. rev = clock + 1 => rev \notin DOMAIN history
    BY <1>0 DEF Revisions, TypeOK
  <2>2. /\ DOMAIN history' = DOMAIN history \cup {rev} /\ history'[rev] = tree
        /\ \A r \in DOMAIN history : r # rev => history'[r] = history[r]
    <3>1. history' = Put(history, rev, tree)
      BY <1>1a
    <3> QED
      BY <3>1 DEF Put
  <2>3. rev \in DOMAIN history => history[rev] = tree
    BY <1>1a, <2>1
  <2>4. commits' = [r \in {rev} |-> tree]
    BY <1>1a
  <2>5. DOMAIN commits' = {rev} /\ commits'[rev] = tree
    BY <2>4
  <2> QED
    BY <2>2, <2>3, <2>5
<1>c. DOMAIN history' \subseteq Rev /\ DOMAIN history \subseteq Rev
  <2>1. DOMAIN history \subseteq Rev
    BY <1>0, PartialFacts DEF TypeOK
  <2> QED
    BY <1>b, <2>1
<1>1. Revisions'
  <2>1. clock \in Nat /\ clock' \in Nat /\ clock <= clock' /\ rev <= clock' /\ rev \in Nat
    BY <1>0, <1>1a, RepoAssumption DEF TypeOK, Revisions, Rev
  <2>2. \A r \in DOMAIN history : r <= clock /\ r \in Nat
    BY <1>0, <1>c DEF Revisions, Rev
  <2> QED
    BY <1>a, <1>b, <2>1, <2>2 DEF Revisions, Committing, Closed
<1>2. OneTree'
  <2>1. 0 \notin DOMAIN history'
    BY <1>c DEF Rev
  <2> QED
    BY <1>0, <1>a, <1>b, <2>1 DEF OneTree, Committing, Closed
<1>3. HandleAhead'
  BY <1>0 DEF Import, HandleAhead, TypeOK, Locals, tables, ghosts, Committing, Idle, Closed
<1>4. EventsBehind'
  BY <1>0 DEF Import, EventsBehind, TypeOK, Locals, tables, ghosts, Committing
<1>5. StoredFirst'
  <2>1. Blocks(rev, tree) \subseteq stored' /\ stored \subseteq stored'
    BY <1>1a
  <2>2. \A r \in DOMAIN history' : Blocks(r, history'[r]) \subseteq stored'
    BY <1>0, <1>b, <2>1 DEF StoredFirst
  <2>3. RecordsStored(index)'
    BY <1>1a, <2>1 DEF RecordsStored, Blocks
  <2> QED
    BY <1>0, <1>a, <2>1, <2>2, <2>3 DEF StoredFirst, RecordsStored, Closed, Empty
<1>6. AckedIsKept'
  BY <1>0, <1>a, <1>b DEF AckedIsKept
<1>7. EventOrder'
  BY <1>0 DEF Import, EventOrder, TypeOK, Locals, tables, ghosts
<1> QED
  BY <1>1, <1>2, <1>3, <1>4, <1>5, <1>6, <1>7 DEF IInv

LEMMA ReadHeadStep ==
  ASSUME IInv, TypeOK', ReadHead
  PROVE  IInv'
<1>0. /\ TypeOK /\ Revisions /\ OneTree /\ HandleAhead /\ EventsBehind /\ StoredFirst
      /\ AckedIsKept /\ EventOrder /\ w \in Locals
  BY DEF IInv, TypeOK
<1>1. Revisions'
  BY <1>0 DEF ReadHead, Revisions, TypeOK, Locals, tables, ghosts, Committing, Idle, Closed
<1>2. OneTree'
  BY <1>0 DEF ReadHead, OneTree, TypeOK, Locals, tables, ghosts, Committing, Idle, Closed
<1>3. HandleAhead'
  BY <1>0 DEF ReadHead, HandleAhead, TypeOK, Locals, tables, ghosts, Committing, Idle, Closed
<1>4. EventsBehind'
  BY <1>0 DEF ReadHead, EventsBehind, TypeOK, Locals, tables, ghosts, Committing
<1>5. StoredFirst'
  BY <1>0 DEF ReadHead, StoredFirst, TypeOK, Locals, tables, ghosts, RecordsStored, Idle, Closed, Empty
<1>6. AckedIsKept'
  BY <1>0 DEF ReadHead, AckedIsKept, TypeOK, Locals, tables, ghosts
<1>7. EventOrder'
  BY <1>0 DEF ReadHead, EventOrder, TypeOK, Locals, tables, ghosts
<1> QED
  BY <1>1, <1>2, <1>3, <1>4, <1>5, <1>6, <1>7 DEF IInv

LEMMA ReadCidsStep ==
  ASSUME IInv, TypeOK', ReadCids
  PROVE  IInv'
<1>0. /\ TypeOK /\ Revisions /\ OneTree /\ HandleAhead /\ EventsBehind /\ StoredFirst
      /\ AckedIsKept /\ EventOrder /\ w \in Locals
  BY DEF IInv, TypeOK
<1>1. Revisions'
  BY <1>0 DEF ReadCids, Revisions, TypeOK, Locals, tables, ghosts, Committing, Idle, Closed
<1>2. OneTree'
  BY <1>0 DEF ReadCids, OneTree, TypeOK, Locals, tables, ghosts, Committing, Idle, Closed
<1>3. HandleAhead'
  BY <1>0 DEF ReadCids, HandleAhead, TypeOK, Locals, tables, ghosts, Committing, Idle, Closed
<1>4. EventsBehind'
  BY <1>0 DEF ReadCids, EventsBehind, TypeOK, Locals, tables, ghosts, Committing
<1>5. StoredFirst'
  BY <1>0 DEF ReadCids, StoredFirst, TypeOK, Locals, tables, ghosts, RecordsStored, Idle, Closed, Empty
<1>6. AckedIsKept'
  BY <1>0 DEF ReadCids, AckedIsKept, TypeOK, Locals, tables, ghosts
<1>7. EventOrder'
  BY <1>0 DEF ReadCids, EventOrder, TypeOK, Locals, tables, ghosts
<1> QED
  BY <1>1, <1>2, <1>3, <1>4, <1>5, <1>6, <1>7 DEF IInv

LEMMA StatementFailsStep ==
  ASSUME IInv, TypeOK', StatementFails
  PROVE  IInv'
<1>0. /\ TypeOK /\ Revisions /\ OneTree /\ HandleAhead /\ EventsBehind /\ StoredFirst
      /\ AckedIsKept /\ EventOrder /\ w \in Locals
  BY DEF IInv, TypeOK
<1>1. Revisions'
  BY <1>0 DEF StatementFails, Revisions, TypeOK, Locals, tables, ghosts, Committing, Idle, Closed
<1>2. OneTree'
  BY <1>0 DEF StatementFails, OneTree, TypeOK, Locals, tables, ghosts, Committing, Idle, Closed
<1>3. HandleAhead'
  BY <1>0 DEF StatementFails, HandleAhead, TypeOK, Locals, tables, ghosts, Committing, Idle, Closed
<1>4. EventsBehind'
  BY <1>0 DEF StatementFails, EventsBehind, TypeOK, Locals, tables, ghosts, Committing
<1>5. StoredFirst'
  BY <1>0 DEF StatementFails, StoredFirst, TypeOK, Locals, tables, ghosts, RecordsStored, Idle, Closed, Empty
<1>6. AckedIsKept'
  BY <1>0 DEF StatementFails, AckedIsKept, TypeOK, Locals, tables, ghosts
<1>7. EventOrder'
  BY <1>0 DEF StatementFails, EventOrder, TypeOK, Locals, tables, ghosts
<1> QED
  BY <1>1, <1>2, <1>3, <1>4, <1>5, <1>6, <1>7 DEF IInv

LEMMA SignFailsStep ==
  ASSUME IInv, TypeOK', SignFails
  PROVE  IInv'
<1>0. /\ TypeOK /\ Revisions /\ OneTree /\ HandleAhead /\ EventsBehind /\ StoredFirst
      /\ AckedIsKept /\ EventOrder /\ w \in Locals
  BY DEF IInv, TypeOK
<1>1. Revisions'
  BY <1>0 DEF SignFails, Revisions, TypeOK, Locals, tables, ghosts, Committing, Idle, Closed
<1>2. OneTree'
  BY <1>0 DEF SignFails, OneTree, TypeOK, Locals, tables, ghosts, Committing, Idle, Closed
<1>3. HandleAhead'
  BY <1>0 DEF SignFails, HandleAhead, TypeOK, Locals, tables, ghosts, Committing, Idle, Closed
<1>4. EventsBehind'
  BY <1>0 DEF SignFails, EventsBehind, TypeOK, Locals, tables, ghosts, Committing
<1>5. StoredFirst'
  BY <1>0 DEF SignFails, StoredFirst, TypeOK, Locals, tables, ghosts, RecordsStored, Idle, Closed, Empty
<1>6. AckedIsKept'
  BY <1>0 DEF SignFails, AckedIsKept, TypeOK, Locals, tables, ghosts
<1>7. EventOrder'
  BY <1>0 DEF SignFails, EventOrder, TypeOK, Locals, tables, ghosts
<1> QED
  BY <1>1, <1>2, <1>3, <1>4, <1>5, <1>6, <1>7 DEF IInv

LEMMA CrashStep ==
  ASSUME IInv, TypeOK', Crash
  PROVE  IInv'
<1>0. /\ TypeOK /\ Revisions /\ OneTree /\ HandleAhead /\ EventsBehind /\ StoredFirst
      /\ AckedIsKept /\ EventOrder /\ w \in Locals
  BY DEF IInv, TypeOK
<1>1. Revisions'
  BY <1>0 DEF Crash, Revisions, TypeOK, Locals, tables, ghosts, Committing, Idle, Closed
<1>2. OneTree'
  <2>1. DOMAIN history \subseteq Rev
    BY <1>0, PartialFacts DEF TypeOK
  <2>2. 0 \notin DOMAIN history
    BY <2>1 DEF Rev
  <2> QED
    BY <1>0, <2>2 DEF Crash, OneTree, Committing, Closed, tables, ghosts
<1>3. HandleAhead'
  BY <1>0 DEF Crash, HandleAhead, TypeOK, Locals, tables, ghosts, Committing, Idle, Closed
<1>4. EventsBehind'
  BY <1>0 DEF Crash, EventsBehind, TypeOK, Locals, tables, ghosts, Committing
<1>5. StoredFirst'
  BY <1>0 DEF Crash, StoredFirst, TypeOK, Locals, tables, ghosts, RecordsStored, Idle, Closed, Empty
<1>6. AckedIsKept'
  BY <1>0 DEF Crash, AckedIsKept, TypeOK, Locals, tables, ghosts
<1>7. EventOrder'
  BY <1>0 DEF Crash, EventOrder, TypeOK, Locals, tables, ghosts
<1> QED
  BY <1>1, <1>2, <1>3, <1>4, <1>5, <1>6, <1>7 DEF IInv

-----------------------------------------------------------------------------
(***************************************************************************)
(* The theorems.                                                           *)
(***************************************************************************)
LEMMA NextIInv == IInv /\ [Next \/ Fault]_vars => IInv'
<1> SUFFICES ASSUME IInv, [Next \/ Fault]_vars PROVE IInv'
  OBVIOUS
<1>1. TypeOK'
  BY TypeStep
<1>2. CASE UNCHANGED vars
  BY <1>2 DEF vars, tables, ghosts, IInv, TypeOK, Revisions, OneTree, HandleAhead, EventsBehind,
     StoredFirst, RecordsStored, Committing, AckedIsKept, EventOrder
<1>3. CASE Write
  <2>1. Request => IInv'
    BY <1>1, RequestFacts, ApplyWritesStep
  <2> QED
    BY <1>1, <1>3, <2>1, CreateAccountStep, ApplyOpStep, RejectOpStep, PutRefusedStep, OpsDoneStep,
       SignStep, InsertCommitStep, PersistBlockRevStep, BlockRevsDoneStep, UpsertRecordStep,
       DeleteIndexRowStep, EmitCommitStep DEF Write
<1>4. CASE Import \/ ReadHead \/ ReadCids
  BY <1>1, <1>4, ImportStep, ReadHeadStep, ReadCidsStep
<1>5. CASE Fault
  BY <1>1, <1>5, StatementFailsStep, SignFailsStep, CrashStep DEF Fault
<1> QED
  BY <1>2, <1>3, <1>4, <1>5 DEF Next

\* Whatever statement fails and wherever the process stops.
THEOREM Invariance == FaultySpec => []IInv
<1>1. [Write \/ Import \/ Fault]_vars => [Next \/ Fault]_vars
  BY DEF Next
<1> QED
  BY <1>1, InitIInv, NextIInv, PTL DEF FaultySpec

\* The variables keep their types.
THEOREM TypeCorrect == Spec => []TypeOK
<1>1. [Next]_vars => [Next \/ Fault]_vars
  OBVIOUS
<1>2. IInv => TypeOK
  BY DEF IInv
<1> QED
  BY <1>1, <1>2, InitIInv, NextIInv, PTL DEF Spec

\* A repository can always be opened again, and an indexed record be read.
THEOREM Readable == FaultySpec => []NothingDangles
<1>1. IInv => NothingDangles
  BY DEF IInv, NothingDangles, OneTree, StoredFirst, RecordsStored
<1> QED
  BY <1>1, Invariance, PTL

\* A write that was answered with success is kept.
THEOREM Durable == FaultySpec => []AckedIsKept
<1>1. IInv => AckedIsKept
  BY DEF IInv
<1> QED
  BY <1>1, Invariance, PTL

\* Announced revisions only grow, whatever fails between two events.
THEOREM Ordered == FaultySpec => []EventOrder
<1>1. IInv => EventOrder
  BY DEF IInv
<1> QED
  BY <1>1, Invariance, PTL

\* An event that continues from the one before it hides no commit and names
\* the tree that was announced.
THEOREM NoSilentGap == FaultySpec => GapsShow
<1> DEFINE Step == LET e == Last(events')
                       before == Last(events)
                   IN events' # events /\ events # <<>> /\ e.since = before.rev =>
                        /\ \A r \in DOMAIN commits : ~(before.rev < r /\ r < e.rev)
                        /\ e.prevData = before.data
<1>1. ASSUME IInv, [Write \/ Import \/ Fault]_vars PROVE Step \/ UNCHANGED vars
  <2>0. TypeOK /\ Revisions /\ OneTree /\ HandleAhead
    BY <1>1 DEF IInv
  <2>1. CASE EmitCommit
    <3> DEFINE e == [rev |-> w.rev, since |-> w.since, prevData |-> w.prevData, data |-> repo.data,
                     root |-> HeadRev, ops |-> w.ops, blocks |-> RepoCids(w.since)]
    <3>1. events' = Append(events, e) /\ Committing
      BY <2>1 DEF EmitCommit, Committing
    <3>2. /\ e.rev = w.rev /\ e.since = w.since /\ e.prevData = w.prevData
      OBVIOUS
    <3> HIDE DEF e
    <3>3. events \in Seq(Event) /\ Last(events') = e
      BY <2>0, <3>1 DEF TypeOK, Last
    <3> SUFFICES ASSUME events # <<>>, e.since = Last(events).rev
                 PROVE  /\ \A r \in DOMAIN commits : ~(Last(events).rev < r /\ r < e.rev)
                        /\ e.prevData = Last(events).data
      BY <3>3
    <3>4. /\ Last(events).rev \in DOMAIN history
          /\ Last(events).data = history[Last(events).rev]
      <4>1. Len(events) \in DOMAIN events
        BY <3>3
      <4> QED
        BY <2>0, <4>1 DEF OneTree, Last
    <3>5. ASSUME NEW r \in DOMAIN commits PROVE ~(w.since < r /\ r < w.rev)
      <4>1. r <= w.since \/ r = w.rev
        BY <2>0, <3>1 DEF HandleAhead
      <4>2. DOMAIN commits \subseteq Rev
        BY <2>0, PartialFacts DEF TypeOK
      <4>3. r \in Int /\ w.since \in Int /\ w.rev \in Int
        BY <2>0, <4>2 DEF TypeOK, Rev, Locals
      <4> QED
        BY <4>1, <4>3
    <3>6. w.prevData = history[w.since]
      BY <2>0, <3>1, <3>2, <3>4 DEF OneTree
    <3> QED
      BY <3>2, <3>4, <3>5, <3>6
  <2>2. CASE UNCHANGED vars
    BY <2>2
  <2>3. CASE UNCHANGED events
    BY <2>3
  <2>4. EmitCommit \/ UNCHANGED events \/ UNCHANGED vars
    BY <1>1 DEF Write, Fault, Request, HandleCreateRecord, HandlePutRecord, HandleDeleteRecord,
       HandleApplyWrites, ApplyWrites, CreateAccount, ApplyOp, RejectOp, PutRefused, OpsDone, Sign,
       InsertCommit, PersistBlockRev, BlockRevsDone, UpsertRecord, DeleteIndexRow, Import,
       StatementFails, SignFails, Crash
  <2> QED
    BY <2>1, <2>2, <2>3, <2>4
<1>2. IInv /\ [Write \/ Import \/ Fault]_vars => [Step]_vars
  BY <1>1
<1>3. GapsShow <=> [][Step]_vars
  BY DEF GapsShow
<1> HIDE DEF Step
<1> QED
  BY <1>2, <1>3, Invariance, PTL DEF FaultySpec
=============================================================================
