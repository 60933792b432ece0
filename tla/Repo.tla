--------------------------------- MODULE Repo ---------------------------------
(***************************************************************************)
(* The write path of one account's repository: internal/repo/manager.go,   *)
(* recording.go, import.go and the CAR export of car.go.                   *)
(*                                                                         *)
(* Manager.mu is held from the first step of a write to its last, but the  *)
(* statements of a write are not a transaction: the commit row, the        *)
(* revisions of its blocks, the record index and the event are stored by   *)
(* one statement after another, and a reader that does not take the mutex  *)
(* (getRepo, getRecord), a cancelled request, a failed statement or a      *)
(* crash falls between any two of them.  Each action below is one such     *)
(* statement with the code up to the next.                                 *)
(*                                                                         *)
(* A record's content is its CID.  A repository's content (its tree) maps  *)
(* each path to a CID or to None; the nodes of its MST stand as one block. *)
(* A revision is a number taken from the TID clock, which never goes back. *)
(* Several accounts share only the mutex and the table of blocks, so one   *)
(* account is modelled.  A path given by the server (a TID) is a path that *)
(* no record has.  A request whose swapCommit is not the head opens the    *)
(* handle at most, and is left out.  One whose account has no row changes  *)
(* the tree of the handle and fails at "sign", where the signing key is    *)
(* looked up: in FaultySpec it is a StatementFails, in Spec the account    *)
(* exists.                                                                 *)
(***************************************************************************)
EXTENDS Integers, Sequences, SequencesExt

CONSTANTS Path,      \* collection/rkey
          Cid,       \* contents of records
          None,      \* no record
          AnyCid,    \* an operation without swapRecord
          Swap,      \* the values of swapRecord: a subset of Cid \cup {AnyCid}
          MaxRev,    \* bound on the revisions
          MaxBatch   \* bound on the operations of a write

ASSUME RepoAssumption ==
  /\ None \notin Cid
  /\ AnyCid \notin Cid \cup {None}
  /\ Swap \subseteq Cid \cup {AnyCid}
  /\ MaxRev \in Nat
  /\ MaxBatch \in Nat \ {0}

Rev == 1..MaxRev
Tree == [Path -> Cid \cup {None}]
Empty == [p \in Path |-> None]

\* The blocks of a commit: itself, the nodes of its tree, its records.
CommitBlock(r) == <<"commit", r>>
TreeBlock(t) == <<"tree", t>>
RecordBlock(v) == <<"record", v>>
Blocks(r, t) ==
  {CommitBlock(r), TreeBlock(t)} \cup {RecordBlock(t[p]) : p \in {q \in Path : t[q] # None}}
Block ==
  {CommitBlock(r) : r \in Rev} \cup {TreeBlock(t) : t \in Tree} \cup {RecordBlock(v) : v \in Cid}

\* The operations of a request (type Op).
Op ==
  [act : {"create"}, path : Path, cid : Cid, swap : {AnyCid}]
    \cup [act : {"update"}, path : Path, cid : Cid, swap : Swap]
    \cup [act : {"delete"}, path : Path, cid : {None}, swap : Swap]

\* The operations of an event (SyncSubscribeRepos_RepoOp).
EventOp ==
  [act : {"create", "update", "delete"}, path : Path,
   cid : Cid \cup {None}, prev : Cid \cup {None}]

Event ==
  [rev : Rev, since : 0..MaxRev, prevData : Tree, data : Tree, root : Rev,
   ops : Seq(EventOp), blocks : SUBSET Block]

VARIABLES
  commits,   \* the table repo_commits: revision -> tree
  stored,    \* the table repo_blocks
  blockRev,  \* the table repo_block_revs: block -> revision
  index,     \* the table repo_records
  events,    \* the #commit events that were published
  clock,     \* the last revision that was given out
  repo,      \* Manager.repos[did], the open handle
  recorded,  \* recordingBlockstore.recorded
  pc,        \* the statement that the holder of Manager.mu is at
  w,         \* the locals of the write under way
  born,      \* CreateAccount was called
  history,   \* every commit that was ever persisted: revision -> tree
  acked,     \* the revision of the last write that was answered with success
  reader     \* a getRepo request, between reading the head and its blocks

tables == <<commits, blockRev, index>>
ghosts == <<history, acked>>
vars == <<tables, stored, events, clock, repo, recorded, pc, w, born, ghosts, reader>>

Closed == [open |-> FALSE, tree |-> Empty, flushed |-> FALSE, rev |-> 0, data |-> Empty]
Idle ==
  [todo |-> <<>>, cur |-> <<>>, ups |-> <<>>, dels |-> <<>>, ops |-> <<>>,
   rev |-> 0, since |-> 0, prevData |-> Empty, blocks |-> {}]
NoReader == [at |-> "none", rev |-> 0, settled |-> FALSE]

Init ==
  /\ commits = <<>>
  /\ stored = {}
  /\ blockRev = <<>>
  /\ index = Empty
  /\ events = <<>>
  /\ clock = 0
  /\ repo = Closed
  /\ recorded = {}
  /\ pc = "idle"
  /\ w = Idle
  /\ born = FALSE
  /\ history = <<>>
  /\ acked = 0
  /\ reader = NoReader

-----------------------------------------------------------------------------
(***************************************************************************)
(* Helpers.                                                                *)
(***************************************************************************)
\* The head is the commit with the largest revision (ORDER BY rev DESC).
HeadRev == IF DOMAIN commits = {} THEN 0
           ELSE CHOOSE r \in DOMAIN commits : \A q \in DOMAIN commits : q <= r
HeadTree == IF DOMAIN commits = {} THEN Empty ELSE commits[HeadRev]

\* Variant: the bound is off by one.
RepoCidsSkipsOne(since) == {b \in DOMAIN blockRev : since = 0 \/ blockRev[b] > since + 1}

\* RepoCids: every block, or those written after a revision.
RepoCids(since) == {b \in DOMAIN blockRev : since = 0 \/ blockRev[b] > since}

\* open: the cached handle, or one read from the head.
Opened ==
  IF repo.open THEN repo
  ELSE [open |-> TRUE, tree |-> HeadTree, flushed |-> DOMAIN commits # {},
        rev |-> HeadRev, data |-> HeadTree]

\* f with the value of x set to y, x being new to f or not.
Put(f, x, y) == [z \in DOMAIN f \cup {x} |-> IF z = x THEN y ELSE f[z]]

-----------------------------------------------------------------------------
(***************************************************************************)
(* The write path.                                                         *)
(***************************************************************************)
\* applyWrites takes the mutex, opens the repository and starts recording
\* the blocks it puts.
ApplyWrites(ops) ==
  /\ pc = "idle"
  /\ clock < MaxRev
  /\ w' = [Idle EXCEPT !.todo = ops]
  /\ repo' = Opened
  /\ recorded' = {}
  /\ pc' = "ops"
  /\ UNCHANGED <<tables, stored, events, clock, born, ghosts, reader>>

\* The requests of the record API: one operation each, which for a put and a
\* delete may name the record it expects, or a batch of operations that name
\* none.
HandleCreateRecord ==
  \E p \in Path, v \in Cid :
    ApplyWrites(<<[act |-> "create", path |-> p, cid |-> v, swap |-> AnyCid]>>)
HandlePutRecord ==
  \E p \in Path, v \in Cid, s \in Swap :
    ApplyWrites(<<[act |-> "update", path |-> p, cid |-> v, swap |-> s]>>)
HandleDeleteRecord ==
  \E p \in Path, s \in Swap :
    ApplyWrites(<<[act |-> "delete", path |-> p, cid |-> None, swap |-> s]>>)
HandleApplyWrites ==
  \E n \in 1..MaxBatch : \E ops \in [1..n -> {op \in Op : op.swap = AnyCid}] : ApplyWrites(ops)

Request == HandleCreateRecord \/ HandlePutRecord \/ HandleDeleteRecord \/ HandleApplyWrites

\* CreateAccount does the same for a commit with no operation.  The
\* #identity event it publishes at the end touches no state of this module.
CreateAccount ==
  /\ pc = "idle"
  /\ ~born
  /\ clock < MaxRev
  /\ born' = TRUE
  /\ w' = Idle
  /\ repo' = Opened
  /\ recorded' = {}
  /\ pc' = "sign"
  /\ UNCHANGED <<tables, stored, events, clock, ghosts, reader>>

\* batchRecordCID: what a path holds, with the batch's own changes.
Current(p) == IF p \in DOMAIN w.cur THEN w.cur[p] ELSE index[p]

\* The checks of each kind of operation.
Legal(op) ==
  LET prev == Current(op.path)
  IN CASE op.act = "create" -> prev = None
       [] op.act = "update" -> op.swap = AnyCid \/ prev = op.swap
       [] op.act = "delete" -> /\ prev # None
                               /\ op.swap = AnyCid \/ prev = op.swap
                               /\ repo.tree[op.path] # None

\* Variant: an update is always announced as one.
AnnouncedAsAsked(op) ==
  [act |-> op.act, path |-> op.path, cid |-> op.cid, prev |-> Current(op.path)]

\* The operation as the event shows it: an update of a path that holds
\* nothing is a create.
Announced(op) ==
  [act |-> IF op.act = "update" /\ Current(op.path) = None THEN "create" ELSE op.act,
   path |-> op.path, cid |-> op.cid, prev |-> Current(op.path)]

\* One operation: the record's block is put, and the tree of the handle, the
\* batch's own changes and the lists for the index and the event change.
ApplyOp ==
  /\ pc = "ops"
  /\ w.todo # <<>>
  /\ LET op == Head(w.todo)
         deletes == op.act = "delete"
         put == IF deletes THEN {} ELSE {RecordBlock(op.cid)}
     IN /\ Legal(op)
        /\ repo' = [repo EXCEPT !.tree[op.path] = op.cid, !.flushed = FALSE]
        /\ w' = [w EXCEPT
                   !.todo = Tail(@),
                   !.cur = Put(@, op.path, op.cid),
                   !.ups = IF deletes THEN @ ELSE Append(@, <<op.path, op.cid>>),
                   !.dels = IF deletes THEN Append(@, op.path) ELSE @,
                   !.ops = Append(@, Announced(op))]
        /\ stored' = stored \cup put
        /\ recorded' = recorded \cup put
  /\ UNCHANGED <<tables, events, clock, pc, born, ghosts, reader>>

\* An operation that a check refuses ends the request.  The handle keeps
\* what the operations before it have done to its tree.
RejectOp ==
  /\ pc = "ops"
  /\ w.todo # <<>>
  /\ ~Legal(Head(w.todo))
  /\ pc' = "idle"
  /\ w' = Idle
  /\ UNCHANGED <<tables, stored, events, clock, repo, recorded, born, ghosts, reader>>

\* r.PutRecord is given a path that the handle's tree already holds (an update,
\* or a create over what a refused batch has left).  It adds a key; whether
\* the library takes one that is there or refuses it is not in this
\* repository, so that ApplyOp and this are both possible.  The record's block
\* is put before the key is refused.
PutRefused ==
  /\ pc = "ops"
  /\ w.todo # <<>>
  /\ LET op == Head(w.todo)
     IN /\ Legal(op)
        /\ op.act # "delete" /\ repo.tree[op.path] # None
        /\ stored' = stored \cup {RecordBlock(op.cid)}
        /\ recorded' = recorded \cup {RecordBlock(op.cid)}
  /\ pc' = "idle"
  /\ w' = Idle
  /\ UNCHANGED <<tables, events, clock, repo, born, ghosts, reader>>

OpsDone ==
  /\ pc = "ops"
  /\ w.todo = <<>>
  /\ pc' = "sign"
  /\ UNCHANGED <<tables, stored, events, clock, repo, recorded, w, born, ghosts, reader>>

\* Variant: the next revision is counted from the handle's.
SignCountsRevs ==
  /\ pc = "sign"
  /\ LET rev == repo.rev + 1
         put == {CommitBlock(rev)} \cup (IF repo.flushed THEN {} ELSE {TreeBlock(repo.tree)})
     IN /\ clock' = rev
        /\ w' = [w EXCEPT !.rev = rev, !.since = repo.rev, !.prevData = repo.data]
        /\ repo' = [repo EXCEPT !.flushed = TRUE, !.rev = rev, !.data = repo.tree]
        /\ stored' = stored \cup put
        /\ recorded' = recorded \cup put
  /\ pc' = "insert"
  /\ UNCHANGED <<tables, events, born, ghosts, reader>>

\* Variant: the nodes of the tree are put past the recording store.
SignUnrecorded ==
  /\ pc = "sign"
  /\ LET rev == clock + 1
         put == {CommitBlock(rev)} \cup (IF repo.flushed THEN {} ELSE {TreeBlock(repo.tree)})
     IN /\ clock' = rev
        /\ w' = [w EXCEPT !.rev = rev, !.since = repo.rev, !.prevData = repo.data]
        /\ repo' = [repo EXCEPT !.flushed = TRUE, !.rev = rev, !.data = repo.tree]
        /\ stored' = stored \cup put
        /\ recorded' = recorded \cup {CommitBlock(rev)}
  /\ pc' = "insert"
  /\ UNCHANGED <<tables, events, born, ghosts, reader>>

\* Variant: the event continues from the last one that was published.
SignSinceLastEvent ==
  /\ pc = "sign"
  /\ LET rev == clock + 1
         put == {CommitBlock(rev)} \cup (IF repo.flushed THEN {} ELSE {TreeBlock(repo.tree)})
     IN /\ clock' = rev
        /\ w' = [w EXCEPT !.rev = rev, !.since = IF events = <<>> THEN 0 ELSE Last(events).rev, !.prevData = repo.data]
        /\ repo' = [repo EXCEPT !.flushed = TRUE, !.rev = rev, !.data = repo.tree]
        /\ stored' = stored \cup put
        /\ recorded' = recorded \cup put
  /\ pc' = "insert"
  /\ UNCHANGED <<tables, events, born, ghosts, reader>>

\* Variant: the nodes of the tree are not put.
SignSkipsTree ==
  /\ pc = "sign"
  /\ LET rev == clock + 1
         put == {CommitBlock(rev)}
     IN /\ clock' = rev
        /\ w' = [w EXCEPT !.rev = rev, !.since = repo.rev, !.prevData = repo.data]
        /\ repo' = [repo EXCEPT !.flushed = TRUE, !.rev = rev, !.data = repo.tree]
        /\ stored' = stored \cup put
        /\ recorded' = recorded \cup put
  /\ pc' = "insert"
  /\ UNCHANGED <<tables, events, born, ghosts, reader>>

\* r.Commit: the nodes of a changed tree are put, the commit is signed and
\* put, and the handle moves to it.
Sign ==
  /\ pc = "sign"
  /\ LET rev == clock + 1
         put == {CommitBlock(rev)} \cup (IF repo.flushed THEN {} ELSE {TreeBlock(repo.tree)})
     IN /\ clock' = rev
        /\ w' = [w EXCEPT !.rev = rev, !.since = repo.rev, !.prevData = repo.data]
        /\ repo' = [repo EXCEPT !.flushed = TRUE, !.rev = rev, !.data = repo.tree]
        /\ stored' = stored \cup put
        /\ recorded' = recorded \cup put
  /\ pc' = "insert"
  /\ UNCHANGED <<tables, events, born, ghosts, reader>>

\* Variant: the error of the INSERT is ignored.
InsertErrorIgnored ==
  /\ pc = "insert"
  /\ w' = [w EXCEPT !.blocks = recorded]
  /\ recorded' = {}
  /\ pc' = "blocks"
  /\ UNCHANGED <<tables, stored, events, clock, repo, born, ghosts, reader>>

\* INSERT INTO repo_commits; the recorded blocks are drained.
InsertCommit ==
  /\ pc = "insert"
  /\ commits' = Put(commits, w.rev, repo.data)
  /\ history' = Put(history, w.rev, repo.data)
  /\ w' = [w EXCEPT !.blocks = recorded]
  /\ recorded' = {}
  /\ pc' = "blocks"
  /\ UNCHANGED <<stored, blockRev, index, events, clock, repo, born, acked, reader>>

\* Variant: ON CONFLICT(did, cid) DO NOTHING.
PersistNewBlockRev ==
  /\ pc = "blocks"
  /\ \E b \in w.blocks :
       /\ blockRev' = IF b \in DOMAIN blockRev THEN blockRev ELSE Put(blockRev, b, w.rev)
       /\ w' = [w EXCEPT !.blocks = @ \ {b}]
  /\ UNCHANGED <<commits, stored, index, events, clock, repo, recorded, pc, born, ghosts, reader>>

\* The blocks get the commit's revision one by one, in the order in which
\* Go happens to iterate over a map.
PersistBlockRev ==
  /\ pc = "blocks"
  /\ \E b \in w.blocks :
       /\ blockRev' = Put(blockRev, b, w.rev)
       /\ w' = [w EXCEPT !.blocks = @ \ {b}]
  /\ UNCHANGED <<commits, stored, index, events, clock, repo, recorded, pc, born, ghosts, reader>>

BlockRevsDone ==
  /\ pc = "blocks"
  /\ w.blocks = {}
  /\ pc' = "index"
  /\ UNCHANGED <<tables, stored, events, clock, repo, recorded, w, born, ghosts, reader>>

\* The index gets the records that were put, in the order of the batch...
UpsertRecord ==
  /\ pc = "index"
  /\ w.ups # <<>>
  /\ index' = [index EXCEPT ![Head(w.ups)[1]] = Head(w.ups)[2]]
  /\ w' = [w EXCEPT !.ups = Tail(@)]
  /\ UNCHANGED <<commits, stored, blockRev, events, clock, repo, recorded, pc, born, ghosts, reader>>

\* Variant: the row of a deleted record is kept, with a mark.
MarkIndexRow ==
  /\ pc = "index"
  /\ w.ups = <<>>
  /\ w.dels # <<>>
  /\ index' = [index EXCEPT ![Head(w.dels)] = AnyCid]
  /\ w' = [w EXCEPT !.dels = Tail(@)]
  /\ UNCHANGED <<commits, stored, blockRev, events, clock, repo, recorded, pc, born, ghosts, reader>>

\* ... and then loses those that were deleted.
DeleteIndexRow ==
  /\ pc = "index"
  /\ w.ups = <<>>
  /\ w.dels # <<>>
  /\ index' = [index EXCEPT ![Head(w.dels)] = None]
  /\ w' = [w EXCEPT !.dels = Tail(@)]
  /\ UNCHANGED <<commits, stored, blockRev, events, clock, repo, recorded, pc, born, ghosts, reader>>

\* Variant: the event is published before the index has changed.
EmitBeforeIndex ==
  /\ pc = "index"
  /\ events' = Append(events,
       [rev |-> w.rev, since |-> w.since, prevData |-> w.prevData, data |-> repo.data,
        root |-> HeadRev, ops |-> w.ops, blocks |-> RepoCids(w.since)])
  /\ acked' = w.rev
  /\ w' = Idle
  /\ pc' = "idle"
  /\ UNCHANGED <<tables, stored, clock, repo, recorded, born, history, reader>>

\* emitCommit: the event carries the blocks written since the handle's last
\* commit, under the head, and the caller gets its answer.
EmitCommit ==
  /\ pc = "index"
  /\ w.ups = <<>> /\ w.dels = <<>>
  /\ events' = Append(events,
       [rev |-> w.rev, since |-> w.since, prevData |-> w.prevData, data |-> repo.data,
        root |-> HeadRev, ops |-> w.ops, blocks |-> RepoCids(w.since)])
  /\ acked' = w.rev
  /\ w' = Idle
  /\ pc' = "idle"
  /\ UNCHANGED <<tables, stored, clock, repo, recorded, born, history, reader>>

-----------------------------------------------------------------------------
(***************************************************************************)
(* Import and export.                                                      *)
(***************************************************************************)
\* Variant: the cached handle is not dropped.
ImportKeepsHandle ==
  /\ pc = "idle"
  /\ \E rev \in Rev, tree \in Tree :
       /\ \/ /\ rev \in DOMAIN history /\ tree = history[rev]
             /\ UNCHANGED clock
          \/ /\ rev = clock + 1
             /\ clock' = rev
       /\ stored' = stored \cup Blocks(rev, tree)
       /\ commits' = [r \in {rev} |-> tree]
       /\ history' = Put(history, rev, tree)
       /\ index' = tree
       /\ blockRev' = [b \in Blocks(rev, tree) |-> rev]
  /\ reader' = [reader EXCEPT !.settled = FALSE]
  /\ UNCHANGED <<events, repo, recorded, pc, w, born, acked>>

\* ImportRepo of a CAR with all the blocks of a commit: one that this
\* repository had before, or one made elsewhere, whose revision is a time
\* later than every one given out here and gone by when the next is.  The
\* tables change in one transaction, the cached handle is dropped and no
\* event is published.  An import that fails before that leaves only blocks
\* behind, which nothing refers to.
Import ==
  /\ pc = "idle"
  /\ \E rev \in Rev, tree \in Tree :
       /\ \/ /\ rev \in DOMAIN history /\ tree = history[rev]
             /\ UNCHANGED clock
          \/ /\ rev = clock + 1
             /\ clock' = rev
       /\ stored' = stored \cup Blocks(rev, tree)
       /\ commits' = [r \in {rev} |-> tree]
       /\ history' = Put(history, rev, tree)
       /\ index' = tree
       /\ blockRev' = [b \in Blocks(rev, tree) |-> rev]
  /\ repo' = Closed
  /\ reader' = [reader EXCEPT !.settled = FALSE]
  /\ UNCHANGED <<events, recorded, pc, w, born, acked>>

\* getRepo runs WriteRepoCAR without the mutex: it reads the head...
ReadHead ==
  /\ reader.at = "none"
  /\ DOMAIN commits # {}
  /\ reader' = [at |-> "head", rev |-> HeadRev, settled |-> pc # "blocks"]
  /\ UNCHANGED <<tables, stored, events, clock, repo, recorded, pc, w, born, ghosts>>

\* ... and then the list of the blocks.
ReadCids ==
  /\ reader.at = "head"
  /\ reader' = NoReader
  /\ UNCHANGED <<tables, stored, events, clock, repo, recorded, pc, w, born, ghosts>>

-----------------------------------------------------------------------------
(***************************************************************************)
(* Faults.                                                                 *)
(***************************************************************************)
\* A statement fails, or the client goes away and its request's context is
\* cancelled: the function returns where it is, and the tables and the
\* handle stay as they are.
StatementFails ==
  /\ pc # "idle"
  /\ pc' = "idle"
  /\ w' = Idle
  /\ UNCHANGED <<tables, stored, events, clock, repo, recorded, born, ghosts, reader>>

\* r.Commit fails after it has put the nodes of the tree.
SignFails ==
  /\ pc = "sign"
  /\ stored' = stored \cup {TreeBlock(repo.tree)}
  /\ repo' = [repo EXCEPT !.flushed = TRUE]
  /\ pc' = "idle"
  /\ w' = Idle
  /\ UNCHANGED <<tables, events, clock, recorded, born, ghosts, reader>>

\* The process stops and starts again: what is in memory is lost.
Crash ==
  /\ repo' = Closed
  /\ recorded' = {}
  /\ pc' = "idle"
  /\ w' = Idle
  /\ reader' = NoReader
  /\ UNCHANGED <<tables, stored, events, clock, born, ghosts>>

Write ==
  \/ Request \/ CreateAccount \/ ApplyOp \/ RejectOp \/ PutRefused
  \/ OpsDone \/ Sign
  \/ InsertCommit \/ PersistBlockRev \/ BlockRevsDone \/ UpsertRecord \/ DeleteIndexRow
  \/ EmitCommit

Next == Write \/ Import \/ ReadHead \/ ReadCids

Fault == StatementFails \/ SignFails \/ Crash

Spec == Init /\ [][Next]_vars

FaultySpec == Init /\ [][Write \/ Import \/ Fault]_vars

-----------------------------------------------------------------------------
Partial(S, T) == UNION {[D -> T] : D \in SUBSET S}

Locals ==
  [todo : Seq(Op), cur : Partial(Path, Cid \cup {None}),
   ups : Seq(Path \X Cid), dels : Seq(Path), ops : Seq(EventOp),
   rev : 0..MaxRev, since : 0..MaxRev, prevData : Tree, blocks : SUBSET Block]

TypeOK ==
  /\ commits \in Partial(Rev, Tree)
  /\ stored \subseteq Block
  /\ DOMAIN blockRev \subseteq Block /\ blockRev \in [DOMAIN blockRev -> Rev]
  /\ index \in Tree
  /\ events \in Seq(Event)
  /\ clock \in 0..MaxRev
  /\ repo \in [open : BOOLEAN, tree : Tree, flushed : BOOLEAN, rev : 0..MaxRev, data : Tree]
  /\ recorded \subseteq Block
  /\ pc \in {"idle", "ops", "sign", "insert", "blocks", "index"}
  /\ w \in Locals
  /\ born \in BOOLEAN
  /\ history \in Partial(Rev, Tree)
  /\ acked \in 0..MaxRev
  /\ reader \in [at : {"none", "head"}, rev : 0..MaxRev, settled : BOOLEAN]

\* The content that a sequence of an event's operations makes of a tree.
Applied(t, ops) == FoldLeft(LAMBDA s, op : [s EXCEPT ![op.path] = op.cid], t, ops)

-----------------------------------------------------------------------------
(***************************************************************************)
(* Properties of writes that no fault interrupts (Spec).                   *)
(***************************************************************************)
\* Between writes the index, which getRecord and listRecords read and from
\* which the next write takes what a path holds, is the tree of the head.
IndexIsHead == pc = "idle" => index = HeadTree

\* The operations of an event explain its commit: they lead from the tree
\* the event names as the previous one to its own, and every operation says
\* what its path held.  A relay that inverts them arrives at prevData.
\* (manager.go:241: a batch is applied "atomically (single commit)".)
OpsExplainCommit ==
  \A i \in DOMAIN events :
    LET e == events[i]
    IN /\ Applied(e.prevData, e.ops) = e.data
       /\ \A k \in DOMAIN e.ops :
            LET op == e.ops[k]
                held == Applied(e.prevData, SubSeq(e.ops, 1, k - 1))[op.path]
            IN /\ op.prev = held
               /\ op.act = IF held = None THEN "create"
                           ELSE IF op.cid = None THEN "delete" ELSE "update"

\* An event carries, under the commit it announces, every block that the
\* commit has and the one before it had not: also those that were first put
\* long ago, for a record that was deleted and is back.
EventBlocks ==
  \A i \in DOMAIN events :
    LET e == events[i]
    IN /\ e.root = e.rev
       /\ Blocks(e.rev, e.data) \ Blocks(e.since, e.prevData) \subseteq e.blocks

\* Between writes getRepo with any commit's revision as `since' gives a
\* client that has that commit all it lacks of the head.
SinceExport ==
  pc = "idle" =>
    \A r \in DOMAIN commits :
      Blocks(HeadRev, HeadTree) \subseteq RepoCids(r) \cup Blocks(r, commits[r])

\* getRepo takes no lock.  Its CAR is still complete, however writes go on
\* around it, if the head it read was not the row of a commit whose blocks
\* were being numbered, and no import replaced the repository meanwhile.
SettledExport ==
  reader.at = "head" /\ reader.settled =>
    Blocks(reader.rev, history[reader.rev]) \subseteq RepoCids(0)

\* What WriteRepoCAR says of every CAR (car.go:13-15): "rooted at the repo
\* head commit" and "containing all blocks for the repo".
WholeExport ==
  reader.at = "head" =>
    Blocks(reader.rev, history[reader.rev]) \subseteq RepoCids(0)

\* The copy of a relay that applies the operations of an event continuing
\* from the revision it has, and else takes the repository afresh.
Copy ==
  FoldLeft(LAMBDA c, e : [rev |-> e.rev,
                          tree |-> IF e.since = c.rev THEN Applied(c.tree, e.ops) ELSE e.data],
           [rev |-> 0, tree |-> Empty], events)

\* The commit that the next event will continue from.
Base == IF pc \in {"insert", "blocks", "index"} THEN w.since ELSE HeadRev

\* Head, index and the relay's copy show every write in this order, one
\* write at a time.
Views == INSTANCE RepoViews
  WITH Version <- Tree, head <- HeadTree, shown <- index,
       told <- Copy.tree, stale <- Base # Copy.rev

ImplementsViews == Views!Spec

-----------------------------------------------------------------------------
(***************************************************************************)
(* Properties that hold whatever statement fails, whichever client goes    *)
(* away and wherever the process stops (FaultySpec).                       *)
(***************************************************************************)
\* Every block that a commit row or the index leads to is stored, so the
\* repository can be opened again and every indexed record be read: blocks
\* are put before anything refers to them.
NothingDangles ==
  /\ \A r \in DOMAIN commits : Blocks(r, commits[r]) \subseteq stored
  /\ \A p \in Path : index[p] # None => RecordBlock(index[p]) \in stored

\* A write that was answered with success is a commit of the repository,
\* or one that an import replaced since.
AckedIsKept == acked # 0 => acked \in DOMAIN history

\* Announced revisions only grow.
EventOrder ==
  \A i, j \in DOMAIN events : i < j => events[i].rev < events[j].rev

\* No commit is lost to a relay without a trace: if an event continues from
\* the one before it, the repository has no other commit in between, and
\* the previous tree it names is the one that was announced.
GapsShow ==
  [][LET e == Last(events')
         before == Last(events)
     IN events' # events /\ events # <<>> /\ e.since = before.rev =>
          /\ \A r \in DOMAIN commits : ~(before.rev < r /\ r < e.rev)
          /\ e.prevData = before.data]_vars

(***************************************************************************)
(* The inductive invariant behind these four.  A commit is under way from  *)
(* its signature to its event.                                             *)
(***************************************************************************)
Committing == pc \in {"insert", "blocks", "index"}

\* No revision is above the clock, and the commit under way has the latest.
Revisions ==
  /\ \A r \in DOMAIN history : r <= clock
  /\ repo.rev <= clock
  /\ pc \in {"ops", "sign"} => clock < MaxRev
  /\ Committing => w.rev = clock /\ repo.rev = w.rev /\ w.since < w.rev
  /\ pc = "insert" => w.rev \notin DOMAIN history
  /\ Committing /\ pc # "insert" => w.rev \in DOMAIN commits /\ commits[w.rev] = repo.data

\* A revision stands for one tree, wherever it is held.
OneTree ==
  /\ \A r \in DOMAIN commits : r \in DOMAIN history /\ commits[r] = history[r]
  /\ repo.rev \in DOMAIN history => repo.data = history[repo.rev]
  /\ Committing /\ w.since \in DOMAIN history => w.prevData = history[w.since]
  /\ \A i \in DOMAIN events :
       events[i].rev \in DOMAIN history /\ events[i].data = history[events[i].rev]

\* An open handle is never behind a commit row.
HandleAhead ==
  /\ pc # "idle" => repo.open
  /\ repo.open => \A r \in DOMAIN commits : r <= repo.rev
  /\ Committing => \A r \in DOMAIN commits : r <= w.since \/ r = w.rev

EventsBehind == Committing => \A i \in DOMAIN events : events[i].rev < w.rev

RecordsStored(t) == \A p \in Path : t[p] # None => RecordBlock(t[p]) \in stored

\* Blocks are stored before anything refers to them.
StoredFirst ==
  /\ \A r \in DOMAIN history : Blocks(r, history[r]) \subseteq stored
  /\ RecordsStored(index)
  /\ RecordsStored(repo.tree)
  /\ repo.flushed => TreeBlock(repo.tree) \in stored
  /\ pc = "insert" => Blocks(w.rev, repo.data) \subseteq stored
  /\ \A i \in DOMAIN w.ups : RecordBlock(w.ups[i][2]) \in stored

IInv ==
  /\ TypeOK
  /\ Revisions
  /\ OneTree
  /\ HandleAhead
  /\ EventsBehind
  /\ StoredFirst
  /\ AckedIsKept
  /\ EventOrder

(***************************************************************************)
(* The inductive invariant behind the properties of Spec, for writes of    *)
(* one operation.                                                          *)
(***************************************************************************)
\* The tree of the commit that the next event will continue from.
BaseTree == IF Committing THEN w.prevData ELSE HeadTree

\* A tree with what is pending for the index.
Changed(t) ==
  IF w.ups # <<>> THEN [t EXCEPT ![w.ups[1][1]] = w.ups[1][2]]
  ELSE IF w.dels # <<>> THEN [t EXCEPT ![w.dels[1]] = None]
  ELSE t

\* No operation, or one that says what its path held, leads from t to u.
Leads(t, ops, u) ==
  \/ ops = <<>> /\ u = t
  \/ \E op \in EventOp :
       /\ ops = <<op>>
       /\ u = [t EXCEPT ![op.path] = op.cid]
       /\ op.prev = t[op.path]
       /\ op.act = IF op.prev = None THEN "create"
                   ELSE IF op.cid = None THEN "delete" ELSE "update"

\* The operation of a write is still to do, or pending for the index, or done.
OneOperation ==
  /\ Len(w.todo) + Len(w.ups) + Len(w.dels) <= 1
  /\ pc = "idle" => w = Idle
  /\ pc = "ops" /\ w.todo # <<>> => w.ops = <<>> /\ w.cur = <<>>
  /\ pc # "ops" => w.todo = <<>>

\* An open handle is at the head, but for the operation of the write.
InStep ==
  /\ repo.open /\ ~Committing => repo.rev = HeadRev /\ repo.data = HeadTree
  /\ repo.open /\ pc = "idle" => repo.tree = HeadTree
  /\ pc \in {"ops", "sign"} => repo.tree = Changed(HeadTree) /\ Leads(HeadTree, w.ops, repo.tree)
  /\ Committing => repo.tree = repo.data /\ Leads(w.prevData, w.ops, repo.data)
  /\ repo.flushed => repo.tree = repo.data
  /\ repo.flushed /\ ~Committing => DOMAIN commits # {}

\* A commit under way comes right after the one it names.
Follows ==
  /\ pc = "insert" => w.since = HeadRev /\ w.prevData = HeadTree
  /\ pc \in {"blocks", "index"} => HeadRev = w.rev
  /\ Committing => IF w.since = 0 THEN w.prevData = Empty ELSE w.since \in DOMAIN commits

\* The index shows the base, and with the pending rows the commit.
IndexFollows ==
  /\ pc # "index" => index = BaseTree
  /\ Committing => repo.data = Changed(index)

\* The blocks of the base are listed for everybody who lacks them.
Numbered ==
  Base \in DOMAIN commits =>
    \A b \in Blocks(Base, BaseTree) :
      /\ b \in DOMAIN blockRev
      /\ \A r \in DOMAIN commits : r <= Base => blockRev[b] > r \/ b \in Blocks(r, commits[r])

\* The blocks that the commit under way adds are recorded, then numbered.
NewBlocks == Blocks(w.rev, repo.data) \ (IF w.since = 0 THEN {} ELSE Blocks(w.since, w.prevData))
Renumbered == {b \in DOMAIN blockRev : blockRev[b] = w.rev}
Recorded ==
  /\ pc \in {"ops", "sign"} =>
       \A p \in Path : repo.tree[p] # None =>
         RecordBlock(repo.tree[p]) \in recorded \/ \E q \in Path : HeadTree[q] = repo.tree[p]
  /\ pc = "insert" => NewBlocks \subseteq recorded
  /\ pc = "blocks" => NewBlocks \subseteq w.blocks \cup Renumbered
  /\ pc = "index" => NewBlocks \subseteq Renumbered

\* A reader that found a settled head finds its blocks.
ReaderServed ==
  reader.at = "head" /\ reader.settled =>
    reader.rev \in DOMAIN history /\ Blocks(reader.rev, history[reader.rev]) \subseteq DOMAIN blockRev

\* Every event explains its commit, from the tree that was announced for the
\* revision it continues from.
EventsLinked ==
  /\ \A i \in DOMAIN events : Leads(events[i].prevData, events[i].ops, events[i].data)
  /\ \A i \in DOMAIN events : events[i].since = 0 => events[i].prevData = Empty
  /\ \A i, j \in DOMAIN events :
       i < j /\ events[j].since = events[i].rev => events[j].prevData = events[i].data

SInv ==
  /\ IInv
  /\ OneOperation
  /\ InStep
  /\ Follows
  /\ IndexFollows
  /\ Numbered
  /\ Recorded
  /\ ReaderServed
  /\ EventsLinked
  /\ EventBlocks
=============================================================================
