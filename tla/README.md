# pocketPDS in TLA+

pocketPDS is a personal data server (PDS) for the AT Protocol in one Go process
with one SQLite database. This directory holds TLA+ modules translated from its
Go code, TLC configurations that model-check them on small instances, and
proofs, checked by TLAPS, that hold for every value of the constants.

Paths below are relative to the repository; `PROJECT.json` maps each definition
to the lines it stands for.

    tlc -workers 2 -config MCRepo.cfg MCRepo      # model-check
    tlapm RepoProofs.tla                          # check the proofs

## 1. The system

### Components, their state and their operations

| Component | Code | State | Operations |
|---|---|---|---|
| Firehose | `internal/firehose`, `HandleSubscribeRepos` in `internal/api/sync.go` | table `firehose_events`; `Emitter.seq`, `mu`, `subs`; per subscriber a live channel, an out channel, a goroutine | `NewEmitter`, `Publish`, `Subscribe`, its cleanup |
| Repository manager | `internal/repo`, `internal/db/blockstore.go` | tables `repo_commits`, `repo_blocks`, `repo_block_revs`, `repo_records`; `Manager.repos` (open handles), `Manager.mu`, the TID clock, the recording block store | `CreateAccount`, `ApplyWrites`, `ImportRepo`, `DeleteAccount`, `WriteRepoCAR`, the `Emit*` functions |
| Account lifecycle | `internal/api/account.go`, `account_admin.go`, `invite.go` | tables `accounts`, `invite_codes` | sign-up, change of handle, password and e-mail, activate, deactivate, delete |
| Sessions and tokens | `internal/api/auth.go`, `jwt.go`, `apppass.go`, `email.go` | tables `auth_sessions`, `app_passwords`, `email_tokens` | create, refresh, delete a session; app passwords; single-use e-mail tokens |
| Record API | `internal/api/repo.go`, `import.go` | none | validate a request, call the manager |
| Blob store | `internal/blob`, `internal/api/blob.go` | files, table `blobs` | put, open, list, delete |
| Bridge | `internal/bridge` | tables of synced CIDs and bridge settings; the remote session | `Sync`: publish and archive; set the account |
| Tunnel | `internal/tunnel`, `internal/admin/api_cloudflare.go` | the `cloudflared` child, its two files, DNS at Cloudflare | set up, start, restart, stop, supervise |
| Settings, start and shutdown | `cmd/pocketpds`, `internal/config`, `internal/db/settings.go` | environment, table `settings` | start, graceful shutdown, command line |
| Database | `internal/db` | the SQLite file, ONE connection | migrations, seed account |
| Identity | `internal/plc`, `internal/identity` | none here; the PLC directory is external | genesis and update operations, did:web documents |
| Admin API | `internal/admin` | rows of the tables above | writes of the other components, for the administrator |
| Rate limiter, app view, support | `internal/server`, `internal/api/appview*.go`, and others | a map of token buckets; otherwise rows of the tables above | mostly read-only |

### How they interact

- HTTP handlers run concurrently. `Manager.mu` serialises the work on
  repositories and `Emitter.mu` the publishing; the handlers of accounts,
  sessions and blobs take no lock and rely on single statements.
- `SetMaxOpenConns(1)` makes the database connection a lock of its own: an open
  cursor keeps it, and every other statement of the process waits.
- The lock order is `Manager.mu`, `Emitter.mu`, connection. A replay of the
  firehose holds the connection while it waits for its subscriber, with neither
  mutex; a publisher holds both mutexes while it waits for the connection.
- Apart from the import, no transaction holds a handler's statements together.
  A failed statement, a cancelled request (its context is passed to every
  statement) or a crash falls between any two of them.
- Sign-up calls the PLC directory, inserts the account, then calls the
  manager, which signs with the key in the account's row and publishes through
  the emitter. Deletion goes the other way: repository, row, event.

### What is hard, and what correct means

| Component | Hard | Correct |
|---|---|---|
| Firehose | hand-over from replay to live, full buffers, two locks, restarts | no event skipped but those the code drops; a number names one event; publishers and subscribers get on |
| Repository | four tables and a cached handle without a transaction, readers without the lock, imports under a cached handle | head, index and relay's copy agree; nothing dangles; answered writes stay; lost commits are visible |
| Accounts | five handlers without a lock over row, directory, repository and events | these agree; a repository lives and dies with its account; a code makes one account |
| Sessions | select, check and delete in separate statements | a token is used once; a revoked session stays revoked |
| Blobs | a file and a row, one row per content shared by accounts, paging | a listed blob can be opened; every blob is listed once |
| Bridge | marks written after the effect, overlapping runs, two directions | each record copied once, no echo |
| Tunnel | a child started but not yet stored | a restart reaches the child, stop ends |
| Settings | values stored one by one | the next start sees the old or the new settings |

`PROJECT.json` lists each hazard at its line, with the property that covers it
or why none does.

## 2. The modules

| Module | What it is |
|---|---|
| `EventStream` | what the firehose promises: an abstract log with clients |
| `Firehose` | `Publish`, `Subscribe`, its goroutine and the handler |
| `RepoViews` | what the repository promises to its head's, its index's and its events' readers |
| `Repo` | the manager's write path with the record handlers that call it, import and export |
| `Accounts` | the account handlers, with the directory, the repository and the events |
| `Sessions` | logins and their refresh tokens, app passwords, e-mail tokens |
| `Blobs` | the files and the rows of the blob store |
| `Listing` | lists that are read page by page while their rows come and go |
| `Bridge` | `Sync` in both directions, with both sides |
| `Process` | the supervisor and its child, `Stop`, setting up a tunnel, the settings, start and end of the process |
| `FirehoseProofs`, `RepoProofs`, `AccountsProofs`, `SessionsProofs`, `BlobsProofs`, `BridgeProofs`, `ProcessProofs` | the theorems about each; `BlobsProofs` has those about `Listing` too |
| `RepoViewsProofs` | the theorems about `Repo` without faults, with the refinement of `RepoViews` |
| `MCFirehose`, `MCRepo`, `MCAccounts`, `MCSessions`, `MCBlobs`, `MCBridge`, `MCProcess` | instances for TLC, with their symmetry sets; `MCBlobs` runs `Blobs` and `Listing` |

The modules meet at the calls of the code. `Accounts` has the calls of the
repository manager as single steps, whose inside is `Repo`; `Sessions` and
`Blobs` have the account as one row that comes and goes; `Repo` has the events
as what `EventStream` carries.

Definitions whose comment starts with "Variant" are mutated forms of the
definition they precede, each a plausible mistake in that code. They are no
part of any specification. Every checked property is shown to be violated when
one of them (`PROJECT.json`, "mutants") takes the place of the real one.

### Firehose

`Publish` is `BeginPublish` (mutex, number, frame), `InsertOk` or `InsertFails`
(the INSERT, which needs the connection) and `Broadcast` (the non-blocking
sends). `mu` says where the holder of the mutex is. `Connect` is `Subscribe` up
to the start of its goroutine; `Query`, `ReplayRow`, `ReplayDone`,
`ReplayFails`, `Forward` and `GoroutineExit` are the goroutine; `Receive` is
the handler's loop; `Disconnect` is the end of the request's context and
`Cleanup` the deferred function. `Restart` stops the process anywhere and runs
`NewEmitter`. `ConnBusy` is the connection: a goroutine in "replay" has it.

`missed[c]` records what the code drops knowingly: a frame for a full live
channel, and the rows that a failed replay has not read. `EventStream` allows
exactly that (`Lose`), and that a resumed client gets back what lies past its
cursor (`Resume`).

### Repo

One account. `HandleCreateRecord`, `HandlePutRecord`, `HandleDeleteRecord` and
`HandleApplyWrites` are the batches and the compare-and-swap arguments that the
record API gives to the manager (`Request`); from there, `ApplyWrites`,
`ApplyOp` or `RejectOp`, `OpsDone`, `Sign`,
`InsertCommit`, `PersistBlockRev`, `BlockRevsDone`, `UpsertRecord`,
`DeleteIndexRow` and `EmitCommit` are the statements of a write in their order;
`pc` is the statement that the holder of `Manager.mu` is at, `w` holds its
locals and `repo` the cached handle. `PutRefused` is the second
outcome of `ApplyOp` for a path that the tree already holds: whether the library
(external) takes such a key or refuses it, the model allows both. `CreateAccount`
enters at `Sign`; a write for an account without a row changes the handle before
its key is looked up, which `Accounts` has (`WriteRefused`). `Import`
is one action: it runs under the mutex, and its tables change in one transaction
(`import.go:89`), before which it only adds blocks that nothing refers to.
`ReadHead` and `ReadCids` are `WriteRepoCAR`, which takes no lock.
`StatementFails`, `SignFails` and `Crash` are the faults.

Records are their CIDs, a tree is a function from paths to CIDs, the nodes of
its MST are one block, and a revision is a number.

### Accounts

`req[r]` is a handler under way: its kind, its next step and its locals.
Statements that only read, up to the first that changes something, are one
action with it. A call of the manager is one action, because it runs under
`Manager.mu` (`Repo` has its inside). The directory `plc[d]` is the sequence of
handles of the operations it has accepted; it refuses one that does not follow
the latest (this is how `internal/plc/client.go` uses it: the directory itself
is external). A did:web is identified with its handle, so that an account can
be deleted and signed up again under the same DID; `life[d]` counts these, and
the n-th account writes record n. `Cut` ends a request at any step,
`SubmitAnswerLost` loses the answer of the directory, `Restart` stops the
process. `CreateRepoFails` and `DeleteRepoFails` are failures inside the calls
of the manager.

### Sessions

`accounts`, `sessions`, `appPw` and `mail` are the tables. `req[r]` is a handler
between two of its statements: a login between the account's row and
`mintSession`, a refresh before its DELETE ("delete") and before its INSERT
("mint"), an e-mail token's user before the UPDATE and before the mark. A
statement that stands alone (`Logout`, `DeleteAppPassword`, `InsertMail`) is one
action. Random tokens are numbers; access tokens are signed and stored
nowhere, so that whoever had an account may present one (`requireAuth`). `Fail`
ends a request anywhere, `Expire` and `ExpireMail` are the clock. `login[t]`
and `born[t]` say which login a token continues and which account of the DID
that login was for.

### Blobs and Listing

`Rename` and `Insert` are the two halves of `Store.Put`, which takes no lock. A
removal is `SelectPaths`, `RemoveFile` per file, `DeleteRows` (together under
`Manager.mu`, `Locked`) and `DeleteAccount`. `rows[c]` is the one row a content
can have: the first account that uploaded it. `claims` holds what uploads have
answered; it is what `UploadKept` is about. `rowless` are the claims of later
owners, whose INSERT changed nothing; such a claim stays there until the row goes
and an upload of the same owner inserts it.

`Listing` is the code of six queries that page in the same way: one row more
than the page is selected beyond the cursor, and the cursor of the next page is
the last row of the page (`NextByPage`) or the last row selected
(`NextBySelected`), as each handler has it. Keys stand for their ranks; rows are
inserted and deleted between the pages.

### Bridge

`local` and `remote` are the two sides' records, `published` and `archived` the
two directions of `bridge_sync`. A run publishes (`ListLocal`, then for each
record `Choose`, `Create`, for the profile also `PutSelf`, `MarkPublished`) and
archives (`ListRemote`, `ListProfile`, then for each record `Fetch`, `Archive`,
`MarkArchived`). `ListLocalFails` and the partial lists are the failing reads;
`ChooseAgain` is a look-up in `bridge_sync` that fails: `synced` then returns
false, and a marked record is published again. A record is
its content: rewriting the DIDs in it maps contents one to one, which is what
makes the marks of a round trip find their record. `Create` may lose its
answer, `MarkPublished` its mark (the code ignores that error), `Abort` ends a
run anywhere. No lock is held, and a second run can be started. A run is `clean`
while it is alone, nobody edits what it reads, and nothing but a mark fails in it;
this is more than an empty list of errors, since the code does not report
a failed look-up or a profile that could not be read.

### Process

The goroutine `run` of the supervisor is `Loop`, `Ready`, `Spawn`, `Register`
(the critical section that stores `m.cmd`), `Waited` and `Pause`. `Stop` is
`Cancel`, `SignalTerm`, `Timeout`, `Kill`, `Return`, for its two callers, the
restart handler and the end of `serve`. `ChildExits` is the child. A set-up is
`BeginApply`, `CreateTunnel`, `UpsertDNS`, `WriteCredentials`, `WriteConfig`
(`Provision`), `Bump` and `Bounce` (`Restart`), `StorePublicURL` and
`StoreDIDMethod`. Saving settings is `BeginPut` and one `PutSetting` per key, in
any order (the code ranges over a map). `Exec`, `ExecFails`, `Exit` and `Crash`
end the process, `Boot` starts it with what is saved.

Two assumptions are not in the Go code. Everything the supervisor does other
than waiting for its child takes less than the three seconds of `Stop`
(`Timeout` finds it at "wait"). A crash of the process takes the child with it:
`build/pocketpds.service` keeps systemd's default `KillMode`.

## 3. The runs

| Run | Instance | What it shows |
|---|---|---|
| `firehose` | 2 clients, 3 events, live 2, out 1 | `SentIsStored`, `OneRewind`, the inductive invariant `RInv` (with `IInv` and the types), and `ImplementsStream` (refinement of `EventStream`) |
| `firehose_live` | 2 clients, 2 events, capacities 1 | `PublishReturns`, `EventArrives` |
| `firehose_order` | 1 client, 2 events | finding: `StreamOrder` is violated |
| `repo` | 2 paths, 2 contents, 3 revisions, single operations, lock-free reader | the inductive invariant `SInv` (with `IInv` and the types), `IndexIsHead`, `OpsExplainCommit`, `EventBlocks`, `SinceExport`, `SettledExport`, `ImplementsViews` |
| `repo_faults` | 1 path, 1 content, 3 revisions, batches of 2, faults anywhere | `IInv`, `NothingDangles`, `AckedIsKept`, `EventOrder`, `GapsShow` |
| `repo_batch` | 1 path, 2 contents, batches of 2 | finding: `OpsExplainCommit` is violated |
| `repo_export` | 2 paths, 2 contents, single operations, no imports | finding: `WholeExport` is violated |
| `accounts` | 2 handles, 2 did:plc, 1 code, 2 requests at a time, 4 in all, either DID method | `IInv`, `HandlePublished`, `HandleAgrees`, `StatusTold`, `RepoFollowsAccount`, `RepoIsOwn`, `InviteOnce` |
| `sessions` | 1 DID with 2 accounts in a row, 2 passwords, 1 address, 1 name, 2 requests at a time, 4 starts, 1 e-mail token, 1 app password | `OneHolder`, `LoginLasts`, `SessionsOwn`, `ActsOnce` |
| `blobs` | store: 2 DIDs, 2 contents, 3 requests at a time, 5 starts; lists: 5 keys, pages of 1 and 2, 1 reader | `FilesAndRows`, `UploadKept`, `PagesComplete` |
| `bridge` | 2 contents, 2 runs at a time and in all, 3 keys besides the profile's | `PublishedOnce`, `EchoEnds`, `RoundTrip` |
| `process` | 2 hosts, 3 forms, 2 requests, 2 tunnels, 1 start after the first | `NoChildLeft`, `ChildCurrent`, `TunnelWhole`, `SettingsWhole`, `StopEnds` |

### Why the bounds are enough for the interesting cases

- `firehose`: with three events and an out channel of one, a replay can block
  with a row in hand, a row left to read, and another event arriving; with a
  live channel of two it can hold the frame of the race with the query and
  still overflow. Two clients compete for the connection. `Restart` is
  unbounded.
- `firehose_live`: a smaller instance, as liveness is checked without symmetry;
  a full channel and both replays waiting for the connection still occur.
- `repo`: three revisions let a record be created, deleted and created again
  (the case of `EventBlocks` and `SinceExport`), and an import fall between two
  writes. Two contents tell an update from a no-op, two paths a block of one
  record from the commit's.
- `repo_faults`: a batch of two on one path has a first operation that changed
  the handle and a second that is refused or fails; three revisions let a
  commit lose its event and another follow it. One content keeps the product
  of fault points small; the properties of this run do not compare contents of
  records, and the same run with two contents also passes.
- `accounts`: four requests are a sign-up, a deletion, a sign-up under the same
  DID and a write; or two sign-ups and two crossing changes. Two are under way
  at a time.

- `sessions`: a sign-up, a login and two refreshes, or a deletion and a second
  sign-up of the DID between them, with logout, expiry and failure at any
  point. With two requests a token is refreshed twice at a time, and a refresh
  meets a logout. E-mail and app passwords share no table with the sessions but
  the account's; one of each is used by two requests, or by one twice.
- `blobs`: three requests are an upload while two removals wait for each other,
  or two uploads of one content and a removal; five starts bring back a DID.
  For lists, a page of two of five keys leaves rows on both sides of a cursor.
  Store and lists share no variable, so `MCNext` lets a behaviour be one or the
  other.
- `bridge`: two runs are a run and its repetition, or two that overlap; three
  keys hold a post, its copy and either the copy of the copy, so that a further
  echo would show, or another post.
- `process`: one set-up with a restart and a stop meets the supervisor at each
  of its steps, and a settings form meets another or a set-up. Since the writes
  of settings and the supervisor meet only in `Boot`, `MCNext` lets a behaviour
  be one ("tunnel", with one tunnel) or the other ("settings", with two). The
  three forms cover a changed address with an empty port, a changed method and
  port, and a form that is refused; `boots` counts crashes, ends and re-execs.

The proofs carry the invariants of all modules beyond these bounds.

`CHECK_DEADLOCK FALSE` is used where the bound on revisions, requests
or runs ends the behaviours; the firehose is checked for deadlock.

### Fairness

`FairSpec` of `Firehose` assumes weak fairness of the steps of a goroutine and of
`Broadcast`: the Go scheduler runs what can run. It assumes strong fairness of `InsertOk` and `Query`, the two steps
that wait for the connection: `database/sql` queues those requests and hands
the connection to them in order, so a waiter that can have it infinitely often
gets it. Nothing is assumed of failing INSERTs, connecting, leaving, or restarts,
nor that a client reads: the server sets no write deadline (`main.go:103-107`),
and TCP keeps a peer that acknowledges with a closed window. So a connected client
that stops reading in its replay (`Stalled`) holds the connection for as long as it
likes, and with it every statement of the process. Both liveness properties name
this as the one alternative: a publisher returns, and an event arrives, or some
client is stalled for ever. `EventArrives` besides asks of its OWN client that it
reads (the hypothesis `WF_vars(Receive(c))` of the property), and of the others
nothing but not to stall in a replay.

`Fairness` of `Process` assumes weak fairness of the supervisor and of the steps
of a `Stop` that was called: goroutines are scheduled and timers fire. Nothing is
assumed of the child, which may ignore SIGTERM, of Cloudflare, or of the clients.

The other modules have no liveness property: their handlers wait for nothing
but a mutex or, in `Bridge`, a remote call with a time limit.

## 4. What is proved

| Theorem | Module | Statement |
|---|---|---|
| `Invariance` | each | `Spec => []IInv` (`FaultySpec` in `RepoProofs`) |
| `TypeCorrect` | each | `Spec => []TypeOK` |
| `Stored` | `FirehoseProofs` | what a client is sent is a stored row |
| `Implements` | `FirehoseProofs` | `Firehose` implements `EventStream` |
| `HandoverInvariance` | `FirehoseProofs` | `Spec => []RInv`: where each connection goes over from replay to live |
| `RewindsOnce` | `FirehoseProofs` | a connection's stream goes back once at most, to a frame it had |
| `Readable` | `RepoProofs` | nothing a commit or the index leads to is missing |
| `Durable` | `RepoProofs` | answered writes stay |
| `Ordered` | `RepoProofs` | announced revisions grow |
| `NoSilentGap` | `RepoProofs` | a lost commit can be seen in the next event |
| `SteadyInvariance` | `RepoViewsProofs` | `Spec => []SInv` |
| `IndexAgrees` | `RepoViewsProofs` | between writes the index is the head's tree |
| `EventsExplained`, `EventsComplete` | `RepoViewsProofs` | an event's operations explain its commit, its blocks suffice |
| `ExportsSince`, `ExportsSettled` | `RepoViewsProofs` | an export since a commit, or one of a settled head, lacks nothing |
| `Implements` | `RepoViewsProofs` | `Repo` implements `RepoViews` |
| `PublishedFirst` | `AccountsProofs` | a did:plc's stored handle is one the directory has accepted |
| `RepoFollows`, `OnlyOwnRecords` | `AccountsProofs` | a repository goes with its account |
| `OneAccountPerCode` | `AccountsProofs` | an invite code makes one account |
| `AnnouncedInvariance` | `AccountsProofs` | `Spec => []Announced`: what directory and events say while a request runs |
| `HandlesAgree`, `StatusIsTold` | `AccountsProofs` | row, directory and last events agree between requests |
| `OneToken`, `LastsUntilEnded` | `SessionsProofs` | a login has one refresh token, until it is ended and no longer |
| `NothingLeftBehind` | `SessionsProofs` | no session or app password without its own account |
| `UsedOnce` | `SessionsProofs` | an e-mail token changes an account once, and shows it |
| `StoreAgrees`, `AnsweredIsKept` | `BlobsProofs` | files and rows agree; what an upload answered can be opened |
| `ListsComplete` | `BlobsProofs` | paging to the end misses and repeats nothing but what the code's cursors skip (`ListSpec`) |
| `NotTwice`, `NoEndlessEcho` | `BridgeProofs` | a content is published once, its echo ends |
| `BothSidesAlike` | `BridgeProofs` | a clean run leaves both sides alike |
| `NoOrphan`, `RunsWhatIsConfigured` | `ProcessProofs` | `Stop` leaves no child, and a child runs what is on disk |
| `OneTunnel`, `NoMixture` | `ProcessProofs` | files and DNS name one tunnel, settings are of one form |

All are theorems of the specification for every value of the constants, under
the one `ASSUME` of each module: capacities are positive, `None` and `AnyCid`
are not contents, handles and did:plc identities differ, forms are settings, the
bounds are naturals. TLC evaluates these assumptions in the runs. Only the
theorems of `RepoViewsProofs` have a hypothesis besides: `MaxBatch = 1`, a write
is one operation, as every createRecord, putRecord and deleteRecord is. It cannot
be dropped: with batches of two TLC finds each of the six properties violated
(`OpsExplainCommit` in run `repo_batch`; see also the end of section 5).

Each inductive invariant was checked by TLC before it was proved; `IInv` and
`RInv` of `Firehose`, `IInv` and `SInv` of `Repo` and `IInv` of `Accounts` stand
in the components' modules and remain invariants of the runs, the others
(`Announced`, `LInv` and `TInv` among them) stand with their proofs. Every safety
invariant and both refinements that a passing run checks are theorems.

### The arguments

*Firehose.* `SentIsStored` and the refinement are not inductive: that a frame
may be delivered depends on where the earlier ones are. At any time a row that
a subscriber lacks sits in its out channel, in the rows its replay has yet to
read, in its live channel, or in the hand of the publisher that is about to
broadcast it (`Covered`). Read in this order the four places are ordered by
number (`OutInOrder`, `TodoInOrder`, the last part of `Phases`), so what is
delivered next has nothing undelivered before it (`SeenClosed`). `Numbering`
says that a number names one row and that a frame is broadcast after it is
stored and before any larger number is taken; `CursorClosed` starts the
argument at the cursor. Each action of `Firehose` then maps to `Append`,
`Deliver`, `Lose`, `Resume` or a stutter of `EventStream`.

For `OneRewind` it is not enough to know what is missing; the ORDER of what a
connection was sent counts. `RInv` gives each connection a position p at which it
went over from the replay to live frames (`GoesOverAt`): both parts ascend, all of
the live part is past the cursor, and the replay, up to where it got, left out no
row past the cursor. A frame that goes back is therefore the first live one, and
one not past the replay's end is a row that the replay has sent already.

*Repo.* After a fault the cached handle may be AHEAD of the tables, never
behind (`HandleAhead`), and a revision number is never given out twice
(`Revisions`); so a revision names one tree in the commit table, the handle,
the locals of the write and the events (`OneTree`). That gives `NoSilentGap`:
an event that continues from the one before it continues from the tree the
other announced. `StoredFirst` says that blocks are stored before any commit,
index row or handle refers to them, which makes every fault point harmless for
`Readable`.

*Repo without faults.* `SInv` says of each statement of a write how far the handle
is ahead of the head (`InStep`: by the one operation in hand, or not at all), how
far the index is behind it (`IndexFollows`), which block of the new commit has a
revision number already (`Numbered`, `Recorded`), what the unlocked reader may
have read (`ReaderServed`), and how each event follows from the one before it
(`Follows`, `EventsLinked`). The folds are the difficulty: `Applied` folds one
operation and `Copy` all events, and a fold is a CHOSEN function. `AppliedOne`
takes the chosen function apart for one index. `CopyIsLast` says that
the relay's copy is the tree of the last event: it is proved without an induction
principle, by the least number at which it would fail (`LeastNumber`, from
well-foundedness of the naturals). With it, each statement maps to one action of
`RepoViews` or a stutter.

*Accounts.* `Accepted` carries the handle from the directory to the statement
that stores it; with `Born` it gives `PublishedFirst`, for every interleaving
and every fault. For the repository, `NoConflict` says that requests under way
for one undisturbed DID do not conflict, `RowThere` which steps of a sign-up or
deletion find the row, and `OwnRepo` that the repository is bare before the
sign-up's commit and after the deletion's first step, and otherwise holds
records of the present account only. `CodeUnused` follows a code from the check
to the mark.

`HandleAgrees` and `StatusTold` speak of the time between requests, and nothing in
`IInv` says what the directory and the events have said meanwhile. `Announced`
does: the directory may be ahead of the row, and the row ahead of the last event,
by exactly what one request under way brings, at the step where it is. It is
inductive relative to `IInv`: `NoConflict` makes that request the only one of its
kind for an undisturbed DID (`OnlyKinds`), and a request of another kind or for
another DID touches none of this (`FitsFar`). `Unborn` is needed for the first
sign-up of a DID, whose account must not find a status announced.

*Sessions.* `Numbered` says that numbers of tokens are not used twice and that a
login is named by its first token; `Refreshes` what each step of a refresh knows
of its token: before the DELETE the row is there unless the login is `crossed`,
and before the INSERT no other token of the login has one. With `OneHolder` and
`LoginLasts` in it, it is inductive: a second holder would need a second refresh,
logout or deletion in between, which is what `crossed` records. `HeldRight`
follows an e-mail token from the look-up over UPDATE and mark, in either order.

*Blobs.* `Renamed` and `KnowsRows` carry what an upload and a removal know over
their two halves: the file of a pending INSERT is in place, the rows of a removal
are those it selected. Both could be spoiled only by the other, and `MetSpoils`
says that then the content is marked. `OneRemover` is the mutex, `Removed` says
that a file goes only while its row is about to, `NoClaims` that a removal has
withdrawn the answers it breaks.

*Listing.* What a query returns is stated by counting: the k-th row is the one with
k - 1 rows ahead of it, so a page is full or nothing is left beyond it, and the
last row of the page, or the first outside it, is where the rest begins
(`PageFacts`, `PageCursor`, `SelectedCursor`). `LInv` then follows a reader: of the
rows that were there all the time, none is passed over but by being a cursor
(`NonePassed`), and nothing delivered lies ahead of it (`NotAhead`).

*Bridge.* `Once` counts: a content that is neither marked nor in a run's hand was
not created, and one run at most has it. `Known` ties a key to one content on
both sides, `Listed` what a run has read to it. `Spread` then places a content: at
the key it was written under and at the key of its one copy, and nowhere else;
an archived copy takes the key it has on the other side, so that the two keys
are all there are.

For `RoundTrip`, `Truthful` says what a mark is worth: a marked post is on that
side, unless somebody deleted it, also when a run that was not clean made the
mark. A clean run is the only one (`Alone`). From there it is followed half by
half: while it sends, each local post is on the other side, still listed or in
hand (`PostsGo`), and while it fetches, each post of the other side is here or
still listed (`PostsCome`). The profile is harder, because both sides write one key:
`ProfileGoes` and `ProfileComes` leave the case open that the local profile was
not sent for it had a mark, and the remote one not fetched for the same reason;
`MarksAgree` says that then they are the same, which holds only if no two runs
ever overlapped (`Replaces`).

*Process.* `Watched` says which steps of the supervisor have a child and
`m.cmd`, and that `done` is closed without one, which gives `NoOrphan`. `Current`
compares the child's configuration with the file's over `Bump` and `Bounce`: a
child that started earlier is dying or will get the signal, unless it `missed`
it. `OneProvisions` makes a set-up that is alone the only writer of the files,
`Written` and `Loaded` follow a form from the first key to the last.

### Only model-checked

- The liveness properties `PublishReturns`, `EventArrives` and `StopEnds`:
  liveness under fairness and ENABLED are beyond the prover.
- What the runs `firehose_order`, `repo_batch` and `repo_export` refute is, of
  course, not proved; what does hold in its place is.

The folds need no induction here beyond the least counterexample above: what
is proved of them is what the model asks, not what a fold computes in general,
for which the library's induction theorems would be needed (they take an
operator as a parameter, which none of the installed provers can instantiate).
No module that proofs reach has a RECURSIVE operator.

## 5. Where the code does not do what is said of it

Three runs end in a counterexample on purpose; each checks a sentence of the
repository.

- `firehose_order`. `firehose.go:101-103` says stream order always matches
  sequence order. Frames published after a subscriber is registered and before
  its query are in the replay and in the live channel. With one such frame it is
  sent twice in a row; with two, as in the run, the client gets 1, 2, 1, 2, which
  `StreamOrder` forbids at the second 1. `OneRewind` is
  what does hold: one step back per connection, and only to frames already sent.
- `repo_batch`. `manager.go:241` says a batch is applied atomically. When its
  second operation is refused, the first stays in the cached handle's tree; the
  next write commits it, unannounced and unindexed. With single-operation
  writes `OpsExplainCommit` holds (run `repo`).
- `repo_export`. `car.go:13-15` says the CAR is rooted at the head and contains
  all blocks. The export runs without the mutex: in the run it reads the head
  after the commit row is inserted, and the list of blocks before those of that
  commit are numbered. There is no import in this run (`WritesSpec`), so a write
  alone suffices. `SettledExport` is what does hold.

In the other modules no sentence of the repository is contradicted, but the
modelling met sequences of steps that the properties have to exclude. They are
named here; the ghost variables collect exactly these.

In `Accounts` there are sequences in which row, directory, repository and events come to disagree.
The variables `disturbed` (DIDs) and `spoiled` (codes) collect exactly these,
and the properties speak of everything else:

- a write that falls between the two halves of a deletion leaves commits and
  index rows without an account;
- two deletions, or two changes of handle or status, of one account cross;
- the UPDATE of the handle is refused (the handle is taken) after the directory
  has accepted it, or the directory's answer is lost;
- a request is cut short after its first effect;
- a token used after the account was deleted changes the open handle of the
  repository (`WriteRefused`), which a new account of that did:web would commit;
- two overlapping sign-ups use one invite code, or the statement that marks it
  fails (its error is ignored).

`HandlePublished` needs none of these exclusions. A did:web that signs up again
publishes no #account event, so the last one still says "deleted";
`StatusTold` states this.

In `Sessions`, `crossed` holds logins with two requests at a time for one token:
two refreshes that both find it get a token each, and a logout or a deletion
that falls into a refresh does not end the login. A refresh that fails between
DELETE and INSERT ends the login (`Fail`, `LoginLasts`). `reused` holds e-mail
tokens that two requests found before one marked it, or whose mark failed.
Sessions that were opened with an app password stay when it is revoked.

In `Blobs`, the second account that uploads a content gets no row, so it cannot
open its blob by its DID, and the removal of the first account removes the file:
`rowless` holds these claims. `UploadKept` excepts them and nothing else of a
shared content: the owner of the row keeps its blob, whatever the other account
uploads or removes. `spoiled` holds contents over which an upload and a
removal met (the new file is removed, or a row stays without a file) and those
of a removal that broke off; `orphans` files without a row after an error. In
`Listing`, the two lists of blobs give as cursor the first row AFTER the page
and then select beyond it, so that each page boundary loses a row:
`PagesComplete` says exactly which (`handed`).

In `Bridge`, `excused` holds contents that two overlapping runs had in hand at a
time, those whose publication was not marked (lost answer, ignored error,
aborted run) and those whose mark a failed look-up did not find: each is published
again. A profile is sent with `createRecord`
first, which leaves a stray record besides the one `putRecord` writes; `copies`
counts it. A published post comes back once as a local post under another key
(`EchoEnds` bounds it). `RoundTrip` excludes runs that overlapped, for the
profile only: a late `putRecord` leaves an old profile that is marked.

In `Process`, `missed` is a `Restart` whose signal falls between `cmd.Start` and
the step that stores `m.cmd`: the child keeps its old configuration. `mixed` are
two set-ups at a time, or a file that was cut short, `torn` two writers of
settings at a time, or one that broke off. An empty `smtp_port` is saved and
ignored at the start, so a restart stays required. After a re-exec that failed
the tunnel stays stopped (`ExecFails`). None of this is excluded from
`NoChildLeft` and `StopEnds`.

One property is not checked where it would fail: with batches, a delete and a
create of one path leave the index without the record that the head has, because
all upserts come before all deletes (`manager.go:367`). `IndexIsHead` holds in
run `repo`, whose writes are single operations.

## 6. What is not modelled

- In `Firehose`: CBOR layout, the early returns of `Publish` that change
  nothing, an error of `NewEmitter`'s query, the wait of a shutdown for its
  handlers.
- In `Repo`: relay notification, queries, several accounts (they share only the
  mutex and the immutable blocks), a clock that goes back, imports of CARs that
  lack blocks, an import that fails (it leaves only unreferenced blocks), decoding
  and validation of records. Signature and MST encoding are taken as injective.
- In `Accounts`: creating and disabling codes and the command line's deletion, a
  second process with a cache of its own.
- In `Sessions`: hashing, the signature and the claims of access tokens (the
  privileges of an app password are one of them), handlers that only read.
- In `Blobs`: reading the upload into its temporary file, with the size limit.
- In `Bridge`: the remote session's tokens, the layout of records and facets, the
  copying of blobs (one more way for a record to fail), a change of the remote
  account, which the marks do not name.
- In `Process`: three settings stand for all, one that may be empty and two that
  may not; forwarding of the child's log, `install.go` (a download), the command
  line, parsing of the environment.
- The rate limiter (one mutex around floating-point time), the route table, the
  app view (read-only views and single-statement upserts), cryptography,
  encodings, HTTP and e-mail clients, page queries and the admin's login: pure
  functions, pure I/O and handlers of one statement, in which no two steps of the
  program meet. The app view's nested query, which needs a second connection, is
  listed as a hazard; the pool it waits for is the one of `PublishReturns`.

## 7. What could follow

In the order of their worth: the command line as a second process beside
`Accounts`; a run of `Repo` with batches that isolates the order of the index
statements; imports of partial CARs and a clock that goes back over a restart,
for the order of revisions; the end of `serve` with the handlers it waits for.
