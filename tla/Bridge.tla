-------------------------------- MODULE Bridge --------------------------------
(***************************************************************************)
(* The bridge to a bsky.social account (internal/bridge): Sync publishes   *)
(* the local posts and profile there and archives the posts and profile of *)
(* the other side here.  What has been copied is remembered per direction  *)
(* by the content it was copied from.                                      *)
(*                                                                         *)
(* A run holds no lock, and the administrator can start another one while  *)
(* it is under way.  Each call of the other side, each call of the         *)
(* repository manager and each mark is an action; so is each list that is  *)
(* read.  Rewriting the DIDs in a record maps contents one to one, so that *)
(* a content stands for its local and its remote form; blobs travel with   *)
(* their records and only add ways for a copy to fail.  Records on either  *)
(* side have keys that are never used twice; the profile has key Self.     *)
(***************************************************************************)
EXTENDS Integers, FiniteSets

CONSTANTS Content,   \* contents people write, each once
          None,      \* no record
          Run,       \* runs of Sync that can be under way at once
          MaxKey,    \* bound on the record keys handed out
          MaxRuns    \* bound on the runs

ASSUME BridgeAssumption == None \notin Content /\ MaxKey \in Nat /\ MaxRuns \in Nat

Self == 0
Key == 0..MaxKey

VARIABLES
  config,     \* bridge_config: which of handle and password are set
  local,      \* local records, by key
  remote,     \* the other side's
  keys,       \* the last record key handed out, on any side
  published,  \* bridge_sync, direction "publish", by content
  archived,   \* bridge_sync, direction "archive"
  run,        \* runs under way
  runs,       \* how many runs there were
  written,    \* contents that were written by someone
  removed,    \* contents of posts that someone deleted
  copies,     \* how many records createRecord has made of each content
  excused,    \* contents that two runs published at a time, whose
              \* publication was not marked, or whose mark was not found
  overlapped  \* two runs were under way at once

ghosts == <<written, removed, copies, excused, overlapped>>
sides == <<local, remote, keys>>
marks == <<published, archived>>
vars == <<config, sides, marks, run, runs, ghosts>>

\* A run has its place, what it has listed and not looked at, the record it
\* copies and whether the profile's turn has come; it is clean as long as
\* nothing but a mark failed in it, reported or not, and nothing else happened
\* since it started.
NoItem == <<Self, None>>
Idle == [at |-> "idle", todo |-> {}, item |-> NoItem, profile |-> FALSE, clean |-> FALSE]

Init ==
  /\ config = {}
  /\ local = [k \in Key |-> None]
  /\ remote = [k \in Key |-> None]
  /\ keys = 0
  /\ published = {} /\ archived = {}
  /\ run = [r \in Run |-> Idle]
  /\ runs = 0
  /\ written = {} /\ removed = {}
  /\ copies = [p \in Content |-> 0]
  /\ excused = {}
  /\ overlapped = FALSE

-----------------------------------------------------------------------------
(***************************************************************************)
(* Helpers.                                                                *)
(***************************************************************************)
Records(side) == {<<k, side[k]>> : k \in {k \in Key : side[k] # None}}
Contents(S) == {x[2] : x \in S}
At(r, at) == run[r].at = at
Item(r) == run[r].item[2]
Go(r, at) == run' = [run EXCEPT ![r].at = at]
Over(r, at) == run' = [run EXCEPT ![r].at = at, ![r].item = NoItem]
Error(r, at) == run' = [run EXCEPT ![r].at = at, ![r].item = NoItem, ![r].clean = FALSE]

\* What people do disturbs the runs that are under way.
Disturb == run' = [r \in Run |-> [run[r] EXCEPT !.clean = FALSE]]

\* p, if another run than r is about to publish it.
Contested(r, p) == {p : q \in {q \in Run \ {r} : run[q].at \in {"create", "put", "mark"} /\ Item(q) = p}}

-----------------------------------------------------------------------------
(***************************************************************************)
(* People write and delete, and the administrator sets the account.        *)
(***************************************************************************)
\* SetHandle and SetPassword: one statement each, of SetConfig's two.
SetConfig(field) ==
  /\ field \notin config
  /\ config' = config \cup {field}
  /\ UNCHANGED <<sides, marks, run, runs, ghosts>>

WriteLocal(p) ==
  /\ p \notin written /\ keys < MaxKey
  /\ written' = written \cup {p}
  /\ keys' = keys + 1
  /\ local' = [local EXCEPT ![keys + 1] = p]
  /\ Disturb
  /\ UNCHANGED <<config, remote, marks, runs, removed, copies, excused, overlapped>>

WriteRemote(p) ==
  /\ p \notin written /\ keys < MaxKey
  /\ written' = written \cup {p}
  /\ keys' = keys + 1
  /\ remote' = [remote EXCEPT ![keys + 1] = p]
  /\ Disturb
  /\ UNCHANGED <<config, local, marks, runs, removed, copies, excused, overlapped>>

EditProfile(p) ==
  /\ p \notin written
  /\ written' = written \cup {p}
  /\ \/ local' = [local EXCEPT ![Self] = p] /\ UNCHANGED remote
     \/ remote' = [remote EXCEPT ![Self] = p] /\ UNCHANGED local
  /\ Disturb
  /\ UNCHANGED <<config, keys, marks, runs, removed, copies, excused, overlapped>>

Delete(k) ==
  /\ k # Self
  /\ \/ /\ local[k] # None
        /\ local' = [local EXCEPT ![k] = None]
        /\ removed' = removed \cup {local[k]}
        /\ UNCHANGED remote
     \/ /\ remote[k] # None
        /\ remote' = [remote EXCEPT ![k] = None]
        /\ removed' = removed \cup {remote[k]}
        /\ UNCHANGED local
  /\ Disturb
  /\ UNCHANGED <<config, keys, marks, runs, written, copies, excused, overlapped>>

-----------------------------------------------------------------------------
(***************************************************************************)
(* Sync: first publish...                                                  *)
(***************************************************************************)
\* The account is configured, and the login succeeds.
BeginSync(r) ==
  /\ config = {"handle", "password"}
  /\ At(r, "idle")
  /\ runs < MaxRuns
  /\ runs' = runs + 1
  /\ run' = [q \in Run |-> IF q = r THEN [Idle EXCEPT !.at = "list",
                                                      !.clean = \A s \in Run : At(s, "idle")]
                                    ELSE [run[q] EXCEPT !.clean = FALSE]]
  /\ overlapped' = (overlapped \/ \E s \in Run : ~At(s, "idle"))
  /\ UNCHANGED <<config, sides, marks, written, removed, copies, excused>>

\* All local posts in one list, and the profile.
ListLocal(r) ==
  /\ At(r, "list")
  /\ run' = [run EXCEPT ![r] = [@ EXCEPT !.at = "publish", !.todo = Records(local)]]
  /\ UNCHANGED <<config, sides, marks, runs, ghosts>>

\* Without the list of posts nothing is published, and the run goes on to
\* archive; a failing read of the profile is not reported.
ListLocalFails(r) ==
  /\ At(r, "list")
  /\ \E S \in {{}, {x \in Records(local) : x[1] # Self}} :
       run' = [run EXCEPT ![r] = [@ EXCEPT !.at = "publish", !.todo = S, !.clean = FALSE]]
  /\ UNCHANGED <<config, sides, marks, runs, ghosts>>

\* A record is looked up in bridge_sync when its turn comes.  Marks are never
\* removed, so passing over one that has its mark needs no step.
Choose(r) ==
  /\ At(r, "publish")
  /\ \E x \in run[r].todo :
       /\ x[2] \notin published
       /\ run' = [run EXCEPT ![r].at = "create", ![r].todo = @ \ {x}, ![r].item = x]
       /\ excused' = excused \cup Contested(r, x[2])
  /\ UNCHANGED <<config, sides, marks, runs, written, removed, copies, overlapped>>

\* The look-up fails, which counts as finding no mark (synced): a record that
\* has one is published again.
ChooseAgain(r) ==
  /\ At(r, "publish")
  /\ \E x \in run[r].todo :
       /\ x[2] \in published
       /\ run' = [run EXCEPT ![r].at = "create", ![r].todo = @ \ {x}, ![r].item = x,
                             ![r].clean = FALSE]
       /\ excused' = excused \cup {x[2]}
  /\ UNCHANGED <<config, sides, marks, runs, written, removed, copies, overlapped>>

\* A record, a blob of it or the call is refused before anything is made.
\* For the profile the answer of the call is not looked at: putRecord is next.
CreateFails(r) ==
  /\ At(r, "create")
  /\ Error(r, "publish") \/ (run[r].item[1] = Self /\ Go(r, "put"))
  /\ UNCHANGED <<config, sides, marks, runs, ghosts>>

\* createRecord: the other side makes the record under a new key, and its
\* answer arrives or (a timeout, a broken connection) does not.  A profile
\* made like this is in its collection under a key where nobody looks for it.
Create(r) ==
  /\ At(r, "create")
  /\ copies' = [copies EXCEPT ![Item(r)] = @ + 1]
  /\ IF run[r].item[1] = Self THEN Go(r, "put") /\ UNCHANGED <<remote, keys, excused>>
     ELSE /\ keys < MaxKey
          /\ keys' = keys + 1
          /\ remote' = [remote EXCEPT ![keys + 1] = Item(r)]
          /\ \/ Go(r, "mark") /\ UNCHANGED excused
             \/ Error(r, "publish") /\ excused' = excused \cup {Item(r)}
  /\ UNCHANGED <<config, local, marks, runs, written, removed, overlapped>>

\* Variant: the profile is only created, under a new key like a post.
PutSelfForgotten(r) ==
  /\ At(r, "put")
  /\ Go(r, "mark")
  /\ UNCHANGED <<config, sides, marks, runs, ghosts>>

\* putRecord: the profile goes to its own key, besides the record just made.
PutSelf(r) ==
  /\ At(r, "put")
  /\ remote' = [remote EXCEPT ![Self] = Item(r)]
  /\ \/ Go(r, "mark") /\ UNCHANGED excused
     \/ Error(r, "publish") /\ excused' = excused \cup {Item(r)}
  /\ UNCHANGED <<config, local, keys, marks, runs, written, removed, copies, overlapped>>

PutSelfFails(r) ==
  /\ At(r, "put")
  /\ Error(r, "publish")
  /\ excused' = excused \cup {Item(r)}
  /\ UNCHANGED <<config, sides, marks, runs, written, removed, copies, overlapped>>

\* Variant: the wrong direction is marked.
MarkPublishedAsArchived(r) ==
  /\ At(r, "mark")
  /\ archived' = archived \cup {Item(r)}
  /\ Over(r, "publish")
  /\ UNCHANGED <<config, sides, published, runs, ghosts>>

\* markSynced; its error is ignored.
MarkPublished(r) ==
  /\ At(r, "mark")
  /\ \/ published' = published \cup {Item(r)} /\ UNCHANGED excused
     \/ excused' = excused \cup {Item(r)} /\ UNCHANGED published
  /\ Over(r, "publish")
  /\ UNCHANGED <<config, sides, archived, runs, written, removed, copies, overlapped>>

-----------------------------------------------------------------------------
(***************************************************************************)
(* ... then archive.                                                       *)
(***************************************************************************)
\* When all that was listed is marked or has been tried, the other side's
\* posts, read in pages, newest first; a failing page ends the list.  A post
\* written meanwhile is before the page that is read next, and one that is
\* deleted meanwhile is archived or not, as if archiving it failed.
ListRemote(r) ==
  /\ At(r, "publish") /\ Contents(run[r].todo) \subseteq published
  /\ \/ run' = [run EXCEPT ![r] = [@ EXCEPT !.at = "archive",
                                            !.todo = {x \in Records(remote) : x[1] # Self}]]
     \/ \E k \in Key :
          run' = [run EXCEPT ![r] = [@ EXCEPT !.at = "archive", !.clean = FALSE,
                                              !.todo = {x \in Records(remote) : x[1] > k}]]
  /\ UNCHANGED <<config, sides, marks, runs, ghosts>>

\* ... and after them the profile; an error is not reported.
ListProfile(r) ==
  /\ At(r, "archive") /\ Contents(run[r].todo) \subseteq archived /\ ~run[r].profile
  /\ \/ run' = [run EXCEPT ![r] = [@ EXCEPT !.profile = TRUE,
                                            !.todo = {x \in Records(remote) : x[1] = Self}]]
     \/ run' = [run EXCEPT ![r] = [@ EXCEPT !.profile = TRUE, !.clean = FALSE]]
  /\ UNCHANGED <<config, sides, marks, runs, ghosts>>

\* A record that has no mark, or whose look-up fails, is in hand while its
\* blobs are downloaded.
Fetch(r) ==
  /\ At(r, "archive")
  /\ \E x \in run[r].todo :
       run' = [run EXCEPT ![r].at = "fetch", ![r].todo = @ \ {x}, ![r].item = x,
                          ![r].clean = @ /\ x[2] \notin archived]
  /\ UNCHANGED <<config, sides, marks, runs, ghosts>>

\* Variant: an archived post gets a key of its own.
ArchiveUnderNewKey(r) ==
  /\ At(r, "fetch") /\ keys < MaxKey
  /\ keys' = keys + 1
  /\ local' = [local EXCEPT ![keys + 1] = Item(r)]
  /\ Go(r, "note")
  /\ UNCHANGED <<config, remote, marks, runs, ghosts>>

\* PutRecord, under the key the record has on the other side.
Archive(r) ==
  /\ At(r, "fetch")
  /\ local' = [local EXCEPT ![run[r].item[1]] = Item(r)]
  /\ Go(r, "note")
  /\ UNCHANGED <<config, remote, keys, marks, runs, ghosts>>

\* The record, a blob of it or the write fails; the write also when the
\* repository refuses a key it has.
ArchiveFails(r) ==
  /\ At(r, "fetch")
  /\ Error(r, "archive")
  /\ UNCHANGED <<config, sides, marks, runs, ghosts>>

MarkArchived(r) ==
  /\ At(r, "note")
  /\ archived' \in {archived, archived \cup {Item(r)}}
  /\ Over(r, "archive")
  /\ UNCHANGED <<config, sides, published, runs, ghosts>>

Ending(r) == At(r, "archive") /\ Contents(run[r].todo) \subseteq archived /\ run[r].profile

EndSync(r) ==
  /\ Ending(r)
  /\ run' = [run EXCEPT ![r] = Idle]
  /\ UNCHANGED <<config, sides, marks, runs, ghosts>>

\* The process ends, or the client that asked for the run leaves.
Abort(r) ==
  /\ ~At(r, "idle")
  /\ excused' = IF At(r, "mark") \/ At(r, "put") THEN excused \cup {Item(r)} ELSE excused
  /\ run' = [run EXCEPT ![r] = Idle]
  /\ UNCHANGED <<config, sides, marks, runs, written, removed, copies, overlapped>>

Next ==
  \/ \E field \in {"handle", "password"} : SetConfig(field)
  \/ \E p \in Content : WriteLocal(p) \/ WriteRemote(p) \/ EditProfile(p)
  \/ \E k \in Key : Delete(k)
  \/ \E r \in Run :
       \/ BeginSync(r) \/ ListLocal(r) \/ ListLocalFails(r) \/ Choose(r) \/ ChooseAgain(r)
       \/ CreateFails(r) \/ Create(r) \/ PutSelf(r) \/ PutSelfFails(r) \/ MarkPublished(r)
       \/ ListRemote(r) \/ ListProfile(r) \/ Fetch(r) \/ Archive(r)
       \/ ArchiveFails(r) \/ MarkArchived(r) \/ EndSync(r) \/ Abort(r)

Spec == Init /\ [][Next]_vars

-----------------------------------------------------------------------------
(***************************************************************************)
(* Properties.                                                             *)
(***************************************************************************)
TypeOK ==
  /\ config \subseteq {"handle", "password"}
  /\ local \in [Key -> Content \cup {None}]
  /\ remote \in [Key -> Content \cup {None}]
  /\ keys \in Key
  /\ published \subseteq Content /\ archived \subseteq Content
  /\ run \in [Run ->
       [at : {"idle", "list", "publish", "create", "put", "mark", "archive", "fetch", "note"},
        todo : SUBSET (Key \X Content), item : Key \X (Content \cup {None}),
        profile : BOOLEAN, clean : BOOLEAN]]
  /\ runs \in Nat
  /\ written \subseteq Content /\ removed \subseteq Content
  /\ copies \in [Content -> Nat]
  /\ excused \subseteq Content
  /\ overlapped \in BOOLEAN

\* A content is published once, however often runs fail, start again and
\* overlap with other work (publish: synced, createRecord, markSynced), unless
\* two runs had it in hand at a time, its mark was lost or, found by nobody
\* because its look-up failed, was ignored.
PublishedOnce == \A p \in Content \ excused : copies[p] <= 1

\* The echo ends: a post that was published comes back from the other side
\* under a key of its own, one that was archived goes out again as a new post,
\* because each direction has its own marks; but not a second time, however
\* often runs are repeated or overlap.  The other side has two records of a
\* post at most, and of the local ones only one has a key that is not known
\* there (PutRecord in archive takes the key of the other side).
EchoEnds ==
  \A p \in Content \ (excused \cup removed) :
    LET here == {k \in Key \ {Self} : local[k] = p}
        there == {k \in Key \ {Self} : remote[k] = p}
    IN Cardinality(there) <= 2 /\ Cardinality(here \ there) <= 1

\* A run in which nothing but a mark failed, alone and undisturbed, is the
\* round trip the README promises (an empty list of errors is less: a record
\* that cannot be parsed, a profile that is not read or not archived and a
\* failed look-up are not reported): a post on one side is on the other, except for posts
\* someone deleted, and both have the same profile (if runs never overlapped:
\* a late putRecord of another run leaves an old profile that is marked).
RoundTrip ==
  \A r \in Run : Ending(r) /\ run[r].clean =>
    /\ \A p \in Content \ removed :
         (\E k \in Key \ {Self} : local[k] = p) <=> (\E k \in Key \ {Self} : remote[k] = p)
    /\ overlapped \/ local[Self] = remote[Self]
====
