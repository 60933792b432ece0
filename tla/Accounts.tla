------------------------------- MODULE Accounts -------------------------------
(***************************************************************************)
(* The life of accounts: sign-up, handle changes, activation and           *)
(* deactivation, deletion (internal/api/account.go, account_admin.go and   *)
(* the same handlers of internal/admin/admin.go), with the invite codes    *)
(* they use, the directory of did:plc identities they write to, the        *)
(* repository they create or remove and the #account and #identity events  *)
(* they publish.                                                           *)
(*                                                                         *)
(* The handlers hold no lock: each of their database statements, calls of  *)
(* the directory and calls of the repository manager is an action, and     *)
(* requests interleave between them.  Statements that only read, up to the *)
(* first that changes something, are one action.  A call of the manager    *)
(* runs under Manager.mu; module Repo has its steps, here it is one.       *)
(*                                                                         *)
(* A did:web is "did:web:" and the handle, and stands here as the handle   *)
(* itself; a did:plc is new with every genesis operation.  The records of  *)
(* an account are told apart by the sign-up they follow: the n-th account  *)
(* that a DID has had writes record n.  The tables of sessions and blobs,  *)
(* which follow the accounts by ON DELETE CASCADE, are left out, as is the *)
(* removal of an account by the command line, in a process of its own.     *)
(***************************************************************************)
EXTENDS Integers, Sequences, Functions

CONSTANTS Handle,     \* handles, and the did:web of each
          PlcDid,     \* the did:plc identities a genesis operation can give
          Code,       \* invite codes that were created
          None,       \* no account, no code
          Req,        \* requests that can be under way at once
          MaxStarts   \* bound on the requests

\* A row of the table accounts, as far as it matters here.
Row == [handle : Handle, active : BOOLEAN]

ASSUME AccountsAssumption ==
  /\ Handle \cap PlcDid = {}
  /\ None \notin Handle \cup PlcDid \cup Code
  /\ None \notin Row
  /\ MaxStarts \in Nat

Did == Handle \cup PlcDid

VARIABLES
  method,     \* cfg.DIDMethod: "web" or "plc"
  accounts,   \* the table accounts: None or the row of a DID
  usedBy,     \* invite_codes.used_by
  plc,        \* the directory: the handles of each DID's operations, in order
  head,       \* repo_commits: NoRepo, or the records the head commit holds
  index,      \* repo_records
  cache,      \* Manager.repos: NoRepo, or the records in the open handle's tree
  told,       \* the last #account status and #identity handle published
  req,        \* the requests under way
  starts,     \* how many requests there were
  life,       \* how many accounts each DID has had
  uses,       \* how many accounts each code has made
  disturbed,  \* DIDs with conflicting, broken or late requests (see below)
  spoiled     \* codes with overlapping or broken sign-ups

repos == <<head, index, cache>>
ghosts == <<life, uses, disturbed, spoiled>>
vars == <<method, accounts, usedBy, plc, repos, told, req, starts, ghosts>>

\* A repository, by its records, or that there is none.
NoRepo == [there |-> FALSE, recs |-> {}]
RepoOf(S) == [there |-> TRUE, recs |-> S]

\* Requests, by what they ask for.
Idle ==
  [kind |-> "none", at |-> "idle", did |-> None, handle |-> None,
   code |-> None, active |-> FALSE, prev |-> 0]
ToSignUp(h, k) ==
  [kind |-> "signUp", at |-> "identity", did |-> None, handle |-> h,
   code |-> k, active |-> FALSE, prev |-> 0]
ToUpdateHandle(d, h) ==
  [kind |-> "handle", at |-> "submit", did |-> d, handle |-> h,
   code |-> None, active |-> FALSE, prev |-> Len(plc[d])]
ToSetActive(d, on) ==
  [kind |-> "status", at |-> "event", did |-> d, handle |-> None,
   code |-> None, active |-> on, prev |-> 0]
ToDelete(d) ==
  [kind |-> "delete", at |-> "repo", did |-> d, handle |-> None,
   code |-> None, active |-> FALSE, prev |-> 0]

Init ==
  /\ method \in {"web", "plc"}
  /\ accounts = [d \in Did |-> None]
  /\ usedBy = [k \in Code |-> None]
  /\ plc = [d \in PlcDid |-> <<>>]
  /\ head = [d \in Did |-> NoRepo]
  /\ index = [d \in Did |-> {}]
  /\ cache = [d \in Did |-> NoRepo]
  /\ told = [d \in Did |-> [status |-> "none", handle |-> None]]
  /\ req = [r \in Req |-> Idle]
  /\ starts = 0
  /\ life = [d \in Did |-> 0]
  /\ uses = [k \in Code |-> 0]
  /\ disturbed = {}
  /\ spoiled = {}

-----------------------------------------------------------------------------
(***************************************************************************)
(* Helpers.                                                                *)
(***************************************************************************)
Exists(d) == accounts[d] # None

\* SELECT COUNT(*) FROM accounts WHERE handle = ?, for another DID than d.
HeldByOther(h, d) == \E e \in Did \ {d} : Exists(e) /\ accounts[e].handle = h

At(r, kind, at) == req[r].kind = kind /\ req[r].at = at

Go(r, at) == req' = [req EXCEPT ![r].at = at]
Insert(r, d) == req' = [req EXCEPT ![r] = [@ EXCEPT !.at = "insert", !.did = d]]
End(r) == req' = [req EXCEPT ![r] = Idle]

\* Two kinds of requests for one DID that can disturb each other.
Conflict(a, b) == a = b \/ {a, b} \cap {"signUp", "delete"} # {}

\* {d} if a request of this kind for d meets one that is under way.
Crossed(kind, d) ==
  IF \E r \in Req : req[r].did = d /\ Conflict(req[r].kind, kind) THEN {d} ELSE {}

\* {d} if the request comes after the account was deleted.
Late(d) == IF Exists(d) THEN {} ELSE {d}

\* A new request; its record is x.
Start(r, x) ==
  /\ req[r] = Idle
  /\ starts < MaxStarts
  /\ starts' = starts + 1
  /\ req' = [req EXCEPT ![r] = x]

\* Who acts for an account has it, or had it: requireAuth takes a token that
\* outlived the row, and the administrator's handlers take any DID.
MayAct(d) == life[d] > 0

\* Manager.open: the cached handle, one at the head, or an empty one.
Opened(d) ==
  IF cache[d].there THEN cache[d].recs ELSE head[d].recs

-----------------------------------------------------------------------------
(***************************************************************************)
(* Sign-up (HandleCreateAccount).                                          *)
(***************************************************************************)
\* Variant: a used code passes.
BeginSignUpAnyCode(r) ==
  \E h \in Handle, k \in Code \cup {None} :
    /\ ~HeldByOther(h, None)
    /\ Start(r, ToSignUp(h, k))
    /\ spoiled' = spoiled \cup (({k} \cap {req[q].code : q \in Req}) \ {None})
    /\ UNCHANGED <<method, accounts, usedBy, plc, repos, told, life, uses, disturbed>>

\* The handle is free and the code, if the configuration wants one, unused.
BeginSignUp(r) ==
  \E h \in Handle, k \in Code \cup {None} :
    /\ ~HeldByOther(h, None)
    /\ k # None => usedBy[k] = None
    /\ Start(r, ToSignUp(h, k))
    /\ spoiled' = spoiled \cup (({k} \cap {req[q].code : q \in Req}) \ {None})
    /\ UNCHANGED <<method, accounts, usedBy, plc, repos, told, life, uses, disturbed>>

\* The identity: a did:web is made from the handle...
CreateDidWeb(r) ==
  /\ method = "web"
  /\ At(r, "signUp", "identity")
  /\ Insert(r, req[r].handle)
  /\ disturbed' = disturbed \cup Crossed("signUp", req[r].handle)
  /\ UNCHANGED <<method, accounts, usedBy, plc, repos, told, starts, life, uses, spoiled>>

\* ... a did:plc by a genesis operation that the directory accepts.
CreatePlc(r) ==
  /\ method = "plc"
  /\ At(r, "signUp", "identity")
  /\ \E d \in PlcDid :
       /\ plc[d] = <<>>
       /\ plc' = [plc EXCEPT ![d] = <<req[r].handle>>]
       /\ Insert(r, d)
  /\ UNCHANGED <<method, accounts, usedBy, repos, told, starts, ghosts>>

\* INSERT INTO accounts: did is the primary key, handle is unique.
InsertAccount(r) ==
  /\ At(r, "signUp", "insert")
  /\ LET d == req[r].did
         k == req[r].code
     IN /\ ~Exists(d)
        /\ ~HeldByOther(req[r].handle, d)
        /\ accounts' = [accounts EXCEPT ![d] = [handle |-> req[r].handle, active |-> TRUE]]
        /\ life' = [life EXCEPT ![d] = @ + 1]
        /\ uses' = IF k = None THEN uses ELSE [uses EXCEPT ![k] = @ + 1]
  /\ Go(r, "repo")
  /\ UNCHANGED <<method, usedBy, plc, repos, told, starts, disturbed, spoiled>>

\* Another sign-up came first; a did:plc that was made is left to itself.
InsertRefused(r) ==
  /\ At(r, "signUp", "insert")
  /\ Exists(req[r].did) \/ HeldByOther(req[r].handle, req[r].did)
  /\ End(r)
  /\ UNCHANGED <<method, accounts, usedBy, plc, repos, told, starts, ghosts>>

\* mgr.CreateAccount: the first commit, and #identity with the row's handle.
CreateRepo(r) ==
  /\ At(r, "signUp", "repo")
  /\ LET d == req[r].did
     IN /\ Exists(d)
        /\ cache' = [cache EXCEPT ![d] = RepoOf(Opened(d))]
        /\ head' = [head EXCEPT ![d] = RepoOf(Opened(d))]
        /\ told' = [told EXCEPT ![d].handle = accounts[d].handle]
  /\ Go(r, IF req[r].code = None THEN "session" ELSE "code")
  /\ UNCHANGED <<method, accounts, usedBy, plc, index, starts, ghosts>>

\* A statement of it fails, before or after the commit is in the table.
CreateRepoFails(r) ==
  /\ At(r, "signUp", "repo")
  /\ LET d == req[r].did
     IN /\ Exists(d)
        /\ cache' = [cache EXCEPT ![d] = RepoOf(Opened(d))]
        /\ head' \in {head, [head EXCEPT ![d] = RepoOf(Opened(d))]}
        /\ disturbed' = disturbed \cup {d}
  /\ spoiled' = spoiled \cup ({req[r].code} \ {None})
  /\ End(r)
  /\ UNCHANGED <<method, accounts, usedBy, plc, index, told, starts, life, uses>>

\* The row is gone: no signing key, no commit, but the handle stays open.
CreateRepoRefused(r) ==
  /\ At(r, "signUp", "repo")
  /\ ~Exists(req[r].did)
  /\ cache' = [cache EXCEPT ![req[r].did] = RepoOf(Opened(req[r].did))]
  /\ spoiled' = spoiled \cup ({req[r].code} \ {None})
  /\ End(r)
  /\ UNCHANGED <<method, accounts, usedBy, plc, head, index, told, starts,
                 life, uses, disturbed>>

MarkCode(r) ==
  /\ At(r, "signUp", "code")
  /\ usedBy' = [usedBy EXCEPT ![req[r].code] = req[r].did]
  /\ Go(r, "session")
  /\ UNCHANGED <<method, accounts, plc, repos, told, starts, ghosts>>

\* The error of the UPDATE is ignored.
MarkCodeFails(r) ==
  /\ At(r, "signUp", "code")
  /\ spoiled' = spoiled \cup {req[r].code}
  /\ Go(r, "session")
  /\ UNCHANGED <<method, accounts, usedBy, plc, repos, told, starts, life, uses, disturbed>>

\* mintSession: a token is made, unless the row in auth_sessions lacks the
\* account it refers to.
MintSession(r) ==
  /\ At(r, "signUp", "session")
  /\ End(r)
  /\ UNCHANGED <<method, accounts, usedBy, plc, repos, told, starts, ghosts>>

-----------------------------------------------------------------------------
(***************************************************************************)
(* Change of the handle (HandleUpdateHandle), for did:plc only.            *)
(***************************************************************************)
\* The keys are read from the row, and the directory is asked for the
\* latest operation, which the new one will name as the previous.
BeginUpdateHandle(r) ==
  \E d \in PlcDid, h \in Handle :
    /\ Exists(d)
    /\ Start(r, ToUpdateHandle(d, h))
    /\ disturbed' = disturbed \cup Crossed("handle", d)
    /\ UNCHANGED <<method, accounts, usedBy, plc, repos, told, life, uses, spoiled>>

\* Variant: Submit does not look at the status of the answer.
SubmitAnyStatus(r) ==
  /\ At(r, "handle", "submit")
  /\ LET d == req[r].did
     IN plc' = IF Len(plc[d]) = req[r].prev THEN [plc EXCEPT ![d] = Append(@, req[r].handle)] ELSE plc
  /\ Go(r, "update")
  /\ UNCHANGED <<method, accounts, usedBy, repos, told, starts, ghosts>>

\* The directory accepts an operation that follows the latest one.
Submit(r) ==
  /\ At(r, "handle", "submit")
  /\ Len(plc[req[r].did]) = req[r].prev
  /\ plc' = [plc EXCEPT ![req[r].did] = Append(@, req[r].handle)]
  /\ Go(r, "update")
  /\ UNCHANGED <<method, accounts, usedBy, repos, told, starts, ghosts>>

SubmitRefused(r) ==
  /\ At(r, "handle", "submit")
  /\ Len(plc[req[r].did]) # req[r].prev
  /\ End(r)
  /\ UNCHANGED <<method, accounts, usedBy, plc, repos, told, starts, ghosts>>

\* UPDATE accounts SET handle; no row is no error.
UpdateRow(r) ==
  /\ At(r, "handle", "update")
  /\ LET d == req[r].did
     IN /\ Exists(d) => ~HeldByOther(req[r].handle, d)
        /\ accounts' = IF Exists(d) THEN [accounts EXCEPT ![d].handle = req[r].handle] ELSE accounts
  /\ Go(r, "event")
  /\ UNCHANGED <<method, usedBy, plc, repos, told, starts, ghosts>>

\* Variant: the error of the UPDATE is ignored.
UpdateRowErrorIgnored(r) ==
  /\ At(r, "handle", "update")
  /\ Exists(req[r].did) /\ HeldByOther(req[r].handle, req[r].did)
  /\ Go(r, "event")
  /\ UNCHANGED <<method, accounts, usedBy, plc, repos, told, starts, ghosts>>

\* Another account has the handle: nothing asked before the directory was
\* told, and the directory keeps it.
UpdateRowRefused(r) ==
  /\ At(r, "handle", "update")
  /\ Exists(req[r].did) /\ HeldByOther(req[r].handle, req[r].did)
  /\ disturbed' = disturbed \cup {req[r].did}
  /\ End(r)
  /\ UNCHANGED <<method, accounts, usedBy, plc, repos, told, starts, life, uses, spoiled>>

EmitIdentity(r) ==
  /\ At(r, "handle", "event")
  /\ told' = [told EXCEPT ![req[r].did].handle = req[r].handle]
  /\ End(r)
  /\ UNCHANGED <<method, accounts, usedBy, plc, repos, starts, ghosts>>

-----------------------------------------------------------------------------
(***************************************************************************)
(* Activation and deactivation, by the owner or the administrator.         *)
(***************************************************************************)
SetActive(r) ==
  \E d \in Did, on \in BOOLEAN :
    /\ MayAct(d)
    /\ Start(r, ToSetActive(d, on))
    /\ accounts' = IF Exists(d) THEN [accounts EXCEPT ![d].active = on] ELSE accounts
    /\ disturbed' = disturbed \cup Crossed("status", d) \cup Late(d)
    /\ UNCHANGED <<method, usedBy, plc, repos, told, life, uses, spoiled>>

\* Variant: the event of an activation names no status.
EmitAccountAlwaysActive(r) ==
  /\ At(r, "status", "event")
  /\ told' = [told EXCEPT ![req[r].did].status = "active"]
  /\ End(r)
  /\ UNCHANGED <<method, accounts, usedBy, plc, repos, starts, ghosts>>

EmitAccount(r) ==
  /\ At(r, "status", "event")
  /\ told' = [told EXCEPT ![req[r].did].status = IF req[r].active THEN "active" ELSE "deactivated"]
  /\ End(r)
  /\ UNCHANGED <<method, accounts, usedBy, plc, repos, starts, ghosts>>

-----------------------------------------------------------------------------
(***************************************************************************)
(* Deletion, by the owner or the administrator.                            *)
(***************************************************************************)
\* The owner's password is compared with the row's; the administrator's
\* handler looks at nothing.
BeginDelete(r) ==
  \E d \in Did :
    /\ MayAct(d)
    /\ Start(r, ToDelete(d))
    /\ disturbed' = disturbed \cup Crossed("delete", d) \cup Late(d)
    /\ UNCHANGED <<method, accounts, usedBy, plc, repos, told, life, uses, spoiled>>

\* Variant: the open handle stays in Manager.repos.
DeleteRepoKeepsHandle(r) ==
  /\ At(r, "delete", "repo")
  /\ head' = [head EXCEPT ![req[r].did] = NoRepo]
  /\ index' = [index EXCEPT ![req[r].did] = {}]
  /\ Go(r, "row")
  /\ UNCHANGED <<method, accounts, usedBy, plc, cache, told, starts, ghosts>>

\* Variant: the rows of repo_records are left to a cascade that they lack.
DeleteRepoKeepsIndex(r) ==
  /\ At(r, "delete", "repo")
  /\ cache' = [cache EXCEPT ![req[r].did] = NoRepo]
  /\ head' = [head EXCEPT ![req[r].did] = NoRepo]
  /\ Go(r, "row")
  /\ UNCHANGED <<method, accounts, usedBy, plc, index, told, starts, ghosts>>

\* mgr.DeleteAccount: the open handle and the rows of the repository.
DeleteRepo(r) ==
  /\ At(r, "delete", "repo")
  /\ cache' = [cache EXCEPT ![req[r].did] = NoRepo]
  /\ head' = [head EXCEPT ![req[r].did] = NoRepo]
  /\ index' = [index EXCEPT ![req[r].did] = {}]
  /\ Go(r, "row")
  /\ UNCHANGED <<method, accounts, usedBy, plc, told, starts, ghosts>>

\* One of its statements fails: the handle is dropped, and the commits, or
\* the commits and the index, may be gone.
DeleteRepoFails(r) ==
  /\ At(r, "delete", "repo")
  /\ LET d == req[r].did
     IN /\ cache' = [cache EXCEPT ![d] = NoRepo]
        /\ head' \in {head, [head EXCEPT ![d] = NoRepo]}
        /\ index' \in {index, [index EXCEPT ![d] = {}]}
        /\ index' # index => head'[d] = NoRepo
        /\ disturbed' = disturbed \cup {d}
  /\ End(r)
  /\ UNCHANGED <<method, accounts, usedBy, plc, told, starts, life, uses, spoiled>>

\* DELETE FROM accounts: no error if another deletion was faster.
DeleteRow(r) ==
  /\ At(r, "delete", "row")
  /\ accounts' = [accounts EXCEPT ![req[r].did] = None]
  /\ Go(r, "event")
  /\ UNCHANGED <<method, usedBy, plc, repos, told, starts, ghosts>>

EmitDeleted(r) ==
  /\ At(r, "delete", "event")
  /\ told' = [told EXCEPT ![req[r].did].status = "deleted"]
  /\ End(r)
  /\ UNCHANGED <<method, accounts, usedBy, plc, repos, starts, ghosts>>

-----------------------------------------------------------------------------
(***************************************************************************)
(* A record write (Manager.applyWrites), and what cuts requests short.     *)
(***************************************************************************)
\* The account's row, read for the signing key, is all that tells a write
\* that the account exists.
Write(d) ==
  /\ MayAct(d)
  /\ Exists(d)
  /\ starts < MaxStarts
  /\ starts' = starts + 1
  /\ LET tree == Opened(d) \cup {life[d]}
     IN /\ cache' = [cache EXCEPT ![d] = RepoOf(tree)]
        /\ head' = [head EXCEPT ![d] = RepoOf(tree)]
  /\ index' = [index EXCEPT ![d] = @ \cup {life[d]}]
  /\ disturbed' = disturbed \cup Crossed("write", d)
  /\ UNCHANGED <<method, accounts, usedBy, plc, told, req, life, uses, spoiled>>

\* Without a row the write fails after it has changed the open handle.
WriteRefused(d) ==
  /\ MayAct(d)
  /\ ~Exists(d)
  /\ starts < MaxStarts
  /\ starts' = starts + 1
  /\ cache' = [cache EXCEPT ![d] = RepoOf(Opened(d) \cup {life[d]})]
  /\ disturbed' = disturbed \cup {d}
  /\ UNCHANGED <<method, accounts, usedBy, plc, head, index, told, req, life, uses, spoiled>>

\* Requests that have not changed anything of their account yet.
Untouched(q) == q.at \in {"idle", "identity", "insert", "submit"} \/ (q.kind = "delete" /\ q.at = "repo")

\* A statement or a call fails, or the client is gone and its context done.
Cut(r) ==
  /\ req[r] # Idle
  /\ disturbed' = IF Untouched(req[r]) THEN disturbed ELSE disturbed \cup {req[r].did}
  /\ spoiled' = IF Untouched(req[r]) THEN spoiled ELSE spoiled \cup ({req[r].code} \ {None})
  /\ End(r)
  /\ UNCHANGED <<method, accounts, usedBy, plc, repos, told, starts, life, uses>>

\* The directory accepts the operation, but its answer does not arrive.
SubmitAnswerLost(r) ==
  /\ At(r, "handle", "submit")
  /\ Len(plc[req[r].did]) = req[r].prev
  /\ plc' = [plc EXCEPT ![req[r].did] = Append(@, req[r].handle)]
  /\ disturbed' = disturbed \cup {req[r].did}
  /\ End(r)
  /\ UNCHANGED <<method, accounts, usedBy, repos, told, starts, life, uses, spoiled>>

\* The process stops and starts again, with requests under way or not.
Restart ==
  /\ req' = [r \in Req |-> Idle]
  /\ cache' = [d \in Did |-> NoRepo]
  /\ disturbed' = disturbed \cup {req[r].did : r \in {q \in Req : ~Untouched(req[q])}}
  /\ spoiled' = spoiled \cup ({req[r].code : r \in {q \in Req : ~Untouched(req[q])}} \ {None})
  /\ UNCHANGED <<method, accounts, usedBy, plc, head, index, told, starts, life, uses>>

SignUp(r) ==
  \/ BeginSignUp(r) \/ CreateDidWeb(r) \/ CreatePlc(r) \/ InsertAccount(r) \/ InsertRefused(r)
  \/ CreateRepo(r) \/ CreateRepoFails(r) \/ CreateRepoRefused(r) \/ MarkCode(r) \/ MarkCodeFails(r) \/ MintSession(r)

UpdateHandle(r) ==
  \/ BeginUpdateHandle(r) \/ Submit(r) \/ SubmitRefused(r) \/ SubmitAnswerLost(r)
  \/ UpdateRow(r) \/ UpdateRowRefused(r) \/ EmitIdentity(r)

Status(r) == SetActive(r) \/ EmitAccount(r)

Delete(r) ==
  BeginDelete(r) \/ DeleteRepo(r) \/ DeleteRepoFails(r) \/ DeleteRow(r) \/ EmitDeleted(r)

Next ==
  \/ \E r \in Req : SignUp(r) \/ UpdateHandle(r) \/ Status(r) \/ Delete(r) \/ Cut(r)
  \/ \E d \in Did : Write(d) \/ WriteRefused(d)
  \/ Restart

Spec == Init /\ [][Next]_vars

-----------------------------------------------------------------------------
Repos == [there : BOOLEAN, recs : SUBSET Nat]

Told ==
  [status : {"none", "active", "deactivated", "deleted"}, handle : {None} \cup Handle]

Kinds == {"none", "signUp", "handle", "status", "delete"}
Places == {"idle", "identity", "insert", "repo", "code", "session", "submit", "update", "row", "event"}

Request ==
  [kind : Kinds, at : Places,
   did : {None} \cup Did, handle : {None} \cup Handle, code : {None} \cup Code,
   active : BOOLEAN, prev : Nat]

TypeOK ==
  /\ method \in {"web", "plc"}
  /\ accounts \in [Did -> {None} \cup Row]
  /\ usedBy \in [Code -> {None} \cup Did]
  /\ plc \in [PlcDid -> Seq(Handle)]
  /\ head \in [Did -> Repos]
  /\ index \in [Did -> SUBSET Nat]
  /\ cache \in [Did -> Repos]
  /\ told \in [Did -> Told]
  /\ req \in [Req -> Request]
  /\ starts \in 0..MaxStarts
  /\ life \in [Did -> Nat]
  /\ uses \in [Code -> Nat]
  /\ disturbed \subseteq Did
  /\ spoiled \subseteq Code

-----------------------------------------------------------------------------
(***************************************************************************)
(* Safety.                                                                 *)
(***************************************************************************)
\* Whatever crosses, fails or stops: the handle in the row of a did:plc is
\* one that the directory has accepted for it, never one only this server
\* knows (account.go submits before it updates the row).
HandlePublished ==
  \A d \in PlcDid : Exists(d) => accounts[d].handle \in Range(plc[d])

(***************************************************************************)
(* The other promises fail when requests for ONE account conflict (two     *)
(* deletions, a write during a deletion, two changes of the handle), when  *)
(* a request is cut short after its first effect, when the change of the   *)
(* row is refused after the directory has accepted it, or when a token is  *)
(* used after its account was deleted: `disturbed' names these DIDs.  For  *)
(* all others they hold, whatever happens to other accounts meanwhile and  *)
(* in every order of requests.                                             *)
(***************************************************************************)
Quiet(d) == d \notin disturbed /\ \A r \in Req : req[r].did # d

\* The row, the directory and the last #identity event agree on the handle.
HandleAgrees ==
  \A d \in Did : Quiet(d) /\ Exists(d) =>
    /\ told[d].handle = accounts[d].handle
    /\ d \in PlcDid => plc[d][Len(plc[d])] = accounts[d].handle

\* The last #account event says what the row says.  Two absences count as
\* "active": a new account has no event, and neither has a did:web that
\* signs up again after its deletion.
StatusTold ==
  \A d \in Did : Quiet(d) /\ life[d] > 0 =>
    told[d].status \in
      (IF ~Exists(d) THEN {"deleted"}
       ELSE IF ~accounts[d].active THEN {"deactivated"}
       ELSE {"none", "active"} \cup (IF life[d] > 1 THEN {"deleted"} ELSE {}))

\* A repository goes with its account: no row, no index and no open handle
\* is left without the account, and between requests head, index and open
\* handle hold the same records.
NoRecords(d) == head[d] = NoRepo /\ index[d] = {} /\ cache[d] = NoRepo

RepoFollowsAccount ==
  \A d \in Did \ disturbed :
    /\ ~Exists(d) => NoRecords(d)
    /\ Exists(d) /\ Quiet(d) => head[d] = RepoOf(index[d]) /\ cache[d] \in {NoRepo, head[d]}

\* An account that signs up under a DID that another account had before
\* finds none of the other's records in its repository.
RepoIsOwn ==
  \A d \in Did \ disturbed : head[d].recs \cup index[d] \subseteq {life[d]}

\* A code makes one account, unless two sign-ups with it overlap, or one is
\* cut short or fails to mark it.
InviteOnce == \A k \in Code \ spoiled : uses[k] <= 1

(***************************************************************************)
(* The inductive invariant behind these six.                               *)
(***************************************************************************)
\* A request of kind a, at one of the steps S, about d.
Under(r, d, kind, S) == req[r].did = d /\ req[r].kind = kind /\ req[r].at \in S

\* The steps that each kind of request has, and what it is about.
Proper(q) ==
  /\ q.kind = "none" => q = Idle
  /\ q.kind = "signUp" =>
       /\ q.at \in {"identity", "insert", "repo", "code", "session"}
       /\ q.handle \in Handle
       /\ q.at = "identity" => q.did = None
       /\ q.at = "code" => q.code # None
  /\ q.kind = "handle" =>
       q.at \in {"submit", "update", "event"} /\ q.did \in PlcDid /\ q.handle \in Handle
  /\ q.kind = "status" => q.at = "event"
  /\ q.kind = "delete" => q.at \in {"repo", "row", "event"}
  /\ q.kind # "none" /\ q.at # "identity" => q.did \in Did
  /\ q.kind # "signUp" => q.code = None

Steps == \A r \in Req : Proper(req[r])

\* Nobody asks about a did:plc before its genesis operation.
NothingOf(d) ==
  /\ ~Exists(d) /\ life[d] = 0
  /\ NoRecords(d)
  /\ \A r \in Req : req[r].did # d

Born == \A d \in PlcDid : plc[d] = <<>> => NothingOf(d)

\* What a request will write into a row is in the directory already.
Accepted ==
  \A r \in Req : \A d \in PlcDid :
    Under(r, d, "signUp", {"insert"}) \/ Under(r, d, "handle", {"update"}) =>
      req[r].handle \in Range(plc[d])

\* No two requests under way for one undisturbed DID conflict.
NoConflict ==
  \A d \in Did \ disturbed : \A r, q \in Req :
    r # q /\ req[r].did = d /\ req[q].did = d => ~Conflict(req[r].kind, req[q].kind)

\* The repository: none before the sign-up's commit or after the first step
\* of the deletion, the account's own in between.
Bare(d) ==
  ~Exists(d) \/ \E r \in Req : Under(r, d, "signUp", {"repo"}) \/ Under(r, d, "delete", {"row"})

OwnRecords(d) ==
  head[d] = RepoOf(index[d]) /\ index[d] \subseteq {life[d]} /\ cache[d] \in {NoRepo, head[d]}

RepoFits(d) == IF Bare(d) THEN NoRecords(d) ELSE OwnRecords(d)

OwnRepo == \A d \in Did \ disturbed : RepoFits(d)

\* Whether the row exists at each step of a sign-up or a deletion.
RowFits(d, r) ==
  /\ Under(r, d, "signUp", {"repo", "code", "session"}) => Exists(d)
  /\ Under(r, d, "delete", {"repo", "row"}) => Exists(d)
  /\ Under(r, d, "delete", {"event"}) => ~Exists(d)

RowThere == \A d \in Did \ disturbed : \A r \in Req : RowFits(d, r)

\* A code that no sign-up has marked, and none is about to, made no account.
CodeFits(k) ==
  /\ \A r, q \in Req : r # q => ~(req[r].code = k /\ req[q].code = k)
  /\ \A r \in Req : req[r].code = k /\ req[r].at \in {"identity", "insert"} => uses[k] = 0
  /\ usedBy[k] = None /\ (\A r \in Req : req[r].code = k => req[r].at \notin {"repo", "code"})
       => uses[k] = 0
  /\ uses[k] <= 1

CodeUnused == \A k \in Code \ spoiled : CodeFits(k)

IInv ==
  /\ TypeOK
  /\ Steps
  /\ Born
  /\ Accepted
  /\ HandlePublished
  /\ NoConflict
  /\ RowThere
  /\ OwnRepo
  /\ CodeUnused
=============================================================================
