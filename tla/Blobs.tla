-------------------------------- MODULE Blobs --------------------------------
(***************************************************************************)
(* The blob store (internal/blob/blob.go, with the upload and download     *)
(* handlers of internal/api/blob.go): files named by their content, and    *)
(* one row per content in the table blobs.                                 *)
(*                                                                         *)
(* An upload takes no lock: the rename of its file into place and the      *)
(* INSERT are two actions.  The removal of an account's blobs runs under   *)
(* Manager.mu, which uploads do not take: the query, the removal of each   *)
(* file, the DELETE of the rows and that of the account are actions of     *)
(* their own.  A temporary file is private to its upload, which removes it *)
(* or renames it; only a crash leaves one, and nothing looks at it again.  *)
(* The lists of blobs are in module Listing.                               *)
(***************************************************************************)
EXTENDS Naturals

CONSTANTS Did,       \* accounts
          Cid,       \* contents, and the files they are stored in
          None,      \* no row, no account
          Req,       \* requests that can be under way at once
          MaxStarts  \* bound on requests and sign-ups

ASSUME BlobsAssumption == None \notin Did \cup Cid /\ MaxStarts \in Nat

VARIABLES
  accounts,  \* DIDs with a row in accounts
  files,     \* files in the directory
  rows,      \* the table blobs: the DID each content was uploaded by first
  req,       \* requests under way
  starts,    \* how many requests and sign-ups there were
  claims,    \* pairs of a DID and a content it was told is stored
  rowless,   \* claims whose upload left another account's row in place
  spoiled,   \* contents an upload and a removal met over, or a removal broke off
  orphans    \* contents whose upload broke off or whose file could not be removed

ghosts == <<claims, rowless, spoiled, orphans>>
vars == <<accounts, files, rows, req, starts, ghosts>>

Idle == [kind |-> "none", at |-> "idle", did |-> None, cid |-> None, paths |-> {}, left |-> {}]
ToPut(d, c) == [Idle EXCEPT !.kind = "put", !.at = "rename", !.did = d, !.cid = c]
ToDelete(d) == [Idle EXCEPT !.kind = "delete", !.at = "select", !.did = d]

Init ==
  /\ accounts = Did
  /\ files = {}
  /\ rows = [c \in Cid |-> None]
  /\ req = [r \in Req |-> Idle]
  /\ starts = 0
  /\ claims = {} /\ rowless = {} /\ spoiled = {} /\ orphans = {}

-----------------------------------------------------------------------------
At(r, kind, at) == req[r].kind = kind /\ req[r].at = at
Go(r, at) == req' = [req EXCEPT ![r].at = at]
End(r) == req' = [req EXCEPT ![r] = Idle]

Start(r, x) ==
  /\ req[r] = Idle
  /\ starts < MaxStarts
  /\ starts' = starts + 1
  /\ req' = [req EXCEPT ![r] = x]

RowsOf(d) == {c \in Cid : rows[c] = d}

\* Manager.mu is held from the query of the paths to the end of the DELETEs.
Locked == \E r \in Req : At(r, "delete", "remove")

\* An upload of d's that meets the removal of q: of the same account, or of a
\* content that the removal will delete.
Meets(q, d, c) == req[q].kind = "delete" /\ req[q].at # "select"
                  /\ (req[q].did = d \/ c \in req[q].paths)

-----------------------------------------------------------------------------
(***************************************************************************)
(* Store.Put, for HandleUploadBlob.                                        *)
(***************************************************************************)
\* The bytes are in a temporary file and their content is known.  The token
\* may have outlived the account.
BeginPut(r) ==
  \E d \in Did, c \in Cid :
    /\ Start(r, ToPut(d, c))
    /\ spoiled' = spoiled \cup {x \in {c} : \E q \in Req : Meets(q, d, c)}
    /\ UNCHANGED <<accounts, files, rows, claims, rowless, orphans>>

Rename(r) ==
  /\ At(r, "put", "rename")
  /\ files' = files \cup {req[r].cid}
  /\ Go(r, "insert")
  /\ UNCHANGED <<accounts, rows, starts, ghosts>>

\* Variant: the later upload takes the row over.
InsertReplaces(r) ==
  /\ At(r, "put", "insert")
  /\ LET d == req[r].did
         c == req[r].cid
     IN /\ d \in accounts
        /\ rows' = [rows EXCEPT ![c] = d]
        /\ claims' = claims \cup {<<d, c>>}
        /\ rowless' = rowless \ {<<d, c>>}
  /\ End(r)
  /\ UNCHANGED <<accounts, files, starts, spoiled, orphans>>

\* The first row of a content stays (ON CONFLICT DO NOTHING); a new one
\* refers to the account, which must exist.
Insert(r) ==
  /\ At(r, "put", "insert")
  /\ LET d == req[r].did
         c == req[r].cid
     IN /\ rows[c] = None => d \in accounts
        /\ rows' = [rows EXCEPT ![c] = IF @ = None THEN d ELSE @]
        /\ claims' = claims \cup {<<d, c>>}
        /\ rowless' = IF rows[c] \in {None, d} THEN rowless \ {<<d, c>>} ELSE rowless \cup {<<d, c>>}
  /\ End(r)
  /\ UNCHANGED <<accounts, files, starts, spoiled, orphans>>

\* The upload is refused, or cut short by an error, its client or a crash.
PutFails(r) ==
  /\ req[r].kind = "put"
  /\ orphans' = IF At(r, "put", "insert") THEN orphans \cup {req[r].cid} ELSE orphans
  /\ End(r)
  /\ UNCHANGED <<accounts, files, rows, starts, claims, rowless, spoiled>>

\* Store.Open, for HandleGetBlob: the row names the DID, the file is there.
Opens(d, c) == rows[c] = d /\ c \in files

-----------------------------------------------------------------------------
(***************************************************************************)
(* Removal of an account: Manager.DeleteAccount with Store.DeleteForDID,   *)
(* then the row of the account.                                            *)
(***************************************************************************)
BeginDelete(r) ==
  \E d \in accounts :
    /\ Start(r, ToDelete(d))
    /\ UNCHANGED <<accounts, files, rows, ghosts>>

SelectPaths(r) ==
  /\ At(r, "delete", "select")
  /\ ~Locked
  /\ LET d == req[r].did
     IN /\ req' = [req EXCEPT ![r] = [@ EXCEPT !.at = "remove", !.paths = RowsOf(d), !.left = RowsOf(d)]]
        /\ claims' = {x \in claims : x[1] # d}
        /\ spoiled' = spoiled \cup
             {c \in Cid : \E q \in Req : req[q].kind = "put" /\ req[q].cid = c
                                         /\ (req[q].did = d \/ c \in RowsOf(d))}
  /\ UNCHANGED <<accounts, files, rows, starts, rowless, orphans>>

RemoveFile(r) ==
  /\ At(r, "delete", "remove")
  /\ \E c \in req[r].left :
       /\ files' = files \ {c}
       /\ req' = [req EXCEPT ![r].left = @ \ {c}]
  /\ UNCHANGED <<accounts, rows, starts, ghosts>>

\* The error of os.Remove is ignored.
RemoveFileFails(r) ==
  /\ At(r, "delete", "remove")
  /\ \E c \in req[r].left :
       /\ req' = [req EXCEPT ![r].left = @ \ {c}]
       /\ orphans' = orphans \cup {c}
  /\ UNCHANGED <<accounts, files, rows, starts, claims, rowless, spoiled>>

\* Variant: the rows go before the files.
DeleteRowsFirst(r) ==
  /\ At(r, "delete", "remove")
  /\ rows' = [c \in Cid |-> IF rows[c] = req[r].did THEN None ELSE rows[c]]
  /\ Go(r, IF req[r].left = {} THEN "account" ELSE "remove")
  /\ UNCHANGED <<accounts, files, starts, ghosts>>

DeleteRows(r) ==
  /\ At(r, "delete", "remove")
  /\ req[r].left = {}
  /\ rows' = [c \in Cid |-> IF rows[c] = req[r].did THEN None ELSE rows[c]]
  /\ Go(r, "account")
  /\ UNCHANGED <<accounts, files, starts, ghosts>>

\* The row of the account; rows of blobs that came since go with it.
DeleteAccount(r) ==
  /\ At(r, "delete", "account")
  /\ accounts' = accounts \ {req[r].did}
  /\ rows' = [c \in Cid |-> IF rows[c] = req[r].did THEN None ELSE rows[c]]
  /\ End(r)
  /\ UNCHANGED <<files, starts, ghosts>>

\* The removal is cut short: rows may be left whose files are gone.
DeleteFails(r) ==
  /\ req[r].kind = "delete"
  /\ spoiled' = spoiled \cup req[r].paths
  /\ End(r)
  /\ UNCHANGED <<accounts, files, rows, starts, claims, rowless, orphans>>

\* A did:web whose account was deleted is signed up again.
SignUp(d) ==
  /\ d \notin accounts
  /\ starts < MaxStarts
  /\ starts' = starts + 1
  /\ accounts' = accounts \cup {d}
  /\ UNCHANGED <<files, rows, req, ghosts>>

Next ==
  \/ \E r \in Req :
       \/ BeginPut(r) \/ Rename(r) \/ Insert(r) \/ PutFails(r)
       \/ BeginDelete(r) \/ SelectPaths(r) \/ RemoveFile(r) \/ RemoveFileFails(r)
       \/ DeleteRows(r) \/ DeleteAccount(r) \/ DeleteFails(r)
  \/ \E d \in Did : SignUp(d)

Spec == Init /\ [][Next]_vars

-----------------------------------------------------------------------------
(***************************************************************************)
(* Properties.                                                             *)
(***************************************************************************)
Request ==
  [kind : {"none", "put", "delete"},
   at : {"idle", "rename", "insert", "select", "remove", "account"},
   did : Did \cup {None}, cid : Cid \cup {None}, paths : SUBSET Cid, left : SUBSET Cid]

TypeOK ==
  /\ accounts \subseteq Did
  /\ files \subseteq Cid
  /\ rows \in [Cid -> Did \cup {None}]
  /\ req \in [Req -> Request]
  /\ starts \in Nat
  /\ claims \subseteq Did \X Cid
  /\ rowless \subseteq Did \X Cid
  /\ spoiled \subseteq Cid /\ orphans \subseteq Cid

\* The directory and the table agree (Put renames before it inserts,
\* DeleteForDID removes before it deletes): a row has its file unless a
\* removal is between the two, and a file has its row unless an upload is,
\* whatever uploads and removals of other accounts do meanwhile.  Excepted are
\* contents over which an upload and a removal met, or one of them broke off.
FilesAndRows ==
  \A c \in Cid \ spoiled :
    /\ rows[c] # None => \/ c \in files
                         \/ \E r \in Req : At(r, "delete", "remove") /\ c \in req[r].paths
    /\ c \in files \ orphans => \/ rows[c] # None
                                \/ \E r \in Req : At(r, "put", "insert") /\ req[r].cid = c

\* What an upload answered can be opened until the removal of its account
\* begins: an upload of the same content by another account, its removal or
\* that of any other takes nothing away from the owner of the row.  The later
\* owner is excepted, for as long as it has no row; so are spoiled contents.
UploadKept ==
  \A x \in claims \ rowless : x[2] \notin spoiled => Opens(x[1], x[2])
====
