----------------------------- MODULE BlobsProofs -----------------------------
(***************************************************************************)
(* Theorems about modules Blobs and Listing, which share no variable.      *)
(* Blobs: the inductive invariant IInv is kept by every action, and        *)
(* FilesAndRows and UploadKept are two of its parts.  Listing: the same    *)
(* with LInv and PagesComplete, from what one query returns.               *)
(***************************************************************************)
EXTENDS Blobs, Listing, FiniteSetTheorems, WellFoundedInduction, TLAPS

\* A removal that has looked up its files.
Removal(q) == req[q].kind = "delete" /\ req[q].at # "select"
Removing(q) == At(q, "delete", "remove")

\* A request under way names its account, and an upload its content.
Proper ==
  \A r \in Req : /\ req[r].kind # "none" => req[r].did \in Did
                 /\ req[r].kind = "put" => req[r].cid \in Cid

\* An upload and a removal that met, over the account or over a file, have
\* spoiled the content.
MetSpoils ==
  \A r, q \in Req : /\ req[r].kind = "put" /\ Removal(q)
                    /\ req[r].did = req[q].did \/ req[r].cid \in req[q].paths
                    => req[r].cid \in spoiled

\* An upload that is about to insert its row has its file in place.
Renamed == \A r \in Req : At(r, "put", "insert") => req[r].cid \in files \cup spoiled

\* Only the holder of Manager.mu removes files.
OneRemover == \A r, q \in Req : Removing(r) /\ Removing(q) => r = q

\* The removal of an account knows its rows, and leaves none when it has
\* deleted them.
KnowsRows ==
  \A q \in Req : /\ req[q].left \subseteq req[q].paths
                 /\ Removing(q) => \A c \in Cid \ spoiled :
                      rows[c] = req[q].did <=> c \in req[q].paths
                 /\ At(q, "delete", "account") => \A c \in Cid \ spoiled : rows[c] # req[q].did

\* A file whose turn has passed is gone, unless its removal failed.
Removed ==
  \A q \in Req : Removing(q) =>
    \A c \in (req[q].paths \ req[q].left) \ spoiled : c \notin files \ orphans

\* Nothing is promised to an account that is being removed.
NoClaims == \A q \in Req : Removal(q) => \A c \in Cid \ spoiled : <<req[q].did, c>> \notin claims

IInv ==
  /\ TypeOK /\ Proper /\ MetSpoils /\ Renamed /\ OneRemover /\ KnowsRows /\ Removed /\ NoClaims
  /\ FilesAndRows /\ UploadKept

-----------------------------------------------------------------------------
(***************************************************************************)
(* What moving, starting and ending a request change.                      *)
(***************************************************************************)
Places == {"idle", "rename", "insert", "select", "remove", "account"}

\* The requests other than r stay.
Others(r) == \A q \in Req \ {r} : req'[q] = req[q]

\* What request r is for stays.
Kept(r) ==
  /\ req'[r].kind = req[r].kind /\ req'[r].did = req[r].did /\ req'[r].cid = req[r].cid
  /\ req'[r].paths = req[r].paths

\* Moving a request on.
LEMMA GoFacts ==
  ASSUME req \in [Req -> Request], NEW r \in Req, NEW a \in Places, Go(r, a)
  PROVE  /\ req' \in [Req -> Request] /\ Others(r) /\ Kept(r)
         /\ req'[r].at = a /\ req'[r].left = req[r].left
<1>1. [req[r] EXCEPT !.at = a] \in Request
  BY DEF Request, Places
<1>2. req' = [req EXCEPT ![r] = [req[r] EXCEPT !.at = a]]
  BY DEF Go
<1>3. req'[r] = [req[r] EXCEPT !.at = a] /\ Others(r)
  BY <1>2 DEF Others
<1> QED
  BY <1>1, <1>2, <1>3 DEF Request, Kept

\* The idle request is about nothing.
LEMMA IdleFields ==
  /\ Idle \in Request
  /\ Idle.kind = "none" /\ Idle.at = "idle" /\ Idle.paths = {} /\ Idle.left = {}
BY DEF Idle, Request

\* Ending a request.
LEMMA EndFacts ==
  ASSUME req \in [Req -> Request], NEW r \in Req, End(r)
  PROVE  req' \in [Req -> Request] /\ Others(r) /\ req'[r] = Idle
BY IdleFields DEF End, Others

\* Starting one.
LEMMA StartFacts ==
  ASSUME req \in [Req -> Request], starts \in Nat, NEW r \in Req, NEW x \in Request, Start(r, x)
  PROVE  /\ req' \in [Req -> Request] /\ Others(r) /\ req[r] = Idle /\ req'[r] = x
         /\ starts' \in Nat
BY DEF Start, Others

-----------------------------------------------------------------------------
(***************************************************************************)
(* Each action keeps the invariant.                                        *)
(***************************************************************************)
\* An upload whose content is known begins.
LEMMA BeginPutStep ==
  ASSUME IInv, NEW r \in Req, BeginPut(r)
  PROVE  IInv'
<1> USE DEF IInv
<1> USE BlobsAssumption
<1>0. req \in [Req -> Request] /\ req[r] \in Request /\ starts \in Nat
  BY DEF TypeOK
<1>a. PICK d \in Did, c \in Cid :
        /\ Start(r, ToPut(d, c))
        /\ spoiled' = spoiled \cup {x \in {c} : \E q \in Req : Meets(q, d, c)}
        /\ UNCHANGED <<accounts, files, rows, claims, rowless, orphans>>
  BY DEF BeginPut
<1>b. ToPut(d, c) \in Request /\ ToPut(d, c).kind = "put" /\ ToPut(d, c).at = "rename"
      /\ ToPut(d, c).did = d /\ ToPut(d, c).cid = c /\ ToPut(d, c).left = {} /\ ToPut(d, c).paths = {}
  BY DEF ToPut, Idle, Request
<1>1. /\ req' \in [Req -> Request] /\ Others(r) /\ req[r] = Idle /\ req'[r] = ToPut(d, c)
      /\ starts' \in Nat
  BY <1>0, <1>a, <1>b, StartFacts
<1>2. /\ \A q \in Req : Removal(q) /\ (req[q].did = d \/ c \in req[q].paths) => c \in spoiled'
      /\ spoiled \subseteq spoiled' /\ spoiled' \subseteq Cid
  BY <1>a DEF Meets, Removal, TypeOK
<1>t. TypeOK'
  BY <1>0, <1>a, <1>b, <1>1, <1>2, IdleFields DEF TypeOK, Proper
<1>11. Proper'
  BY <1>0, <1>a, <1>b, <1>1, <1>2, IdleFields DEF TypeOK, Request, Others, Kept, Proper
<1>12. MetSpoils'
  BY <1>0, <1>a, <1>b, <1>1, <1>2, IdleFields DEF TypeOK, Request, Others, Kept, Proper,
     MetSpoils, Removal
<1>13. Renamed'
  BY <1>0, <1>a, <1>b, <1>1, <1>2, IdleFields DEF TypeOK, Request, Others, Kept, Proper,
     Renamed, MetSpoils, Removal, Removing, KnowsRows, At
<1>14. OneRemover'
  BY <1>0, <1>a, <1>b, <1>1, <1>2, IdleFields DEF TypeOK, Request, Others, Kept,
     OneRemover, Removing, At
<1>15. KnowsRows'
  BY <1>0, <1>a, <1>b, <1>1, <1>2, IdleFields DEF TypeOK, Request, Others, Kept, Proper,
     MetSpoils, Removal, OneRemover, KnowsRows, Removing, At
<1>16. Removed'
  BY <1>0, <1>a, <1>b, <1>1, <1>2, IdleFields DEF TypeOK, Request, Others, Kept, Proper,
     MetSpoils, Removal, OneRemover, Removed, KnowsRows, Removing, At
<1>17. NoClaims'
  BY <1>0, <1>a, <1>b, <1>1, <1>2, IdleFields DEF TypeOK, Request, Others, Kept, Proper,
     MetSpoils, NoClaims, Removal
<1>18. FilesAndRows'
  BY <1>0, <1>a, <1>b, <1>1, <1>2, IdleFields DEF TypeOK, Request, Others, Kept, Proper,
     FilesAndRows, Renamed, OneRemover, Removed, KnowsRows, Removing, At
<1>19. UploadKept'
  BY <1>0, <1>a, <1>b, <1>1, <1>2, IdleFields DEF TypeOK, Request, Others, Kept, Proper,
     UploadKept, FilesAndRows, Renamed, NoClaims, KnowsRows, Removal, Removing, At,
     Opens
<1> QED
  BY <1>t, <1>11, <1>12, <1>13, <1>14, <1>15, <1>16, <1>17, <1>18, <1>19

\* The file is in place.
LEMMA RenameStep ==
  ASSUME IInv, NEW r \in Req, Rename(r)
  PROVE  IInv'
<1> USE DEF IInv
<1> USE BlobsAssumption
<1>0. req \in [Req -> Request] /\ req[r] \in Request /\ starts \in Nat
  BY DEF TypeOK
<1>1. /\ req' \in [Req -> Request] /\ Others(r) /\ Kept(r)
      /\ req'[r].at = "insert" /\ req'[r].left = req[r].left
  BY <1>0, GoFacts DEF Rename, Places
<1>2. /\ req[r].kind = "put" /\ req[r].at = "rename"
      /\ files' = files \cup {req[r].cid}
      /\ UNCHANGED <<accounts, rows, starts, claims, rowless, spoiled, orphans>>
  BY DEF Rename, ghosts, At, Start, Go, End
<1>t. TypeOK'
  BY <1>0, <1>1, <1>2 DEF TypeOK, Proper
<1>11. Proper'
  BY <1>0, <1>1, <1>2 DEF TypeOK, Request, Others, Kept, Proper
<1>12. MetSpoils'
  BY <1>0, <1>1, <1>2 DEF TypeOK, Request, Others, Kept, Proper, MetSpoils, Removal
<1>13. Renamed'
  BY <1>0, <1>1, <1>2 DEF TypeOK, Request, Others, Kept, Proper, Renamed, MetSpoils,
     Removal, Removing, KnowsRows, At
<1>14. OneRemover'
  BY <1>0, <1>1, <1>2 DEF TypeOK, Request, Others, Kept, OneRemover, Removing, At
<1>15. KnowsRows'
  BY <1>0, <1>1, <1>2 DEF TypeOK, Request, Others, Kept, Proper, MetSpoils, Removal,
     OneRemover, KnowsRows, Removing, At
<1>16. Removed'
  BY <1>0, <1>1, <1>2 DEF TypeOK, Request, Others, Kept, Proper, MetSpoils, Removal,
     OneRemover, Removed, KnowsRows, Removing, At
<1>17. NoClaims'
  BY <1>0, <1>1, <1>2 DEF TypeOK, Request, Others, Kept, Proper, MetSpoils, NoClaims,
     Removal
<1>18. FilesAndRows'
  <2>1. \A q \in Req : At(q, "put", "insert") => q # r /\ req'[q] = req[q]
    BY <1>1, <1>2 DEF At, Others
  <2>2. \A q \in Req : Removing(q) => q # r /\ req'[q] = req[q]
    BY <1>1, <1>2 DEF Removing, At, Others
  <2>3. At(r, "put", "insert")' /\ req'[r].cid = req[r].cid
    BY <1>1, <1>2 DEF At, Kept
  <2> QED
    BY <1>2, <2>1, <2>2, <2>3 DEF FilesAndRows, Removing, At
<1>19. UploadKept'
  BY <1>0, <1>1, <1>2 DEF TypeOK, Request, Others, Kept, Proper, UploadKept,
     FilesAndRows, Renamed, NoClaims, KnowsRows, Removal, Removing, At, Opens
<1> QED
  BY <1>t, <1>11, <1>12, <1>13, <1>14, <1>15, <1>16, <1>17, <1>18, <1>19

\* The row is there.
LEMMA InsertStep ==
  ASSUME IInv, NEW r \in Req, Insert(r)
  PROVE  IInv'
<1> USE DEF IInv
<1> USE BlobsAssumption
<1>0. req \in [Req -> Request] /\ req[r] \in Request /\ starts \in Nat
  BY DEF TypeOK
<1>1. req' \in [Req -> Request] /\ Others(r) /\ req'[r] = Idle
  BY <1>0, EndFacts DEF Insert
<1>2. /\ req[r].kind = "put" /\ req[r].at = "insert"
      /\ rows[req[r].cid] = None => req[r].did \in accounts
      /\ rows' = [rows EXCEPT ![req[r].cid] = IF @ = None THEN req[r].did ELSE @]
      /\ claims' = claims \cup {<<req[r].did, req[r].cid>>}
      /\ rowless' = IF rows[req[r].cid] \in {None, req[r].did}
                     THEN rowless \ {<<req[r].did, req[r].cid>>}
                     ELSE rowless \cup {<<req[r].did, req[r].cid>>}
      /\ UNCHANGED <<accounts, files, starts, spoiled, orphans>>
  BY DEF Insert, ghosts, At, Start, Go, End
<1>t. TypeOK'
  BY <1>0, <1>1, <1>2, IdleFields DEF TypeOK, Proper
<1>11. Proper'
  BY <1>0, <1>1, <1>2, IdleFields DEF TypeOK, Request, Others, Kept, Proper
<1>12. MetSpoils'
  BY <1>0, <1>1, <1>2, IdleFields DEF TypeOK, Request, Others, Kept, Proper, MetSpoils,
     Removal
<1>13. Renamed'
  BY <1>0, <1>1, <1>2, IdleFields DEF TypeOK, Request, Others, Kept, Proper, Renamed,
     MetSpoils, Removal, Removing, KnowsRows, At
<1>14. OneRemover'
  BY <1>0, <1>1, <1>2, IdleFields DEF TypeOK, Request, Others, Kept, OneRemover,
     Removing, At
<1>15. KnowsRows'
  BY <1>0, <1>1, <1>2, IdleFields DEF TypeOK, Request, Others, Kept, Proper, MetSpoils,
     Removal, OneRemover, KnowsRows, Removing, At
<1>16. Removed'
  BY <1>0, <1>1, <1>2, IdleFields DEF TypeOK, Request, Others, Kept, Proper, MetSpoils,
     Removal, OneRemover, Removed, KnowsRows, Removing, At
<1>17. NoClaims'
  BY <1>0, <1>1, <1>2, IdleFields DEF TypeOK, Request, Others, Kept, Proper, MetSpoils,
     NoClaims, Removal
<1>18. FilesAndRows'
  BY <1>0, <1>1, <1>2, IdleFields DEF TypeOK, Request, Others, Kept, Proper,
     FilesAndRows, Renamed, OneRemover, Removed, KnowsRows, Removing, At
<1>19. UploadKept'
  BY <1>0, <1>1, <1>2, IdleFields DEF TypeOK, Request, Others, Kept, Proper, UploadKept,
     FilesAndRows, Renamed, NoClaims, KnowsRows, Removal, Removing, At, Opens
<1> QED
  BY <1>t, <1>11, <1>12, <1>13, <1>14, <1>15, <1>16, <1>17, <1>18, <1>19

\* The upload breaks off.
LEMMA PutFailsStep ==
  ASSUME IInv, NEW r \in Req, PutFails(r)
  PROVE  IInv'
<1> USE DEF IInv
<1> USE BlobsAssumption
<1>0. req \in [Req -> Request] /\ req[r] \in Request /\ starts \in Nat
  BY DEF TypeOK
<1>1. req' \in [Req -> Request] /\ Others(r) /\ req'[r] = Idle
  BY <1>0, EndFacts DEF PutFails
<1>2. /\ req[r].kind = "put"
      /\ orphans' = IF req[r].at = "insert" THEN orphans \cup {req[r].cid} ELSE orphans
      /\ UNCHANGED <<accounts, files, rows, starts, claims, rowless, spoiled>>
  BY DEF PutFails, ghosts, At, Start, Go, End
<1>t. TypeOK'
  BY <1>0, <1>1, <1>2, IdleFields DEF TypeOK, Proper
<1>11. Proper'
  BY <1>0, <1>1, <1>2, IdleFields DEF TypeOK, Request, Others, Kept, Proper
<1>12. MetSpoils'
  BY <1>0, <1>1, <1>2, IdleFields DEF TypeOK, Request, Others, Kept, Proper, MetSpoils,
     Removal
<1>13. Renamed'
  BY <1>0, <1>1, <1>2, IdleFields DEF TypeOK, Request, Others, Kept, Proper, Renamed,
     MetSpoils, Removal, Removing, KnowsRows, At
<1>14. OneRemover'
  BY <1>0, <1>1, <1>2, IdleFields DEF TypeOK, Request, Others, Kept, OneRemover,
     Removing, At
<1>15. KnowsRows'
  BY <1>0, <1>1, <1>2, IdleFields DEF TypeOK, Request, Others, Kept, Proper, MetSpoils,
     Removal, OneRemover, KnowsRows, Removing, At
<1>16. Removed'
  BY <1>0, <1>1, <1>2, IdleFields DEF TypeOK, Request, Others, Kept, Proper, MetSpoils,
     Removal, OneRemover, Removed, KnowsRows, Removing, At
<1>17. NoClaims'
  BY <1>0, <1>1, <1>2, IdleFields DEF TypeOK, Request, Others, Kept, Proper, MetSpoils,
     NoClaims, Removal
<1>18. FilesAndRows'
  BY <1>0, <1>1, <1>2, IdleFields DEF TypeOK, Request, Others, Kept, Proper,
     FilesAndRows, Renamed, OneRemover, Removed, KnowsRows, Removing, At
<1>19. UploadKept'
  BY <1>0, <1>1, <1>2, IdleFields DEF TypeOK, Request, Others, Kept, Proper, UploadKept,
     FilesAndRows, Renamed, NoClaims, KnowsRows, Removal, Removing, At, Opens
<1> QED
  BY <1>t, <1>11, <1>12, <1>13, <1>14, <1>15, <1>16, <1>17, <1>18, <1>19

\* A removal begins.
LEMMA BeginDeleteStep ==
  ASSUME IInv, NEW r \in Req, BeginDelete(r)
  PROVE  IInv'
<1> USE DEF IInv
<1> USE BlobsAssumption
<1>0. req \in [Req -> Request] /\ req[r] \in Request /\ starts \in Nat
  BY DEF TypeOK
<1>a. PICK d \in accounts : Start(r, ToDelete(d)) /\ UNCHANGED <<accounts, files, rows, ghosts>>
  BY DEF BeginDelete
<1>b. /\ ToDelete(d) \in Request /\ ToDelete(d).kind = "delete" /\ ToDelete(d).at = "select"
      /\ ToDelete(d).did = d /\ d \in Did /\ ToDelete(d).left = {} /\ ToDelete(d).paths = {}
  BY DEF ToDelete, Idle, Request, TypeOK
<1>1. /\ req' \in [Req -> Request] /\ Others(r) /\ req[r] = Idle /\ req'[r] = ToDelete(d)
      /\ starts' \in Nat
  BY <1>0, <1>a, <1>b, StartFacts
<1>2. UNCHANGED <<accounts, files, rows, claims, rowless, spoiled, orphans>>
  BY <1>a DEF ghosts
<1>t. TypeOK'
  BY <1>0, <1>b, <1>1, <1>2, IdleFields DEF TypeOK, Proper
<1>11. Proper'
  BY <1>0, <1>b, <1>1, <1>2, IdleFields DEF TypeOK, Request, Others, Kept, Proper
<1>12. MetSpoils'
  BY <1>0, <1>b, <1>1, <1>2, IdleFields DEF TypeOK, Request, Others, Kept, Proper,
     MetSpoils, Removal
<1>13. Renamed'
  BY <1>0, <1>b, <1>1, <1>2, IdleFields DEF TypeOK, Request, Others, Kept, Proper,
     Renamed, MetSpoils, Removal, Removing, KnowsRows, At
<1>14. OneRemover'
  BY <1>0, <1>b, <1>1, <1>2, IdleFields DEF TypeOK, Request, Others, Kept, OneRemover,
     Removing, At
<1>15. KnowsRows'
  BY <1>0, <1>b, <1>1, <1>2, IdleFields DEF TypeOK, Request, Others, Kept, Proper,
     MetSpoils, Removal, OneRemover, KnowsRows, Removing, At
<1>16. Removed'
  BY <1>0, <1>b, <1>1, <1>2, IdleFields DEF TypeOK, Request, Others, Kept, Proper,
     MetSpoils, Removal, OneRemover, Removed, KnowsRows, Removing, At
<1>17. NoClaims'
  BY <1>0, <1>b, <1>1, <1>2, IdleFields DEF TypeOK, Request, Others, Kept, Proper,
     MetSpoils, NoClaims, Removal
<1>18. FilesAndRows'
  BY <1>0, <1>b, <1>1, <1>2, IdleFields DEF TypeOK, Request, Others, Kept, Proper,
     FilesAndRows, Renamed, OneRemover, Removed, KnowsRows, Removing, At
<1>19. UploadKept'
  BY <1>0, <1>b, <1>1, <1>2, IdleFields DEF TypeOK, Request, Others, Kept, Proper,
     UploadKept, FilesAndRows, Renamed, NoClaims, KnowsRows, Removal, Removing, At,
     Opens
<1> QED
  BY <1>t, <1>11, <1>12, <1>13, <1>14, <1>15, <1>16, <1>17, <1>18, <1>19

\* The removal has the mutex and the paths.
LEMMA SelectPathsStep ==
  ASSUME IInv, NEW r \in Req, SelectPaths(r)
  PROVE  IInv'
<1> USE DEF IInv
<1> USE BlobsAssumption
<1>0. req \in [Req -> Request] /\ req[r] \in Request /\ starts \in Nat
  BY DEF TypeOK
<1> DEFINE x == [req[r] EXCEPT !.at = "remove", !.paths = RowsOf(req[r].did), !.left = RowsOf(req[r].did)]
<1>a. /\ x \in Request /\ x.kind = req[r].kind /\ x.at = "remove" /\ x.did = req[r].did
      /\ x.cid = req[r].cid /\ x.paths = RowsOf(req[r].did) /\ x.left = RowsOf(req[r].did)
  BY <1>0 DEF Request, RowsOf
<1>b. req' = [req EXCEPT ![r] = x]
  BY DEF SelectPaths
<1>1. req' \in [Req -> Request] /\ Others(r) /\ req'[r] = x
  BY <1>0, <1>a, <1>b DEF Others
<1>2. /\ req[r].kind = "delete" /\ req[r].at = "select"
      /\ \A q \in Req : ~Removing(q)
      /\ claims' = {y \in claims : y[1] # req[r].did}
      /\ UNCHANGED <<accounts, files, rows, starts, rowless, orphans>>
  BY DEF SelectPaths, At, Locked, Removing
<1>3. /\ spoiled \subseteq spoiled' /\ spoiled' \subseteq Cid
      /\ \A q \in Req : /\ req[q].kind = "put" /\ req[q].cid \in Cid
                        /\ req[q].did = req[r].did \/ req[q].cid \in RowsOf(req[r].did)
                        => req[q].cid \in spoiled'
  BY DEF SelectPaths, TypeOK
<1>4. RowsOf(req[r].did) = {c \in Cid : rows[c] = req[r].did}
  BY DEF RowsOf
<1> HIDE DEF x
<1>t. TypeOK'
  BY <1>0, <1>a, <1>1, <1>2, <1>3, <1>4 DEF TypeOK, Proper
<1>11. Proper'
  BY <1>0, <1>a, <1>1, <1>2, <1>3, <1>4 DEF TypeOK, Request, Others, Kept, Proper
<1>12. MetSpoils'
  BY <1>0, <1>a, <1>1, <1>2, <1>3, <1>4 DEF TypeOK, Request, Others, Kept, Proper,
     MetSpoils, Removal
<1>13. Renamed'
  BY <1>0, <1>a, <1>1, <1>2, <1>3, <1>4 DEF TypeOK, Request, Others, Kept, Proper,
     Renamed, MetSpoils, Removal, Removing, KnowsRows, At
<1>14. OneRemover'
  BY <1>0, <1>a, <1>1, <1>2, <1>3, <1>4 DEF TypeOK, Request, Others, Kept, OneRemover,
     Removing, At
<1>15. KnowsRows'
  BY <1>0, <1>a, <1>1, <1>2, <1>3, <1>4 DEF TypeOK, Request, Others, Kept, Proper,
     MetSpoils, Removal, OneRemover, KnowsRows, Removing, At
<1>16. Removed'
  BY <1>0, <1>a, <1>1, <1>2, <1>3, <1>4 DEF TypeOK, Request, Others, Kept, Proper,
     MetSpoils, Removal, OneRemover, Removed, KnowsRows, Removing, At
<1>17. NoClaims'
  BY <1>0, <1>a, <1>1, <1>2, <1>3, <1>4 DEF TypeOK, Request, Others, Kept, Proper,
     MetSpoils, NoClaims, Removal
<1>18. FilesAndRows'
  BY <1>0, <1>a, <1>1, <1>2, <1>3, <1>4 DEF TypeOK, Request, Others, Kept, Proper,
     FilesAndRows, Renamed, OneRemover, Removed, KnowsRows, Removing, At
<1>19. UploadKept'
  BY <1>0, <1>a, <1>1, <1>2, <1>3, <1>4 DEF TypeOK, Request, Others, Kept, Proper,
     UploadKept, FilesAndRows, Renamed, NoClaims, KnowsRows, Removal, Removing, At,
     Opens
<1> QED
  BY <1>t, <1>11, <1>12, <1>13, <1>14, <1>15, <1>16, <1>17, <1>18, <1>19

\* A file is removed.
LEMMA RemoveFileStep ==
  ASSUME IInv, NEW r \in Req, RemoveFile(r)
  PROVE  IInv'
<1> USE DEF IInv
<1> USE BlobsAssumption
<1>0. req \in [Req -> Request] /\ req[r] \in Request /\ starts \in Nat
  BY DEF TypeOK
<1>a. PICK c \in req[r].left : /\ files' = files \ {c}
                               /\ req' = [req EXCEPT ![r].left = @ \ {c}]
  BY DEF RemoveFile
<1>b. /\ [req[r] EXCEPT !.left = @ \ {c}] \in Request
      /\ req' = [req EXCEPT ![r] = [req[r] EXCEPT !.left = @ \ {c}]]
  BY <1>0, <1>a DEF Request
<1>c. c \in Cid
  BY <1>0 DEF Request
<1>1. /\ req' \in [Req -> Request] /\ Others(r) /\ Kept(r)
      /\ req'[r].at = req[r].at /\ req'[r].left = req[r].left \ {c}
  BY <1>0, <1>b DEF Others, Kept, Request
<1>2. /\ req[r].kind = "delete" /\ req[r].at = "remove"
      /\ UNCHANGED <<accounts, rows, starts, claims, rowless, spoiled, orphans>>
  BY DEF RemoveFile, ghosts, At, Start, Go, End
<1>t. TypeOK'
  BY <1>0, <1>a, <1>c, <1>1, <1>2 DEF TypeOK, Proper
<1>11. Proper'
  BY <1>0, <1>a, <1>c, <1>1, <1>2 DEF TypeOK, Request, Others, Kept, Proper
<1>12. MetSpoils'
  BY <1>0, <1>a, <1>c, <1>1, <1>2 DEF TypeOK, Request, Others, Kept, Proper, MetSpoils,
     Removal
<1>13. Renamed'
  BY <1>0, <1>a, <1>c, <1>1, <1>2 DEF TypeOK, Request, Others, Kept, Proper, Renamed,
     MetSpoils, Removal, Removing, KnowsRows, At
<1>14. OneRemover'
  BY <1>0, <1>a, <1>c, <1>1, <1>2 DEF TypeOK, Request, Others, Kept, OneRemover,
     Removing, At
<1>15. KnowsRows'
  BY <1>0, <1>a, <1>c, <1>1, <1>2 DEF TypeOK, Request, Others, Kept, Proper, MetSpoils,
     Removal, OneRemover, KnowsRows, Removing, At
<1>16. Removed'
  BY <1>0, <1>a, <1>c, <1>1, <1>2 DEF TypeOK, Request, Others, Kept, Proper, MetSpoils,
     Removal, OneRemover, Removed, KnowsRows, Removing, At
<1>17. NoClaims'
  BY <1>0, <1>a, <1>c, <1>1, <1>2 DEF TypeOK, Request, Others, Kept, Proper, MetSpoils,
     NoClaims, Removal
<1>18. FilesAndRows'
  BY <1>0, <1>a, <1>c, <1>1, <1>2 DEF TypeOK, Request, Others, Kept, Proper,
     FilesAndRows, Renamed, OneRemover, Removed, KnowsRows, Removing, At
<1>19. UploadKept'
  BY <1>0, <1>a, <1>c, <1>1, <1>2 DEF TypeOK, Request, Others, Kept, Proper, UploadKept,
     FilesAndRows, Renamed, NoClaims, KnowsRows, Removal, Removing, At, Opens
<1> QED
  BY <1>t, <1>11, <1>12, <1>13, <1>14, <1>15, <1>16, <1>17, <1>18, <1>19

\* A file could not be removed.
LEMMA RemoveFileFailsStep ==
  ASSUME IInv, NEW r \in Req, RemoveFileFails(r)
  PROVE  IInv'
<1> USE DEF IInv
<1> USE BlobsAssumption
<1>0. req \in [Req -> Request] /\ req[r] \in Request /\ starts \in Nat
  BY DEF TypeOK
<1>a. PICK c \in req[r].left : /\ orphans' = orphans \cup {c}
                               /\ req' = [req EXCEPT ![r].left = @ \ {c}]
  BY DEF RemoveFileFails
<1>b. /\ [req[r] EXCEPT !.left = @ \ {c}] \in Request
      /\ req' = [req EXCEPT ![r] = [req[r] EXCEPT !.left = @ \ {c}]]
  BY <1>0, <1>a DEF Request
<1>c. c \in Cid
  BY <1>0 DEF Request
<1>1. /\ req' \in [Req -> Request] /\ Others(r) /\ Kept(r)
      /\ req'[r].at = req[r].at /\ req'[r].left = req[r].left \ {c}
  BY <1>0, <1>b DEF Others, Kept, Request
<1>2. /\ req[r].kind = "delete" /\ req[r].at = "remove"
      /\ UNCHANGED <<accounts, files, rows, starts, claims, rowless, spoiled>>
  BY DEF RemoveFileFails, ghosts, At, Start, Go, End
<1>t. TypeOK'
  BY <1>0, <1>a, <1>c, <1>1, <1>2 DEF TypeOK, Proper
<1>11. Proper'
  BY <1>0, <1>a, <1>c, <1>1, <1>2 DEF TypeOK, Request, Others, Kept, Proper
<1>12. MetSpoils'
  BY <1>0, <1>a, <1>c, <1>1, <1>2 DEF TypeOK, Request, Others, Kept, Proper, MetSpoils,
     Removal
<1>13. Renamed'
  BY <1>0, <1>a, <1>c, <1>1, <1>2 DEF TypeOK, Request, Others, Kept, Proper, Renamed,
     MetSpoils, Removal, Removing, KnowsRows, At
<1>14. OneRemover'
  BY <1>0, <1>a, <1>c, <1>1, <1>2 DEF TypeOK, Request, Others, Kept, OneRemover,
     Removing, At
<1>15. KnowsRows'
  BY <1>0, <1>a, <1>c, <1>1, <1>2 DEF TypeOK, Request, Others, Kept, Proper, MetSpoils,
     Removal, OneRemover, KnowsRows, Removing, At
<1>16. Removed'
  BY <1>0, <1>a, <1>c, <1>1, <1>2 DEF TypeOK, Request, Others, Kept, Proper, MetSpoils,
     Removal, OneRemover, Removed, KnowsRows, Removing, At
<1>17. NoClaims'
  BY <1>0, <1>a, <1>c, <1>1, <1>2 DEF TypeOK, Request, Others, Kept, Proper, MetSpoils,
     NoClaims, Removal
<1>18. FilesAndRows'
  BY <1>0, <1>a, <1>c, <1>1, <1>2 DEF TypeOK, Request, Others, Kept, Proper,
     FilesAndRows, Renamed, OneRemover, Removed, KnowsRows, Removing, At
<1>19. UploadKept'
  BY <1>0, <1>a, <1>c, <1>1, <1>2 DEF TypeOK, Request, Others, Kept, Proper, UploadKept,
     FilesAndRows, Renamed, NoClaims, KnowsRows, Removal, Removing, At, Opens
<1> QED
  BY <1>t, <1>11, <1>12, <1>13, <1>14, <1>15, <1>16, <1>17, <1>18, <1>19

\* The rows go.
LEMMA DeleteRowsStep ==
  ASSUME IInv, NEW r \in Req, DeleteRows(r)
  PROVE  IInv'
<1> USE DEF IInv
<1> USE BlobsAssumption
<1>0. req \in [Req -> Request] /\ req[r] \in Request /\ starts \in Nat
  BY DEF TypeOK
<1>1. /\ req' \in [Req -> Request] /\ Others(r) /\ Kept(r)
      /\ req'[r].at = "account" /\ req'[r].left = req[r].left
  BY <1>0, GoFacts DEF DeleteRows, Places
<1>2. /\ req[r].kind = "delete" /\ req[r].at = "remove" /\ req[r].left = {}
      /\ rows' = [c \in Cid |-> IF rows[c] = req[r].did THEN None ELSE rows[c]]
      /\ UNCHANGED <<accounts, files, starts, claims, rowless, spoiled, orphans>>
  BY DEF DeleteRows, ghosts, At, Start, Go, End
<1>t. TypeOK'
  BY <1>0, <1>1, <1>2 DEF TypeOK, Proper
<1>11. Proper'
  BY <1>0, <1>1, <1>2 DEF TypeOK, Request, Others, Kept, Proper
<1>12. MetSpoils'
  BY <1>0, <1>1, <1>2 DEF TypeOK, Request, Others, Kept, Proper, MetSpoils, Removal
<1>13. Renamed'
  BY <1>0, <1>1, <1>2 DEF TypeOK, Request, Others, Kept, Proper, Renamed, MetSpoils,
     Removal, Removing, KnowsRows, At
<1>14. OneRemover'
  BY <1>0, <1>1, <1>2 DEF TypeOK, Request, Others, Kept, OneRemover, Removing, At
<1>15. KnowsRows'
  BY <1>0, <1>1, <1>2 DEF TypeOK, Request, Others, Kept, Proper, MetSpoils, Removal,
     OneRemover, KnowsRows, Removing, At
<1>16. Removed'
  BY <1>0, <1>1, <1>2 DEF TypeOK, Request, Others, Kept, Proper, MetSpoils, Removal,
     OneRemover, Removed, KnowsRows, Removing, At
<1>17. NoClaims'
  BY <1>0, <1>1, <1>2 DEF TypeOK, Request, Others, Kept, Proper, MetSpoils, NoClaims,
     Removal
<1>18. FilesAndRows'
  BY <1>0, <1>1, <1>2 DEF TypeOK, Request, Others, Kept, Proper, FilesAndRows, Renamed,
     OneRemover, Removed, KnowsRows, Removing, At
<1>19. UploadKept'
  BY <1>0, <1>1, <1>2 DEF TypeOK, Request, Others, Kept, Proper, UploadKept,
     FilesAndRows, Renamed, NoClaims, KnowsRows, Removal, Removing, At, Opens
<1> QED
  BY <1>t, <1>11, <1>12, <1>13, <1>14, <1>15, <1>16, <1>17, <1>18, <1>19

\* The account goes.
LEMMA DeleteAccountStep ==
  ASSUME IInv, NEW r \in Req, DeleteAccount(r)
  PROVE  IInv'
<1> USE DEF IInv
<1> USE BlobsAssumption
<1>0. req \in [Req -> Request] /\ req[r] \in Request /\ starts \in Nat
  BY DEF TypeOK
<1>1. req' \in [Req -> Request] /\ Others(r) /\ req'[r] = Idle
  BY <1>0, EndFacts DEF DeleteAccount
<1>2. /\ req[r].kind = "delete" /\ req[r].at = "account"
      /\ accounts' = accounts \ {req[r].did}
      /\ rows' = [c \in Cid |-> IF rows[c] = req[r].did THEN None ELSE rows[c]]
      /\ UNCHANGED <<files, starts, claims, rowless, spoiled, orphans>>
  BY DEF DeleteAccount, ghosts, At, Start, Go, End
<1>t. TypeOK'
  BY <1>0, <1>1, <1>2, IdleFields DEF TypeOK, Proper
<1>11. Proper'
  BY <1>0, <1>1, <1>2, IdleFields DEF TypeOK, Request, Others, Kept, Proper
<1>12. MetSpoils'
  BY <1>0, <1>1, <1>2, IdleFields DEF TypeOK, Request, Others, Kept, Proper, MetSpoils,
     Removal
<1>13. Renamed'
  BY <1>0, <1>1, <1>2, IdleFields DEF TypeOK, Request, Others, Kept, Proper, Renamed,
     MetSpoils, Removal, Removing, KnowsRows, At
<1>14. OneRemover'
  BY <1>0, <1>1, <1>2, IdleFields DEF TypeOK, Request, Others, Kept, OneRemover,
     Removing, At
<1>15. KnowsRows'
  BY <1>0, <1>1, <1>2, IdleFields DEF TypeOK, Request, Others, Kept, Proper, MetSpoils,
     Removal, OneRemover, KnowsRows, Removing, At
<1>16. Removed'
  BY <1>0, <1>1, <1>2, IdleFields DEF TypeOK, Request, Others, Kept, Proper, MetSpoils,
     Removal, OneRemover, Removed, KnowsRows, Removing, At
<1>17. NoClaims'
  BY <1>0, <1>1, <1>2, IdleFields DEF TypeOK, Request, Others, Kept, Proper, MetSpoils,
     NoClaims, Removal
<1>18. FilesAndRows'
  <2>1. \A c \in Cid \ spoiled : rows'[c] = rows[c]
    BY <1>0, <1>2 DEF TypeOK, KnowsRows, At
  <2>2. \A q \in Req : Removing(q) => q # r /\ req'[q] = req[q]
    BY <1>1, <1>2 DEF Removing, At, Others
  <2>3. \A q \in Req : At(q, "put", "insert") => q # r /\ req'[q] = req[q]
    BY <1>1, <1>2 DEF At, Others
  <2> QED
    BY <1>2, <2>1, <2>2, <2>3 DEF FilesAndRows, Removing, At
<1>19. UploadKept'
  <2> SUFFICES ASSUME NEW y \in claims \ rowless, y[2] \notin spoiled
               PROVE  rows'[y[2]] = y[1] /\ y[2] \in files
    BY <1>2 DEF UploadKept, Opens
  <2>1. y[1] \in Did /\ y[2] \in Cid /\ y = <<y[1], y[2]>>
    BY DEF TypeOK
  <2>2. rows[y[2]] = y[1] /\ y[2] \in files
    BY DEF UploadKept, Opens
  <2>3. y[1] # req[r].did
    BY <1>2, <2>1 DEF NoClaims, Removal
  <2> QED
    BY <1>2, <2>1, <2>2, <2>3 DEF TypeOK
<1> QED
  BY <1>t, <1>11, <1>12, <1>13, <1>14, <1>15, <1>16, <1>17, <1>18, <1>19

\* The removal breaks off.
LEMMA DeleteFailsStep ==
  ASSUME IInv, NEW r \in Req, DeleteFails(r)
  PROVE  IInv'
<1> USE DEF IInv
<1> USE BlobsAssumption
<1>0. req \in [Req -> Request] /\ req[r] \in Request /\ starts \in Nat
  BY DEF TypeOK
<1>1. req' \in [Req -> Request] /\ Others(r) /\ req'[r] = Idle
  BY <1>0, EndFacts DEF DeleteFails
<1>2. /\ req[r].kind = "delete"
      /\ spoiled' = spoiled \cup req[r].paths
      /\ UNCHANGED <<accounts, files, rows, starts, claims, rowless, orphans>>
  BY DEF DeleteFails, ghosts, At, Start, Go, End
<1>t. TypeOK'
  BY <1>0, <1>1, <1>2, IdleFields DEF TypeOK, Proper, Request
<1>11. Proper'
  BY <1>0, <1>1, <1>2, IdleFields DEF TypeOK, Request, Others, Kept, Proper
<1>12. MetSpoils'
  BY <1>0, <1>1, <1>2, IdleFields DEF TypeOK, Request, Others, Kept, Proper, MetSpoils,
     Removal
<1>13. Renamed'
  BY <1>0, <1>1, <1>2, IdleFields DEF TypeOK, Request, Others, Kept, Proper, Renamed,
     MetSpoils, Removal, Removing, KnowsRows, At
<1>14. OneRemover'
  BY <1>0, <1>1, <1>2, IdleFields DEF TypeOK, Request, Others, Kept, OneRemover,
     Removing, At
<1>15. KnowsRows'
  BY <1>0, <1>1, <1>2, IdleFields DEF TypeOK, Request, Others, Kept, Proper, MetSpoils,
     Removal, OneRemover, KnowsRows, Removing, At
<1>16. Removed'
  BY <1>0, <1>1, <1>2, IdleFields DEF TypeOK, Request, Others, Kept, Proper, MetSpoils,
     Removal, OneRemover, Removed, KnowsRows, Removing, At
<1>17. NoClaims'
  BY <1>0, <1>1, <1>2, IdleFields DEF TypeOK, Request, Others, Kept, Proper, MetSpoils,
     NoClaims, Removal
<1>18. FilesAndRows'
  BY <1>0, <1>1, <1>2, IdleFields DEF TypeOK, Request, Others, Kept, Proper,
     FilesAndRows, Renamed, OneRemover, Removed, KnowsRows, Removing, At
<1>19. UploadKept'
  BY <1>0, <1>1, <1>2, IdleFields DEF TypeOK, Request, Others, Kept, Proper, UploadKept,
     FilesAndRows, Renamed, NoClaims, KnowsRows, Removal, Removing, At, Opens
<1> QED
  BY <1>t, <1>11, <1>12, <1>13, <1>14, <1>15, <1>16, <1>17, <1>18, <1>19

\* An account is signed up again.
LEMMA SignUpStep ==
  ASSUME IInv, NEW d \in Did, SignUp(d)
  PROVE  IInv'
<1> USE DEF IInv
<1> USE BlobsAssumption
<1>2. /\ accounts' = accounts \cup {d} /\ starts' = starts + 1
      /\ UNCHANGED <<files, rows, req, claims, rowless, spoiled, orphans>>
  BY DEF SignUp, ghosts
<1>t. TypeOK'
  BY <1>2 DEF TypeOK, Proper
<1>11. Proper'
  BY <1>2 DEF TypeOK, Request, Others, Kept, Proper
<1>12. MetSpoils'
  BY <1>2 DEF TypeOK, Request, Others, Kept, Proper, MetSpoils, Removal
<1>13. Renamed'
  BY <1>2 DEF TypeOK, Request, Others, Kept, Proper, Renamed, MetSpoils, Removal,
     Removing, KnowsRows, At
<1>14. OneRemover'
  BY <1>2 DEF TypeOK, Request, Others, Kept, OneRemover, Removing, At
<1>15. KnowsRows'
  BY <1>2 DEF TypeOK, Request, Others, Kept, Proper, MetSpoils, Removal, OneRemover,
     KnowsRows, Removing, At
<1>16. Removed'
  BY <1>2 DEF TypeOK, Request, Others, Kept, Proper, MetSpoils, Removal, OneRemover,
     Removed, KnowsRows, Removing, At
<1>17. NoClaims'
  BY <1>2 DEF TypeOK, Request, Others, Kept, Proper, MetSpoils, NoClaims, Removal
<1>18. FilesAndRows'
  BY <1>2 DEF TypeOK, Request, Others, Kept, Proper, FilesAndRows, Renamed, OneRemover,
     Removed, KnowsRows, Removing, At
<1>19. UploadKept'
  BY <1>2 DEF TypeOK, Request, Others, Kept, Proper, UploadKept, FilesAndRows, Renamed,
     NoClaims, KnowsRows, Removal, Removing, At, Opens
<1> QED
  BY <1>t, <1>11, <1>12, <1>13, <1>14, <1>15, <1>16, <1>17, <1>18, <1>19

-----------------------------------------------------------------------------
(***************************************************************************)
(* The theorems.                                                           *)
(***************************************************************************)
\* The invariant holds at first.
LEMMA InitInv == Init => IInv
BY BlobsAssumption, IdleFields DEF Init, IInv, TypeOK, Proper, MetSpoils, Renamed,
   OneRemover, KnowsRows,
   Removed, NoClaims, FilesAndRows, UploadKept, Removal, Removing, At, Opens

\* Every step keeps it.
LEMMA NextInv == IInv /\ [Next]_vars => IInv'
<1> SUFFICES ASSUME IInv, [Next]_vars
             PROVE  IInv'
  OBVIOUS
<1>1. CASE UNCHANGED vars
  BY <1>1 DEF vars, ghosts, IInv, TypeOK, Proper, MetSpoils, Renamed, OneRemover, KnowsRows,
     Removed, NoClaims, FilesAndRows, UploadKept, Removal, Removing, At, Opens
<1>2. ASSUME NEW r \in Req,
             \/ BeginPut(r) \/ Rename(r) \/ Insert(r) \/ PutFails(r)
             \/ BeginDelete(r) \/ SelectPaths(r) \/ RemoveFile(r) \/ RemoveFileFails(r)
             \/ DeleteRows(r) \/ DeleteAccount(r) \/ DeleteFails(r)
      PROVE  IInv'
  BY <1>2, BeginPutStep, RenameStep, InsertStep, PutFailsStep, BeginDeleteStep,
     SelectPathsStep,
     RemoveFileStep, RemoveFileFailsStep, DeleteRowsStep, DeleteAccountStep, DeleteFailsStep
<1>3. ASSUME NEW d \in Did, SignUp(d)
      PROVE  IInv'
  BY <1>3, SignUpStep
<1> QED
  BY <1>1, <1>2, <1>3 DEF Next

\* Whatever uploads, removals, failures and sign-ups of any number of accounts
\* do in between, the blob store keeps the invariant.
THEOREM Invariance == Spec => []IInv
BY InitInv, NextInv, PTL DEF Spec

\* The variables of the blob store keep their types.
THEOREM TypeCorrect == Spec => []TypeOK
<1>1. IInv => TypeOK
  BY DEF IInv
<1> QED
  BY <1>1, Invariance, PTL

\* A row has its file and a file its row, except while an upload or a removal
\* is between the two and where one of them met another or broke off
\* (blob.go:56, blob.go:153).
THEOREM StoreAgrees == Spec => []FilesAndRows
<1>1. IInv => FilesAndRows
  BY DEF IInv
<1> QED
  BY <1>1, Invariance, PTL

\* What an upload answered can be opened until the removal of its account
\* begins (blob.go:62).
THEOREM AnsweredIsKept == Spec => []UploadKept
<1>1. IInv => UploadKept
  BY DEF IInv
<1> QED
  BY <1>1, Invariance, PTL

-----------------------------------------------------------------------------
(***************************************************************************)
(* The lists.  What a page and its cursor say about the rows, for lists    *)
(* that go up and lists that go down.                                      *)
(***************************************************************************)
\* The places of the rows of S before row k: their number is what LIMIT counts.
Ahead(kind, S, k) == {j \in S : Before(kind, j, k)}

\* Rows are in one order.
LEMMA Order ==
  ASSUME NEW kind
  PROVE  /\ \A j \in Int : ~Before(kind, j, j)
         /\ \A j, k \in Int : j = k \/ Before(kind, j, k) \/ Before(kind, k, j)
         /\ \A i, j, k \in Int : Before(kind, i, j) /\ Before(kind, j, k) => Before(kind, i, k)
BY DEF Before

\* Every set of numbers that is not empty has a least one.
LEMMA Smallest ==
  ASSUME NEW T \in SUBSET Nat, T # {}
  PROVE  \E n \in T : \A m \in T : n <= m
<1> DEFINE R == OpToRel(<, Nat)
<1>1. IsWellFoundedOn(R, Nat)
  BY NatLessThanWellFounded
<1>2. \A x, y \in Nat : y < x => <<y, x>> \in R
  BY DEF OpToRel
<1> HIDE DEF R
<1>3. PICK n \in T : \A y \in T : ~ (<<y, n>> \in R)
  <2>1. T \subseteq Nat
    OBVIOUS
  <2> QED
    BY <2>1, <1>1, WFMin, Zenon
<1>4. \A m \in T : n <= m
  <2> TAKE m \in T
  <2>1. m \in Nat /\ n \in Nat
    OBVIOUS
  <2>2. ~(m < n)
    BY <1>2, <1>3, <2>1
  <2> QED
    BY <2>1, <2>2
<1> QED
  BY <1>4

\* Rows that are not none have a lowest and a highest key.
LEMMA Lowest ==
  ASSUME NEW S \in SUBSET Key, S # {}
  PROVE  \E k \in S : \A j \in S : k <= j
BY ListingAssumption, Smallest DEF Key

LEMMA Highest ==
  ASSUME NEW S \in SUBSET Key, S # {}
  PROVE  \E k \in S : \A j \in S : j <= k
<1> DEFINE T == {MaxKey - k : k \in S}
<1>1. T \in SUBSET Nat /\ T # {}
  <2>1. \A k \in S : k \in 1..MaxKey
    BY DEF Key
  <2>2. \A k \in S : MaxKey - k \in Nat
    BY <2>1, ListingAssumption
  <2> QED
    BY <2>2
<1>2. PICK d \in T : \A e \in T : d <= e
  <2> HIDE DEF T
  <2> QED
    BY <1>1, Smallest
<1>3. PICK k \in S : d = MaxKey - k
  BY <1>2
<1>4. ASSUME NEW j \in S PROVE j <= k
  <2>1. MaxKey - j \in T
    OBVIOUS
  <2>2. MaxKey - k <= MaxKey - j
    BY <1>2, <1>3, <2>1
  <2> QED
    BY <2>2, ListingAssumption DEF Key
<1> QED
  BY <1>4

\* Rows that are not none have a first and a last one, and LastOf is the last.
LEMMA FirstAndLast ==
  ASSUME NEW kind, NEW S \in SUBSET Key, S # {}
  PROVE  /\ \E k \in S : \A j \in S : j = k \/ Before(kind, k, j)
         /\ LastOf(kind, S) \in S
         /\ \A j \in S : j = LastOf(kind, S) \/ Before(kind, j, LastOf(kind, S))
<1>1. S \subseteq Int
  BY ListingAssumption DEF Key
<1>2. PICK lo \in S : \A j \in S : lo <= j
  BY Lowest
<1>3. PICK hi \in S : \A j \in S : j <= hi
  BY Highest
<1>4. \E k \in S : \A j \in S : j = k \/ Before(kind, k, j)
  BY <1>1, <1>2, <1>3 DEF Before
<1>5. \E k \in S : \A j \in S : j = k \/ Before(kind, j, k)
  BY <1>1, <1>2, <1>3 DEF Before
<1> QED
  BY <1>4, <1>5 DEF LastOf

\* A row has fewer rows before it than any row after it.
LEMMA Counting ==
  ASSUME NEW kind, NEW S \in SUBSET Key, NEW k \in S
  PROVE  /\ IsFiniteSet(Ahead(kind, S, k))
         /\ Cardinality(Ahead(kind, S, k)) \in Nat
         /\ \A j \in S : Before(kind, j, k) =>
              Cardinality(Ahead(kind, S, j)) < Cardinality(Ahead(kind, S, k))
<1>1. IsFiniteSet(Key)
  BY ListingAssumption, FS_Interval DEF Key
<1>2. S \subseteq Int
  BY ListingAssumption DEF Key
<1>3. \A i \in S : Ahead(kind, S, i) \in SUBSET Key
  BY DEF Ahead
<1>4. \A i \in S : IsFiniteSet(Ahead(kind, S, i))
  BY <1>1, <1>3, FS_Subset
<1>5. \A i \in S : Cardinality(Ahead(kind, S, i)) \in Nat
  BY <1>4, FS_CardinalityType
<1>6. ASSUME NEW j \in S, Before(kind, j, k)
      PROVE  Cardinality(Ahead(kind, S, j)) < Cardinality(Ahead(kind, S, k))
  <2>1. Ahead(kind, S, j) \in SUBSET Ahead(kind, S, k)
    BY <1>2, <1>6, Order DEF Ahead
  <2>2. j \in Ahead(kind, S, k) /\ j \notin Ahead(kind, S, j)
    BY <1>2, <1>6, Order DEF Ahead
  <2>3. /\ Cardinality(Ahead(kind, S, j)) <= Cardinality(Ahead(kind, S, k))
        /\ Cardinality(Ahead(kind, S, k)) # Cardinality(Ahead(kind, S, j))
    BY <2>1, <2>2, <1>4, FS_Subset
  <2> QED
    BY <2>3, <1>5
<1> QED
  BY <1>4, <1>5, <1>6

\* The row after all those before it has one more before it.
LEMMA OneMore ==
  ASSUME NEW kind, NEW S \in SUBSET Key, NEW m \in S, Ahead(kind, S, m) # {}
  PROVE  LET j == LastOf(kind, Ahead(kind, S, m))
         IN /\ j \in Ahead(kind, S, m)
            /\ Cardinality(Ahead(kind, S, m)) = Cardinality(Ahead(kind, S, j)) + 1
<1> DEFINE A == Ahead(kind, S, m)
           j == LastOf(kind, A)
<1>1. A \in SUBSET Key /\ A # {}
  BY DEF Ahead
<1> S \subseteq Int
  BY ListingAssumption DEF Key
<1>2. j \in A /\ \A i \in A : i = j \/ Before(kind, i, j)
  <2> HIDE DEF A
  <2> QED
    BY <1>1, FirstAndLast
<1>3. j \in S /\ Before(kind, j, m)
  BY <1>2 DEF Ahead
<1>4. A = Ahead(kind, S, j) \cup {j}
  <2> HIDE DEF j
  <2>1. A \subseteq Ahead(kind, S, j) \cup {j}
    BY <1>2 DEF Ahead
  <2>2. ASSUME NEW i \in Ahead(kind, S, j) PROVE i \in A
    <3>1. i \in S /\ Before(kind, i, j)
      BY DEF Ahead
    <3>2. Before(kind, i, m)
      BY <3>1, <1>1, <1>3, Order
    <3> QED
      BY <3>1, <3>2 DEF Ahead
  <2> QED
    BY <2>1, <2>2, <1>2
<1>5. j \notin Ahead(kind, S, j)
  BY <1>1, <1>3, Order DEF Ahead
<1>6. IsFiniteSet(Ahead(kind, S, j))
  BY <1>3, Counting
<1>7. Cardinality(Ahead(kind, S, j) \cup {j}) = Cardinality(Ahead(kind, S, j)) + 1
  <2> HIDE DEF j
  <2> QED
    BY <1>5, <1>6, FS_AddElement
<1> QED
  BY <1>2, <1>4, <1>7

-----------------------------------------------------------------------------
(***************************************************************************)
(* One query.  There is more exactly if a row beyond the page is left, and *)
(* either way of choosing the next cursor passes over no row but itself.   *)
(***************************************************************************)
LEMMA PageFacts ==
  ASSUME NEW kind, NEW c \in Cursor, NEW n \in Nat \ {0}, listed \subseteq Key
  PROVE  LET B == Beyond(kind, listed, c) IN
         /\ B \in SUBSET Key
         /\ Page(kind, c, n) \subseteq Selected(kind, c, n)
         /\ Selected(kind, c, n) \subseteq B
         /\ \A k \in Selected(kind, c, n), j \in B : Before(kind, j, k) => j \in Page(kind, c, n)
         /\ \A k \in Page(kind, c, n), j \in B : Before(kind, j, k) => j \in Page(kind, c, n)
         /\ More(kind, c, n) <=> Selected(kind, c, n) # Page(kind, c, n)
         /\ B # Page(kind, c, n) => More(kind, c, n)
         /\ B # {} => Page(kind, c, n) # {}
<1> DEFINE B == Beyond(kind, listed, c)
           P == Page(kind, c, n)
           S == Selected(kind, c, n)
<1>1. B \in SUBSET Key
  BY DEF Beyond
<1>2. /\ P = {k \in B : Cardinality(Ahead(kind, B, k)) < n}
      /\ S = {k \in B : Cardinality(Ahead(kind, B, k)) < n + 1}
  BY DEF Page, Selected, Front, Ahead
<1>3. More(kind, c, n) <=> S # P
  BY DEF More, Page
<1> HIDE DEF B, P, S
<1>4. \A k \in B : Cardinality(Ahead(kind, B, k)) \in Nat
  BY <1>1, Counting
<1>5. \A j, k \in B : Before(kind, j, k) =>
        Cardinality(Ahead(kind, B, j)) < Cardinality(Ahead(kind, B, k))
  BY <1>1, Counting
<1>6. P \subseteq S /\ S \subseteq B
  BY <1>2, <1>4
<1>7. ASSUME NEW k \in S, NEW j \in B, Before(kind, j, k) PROVE j \in P
  BY <1>2, <1>4, <1>5, <1>7
<1>8. ASSUME B # P PROVE S # P
  <2>1. B \ P \in SUBSET Key /\ B \ P # {}
    BY <1>1, <1>6, <1>8
  <2>2. PICK m \in B \ P : \A j \in B \ P : j = m \/ Before(kind, m, j)
    BY <2>1, FirstAndLast
  <2>3. Cardinality(Ahead(kind, B, m)) >= n
    BY <1>2, <1>4, <2>2
  <2>4. Ahead(kind, B, m) # {}
    BY <2>3, FS_EmptySet
  <2> DEFINE j == LastOf(kind, Ahead(kind, B, m))
  <2>5. /\ j \in Ahead(kind, B, m)
        /\ Cardinality(Ahead(kind, B, m)) = Cardinality(Ahead(kind, B, j)) + 1
    BY <2>4, <1>1, OneMore
  <2> HIDE DEF j
  <2>6. j \in B /\ Before(kind, j, m)
    BY <2>5 DEF Ahead
  <2>7. j \in P
    <3>1. B \subseteq Int
      BY <1>1, ListingAssumption DEF Key
    <3> QED
      BY <2>2, <2>6, <3>1, Order
  <2>8. Cardinality(Ahead(kind, B, m)) < n + 1
    BY <1>2, <1>4, <2>5, <2>7
  <2> QED
    BY <2>2, <2>8, <1>2
<1>9. ASSUME B # {} PROVE P # {}
  <2>1. PICK m \in B : \A j \in B : j = m \/ Before(kind, m, j)
    BY <1>1, <1>9, FirstAndLast
  <2>2. B \subseteq Int
    BY <1>1, ListingAssumption DEF Key
  <2>3. Ahead(kind, B, m) = {}
    BY <2>1, <2>2, Order DEF Ahead
  <2>4. Cardinality(Ahead(kind, B, m)) = 0
    BY <2>3, FS_EmptySet
  <2> QED
    BY <2>1, <2>4, <1>2
<1> QED
  BY <1>1, <1>3, <1>6, <1>7, <1>8, <1>9 DEF B, P, S

\* The cursor d leads on from c: it is a row beyond c that the page does not
\* reach past, and every row beyond c is on the page, is d, or is beyond d.
LeadsOn(kind, c, n, d) ==
  /\ d \in Key
  /\ Before(kind, c, d)
  /\ \A k \in Page(kind, c, n) : ~Before(kind, d, k)
  /\ \A k \in Beyond(kind, listed, c) : k \in Page(kind, c, n) \/ k = d \/ Before(kind, d, k)

LEMMA PageCursor ==
  ASSUME NEW kind, NEW c \in Cursor, NEW n \in Nat \ {0}, listed \subseteq Key,
         More(kind, c, n)
  PROVE  /\ LeadsOn(kind, c, n, NextByPage(kind, c, n))
         /\ NextByPage(kind, c, n) \in Page(kind, c, n)
<1> DEFINE B == Beyond(kind, listed, c)
           P == Page(kind, c, n)
           d == LastOf(kind, P)
<1>1. /\ B \in SUBSET Key /\ P \subseteq B /\ B \subseteq Int
      /\ \A k \in P, j \in B : Before(kind, j, k) => j \in P
      /\ P # {}
  <2>1. Key \subseteq Int
    BY ListingAssumption DEF Key
  <2>2. /\ B \in SUBSET Key
        /\ P \subseteq Selected(kind, c, n) /\ Selected(kind, c, n) \subseteq B
        /\ \A k \in P, j \in B : Before(kind, j, k) => j \in P
        /\ Selected(kind, c, n) # P
        /\ B # {} => P # {}
    BY PageFacts
  <2> HIDE DEF B, P
  <2> QED
    BY <2>1, <2>2
<1>2. d \in P /\ \A j \in P : j = d \/ Before(kind, j, d)
  <2> HIDE DEF P
  <2> QED
    BY <1>1, FirstAndLast
<1>3. Before(kind, c, d) /\ d \in Key
  BY <1>1, <1>2 DEF Beyond
<1> HIDE DEF d, P, B
<1>4. \A k \in P : ~Before(kind, d, k)
  BY <1>1, <1>2, Order
<1>5. \A k \in B : k \in P \/ k = d \/ Before(kind, d, k)
  BY <1>1, <1>2, Order
<1> QED
  BY <1>2, <1>3, <1>4, <1>5 DEF LeadsOn, NextByPage, d, P, B

LEMMA SelectedCursor ==
  ASSUME NEW kind, NEW c \in Cursor, NEW n \in Nat \ {0}, listed \subseteq Key,
         More(kind, c, n)
  PROVE  /\ LeadsOn(kind, c, n, NextBySelected(kind, c, n))
         /\ NextBySelected(kind, c, n) \notin Page(kind, c, n)
<1> DEFINE B == Beyond(kind, listed, c)
           P == Page(kind, c, n)
           S == Selected(kind, c, n)
           d == LastOf(kind, S)
<1>1. /\ B \in SUBSET Key /\ P \subseteq S /\ S \subseteq B /\ B \subseteq Int
      /\ \A k \in S, j \in B : Before(kind, j, k) => j \in P
      /\ \A k \in P, j \in B : Before(kind, j, k) => j \in P
      /\ S # P
  BY PageFacts, ListingAssumption DEF Key
<1>2. d \in S /\ \A j \in S : j = d \/ Before(kind, j, d)
  <2>1. S \in SUBSET Key /\ S # {}
    BY <1>1
  <2> HIDE DEF S
  <2> QED
    BY <2>1, FirstAndLast
<1>3. Before(kind, c, d) /\ d \in Key
  <2>1. d \in B
    BY <1>1, <1>2
  <2> QED
    BY <2>1, <1>1 DEF Beyond
<1> HIDE DEF d, P, S, B
<1>4. d \notin P
  <2> SUFFICES ASSUME d \in P PROVE FALSE
    OBVIOUS
  <2>1. PICK e \in S : e \notin P
    BY <1>1
  <2>2. Before(kind, e, d)
    BY <1>2, <2>1
  <2> QED
    BY <1>1, <2>1, <2>2
<1>5. \A k \in P : ~Before(kind, d, k)
  BY <1>1, <1>2, <1>4
<1>6. \A k \in B : k \in P \/ k = d \/ Before(kind, d, k)
  BY <1>1, <1>2, Order
<1> QED
  BY <1>3, <1>4, <1>5, <1>6 DEF LeadsOn, NextBySelected, d, P, S, B

-----------------------------------------------------------------------------
(***************************************************************************)
(* Page by page.  A reader has all rows up to its cursor that were there   *)
(* the whole time, as rows or as cursors, and none beyond it.              *)
(***************************************************************************)
Asked ==
  \A r \in Reader : /\ reader[r].at = "idle" => reader[r] = NotReading
                    /\ reader[r].at # "idle" => /\ reader[r].kind \in Kind
                                                /\ reader[r].limit \in Limit

StillThere == \A r \in Reader : reader[r].whole \subseteq listed

\* Nothing that was there all the time is passed over.
NonePassed ==
  \A r \in Reader : reader[r].at = "reading" =>
    \A k \in reader[r].whole :
      k \in reader[r].got \cup reader[r].handed \/ Before(reader[r].kind, reader[r].cursor, k)

\* Nothing beyond the cursor has been delivered yet.
NotAhead ==
  \A r \in Reader : reader[r].at = "reading" =>
    \A k \in reader[r].got \cup reader[r].handed : ~Before(reader[r].kind, reader[r].cursor, k)

LInv == ListTypeOK /\ Asked /\ StillThere /\ NonePassed /\ NotAhead /\ PagesComplete

\* What a reader may be.
OneReader == [kind : Kind \cup {"none"}, at : {"idle", "reading", "done"}, limit : Nat,
         cursor : Cursor, got : SUBSET Key, whole : SUBSET Key, handed : SUBSET Key,
         again : BOOLEAN]

LEMMA EachReader == ListTypeOK <=> listed \subseteq Key /\ reader \in [Reader -> OneReader]
BY DEF ListTypeOK, OneReader

LEMMA ListInitInv == ListInit => LInv
<1> SUFFICES ASSUME ListInit PROVE LInv
  OBVIOUS
<1>1. /\ NotReading.kind = "none" /\ NotReading.at = "idle" /\ NotReading.handed = {}
      /\ NotReading.got = {} /\ NotReading.again = FALSE /\ NotReading.whole = {}
  BY DEF NotReading
<1>2. NotReading \in OneReader
  BY ListingAssumption DEF NotReading, OneReader, Cursor
<1>3. \A r \in Reader : reader[r] = NotReading
  BY DEF ListInit
<1>4. ListTypeOK
  BY <1>2, EachReader DEF ListInit
<1>5. Asked /\ StillThere
  BY <1>1, <1>3 DEF Asked, StillThere
<1>6. NonePassed /\ NotAhead /\ PagesComplete
  BY <1>1, <1>3 DEF NonePassed, NotAhead, PagesComplete
<1> QED
  BY <1>4, <1>5, <1>6 DEF LInv

\* A new reader: the rows it may expect are those beyond its cursor.
LEMMA BeginReadingStep ==
  ASSUME LInv, NEW r \in Reader, NEW kind \in Kind, NEW n \in Limit, NEW c \in Cursor,
         BeginReading(r, kind, n, c)
  PROVE  LInv'
<1> DEFINE y == [NotReading EXCEPT !.kind = kind, !.at = "reading", !.limit = n, !.cursor = c,
                                   !.whole = Beyond(kind, listed, c)]
<1>1. /\ ListTypeOK /\ Asked /\ StillThere /\ NonePassed /\ NotAhead /\ PagesComplete
      /\ listed' = listed
      /\ reader' = [reader EXCEPT ![r] = y]
  BY DEF LInv, BeginReading
<1>2. /\ y.kind = kind /\ y.at = "reading" /\ y.limit = n /\ y.cursor = c /\ y.got = {}
      /\ y.whole = Beyond(kind, listed, c) /\ y.handed = {} /\ y.again = FALSE
  BY DEF NotReading
<1> /\ Beyond(kind, listed, c) \subseteq listed
    /\ \A k \in Beyond(kind, listed, c) : Before(kind, c, k)
  BY DEF Beyond
<1>3. y \in OneReader
  <2>1. NotReading \in OneReader
    BY ListingAssumption DEF NotReading, OneReader, Cursor
  <2>2. /\ kind \in Kind \cup {"none"} /\ "reading" \in {"idle", "reading", "done"} /\ n \in Nat
        /\ Beyond(kind, listed, c) \in SUBSET Key
    BY <1>1, ListingAssumption DEF Beyond, ListTypeOK
  <2> QED
    BY <2>1, <2>2 DEF OneReader
<1> HIDE DEF y
<1>4. reader'[r] = y /\ \A q \in Reader \ {r} : reader'[q] = reader[q]
  BY <1>1 DEF ListTypeOK
<1>5. ListTypeOK'
  <2>1. reader' \in [Reader -> OneReader] /\ listed' \subseteq Key
    BY <1>1, <1>3, EachReader
  <2>2. OneReader' = OneReader /\ Key' = Key
    BY DEF OneReader, Key, Kind, Cursor
  <2> QED
    BY <2>1 DEF ListTypeOK, OneReader
<1>6. Asked' /\ StillThere'
  BY <1>1, <1>2, <1>4 DEF Asked, StillThere
<1>7. NonePassed' /\ NotAhead'
  BY <1>1, <1>2, <1>4 DEF NonePassed, NotAhead
<1>8. PagesComplete'
  BY <1>1, <1>2, <1>4 DEF PagesComplete
<1> QED
  BY <1>5, <1>6, <1>7, <1>8 DEF LInv

\* The next page, with any cursor that leads on: given out of the page by the
\* lists that take its last row, and beside the page by those that take the
\* row after it.
LEMMA TurnStep ==
  ASSUME LInv, NEW r \in Reader, NEW kind \in Kind, NEW d,
         reader[r].kind = kind, reader[r].at = "reading", UNCHANGED listed,
         More(kind, reader[r].cursor, reader[r].limit) =>
           /\ LeadsOn(kind, reader[r].cursor, reader[r].limit, d)
           /\ d \in Page(kind, reader[r].cursor, reader[r].limit)
                <=> kind \notin {"listBlobs", "adminBlobs"},
         LET x == reader[r]
             page == Page(kind, x.cursor, x.limit)
             there == [x EXCEPT !.got = @ \cup page, !.again = @ \/ page \cap x.got # {}]
         IN reader' = [reader EXCEPT ![r] =
              IF More(kind, x.cursor, x.limit)
              THEN [there EXCEPT !.cursor = d, !.handed = @ \cup {d}]
              ELSE [there EXCEPT !.at = "done"]]
  PROVE  LInv'
<1> DEFINE x == reader[r]
           page == Page(kind, x.cursor, x.limit)
           more == More(kind, x.cursor, x.limit)
           there == [x EXCEPT !.got = @ \cup page, !.again = @ \/ page \cap x.got # {}]
           y == IF more THEN [there EXCEPT !.cursor = d, !.handed = @ \cup {d}]
                ELSE [there EXCEPT !.at = "done"]
<1>1. /\ ListTypeOK /\ Asked /\ StillThere /\ NonePassed /\ NotAhead /\ PagesComplete
  BY DEF LInv
<1>2. /\ reader' = [reader EXCEPT ![r] = y]
      /\ listed' = listed
  OBVIOUS
<1>3. /\ x \in [kind : Kind \cup {"none"}, at : {"idle", "reading", "done"}, limit : Nat,
                cursor : Cursor, got : SUBSET Key, whole : SUBSET Key, handed : SUBSET Key,
                again : BOOLEAN]
      /\ x.kind = kind /\ x.at = "reading" /\ x.limit \in Limit /\ x.again = FALSE
      /\ listed \subseteq Key
  BY <1>1 DEF ListTypeOK, Asked, PagesComplete
<1>4. /\ page \subseteq Beyond(kind, listed, x.cursor)
      /\ Beyond(kind, listed, x.cursor) \subseteq Key
      /\ ~more => page = Beyond(kind, listed, x.cursor)
  <2>1. x.limit \in Nat \ {0} /\ x.cursor \in Cursor
    BY <1>3, ListingAssumption
  <2> QED
    BY <1>3, <2>1, PageFacts
<1>5. /\ \A k \in x.whole : k \in x.got \cup x.handed \/ k \in Beyond(kind, listed, x.cursor)
      /\ \A k \in x.got \cup x.handed : k \notin Beyond(kind, listed, x.cursor)
  BY <1>1, <1>3 DEF StillThere, NonePassed, NotAhead, Beyond
<1>6. more => /\ d \in Key /\ d \in Cursor
              /\ \A k \in page : ~Before(kind, d, k)
              /\ \A k \in Beyond(kind, listed, x.cursor) :
                   k \in page \/ k = d \/ Before(kind, d, k)
              /\ d \in page <=> kind \notin {"listBlobs", "adminBlobs"}
              /\ Before(kind, x.cursor, d)
  BY ListingAssumption DEF LeadsOn, Key, Cursor
<1>7. \A k \in x.got \cup x.handed : more => k # d /\ ~Before(kind, d, k)
  <2> SUFFICES ASSUME NEW k \in x.got \cup x.handed, more
               PROVE  k # d /\ ~Before(kind, d, k)
    OBVIOUS
  <2>1. ~Before(kind, x.cursor, k) /\ Before(kind, x.cursor, d)
    BY <1>1, <1>3, <1>6 DEF NotAhead
  <2>2. k \in Int /\ x.cursor \in Int /\ d \in Int
    BY <1>3, <1>6, ListingAssumption DEF Key, Cursor
  <2> HIDE DEF x, more
  <2> QED
    BY <2>1, <2>2, Order
<1>8. /\ y.kind = kind /\ y.limit = x.limit /\ y.whole = x.whole
      /\ y.got = x.got \cup page /\ y.again = FALSE
      /\ y.at = (IF more THEN "reading" ELSE "done")
      /\ y.cursor = (IF more THEN d ELSE x.cursor)
      /\ y.handed = (IF more THEN x.handed \cup {d} ELSE x.handed)
      /\ more => y.at = "reading" /\ y.cursor = d /\ y.handed = x.handed \cup {d}
      /\ ~more => y.at = "done" /\ y.cursor = x.cursor /\ y.handed = x.handed
  <2>1. page \cap x.got = {}
    BY <1>4, <1>5
  <2> HIDE DEF page, more
  <2> QED
    BY <1>3, <2>1
<1>9. y \in [kind : Kind \cup {"none"}, at : {"idle", "reading", "done"}, limit : Nat,
             cursor : Cursor, got : SUBSET Key, whole : SUBSET Key, handed : SUBSET Key,
             again : BOOLEAN]
  <2> page \subseteq Key
    BY <1>4
  <2> HIDE DEF page, more
  <2> QED
    BY <1>3, <1>6
<1>10. reader'[r] = y /\ \A q \in Reader \ {r} : reader'[q] = reader[q]
  <2> HIDE DEF y
  <2> QED
    BY <1>1, <1>2 DEF ListTypeOK
<1> HIDE DEF y, page, more, x
<1>11. ListTypeOK'
  <2>1. reader \in [Reader -> OneReader] /\ y \in OneReader
    BY <1>1, <1>9, EachReader DEF OneReader
  <2>2. reader' \in [Reader -> OneReader] /\ listed' \subseteq Key
    BY <1>2, <1>3, <2>1
  <2>3. OneReader' = OneReader /\ Key' = Key
    BY DEF OneReader, Key, Kind, Cursor
  <2> QED
    BY <2>2 DEF ListTypeOK, OneReader
<1>12. Asked' /\ StillThere'
  <2>1. x.whole \subseteq listed
    BY <1>1 DEF StillThere, x
  <2>2. y.at # "idle" /\ y.kind \in Kind /\ y.limit \in Limit /\ y.whole \subseteq listed
    BY <1>3, <1>8, <2>1
  <2>3. Asked'
    BY <1>1, <1>10, <2>2 DEF Asked
  <2>4. StillThere'
    BY <1>1, <1>2, <1>10, <2>2 DEF StillThere
  <2> QED
    BY <2>3, <2>4
<1>13. NonePassed'
  <2>1. y.at = "reading" => \A k \in y.whole : k \in y.got \cup y.handed \/ Before(kind, y.cursor, k)
    <3> SUFFICES ASSUME more, NEW k \in x.whole
                 PROVE  k \in y.got \cup y.handed \/ Before(kind, d, k)
      BY <1>8
    <3>1. k \in x.got \cup x.handed \/ k \in page \/ k = d \/ Before(kind, d, k)
      BY <1>5, <1>6
    <3> QED
      BY <1>8, <3>1
  <2>2. y.kind = kind
    BY <1>8
  <2> QED
    BY <1>1, <1>10, <2>1, <2>2 DEF NonePassed
<1>14. NotAhead'
  <2>1. y.at = "reading" => \A k \in y.got \cup y.handed : ~Before(kind, y.cursor, k)
    <3>1. more => ~Before(kind, d, d)
      BY <1>6, Order, ListingAssumption DEF Key
    <3> QED
      BY <1>6, <1>7, <1>8, <3>1
  <2> QED
    BY <1>1, <1>8, <1>10, <2>1 DEF NotAhead
<1>15. PagesComplete'
  <2>1. y.at = "done" => y.whole \subseteq y.got \cup y.handed
    BY <1>4, <1>5, <1>8
  <2>2. kind \notin {"listBlobs", "adminBlobs"} => y.handed \subseteq y.got
    <3>1. kind \notin {"listBlobs", "adminBlobs"} => x.handed \subseteq x.got
      BY <1>1, <1>3 DEF PagesComplete, x
    <3> QED
      BY <1>6, <1>8, <3>1
  <2>3. kind \in {"listBlobs", "adminBlobs"} => y.handed \cap y.got = {}
    <3>1. kind \in {"listBlobs", "adminBlobs"} => x.handed \cap x.got = {}
      BY <1>1, <1>3 DEF PagesComplete, x
    <3>2. x.handed \cap page = {}
      BY <1>4, <1>5
    <3> QED
      BY <1>6, <1>7, <1>8, <3>1, <3>2
  <2>4. /\ y.at = "done" => y.whole \subseteq y.got \cup y.handed
        /\ ~y.again
        /\ y.kind \notin {"listBlobs", "adminBlobs"} => y.handed \subseteq y.got
        /\ y.kind \in {"listBlobs", "adminBlobs"} => y.handed \cap y.got = {}
    BY <1>8, <2>1, <2>2, <2>3
  <2> HIDE DEF y
  <2> QED
    BY <1>1, <1>10, <2>4 DEF PagesComplete
<1> QED
  BY <1>11, <1>12, <1>13, <1>14, <1>15 DEF LInv

\* The lists that take the last row of the page.
LEMMA TurnByPage ==
  ASSUME LInv, NEW r \in Reader, NEW kind \in Kind \ {"listBlobs", "adminBlobs"},
         Turn(r, kind, NextByPage)
  PROVE  LInv'
<1> DEFINE c == reader[r].cursor
           n == reader[r].limit
<1>1. c \in Cursor /\ n \in Nat \ {0} /\ listed \subseteq Key
  BY ListingAssumption DEF LInv, ListTypeOK, Asked, Turn
<1>2. More(kind, c, n) => /\ LeadsOn(kind, c, n, NextByPage(kind, c, n))
                          /\ NextByPage(kind, c, n) \in Page(kind, c, n)
  <2> HIDE DEF c, n
  <2> QED
    BY <1>1, PageCursor
<1> QED
  BY <1>2, TurnStep DEF Turn

\* The lists that take the row after it.
LEMMA TurnBySelected ==
  ASSUME LInv, NEW r \in Reader, NEW kind \in {"listBlobs", "adminBlobs"},
         Turn(r, kind, NextBySelected)
  PROVE  LInv'
<1> DEFINE c == reader[r].cursor
           n == reader[r].limit
<1>1. c \in Cursor /\ n \in Nat \ {0} /\ listed \subseteq Key
  BY ListingAssumption DEF LInv, ListTypeOK, Asked, Turn
<1>2. More(kind, c, n) => /\ LeadsOn(kind, c, n, NextBySelected(kind, c, n))
                          /\ NextBySelected(kind, c, n) \notin Page(kind, c, n)
  <2> HIDE DEF c, n
  <2> QED
    BY <1>1, SelectedCursor
<1>3. kind \in Kind
  BY DEF Kind
<1> QED
  BY <1>2, <1>3, TurnStep DEF Turn

\* A row that comes is expected by nobody who is already reading.
LEMMA InsertRowStep ==
  ASSUME LInv, NEW k \in Key, InsertRow(k)
  PROVE  LInv'
BY DEF LInv, InsertRow, ListTypeOK, Asked, StillThere, NonePassed, NotAhead, PagesComplete

\* A row that goes is no longer expected.
LEMMA DeleteRowStep ==
  ASSUME LInv, NEW k \in Key, DeleteRow(k)
  PROVE  LInv'
<1>1. /\ ListTypeOK /\ Asked /\ StillThere /\ NonePassed /\ NotAhead /\ PagesComplete
      /\ listed' = listed \ {k}
      /\ reader' = [r \in Reader |-> [reader[r] EXCEPT !.whole = @ \ {k}]]
  BY DEF LInv, DeleteRow
<1>2. \A r \in Reader : /\ reader'[r] = [reader[r] EXCEPT !.whole = @ \ {k}]
                        /\ reader'[r].kind = reader[r].kind /\ reader'[r].at = reader[r].at
                        /\ reader'[r].limit = reader[r].limit
                        /\ reader'[r].cursor = reader[r].cursor
                        /\ reader'[r].got = reader[r].got
                        /\ reader'[r].handed = reader[r].handed
                        /\ reader'[r].again = reader[r].again
                        /\ reader'[r].whole = reader[r].whole \ {k}
  BY <1>1 DEF ListTypeOK
<1>3. ListTypeOK'
  BY <1>1 DEF ListTypeOK
<1>4. Asked'
  <2>1. [NotReading EXCEPT !.whole = @ \ {k}] = NotReading
    BY DEF NotReading
  <2> QED
    BY <1>1, <1>2, <2>1 DEF Asked
<1>5. StillThere'
  BY <1>1, <1>2 DEF StillThere
<1>6. NonePassed'
  BY <1>1, <1>2 DEF NonePassed
<1>7. NotAhead'
  BY <1>1, <1>2 DEF NotAhead
<1>8. PagesComplete'
  BY <1>1, <1>2 DEF PagesComplete
<1> QED
  BY <1>3, <1>4, <1>5, <1>6, <1>7, <1>8 DEF LInv

LEMMA ListNextInv == LInv /\ [ListNext]_listVars => LInv'
<1> SUFFICES ASSUME LInv, [ListNext]_listVars PROVE LInv'
  OBVIOUS
<1>1. CASE UNCHANGED listVars
  BY <1>1 DEF listVars, LInv, ListTypeOK, Asked, StillThere, NonePassed, NotAhead, PagesComplete
<1>2. ASSUME NEW r \in Reader, NEW kind \in Kind, NEW n \in Limit, NEW c \in Cursor,
             BeginReading(r, kind, n, c)
      PROVE  LInv'
  BY <1>2, BeginReadingStep
<1>3. ASSUME NEW r \in Reader,
             ListRecords(r) \/ ListRecordsDesc(r) \/ ListRepos(r) \/ ListReposByCollection(r)
      PROVE  LInv'
  BY <1>3, TurnByPage
     DEF ListRecords, ListRecordsDesc, ListRepos, ListReposByCollection, Kind
<1>4. ASSUME NEW r \in Reader, ListBlobs(r) \/ AdminBlobs(r)
      PROVE  LInv'
  BY <1>4, TurnBySelected DEF ListBlobs, AdminBlobs
<1>5. ASSUME NEW k \in Key, InsertRow(k) \/ DeleteRow(k)
      PROVE  LInv'
  BY <1>5, InsertRowStep, DeleteRowStep
<1> QED
  BY <1>1, <1>2, <1>3, <1>4, <1>5 DEF ListNext

\* Who pages through a list to its end has got every row that was there all
\* the time, no page repeats a row, and the lists of blobs lack exactly the
\* rows they handed out as cursors: for any number of rows, page sizes and
\* readers, with rows that come and go in between (manager.go ListRecords,
\* blob.go ListBlobs).
THEOREM ListsComplete == ListSpec => []PagesComplete
<1>1. LInv => PagesComplete
  BY DEF LInv
<1> QED
  BY <1>1, ListInitInv, ListNextInv, PTL DEF ListSpec
=============================================================================
