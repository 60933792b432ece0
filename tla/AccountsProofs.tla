--------------------------- MODULE AccountsProofs ----------------------------
(***************************************************************************)
(* Theorems about module Accounts.  The inductive invariant IInv is kept   *)
(* by every action; HandlePublished is one of its parts, and RepoIsOwn,    *)
(* RepoFollowsAccount and InviteOnce follow from it.  Announced adds what  *)
(* the directory and the events say while a request is under way;          *)
(* HandleAgrees and StatusTold follow from that.                           *)
(***************************************************************************)
EXTENDS Accounts, TLAPS

\* A request that moves stays a request.
LEMMA RequestAt ==
  ASSUME NEW q \in Request, NEW a \in Places
  PROVE  [q EXCEPT !.at = a] \in Request
BY DEF Request

\* The requests other than r stay.
Others(r) == \A q \in Req \ {r} : req'[q] = req[q]

\* What request r is for stays.
Kept(r) ==
  /\ req'[r].kind = req[r].kind
  /\ req'[r].handle = req[r].handle
  /\ req'[r].code = req[r].code

\* What moving a request on changes.
LEMMA GoFacts ==
  ASSUME TypeOK, NEW r \in Req, NEW a, Go(r, a)
  PROVE  Others(r) /\ Kept(r) /\ req'[r].did = req[r].did /\ req'[r].at = a
<1>1. req[r] \in Request /\ req \in [Req -> Request]
  BY DEF TypeOK
<1>2. req'[r] = [req[r] EXCEPT !.at = a] /\ Others(r)
  BY <1>1 DEF Go, Others
<1> QED
  BY <1>1, <1>2 DEF Request, Kept

\* What giving a sign-up its DID changes.
LEMMA InsertFacts ==
  ASSUME TypeOK, NEW r \in Req, NEW d, Insert(r, d)
  PROVE  Others(r) /\ Kept(r) /\ req'[r].did = d /\ req'[r].at = "insert"
<1> DEFINE q == [req[r] EXCEPT !.at = "insert"]
<1>1. req[r] \in Request /\ req \in [Req -> Request]
  BY DEF TypeOK
<1>2. q \in Request
  BY <1>1, RequestAt DEF Places
<1>3. q.at = "insert" /\ q.kind = req[r].kind /\ q.handle = req[r].handle /\ q.code = req[r].code
  BY <1>1, <1>2 DEF Request
<1>4. req'[r] = [q EXCEPT !.did = d] /\ Others(r)
  BY <1>1 DEF Insert, Others
<1> HIDE DEF q
<1> QED
  BY <1>2, <1>3, <1>4 DEF Request, Kept

\* What ending a request changes.
LEMMA EndFacts ==
  ASSUME TypeOK, NEW r \in Req, End(r)
  PROVE  Others(r) /\ req'[r] = Idle
BY DEF TypeOK, End, Others

\* What starting a request changes.
LEMMA StartFacts ==
  ASSUME TypeOK, NEW r \in Req, NEW x, Start(r, x)
  PROVE  Others(r) /\ req[r] = Idle /\ req'[r] = x
BY DEF TypeOK, Start, Others

\* The idle request is about nothing.
LEMMA IdleFields ==
  /\ Idle.kind = "none" /\ Idle.at = "idle" /\ Idle.did = None /\ Idle.handle = None
  /\ Idle.code = None
BY DEF Idle

\* Moving a request on keeps the type of req.
LEMMA GoType ==
  ASSUME req \in [Req -> Request], NEW r \in Req, NEW a \in Places, Go(r, a)
  PROVE  req' \in [Req -> Request]
<1>1. [req[r] EXCEPT !.at = a] \in Request
  BY RequestAt
<1>2. req' = [req EXCEPT ![r] = [req[r] EXCEPT !.at = a]]
  BY DEF Go
<1> QED
  BY <1>1, <1>2

\* Giving a sign-up its DID keeps the type of req.
LEMMA InsertType ==
  ASSUME req \in [Req -> Request], NEW r \in Req, NEW d \in Did, Insert(r, d)
  PROVE  req' \in [Req -> Request]
<1>1. [req[r] EXCEPT !.at = "insert"] \in Request
  BY RequestAt DEF Places
<1>2. [[req[r] EXCEPT !.at = "insert"] EXCEPT !.did = d] \in Request
  BY <1>1 DEF Request
<1>3. req' = [req EXCEPT ![r] = [[req[r] EXCEPT !.at = "insert"] EXCEPT !.did = d]]
  BY DEF Insert
<1> QED
  BY <1>2, <1>3

\* Ending a request keeps the type of req.
LEMMA EndType ==
  ASSUME req \in [Req -> Request], NEW r \in Req, End(r)
  PROVE  req' \in [Req -> Request]
<1>1. Idle \in Request
  BY DEF Idle, Request, Kinds, Places
<1> QED
  BY <1>1 DEF End

\* Starting one keeps the type of req and the count of starts.
LEMMA StartType ==
  ASSUME TypeOK, NEW r \in Req, NEW x \in Request, Start(r, x)
  PROVE  req' \in [Req -> Request] /\ starts' \in 0..MaxStarts
BY AccountsAssumption DEF Start, TypeOK

\* New requests have their type.
LEMMA NewRequests ==
  ASSUME TypeOK
  PROVE  /\ \A h \in Handle, k \in Code \cup {None} : ToSignUp(h, k) \in Request
         /\ \A d \in PlcDid, h \in Handle : ToUpdateHandle(d, h) \in Request
         /\ \A d \in Did, on \in BOOLEAN : ToSetActive(d, on) \in Request
         /\ \A d \in Did : ToDelete(d) \in Request
<1>1. \A x \in PlcDid : Len(plc[x]) \in Nat
  BY DEF TypeOK
<1> QED
  BY <1>1 DEF ToSignUp, ToUpdateHandle, ToSetActive, ToDelete, Request, Kinds, Places, Did

\* Publishing a status or a handle keeps the type of told.
LEMMA ToldType ==
  ASSUME told \in [Did -> Told], NEW d \in Did
  PROVE  /\ \A s \in {"none", "active", "deactivated", "deleted"} :
              [told EXCEPT ![d].status = s] \in [Did -> Told]
         /\ \A h \in Handle : [told EXCEPT ![d].handle = h] \in [Did -> Told]
<1>1. ASSUME NEW s \in {"none", "active", "deactivated", "deleted"}
      PROVE  [told EXCEPT ![d].status = s] \in [Did -> Told]
  <2>1. [told[d] EXCEPT !.status = s] \in Told
    BY DEF Told
  <2>2. [told EXCEPT ![d].status = s] = [told EXCEPT ![d] = [told[d] EXCEPT !.status = s]]
    OBVIOUS
  <2> QED
    BY <2>1, <2>2
<1>2. ASSUME NEW h \in Handle
      PROVE  [told EXCEPT ![d].handle = h] \in [Did -> Told]
  <2>1. [told[d] EXCEPT !.handle = h] \in Told
    BY DEF Told
  <2>2. [told EXCEPT ![d].handle = h] = [told EXCEPT ![d] = [told[d] EXCEPT !.handle = h]]
    OBVIOUS
  <2> QED
    BY <2>1, <2>2
<1> QED
  BY <1>1, <1>2

\* Changing a field of a row keeps the type of accounts.
LEMMA RowType ==
  ASSUME accounts \in [Did -> {None} \cup Row], NEW d \in Did, Exists(d)
  PROVE  /\ \A h \in Handle : [accounts EXCEPT ![d].handle = h] \in [Did -> {None} \cup Row]
         /\ \A on \in BOOLEAN : [accounts EXCEPT ![d].active = on] \in [Did -> {None} \cup Row]
<1>0. accounts[d] \in Row
  BY DEF Exists
<1>1. ASSUME NEW h \in Handle
      PROVE  [accounts EXCEPT ![d].handle = h] \in [Did -> {None} \cup Row]
  <2>1. [accounts[d] EXCEPT !.handle = h] \in Row
    BY <1>0 DEF Row
  <2>2. [accounts EXCEPT ![d].handle = h] = [accounts EXCEPT ![d] = [accounts[d] EXCEPT !.handle = h]]
    OBVIOUS
  <2> QED
    BY <2>1, <2>2
<1>2. ASSUME NEW on \in BOOLEAN
      PROVE  [accounts EXCEPT ![d].active = on] \in [Did -> {None} \cup Row]
  <2>1. [accounts[d] EXCEPT !.active = on] \in Row
    BY <1>0 DEF Row
  <2>2. [accounts EXCEPT ![d].active = on] = [accounts EXCEPT ![d] = [accounts[d] EXCEPT !.active = on]]
    OBVIOUS
  <2> QED
    BY <2>1, <2>2
<1> QED
  BY <1>1, <1>2

\* Repositories, and that there is none, have their type.
LEMMA RepoTypes ==
  /\ NoRepo \in Repos
  /\ \A S \in SUBSET Nat : RepoOf(S) \in Repos
BY DEF NoRepo, RepoOf, Repos

\* Records in an open handle are numbered.
LEMMA OpenedType ==
  ASSUME TypeOK, NEW d \in Did
  PROVE  Opened(d) \in SUBSET Nat
BY DEF TypeOK, Repos, Opened

\* What a request is about, and what it carries, once it has a DID.
LEMMA RequestFacts ==
  ASSUME TypeOK, Steps, NEW r \in Req
  PROVE  /\ req[r] \in Request
         /\ req[r].kind # "none" /\ req[r].at # "identity" => req[r].did \in Did
         /\ req[r].kind = "handle" => req[r].did \in PlcDid
         /\ req[r].kind \in {"signUp", "handle"} => req[r].handle \in Handle
         /\ req[r].code # None => req[r].code \in Code
         /\ req[r].kind = "signUp" /\ req[r].at = "code" => req[r].code # None
         /\ req[r].active \in BOOLEAN
BY DEF TypeOK, Steps, Proper, Request

\* A request that has changed something is about a DID.
LEMMA Touched ==
  ASSUME TypeOK, Steps, NEW r \in Req, ~Untouched(req[r])
  PROVE  req[r].did \in Did
<1>1. req[r].kind # "none"
  BY IdleFields DEF Steps, Proper, Untouched
<1> QED
  BY <1>1, RequestFacts DEF Untouched

\* No step leaves the types.
LEMMA TypeStep ==
  ASSUME TypeOK, Steps, Next
  PROVE  TypeOK'
<1> USE AccountsAssumption
<1>1. ASSUME NEW r \in Req, BeginSignUp(r) PROVE TypeOK'
  BY <1>1, NewRequests, StartType DEF BeginSignUp, TypeOK, repos, ghosts, Did
<1>2. ASSUME NEW r \in Req, CreateDidWeb(r) PROVE TypeOK'
  BY <1>2, InsertType, RequestFacts DEF CreateDidWeb, TypeOK, repos, ghosts, Did, At, Crossed
<1>3. ASSUME NEW r \in Req, CreatePlc(r) PROVE TypeOK'
  BY <1>3, InsertType, RequestFacts DEF CreatePlc, TypeOK, repos, ghosts, Did, At
<1>4. ASSUME NEW r \in Req, InsertAccount(r) PROVE TypeOK'
  <2>0. At(r, "signUp", "insert")
    BY <1>4 DEF InsertAccount
  <2>2. accounts' \in [Did -> {None} \cup Row]
    BY <1>4, <2>0, RequestFacts, RowType DEF InsertAccount, TypeOK, At, Row, Exists
  <2>3. life' \in [Did -> Nat]
    <3>1. req[r].did \in Did
      BY <2>0, RequestFacts DEF At
    <3>2. life[req[r].did] + 1 \in Nat
      BY <3>1 DEF TypeOK
    <3> QED
      BY <1>4, <3>2 DEF InsertAccount, TypeOK
  <2>4. uses' \in [Code -> Nat]
    BY <1>4, <2>0, RequestFacts DEF InsertAccount, TypeOK, At
  <2>5. req' \in [Req -> Request]
    BY <1>4, GoType DEF InsertAccount, TypeOK, Places
  <2> QED
    BY <1>4, <2>2, <2>3, <2>4, <2>5 DEF InsertAccount, TypeOK, ghosts, repos
<1>5. ASSUME NEW r \in Req, InsertRefused(r) PROVE TypeOK'
  BY <1>5, EndType, RequestFacts DEF InsertRefused, TypeOK, repos, ghosts, At
<1>6. ASSUME NEW r \in Req, CreateRepo(r) PROVE TypeOK'
  BY <1>6, GoType, RequestFacts, ToldType, RepoTypes, OpenedType DEF CreateRepo, TypeOK, repos,
     ghosts, Places, At, Row, Exists
<1>7. ASSUME NEW r \in Req, CreateRepoFails(r) PROVE TypeOK'
  <2>0. At(r, "signUp", "repo")
    BY <1>7 DEF CreateRepoFails
  <2>2. cache' \in [Did -> Repos]
    BY <1>7, <2>0, RequestFacts, RepoTypes, OpenedType DEF CreateRepoFails, TypeOK, At
  <2>3. head' \in [Did -> Repos]
    <3>1. req[r].did \in Did
      BY <2>0, RequestFacts DEF At
    <3>2. RepoOf(Opened(req[r].did)) \in Repos
      BY <3>1, RepoTypes, OpenedType
    <3>3. head' = head \/ head' = [head EXCEPT ![req[r].did] = RepoOf(Opened(req[r].did))]
      BY <1>7 DEF CreateRepoFails
    <3>4. head \in [Did -> Repos]
      BY DEF TypeOK
    <3> QED
      BY <3>1, <3>2, <3>3, <3>4
  <2>4. disturbed' \subseteq Did
    <3>1. disturbed' = disturbed \cup {req[r].did}
      BY <1>7 DEF CreateRepoFails
    <3>2. req[r].did \in Did
      BY <2>0, RequestFacts DEF At
    <3> QED
      BY <3>1, <3>2 DEF TypeOK
  <2>5. spoiled' \subseteq Code
    BY <1>7, <2>0, RequestFacts DEF CreateRepoFails, TypeOK, At, Request
  <2>6. req' \in [Req -> Request]
    BY <1>7, EndType DEF CreateRepoFails, TypeOK
  <2> QED
    BY <1>7, <2>2, <2>3, <2>4, <2>5, <2>6 DEF CreateRepoFails, TypeOK, ghosts, repos
<1>8. ASSUME NEW r \in Req, CreateRepoRefused(r) PROVE TypeOK'
  BY <1>8, EndType, RequestFacts, RepoTypes, OpenedType DEF CreateRepoRefused, TypeOK, repos,
     ghosts, At
<1>9. ASSUME NEW r \in Req, MarkCode(r) PROVE TypeOK'
  BY <1>9, GoType, RequestFacts DEF MarkCode, TypeOK, repos, ghosts, Places, At
<1>10. ASSUME NEW r \in Req, MarkCodeFails(r) PROVE TypeOK'
  BY <1>10, GoType, RequestFacts DEF MarkCodeFails, TypeOK, repos, ghosts, Places, At
<1>11. ASSUME NEW r \in Req, MintSession(r) PROVE TypeOK'
  BY <1>11, EndType, RequestFacts DEF MintSession, TypeOK, repos, ghosts, At
<1>12. ASSUME NEW r \in Req, BeginUpdateHandle(r) PROVE TypeOK'
  BY <1>12, NewRequests, StartType DEF BeginUpdateHandle, TypeOK, repos, ghosts, Did, Crossed
<1>13. ASSUME NEW r \in Req, Submit(r) PROVE TypeOK'
  BY <1>13, GoType, RequestFacts DEF Submit, TypeOK, repos, ghosts, Places, At
<1>14. ASSUME NEW r \in Req, SubmitRefused(r) PROVE TypeOK'
  BY <1>14, EndType, RequestFacts DEF SubmitRefused, TypeOK, repos, ghosts, At
<1>15. ASSUME NEW r \in Req, SubmitAnswerLost(r) PROVE TypeOK'
  <2>0. At(r, "handle", "submit")
    BY <1>15 DEF SubmitAnswerLost
  <2>2. plc' \in [PlcDid -> Seq(Handle)]
    BY <1>15, <2>0, RequestFacts DEF SubmitAnswerLost, TypeOK, At, Did
  <2>3. disturbed' \subseteq Did
    BY <1>15, <2>0, RequestFacts DEF SubmitAnswerLost, TypeOK, At, Crossed, Late, Untouched,
       Did, Request
  <2>4. req' \in [Req -> Request]
    BY <1>15, EndType DEF SubmitAnswerLost, TypeOK
  <2> QED
    BY <1>15, <2>2, <2>3, <2>4 DEF SubmitAnswerLost, TypeOK, ghosts, repos
<1>16. ASSUME NEW r \in Req, UpdateRow(r) PROVE TypeOK'
  BY <1>16, GoType, RequestFacts, RowType DEF UpdateRow, TypeOK, repos, ghosts, Places, At, Row,
     Exists
<1>17. ASSUME NEW r \in Req, UpdateRowRefused(r) PROVE TypeOK'
  BY <1>17, EndType, RequestFacts DEF UpdateRowRefused, TypeOK, repos, ghosts, At
<1>18. ASSUME NEW r \in Req, EmitIdentity(r) PROVE TypeOK'
  BY <1>18, EndType, RequestFacts, ToldType DEF EmitIdentity, TypeOK, repos, ghosts, At
<1>19. ASSUME NEW r \in Req, SetActive(r) PROVE TypeOK'
  <2>0. PICK d \in Did, on \in BOOLEAN : SetActive(r)!(d,on)
    BY <1>19 DEF SetActive
  <2>1. req' \in [Req -> Request] /\ starts' \in 0..MaxStarts
    BY <2>0, NewRequests, StartType DEF Did
  <2>2. accounts' \in [Did -> {None} \cup Row]
    BY <2>0, RowType DEF SetActive, TypeOK, Row, Exists
  <2>3. disturbed' \subseteq Did
    BY <2>0 DEF SetActive, TypeOK, Crossed, Late, Untouched, Did, Request
  <2> QED
    BY <1>19, <2>1, <2>2, <2>3 DEF SetActive, TypeOK, ghosts, repos
<1>20. ASSUME NEW r \in Req, EmitAccount(r) PROVE TypeOK'
  BY <1>20, EndType, RequestFacts, ToldType DEF EmitAccount, TypeOK, repos, ghosts, At
<1>21. ASSUME NEW r \in Req, BeginDelete(r) PROVE TypeOK'
  BY <1>21, NewRequests, StartType DEF BeginDelete, TypeOK, repos, ghosts, Did, Crossed, Late
<1>22. ASSUME NEW r \in Req, DeleteRepo(r) PROVE TypeOK'
  BY <1>22, GoType, RequestFacts, RepoTypes, OpenedType DEF DeleteRepo, TypeOK, repos, ghosts,
     Places, At
<1>23. ASSUME NEW r \in Req, DeleteRepoFails(r) PROVE TypeOK'
  <2>0. At(r, "delete", "repo")
    BY <1>23 DEF DeleteRepoFails
  <2>2. cache' \in [Did -> Repos]
    BY <1>23, <2>0, RequestFacts, RepoTypes, OpenedType DEF DeleteRepoFails, TypeOK, At
  <2>3. head' \in [Did -> Repos]
    <3>1. req[r].did \in Did
      BY <2>0, RequestFacts DEF At
    <3>2. NoRepo \in Repos
      BY <3>1, RepoTypes, OpenedType
    <3>3. head' = head \/ head' = [head EXCEPT ![req[r].did] = NoRepo]
      BY <1>23 DEF DeleteRepoFails
    <3>4. head \in [Did -> Repos]
      BY DEF TypeOK
    <3> QED
      BY <3>1, <3>2, <3>3, <3>4
  <2>4. index' \in [Did -> SUBSET Nat]
    BY <1>23, <2>0, RequestFacts DEF DeleteRepoFails, TypeOK, At
  <2>5. disturbed' \subseteq Did
    <3>1. disturbed' = disturbed \cup {req[r].did}
      BY <1>23 DEF DeleteRepoFails
    <3>2. req[r].did \in Did
      BY <2>0, RequestFacts DEF At
    <3> QED
      BY <3>1, <3>2 DEF TypeOK
  <2>6. req' \in [Req -> Request]
    BY <1>23, EndType DEF DeleteRepoFails, TypeOK
  <2> QED
    BY <1>23, <2>2, <2>3, <2>4, <2>5, <2>6 DEF DeleteRepoFails, TypeOK, ghosts, repos
<1>24. ASSUME NEW r \in Req, DeleteRow(r) PROVE TypeOK'
  BY <1>24, GoType, RequestFacts DEF DeleteRow, TypeOK, repos, ghosts, Places, At, Row, Exists
<1>25. ASSUME NEW r \in Req, EmitDeleted(r) PROVE TypeOK'
  BY <1>25, EndType, RequestFacts, ToldType DEF EmitDeleted, TypeOK, repos, ghosts, At
<1>26. ASSUME NEW r \in Req, Cut(r) PROVE TypeOK'
  BY <1>26, EndType, RequestFacts, Touched DEF Cut, TypeOK, repos, ghosts, At
<1>27. ASSUME NEW d \in Did, Write(d) PROVE TypeOK'
  <2>2. starts' \in 0..MaxStarts
    BY <1>27 DEF Write, TypeOK
  <2>3. cache' \in [Did -> Repos]
    BY <1>27, RepoTypes, OpenedType DEF Write, TypeOK
  <2>4. head' \in [Did -> Repos]
    BY <1>27, RepoTypes, OpenedType DEF Write, TypeOK
  <2>5. index' \in [Did -> SUBSET Nat]
    BY <1>27 DEF Write, TypeOK
  <2>6. disturbed' \subseteq Did
    BY <1>27 DEF Write, TypeOK, Crossed, Late, Untouched, Did, Request
  <2> QED
    BY <1>27, <2>2, <2>3, <2>4, <2>5, <2>6 DEF Write, TypeOK, ghosts, repos
<1>28. ASSUME NEW d \in Did, WriteRefused(d) PROVE TypeOK'
  <2>2. starts' \in 0..MaxStarts
    BY <1>28 DEF WriteRefused, TypeOK
  <2>3. cache' \in [Did -> Repos]
    BY <1>28, RepoTypes, OpenedType DEF WriteRefused, TypeOK
  <2>4. disturbed' \subseteq Did
    BY <1>28 DEF WriteRefused, TypeOK, Crossed, Late, Untouched, Did, Request
  <2> QED
    BY <1>28, <2>2, <2>3, <2>4 DEF WriteRefused, TypeOK, ghosts, repos
<1>29. CASE Restart
  <2>2. req' \in [Req -> Request]
    BY <1>29 DEF Restart, Idle, Request, Kinds, Places
  <2>3. cache' \in [Did -> Repos]
    BY <1>29, RepoTypes, OpenedType DEF Restart, TypeOK
  <2>4. disturbed' \subseteq Did
    BY <1>29, Touched DEF Restart, TypeOK
  <2>5. spoiled' \subseteq Code
    BY <1>29 DEF Restart, TypeOK, Request
  <2> QED
    BY <1>29, <2>2, <2>3, <2>4, <2>5 DEF Restart, TypeOK, ghosts, repos
<1> QED
  BY <1>1, <1>2, <1>3, <1>4, <1>5, <1>6, <1>7, <1>8, <1>9, <1>10, <1>11, <1>12, <1>13, <1>14,
     <1>15, <1>16, <1>17, <1>18, <1>19, <1>20, <1>21, <1>22, <1>23, <1>24, <1>25, <1>26, <1>27,
     <1>28, <1>29 DEF Next, SignUp, UpdateHandle, Status, Delete

-----------------------------------------------------------------------------
\* The handles in a log that grew.
LEMMA RangeAppend ==
  ASSUME NEW S, NEW s \in Seq(S), NEW x
  PROVE  Range(Append(s, x)) = Range(s) \cup {x}
<1>1. DOMAIN Append(s, x) = 1..(Len(s) + 1) /\ DOMAIN s = 1..Len(s) /\ Len(s) \in Nat
  OBVIOUS
<1>2. \A i \in 1..Len(s) : Append(s, x)[i] = s[i]
  OBVIOUS
<1>3. Append(s, x)[Len(s) + 1] = x
  OBVIOUS
<1> QED
  BY <1>1, <1>2, <1>3 DEF Range

\* The handles in a log of one operation.
LEMMA RangeOne ==
  ASSUME NEW h
  PROVE  Range(<<h>>) = {h}
BY DEF Range

\* A sign-up or a deletion of an undisturbed DID is its only request.
LEMMA Alone ==
  ASSUME NoConflict, NEW d \in Did, d \notin disturbed, NEW r \in Req,
         req[r].did = d, req[r].kind \in {"signUp", "delete"}
  PROVE  \A q \in Req \ {r} : req[q].did # d
BY DEF NoConflict, Conflict

\* A row that changes is still a row.
LEMMA RowKept ==
  ASSUME TypeOK, NEW d \in Did, Exists(d)
  PROVE  /\ \A h \in Handle : [accounts EXCEPT ![d].handle = h][d] # None
         /\ \A on \in BOOLEAN : [accounts EXCEPT ![d].active = on][d] # None
<1>1. accounts[d] \in Row /\ accounts \in [Did -> {None} \cup Row]
  BY DEF TypeOK, Exists
<1>2. \A h \in Handle : [accounts[d] EXCEPT !.handle = h] \in Row
  BY <1>1 DEF Row
<1>3. \A on \in BOOLEAN : [accounts[d] EXCEPT !.active = on] \in Row
  BY <1>1 DEF Row
<1>4. \A h : [accounts EXCEPT ![d].handle = h][d] = [accounts[d] EXCEPT !.handle = h]
  BY <1>1
<1>5. \A on : [accounts EXCEPT ![d].active = on][d] = [accounts[d] EXCEPT !.active = on]
  BY <1>1
<1> QED
  BY <1>2, <1>3, <1>4, <1>5, AccountsAssumption, ZenonT(30)

\* A request goes through the steps of its handler, in their order.
LEMMA StepsStep ==
  ASSUME TypeOK, Steps, Next
  PROVE  Steps'
<1> USE AccountsAssumption, IdleFields
<1> SUFFICES ASSUME NEW s \in Req
             PROVE  Proper(req'[s])
  BY DEF Steps
<1>p. \A q \in Req : Proper(req[q])
  BY DEF Steps
<1>1. ASSUME NEW r \in Req, BeginSignUp(r) PROVE Proper(req'[s])
  BY <1>1, <1>p, StartFacts DEF BeginSignUp, repos, ghosts, At, Others, ToSignUp, Proper, Did
<1>2. ASSUME NEW r \in Req, CreateDidWeb(r) PROVE Proper(req'[s])
  BY <1>2, <1>p, InsertFacts, RequestFacts DEF CreateDidWeb, repos, ghosts, At, Others, Kept,
     Proper, Did
<1>3. ASSUME NEW r \in Req, CreatePlc(r) PROVE Proper(req'[s])
  BY <1>3, <1>p, InsertFacts, RequestFacts DEF CreatePlc, repos, ghosts, At, Others, Kept,
     Proper, Did
<1>4. ASSUME NEW r \in Req, InsertAccount(r) PROVE Proper(req'[s])
  BY <1>4, <1>p, GoFacts DEF InsertAccount, repos, ghosts, At, Others, Kept, Proper, Did
<1>5. ASSUME NEW r \in Req, InsertRefused(r) PROVE Proper(req'[s])
  BY <1>5, <1>p, EndFacts DEF InsertRefused, repos, ghosts, At, Others, Proper, Did
<1>6. ASSUME NEW r \in Req, CreateRepo(r) PROVE Proper(req'[s])
  BY <1>6, <1>p, GoFacts DEF CreateRepo, repos, ghosts, At, Others, Kept, Proper, Did
<1>7. ASSUME NEW r \in Req, CreateRepoFails(r) PROVE Proper(req'[s])
  BY <1>7, <1>p, EndFacts DEF CreateRepoFails, repos, ghosts, At, Others, Proper, Did
<1>8. ASSUME NEW r \in Req, CreateRepoRefused(r) PROVE Proper(req'[s])
  BY <1>8, <1>p, EndFacts DEF CreateRepoRefused, repos, ghosts, At, Others, Proper, Did
<1>9. ASSUME NEW r \in Req, MarkCode(r) PROVE Proper(req'[s])
  BY <1>9, <1>p, GoFacts DEF MarkCode, repos, ghosts, At, Others, Kept, Proper, Did
<1>10. ASSUME NEW r \in Req, MarkCodeFails(r) PROVE Proper(req'[s])
  BY <1>10, <1>p, GoFacts DEF MarkCodeFails, repos, ghosts, At, Others, Kept, Proper, Did
<1>11. ASSUME NEW r \in Req, MintSession(r) PROVE Proper(req'[s])
  BY <1>11, <1>p, EndFacts DEF MintSession, repos, ghosts, At, Others, Proper, Did
<1>12. ASSUME NEW r \in Req, BeginUpdateHandle(r) PROVE Proper(req'[s])
  BY <1>12, <1>p, StartFacts DEF BeginUpdateHandle, repos, ghosts, At, Others, ToUpdateHandle,
     Proper, Did
<1>13. ASSUME NEW r \in Req, Submit(r) PROVE Proper(req'[s])
  BY <1>13, <1>p, GoFacts DEF Submit, repos, ghosts, At, Others, Kept, Proper, Did
<1>14. ASSUME NEW r \in Req, SubmitRefused(r) PROVE Proper(req'[s])
  BY <1>14, <1>p, EndFacts DEF SubmitRefused, repos, ghosts, At, Others, Proper, Did
<1>15. ASSUME NEW r \in Req, SubmitAnswerLost(r) PROVE Proper(req'[s])
  BY <1>15, <1>p, EndFacts DEF SubmitAnswerLost, repos, ghosts, At, Others, Proper, Did
<1>16. ASSUME NEW r \in Req, UpdateRow(r) PROVE Proper(req'[s])
  BY <1>16, <1>p, GoFacts DEF UpdateRow, repos, ghosts, At, Others, Kept, Proper, Did
<1>17. ASSUME NEW r \in Req, UpdateRowRefused(r) PROVE Proper(req'[s])
  BY <1>17, <1>p, EndFacts DEF UpdateRowRefused, repos, ghosts, At, Others, Proper, Did
<1>18. ASSUME NEW r \in Req, EmitIdentity(r) PROVE Proper(req'[s])
  BY <1>18, <1>p, EndFacts DEF EmitIdentity, repos, ghosts, At, Others, Proper, Did
<1>19. ASSUME NEW r \in Req, SetActive(r) PROVE Proper(req'[s])
  BY <1>19, <1>p, StartFacts DEF SetActive, repos, ghosts, At, Others, ToSetActive, Proper, Did
<1>20. ASSUME NEW r \in Req, EmitAccount(r) PROVE Proper(req'[s])
  BY <1>20, <1>p, EndFacts DEF EmitAccount, repos, ghosts, At, Others, Proper, Did
<1>21. ASSUME NEW r \in Req, BeginDelete(r) PROVE Proper(req'[s])
  BY <1>21, <1>p, StartFacts DEF BeginDelete, repos, ghosts, At, Others, ToDelete, Proper, Did
<1>22. ASSUME NEW r \in Req, DeleteRepo(r) PROVE Proper(req'[s])
  BY <1>22, <1>p, GoFacts DEF DeleteRepo, repos, ghosts, At, Others, Kept, Proper, Did
<1>23. ASSUME NEW r \in Req, DeleteRepoFails(r) PROVE Proper(req'[s])
  BY <1>23, <1>p, EndFacts DEF DeleteRepoFails, repos, ghosts, At, Others, Proper, Did
<1>24. ASSUME NEW r \in Req, DeleteRow(r) PROVE Proper(req'[s])
  BY <1>24, <1>p, GoFacts DEF DeleteRow, repos, ghosts, At, Others, Kept, Proper, Did
<1>25. ASSUME NEW r \in Req, EmitDeleted(r) PROVE Proper(req'[s])
  BY <1>25, <1>p, EndFacts DEF EmitDeleted, repos, ghosts, At, Others, Proper, Did
<1>26. ASSUME NEW r \in Req, Cut(r) PROVE Proper(req'[s])
  BY <1>26, <1>p, EndFacts DEF Cut, repos, ghosts, At, Others, Proper, Did
<1>27. ASSUME NEW c \in Did, Write(c) PROVE Proper(req'[s])
  BY <1>27, <1>p DEF Write, repos, ghosts, Proper, Did
<1>28. ASSUME NEW c \in Did, WriteRefused(c) PROVE Proper(req'[s])
  BY <1>28, <1>p DEF WriteRefused, repos, ghosts, Proper, Did
<1>29. CASE Restart
  BY <1>29, <1>p DEF Restart, repos, ghosts, Proper, Did
<1>30. ASSUME NEW r \in Req, SignUp(r) PROVE Proper(req'[s])
  BY <1>30, <1>1, <1>2, <1>3, <1>4, <1>5, <1>6, <1>7, <1>8, <1>9, <1>10, <1>11 DEF SignUp
<1>31. ASSUME NEW r \in Req, UpdateHandle(r) PROVE Proper(req'[s])
  BY <1>31, <1>12, <1>13, <1>14, <1>15, <1>16, <1>17, <1>18 DEF UpdateHandle
<1>32. ASSUME NEW r \in Req, Status(r) \/ Delete(r) PROVE Proper(req'[s])
  BY <1>32, <1>19, <1>20, <1>21, <1>22, <1>23, <1>24, <1>25 DEF Status, Delete
<1> QED
  BY <1>26, <1>27, <1>28, <1>29, <1>30, <1>31, <1>32 DEF Next

\* What a did:plc has, it has since its genesis operation.
LEMMA BornStep ==
  ASSUME TypeOK, Steps, Born, Next
  PROVE  Born'
<1> USE AccountsAssumption, IdleFields
<1> SUFFICES ASSUME NEW d \in PlcDid, plc'[d] = <<>>
             PROVE  NothingOf(d)'
  BY DEF Born
<1>p. /\ d # None /\ d \in Did /\ d \notin Handle
  BY DEF Did
<1>1. ASSUME NEW r \in Req, BeginSignUp(r) PROVE NothingOf(d)'
  BY <1>1, <1>p, StartFacts DEF BeginSignUp, repos, ghosts, At, Others, ToSignUp, Born,
     NothingOf, NoRecords, Exists, MayAct
<1>2. ASSUME NEW r \in Req, CreateDidWeb(r) PROVE NothingOf(d)'
  BY <1>2, <1>p, InsertFacts, RequestFacts DEF CreateDidWeb, repos, ghosts, At, Others, Kept,
     Born, NothingOf, NoRecords, Exists, MayAct
<1>3. ASSUME NEW r \in Req, CreatePlc(r) PROVE NothingOf(d)'
  <2>0. PICK c \in PlcDid : /\ plc[c] = <<>> /\ Insert(r, c)
                           /\ plc' = [plc EXCEPT ![c] = <<req[r].handle>>]
    BY <1>3 DEF CreatePlc
  <2>1. Others(r) /\ Kept(r) /\ req'[r].did = c /\ req'[r].at = "insert"
    BY <2>0, InsertFacts
  <2>2. /\ UNCHANGED <<accounts, life, head, index, cache>>
        /\ plc' = [plc EXCEPT ![c] = <<req[r].handle>>]
        /\ At(r, "signUp", "identity")
    BY <1>3, <2>0 DEF CreatePlc, repos, ghosts
  <2>3. plc'[c] # <<>>
    BY <2>0 DEF TypeOK
  <2> QED
    BY <2>1, <2>2, <2>0, <1>p, <2>3 DEF At, Others, Kept, Born, NothingOf, NoRecords, Exists,
       MayAct
<1>4. ASSUME NEW r \in Req, InsertAccount(r) PROVE NothingOf(d)'
  BY <1>4, <1>p, GoFacts DEF InsertAccount, repos, ghosts, At, Others, Kept, Born, NothingOf,
     NoRecords, Exists, MayAct
<1>5. ASSUME NEW r \in Req, InsertRefused(r) PROVE NothingOf(d)'
  BY <1>5, <1>p, EndFacts DEF InsertRefused, repos, ghosts, At, Others, Born, NothingOf,
     NoRecords, Exists, MayAct
<1>6. ASSUME NEW r \in Req, CreateRepo(r) PROVE NothingOf(d)'
  BY <1>6, <1>p, GoFacts DEF CreateRepo, repos, ghosts, At, Others, Kept, Born, NothingOf,
     NoRecords, Exists, MayAct
<1>7. ASSUME NEW r \in Req, CreateRepoFails(r) PROVE NothingOf(d)'
  <2>1. Others(r) /\ req'[r] = Idle
    BY <1>7, EndFacts DEF CreateRepoFails
  <2>2. /\ UNCHANGED <<plc, accounts, life, index>>
        /\ head' = head \/ head' = [head EXCEPT ![req[r].did] = RepoOf(Opened(req[r].did))]
        /\ cache' = [cache EXCEPT ![req[r].did] = RepoOf(Opened(req[r].did))]
        /\ At(r, "signUp", "repo")
        /\ Exists(req[r].did)
    BY <1>7 DEF CreateRepoFails, repos, ghosts
  <2>3. head \in [Did -> Repos]
    BY DEF TypeOK
  <2> QED
    BY <2>1, <2>2, <1>p, <2>3 DEF At, Others, Born, NothingOf, NoRecords, Exists, MayAct
<1>8. ASSUME NEW r \in Req, CreateRepoRefused(r) PROVE NothingOf(d)'
  BY <1>8, <1>p, EndFacts DEF CreateRepoRefused, repos, ghosts, At, Others, Born, NothingOf,
     NoRecords, Exists, MayAct
<1>9. ASSUME NEW r \in Req, MarkCode(r) PROVE NothingOf(d)'
  BY <1>9, <1>p, GoFacts DEF MarkCode, repos, ghosts, At, Others, Kept, Born, NothingOf,
     NoRecords, Exists, MayAct
<1>10. ASSUME NEW r \in Req, MarkCodeFails(r) PROVE NothingOf(d)'
  BY <1>10, <1>p, GoFacts DEF MarkCodeFails, repos, ghosts, At, Others, Kept, Born, NothingOf,
     NoRecords, Exists, MayAct
<1>11. ASSUME NEW r \in Req, MintSession(r) PROVE NothingOf(d)'
  BY <1>11, <1>p, EndFacts DEF MintSession, repos, ghosts, At, Others, Born, NothingOf,
     NoRecords, Exists, MayAct
<1>12. ASSUME NEW r \in Req, BeginUpdateHandle(r) PROVE NothingOf(d)'
  BY <1>12, <1>p, StartFacts DEF BeginUpdateHandle, repos, ghosts, At, Others, ToUpdateHandle,
     Born, NothingOf, NoRecords, Exists, MayAct
<1>13. ASSUME NEW r \in Req, Submit(r) PROVE NothingOf(d)'
  BY <1>13, <1>p, GoFacts DEF Submit, repos, ghosts, At, Others, Kept, Born, NothingOf,
     NoRecords, Exists, MayAct
<1>14. ASSUME NEW r \in Req, SubmitRefused(r) PROVE NothingOf(d)'
  BY <1>14, <1>p, EndFacts DEF SubmitRefused, repos, ghosts, At, Others, Born, NothingOf,
     NoRecords, Exists, MayAct
<1>15. ASSUME NEW r \in Req, SubmitAnswerLost(r) PROVE NothingOf(d)'
  BY <1>15, <1>p, EndFacts, SMTT(30) DEF SubmitAnswerLost, repos, ghosts, At, Others, Born, NothingOf,
     NoRecords, Exists, MayAct
<1>16. ASSUME NEW r \in Req, UpdateRow(r) PROVE NothingOf(d)'
  BY <1>16, <1>p, GoFacts DEF UpdateRow, repos, ghosts, At, Others, Kept, Born, NothingOf,
     NoRecords, Exists, MayAct
<1>17. ASSUME NEW r \in Req, UpdateRowRefused(r) PROVE NothingOf(d)'
  BY <1>17, <1>p, EndFacts DEF UpdateRowRefused, repos, ghosts, At, Others, Born, NothingOf,
     NoRecords, Exists, MayAct
<1>18. ASSUME NEW r \in Req, EmitIdentity(r) PROVE NothingOf(d)'
  BY <1>18, <1>p, EndFacts DEF EmitIdentity, repos, ghosts, At, Others, Born, NothingOf,
     NoRecords, Exists, MayAct
<1>19. ASSUME NEW r \in Req, SetActive(r) PROVE NothingOf(d)'
  BY <1>19, <1>p, StartFacts DEF SetActive, repos, ghosts, At, Others, ToSetActive, Born,
     NothingOf, NoRecords, Exists, MayAct
<1>20. ASSUME NEW r \in Req, EmitAccount(r) PROVE NothingOf(d)'
  BY <1>20, <1>p, EndFacts DEF EmitAccount, repos, ghosts, At, Others, Born, NothingOf,
     NoRecords, Exists, MayAct
<1>21. ASSUME NEW r \in Req, BeginDelete(r) PROVE NothingOf(d)'
  BY <1>21, <1>p, StartFacts DEF BeginDelete, repos, ghosts, At, Others, ToDelete, Born,
     NothingOf, NoRecords, Exists, MayAct
<1>22. ASSUME NEW r \in Req, DeleteRepo(r) PROVE NothingOf(d)'
  BY <1>22, <1>p, GoFacts DEF DeleteRepo, repos, ghosts, At, Others, Kept, Born, NothingOf,
     NoRecords, Exists, MayAct
<1>23. ASSUME NEW r \in Req, DeleteRepoFails(r) PROVE NothingOf(d)'
  <2>1. Others(r) /\ req'[r] = Idle
    BY <1>23, EndFacts DEF DeleteRepoFails
  <2>2. /\ UNCHANGED <<plc, accounts, life>>
        /\ head' = head \/ head' = [head EXCEPT ![req[r].did] = NoRepo]
        /\ index' = index \/ index' = [index EXCEPT ![req[r].did] = {}]
        /\ cache' = [cache EXCEPT ![req[r].did] = NoRepo]
        /\ At(r, "delete", "repo")
    BY <1>23 DEF DeleteRepoFails, repos, ghosts
  <2>3. head \in [Did -> Repos] /\ index \in [Did -> SUBSET Nat]
    BY DEF TypeOK
  <2> QED
    BY <2>1, <2>2, <1>p, <2>3 DEF At, Others, Born, NothingOf, NoRecords, Exists, MayAct
<1>24. ASSUME NEW r \in Req, DeleteRow(r) PROVE NothingOf(d)'
  BY <1>24, <1>p, GoFacts DEF DeleteRow, repos, ghosts, At, Others, Kept, Born, NothingOf,
     NoRecords, Exists, MayAct
<1>25. ASSUME NEW r \in Req, EmitDeleted(r) PROVE NothingOf(d)'
  BY <1>25, <1>p, EndFacts DEF EmitDeleted, repos, ghosts, At, Others, Born, NothingOf,
     NoRecords, Exists, MayAct
<1>26. ASSUME NEW r \in Req, Cut(r) PROVE NothingOf(d)'
  BY <1>26, <1>p, EndFacts DEF Cut, repos, ghosts, At, Others, Born, NothingOf, NoRecords,
     Exists, MayAct
<1>27. ASSUME NEW c \in Did, Write(c) PROVE NothingOf(d)'
  BY <1>27, <1>p DEF Write, repos, ghosts, Born, NothingOf, NoRecords, Exists, MayAct
<1>28. ASSUME NEW c \in Did, WriteRefused(c) PROVE NothingOf(d)'
  BY <1>28, <1>p DEF WriteRefused, repos, ghosts, Born, NothingOf, NoRecords, Exists, MayAct
<1>29. CASE Restart
  BY <1>29, <1>p DEF Restart, repos, ghosts, Born, NothingOf, NoRecords, Exists, MayAct
<1>30. ASSUME NEW r \in Req, SignUp(r) PROVE NothingOf(d)'
  BY <1>30, <1>1, <1>2, <1>3, <1>4, <1>5, <1>6, <1>7, <1>8, <1>9, <1>10, <1>11 DEF SignUp
<1>31. ASSUME NEW r \in Req, UpdateHandle(r) PROVE NothingOf(d)'
  BY <1>31, <1>12, <1>13, <1>14, <1>15, <1>16, <1>17, <1>18 DEF UpdateHandle
<1>32. ASSUME NEW r \in Req, Status(r) \/ Delete(r) PROVE NothingOf(d)'
  BY <1>32, <1>19, <1>20, <1>21, <1>22, <1>23, <1>24, <1>25 DEF Status, Delete
<1> QED
  BY <1>26, <1>27, <1>28, <1>29, <1>30, <1>31, <1>32 DEF Next

\* The directory accepts a handle before a request is about to write it.
LEMMA AcceptedStep ==
  ASSUME TypeOK, Steps, Born, Accepted, Next
  PROVE  Accepted'
<1> USE AccountsAssumption, IdleFields
<1> SUFFICES ASSUME NEW s \in Req, NEW d \in PlcDid,
                    Under(s, d, "signUp", {"insert"})' \/ Under(s, d, "handle", {"update"})'
             PROVE  req'[s].handle \in Range(plc'[d])
  BY DEF Accepted
<1>p. d # None /\ d \notin Handle /\ plc \in [PlcDid -> Seq(Handle)]
  BY DEF TypeOK
<1>1. ASSUME NEW r \in Req, BeginSignUp(r) PROVE req'[s].handle \in Range(plc'[d])
  BY <1>1, <1>p, StartFacts DEF BeginSignUp, repos, ghosts, At, Others, ToSignUp, Accepted, Under
<1>2. ASSUME NEW r \in Req, CreateDidWeb(r) PROVE req'[s].handle \in Range(plc'[d])
  BY <1>2, <1>p, InsertFacts, RequestFacts DEF CreateDidWeb, repos, ghosts, At, Others, Kept,
     Accepted, Under
<1>3. ASSUME NEW r \in Req, CreatePlc(r) PROVE req'[s].handle \in Range(plc'[d])
  <2>0. PICK c \in PlcDid : /\ plc[c] = <<>> /\ Insert(r, c)
                           /\ plc' = [plc EXCEPT ![c] = <<req[r].handle>>]
    BY <1>3 DEF CreatePlc
  <2>1. Others(r) /\ Kept(r) /\ req'[r].did = c /\ req'[r].at = "insert"
    BY <2>0, InsertFacts
  <2>2. /\ plc' = [plc EXCEPT ![c] = <<req[r].handle>>]
        /\ At(r, "signUp", "identity")
    BY <1>3, <2>0 DEF CreatePlc, repos, ghosts
  <2>3. plc'[c] = <<req[r].handle>> /\ Range(plc'[c]) = {req[r].handle}
         /\ \A q \in Req : req[q].did # c
    BY <2>0, <1>p, RangeOne DEF Born, NothingOf
  <2> QED
    BY <2>1, <2>2, <2>0, <1>p, <2>3 DEF At, Others, Kept, Accepted, Under
<1>4. ASSUME NEW r \in Req, InsertAccount(r) PROVE req'[s].handle \in Range(plc'[d])
  BY <1>4, <1>p, GoFacts DEF InsertAccount, repos, ghosts, At, Others, Kept, Accepted, Under
<1>5. ASSUME NEW r \in Req, InsertRefused(r) PROVE req'[s].handle \in Range(plc'[d])
  BY <1>5, <1>p, EndFacts DEF InsertRefused, repos, ghosts, At, Others, Accepted, Under
<1>6. ASSUME NEW r \in Req, CreateRepo(r) PROVE req'[s].handle \in Range(plc'[d])
  BY <1>6, <1>p, GoFacts, SMTT(30) DEF CreateRepo, repos, ghosts, At, Others, Kept, Accepted, Under
<1>7. ASSUME NEW r \in Req, CreateRepoFails(r) PROVE req'[s].handle \in Range(plc'[d])
  BY <1>7, <1>p, EndFacts DEF CreateRepoFails, repos, ghosts, At, Others, Accepted, Under
<1>8. ASSUME NEW r \in Req, CreateRepoRefused(r) PROVE req'[s].handle \in Range(plc'[d])
  BY <1>8, <1>p, EndFacts DEF CreateRepoRefused, repos, ghosts, At, Others, Accepted, Under
<1>9. ASSUME NEW r \in Req, MarkCode(r) PROVE req'[s].handle \in Range(plc'[d])
  BY <1>9, <1>p, GoFacts DEF MarkCode, repos, ghosts, At, Others, Kept, Accepted, Under
<1>10. ASSUME NEW r \in Req, MarkCodeFails(r) PROVE req'[s].handle \in Range(plc'[d])
  BY <1>10, <1>p, GoFacts DEF MarkCodeFails, repos, ghosts, At, Others, Kept, Accepted, Under
<1>11. ASSUME NEW r \in Req, MintSession(r) PROVE req'[s].handle \in Range(plc'[d])
  BY <1>11, <1>p, EndFacts DEF MintSession, repos, ghosts, At, Others, Accepted, Under
<1>12. ASSUME NEW r \in Req, BeginUpdateHandle(r) PROVE req'[s].handle \in Range(plc'[d])
  BY <1>12, <1>p, StartFacts DEF BeginUpdateHandle, repos, ghosts, At, Others, ToUpdateHandle,
     Accepted, Under
<1>13. ASSUME NEW r \in Req, Submit(r) PROVE req'[s].handle \in Range(plc'[d])
  BY <1>13, <1>p, RangeAppend, GoFacts DEF Submit, repos, ghosts, At, Others, Kept, Accepted,
     Under
<1>14. ASSUME NEW r \in Req, SubmitRefused(r) PROVE req'[s].handle \in Range(plc'[d])
  BY <1>14, <1>p, EndFacts DEF SubmitRefused, repos, ghosts, At, Others, Accepted, Under
<1>15. ASSUME NEW r \in Req, SubmitAnswerLost(r) PROVE req'[s].handle \in Range(plc'[d])
  BY <1>15, <1>p, RangeAppend, EndFacts DEF SubmitAnswerLost, repos, ghosts, At, Others,
     Accepted, Under
<1>16. ASSUME NEW r \in Req, UpdateRow(r) PROVE req'[s].handle \in Range(plc'[d])
  BY <1>16, <1>p, GoFacts DEF UpdateRow, repos, ghosts, At, Others, Kept, Accepted, Under
<1>17. ASSUME NEW r \in Req, UpdateRowRefused(r) PROVE req'[s].handle \in Range(plc'[d])
  BY <1>17, <1>p, EndFacts DEF UpdateRowRefused, repos, ghosts, At, Others, Accepted, Under
<1>18. ASSUME NEW r \in Req, EmitIdentity(r) PROVE req'[s].handle \in Range(plc'[d])
  BY <1>18, <1>p, EndFacts DEF EmitIdentity, repos, ghosts, At, Others, Accepted, Under
<1>19. ASSUME NEW r \in Req, SetActive(r) PROVE req'[s].handle \in Range(plc'[d])
  BY <1>19, <1>p, StartFacts DEF SetActive, repos, ghosts, At, Others, ToSetActive, Accepted,
     Under
<1>20. ASSUME NEW r \in Req, EmitAccount(r) PROVE req'[s].handle \in Range(plc'[d])
  BY <1>20, <1>p, EndFacts DEF EmitAccount, repos, ghosts, At, Others, Accepted, Under
<1>21. ASSUME NEW r \in Req, BeginDelete(r) PROVE req'[s].handle \in Range(plc'[d])
  BY <1>21, <1>p, StartFacts DEF BeginDelete, repos, ghosts, At, Others, ToDelete, Accepted, Under
<1>22. ASSUME NEW r \in Req, DeleteRepo(r) PROVE req'[s].handle \in Range(plc'[d])
  BY <1>22, <1>p, GoFacts DEF DeleteRepo, repos, ghosts, At, Others, Kept, Accepted, Under
<1>23. ASSUME NEW r \in Req, DeleteRepoFails(r) PROVE req'[s].handle \in Range(plc'[d])
  BY <1>23, <1>p, EndFacts DEF DeleteRepoFails, repos, ghosts, At, Others, Accepted, Under
<1>24. ASSUME NEW r \in Req, DeleteRow(r) PROVE req'[s].handle \in Range(plc'[d])
  BY <1>24, <1>p, GoFacts DEF DeleteRow, repos, ghosts, At, Others, Kept, Accepted, Under
<1>25. ASSUME NEW r \in Req, EmitDeleted(r) PROVE req'[s].handle \in Range(plc'[d])
  BY <1>25, <1>p, EndFacts DEF EmitDeleted, repos, ghosts, At, Others, Accepted, Under
<1>26. ASSUME NEW r \in Req, Cut(r) PROVE req'[s].handle \in Range(plc'[d])
  BY <1>26, <1>p, EndFacts DEF Cut, repos, ghosts, At, Others, Accepted, Under
<1>27. ASSUME NEW c \in Did, Write(c) PROVE req'[s].handle \in Range(plc'[d])
  BY <1>27, <1>p DEF Write, repos, ghosts, Accepted, Under
<1>28. ASSUME NEW c \in Did, WriteRefused(c) PROVE req'[s].handle \in Range(plc'[d])
  BY <1>28, <1>p DEF WriteRefused, repos, ghosts, Accepted, Under
<1>29. CASE Restart
  BY <1>29, <1>p DEF Restart, repos, ghosts, Accepted, Under
<1>30. ASSUME NEW r \in Req, SignUp(r) PROVE req'[s].handle \in Range(plc'[d])
  BY <1>30, <1>1, <1>2, <1>3, <1>4, <1>5, <1>6, <1>7, <1>8, <1>9, <1>10, <1>11 DEF SignUp
<1>31. ASSUME NEW r \in Req, UpdateHandle(r) PROVE req'[s].handle \in Range(plc'[d])
  BY <1>31, <1>12, <1>13, <1>14, <1>15, <1>16, <1>17, <1>18 DEF UpdateHandle
<1>32. ASSUME NEW r \in Req, Status(r) \/ Delete(r) PROVE req'[s].handle \in Range(plc'[d])
  BY <1>32, <1>19, <1>20, <1>21, <1>22, <1>23, <1>24, <1>25 DEF Status, Delete
<1> QED
  BY <1>26, <1>27, <1>28, <1>29, <1>30, <1>31, <1>32 DEF Next

\* A row gets a handle that was accepted, and the directory keeps its log.
LEMMA PublishedStep ==
  ASSUME TypeOK, Steps, Born, Accepted, HandlePublished, Next
  PROVE  HandlePublished'
<1> USE AccountsAssumption, IdleFields
<1> SUFFICES ASSUME NEW d \in PlcDid, Exists(d)'
             PROVE  accounts'[d].handle \in Range(plc'[d])
  BY DEF HandlePublished
<1>p. d # None /\ d \in Did /\ plc \in [PlcDid -> Seq(Handle)] /\ accounts \in [Did -> {None} \cup Row]
  BY DEF TypeOK, Did
<1>1. ASSUME NEW r \in Req, BeginSignUp(r) PROVE accounts'[d].handle \in Range(plc'[d])
  BY <1>1, <1>p, StartFacts DEF BeginSignUp, repos, ghosts, At, Others, ToSignUp,
     HandlePublished, Accepted, Exists, Under, Row
<1>2. ASSUME NEW r \in Req, CreateDidWeb(r) PROVE accounts'[d].handle \in Range(plc'[d])
  BY <1>2, <1>p, InsertFacts, RequestFacts DEF CreateDidWeb, repos, ghosts, At, Others, Kept,
     HandlePublished, Accepted, Exists, Under, Row
<1>3. ASSUME NEW r \in Req, CreatePlc(r) PROVE accounts'[d].handle \in Range(plc'[d])
  <2>0. PICK c \in PlcDid : /\ plc[c] = <<>> /\ Insert(r, c)
                           /\ plc' = [plc EXCEPT ![c] = <<req[r].handle>>]
    BY <1>3 DEF CreatePlc
  <2>1. Others(r) /\ Kept(r) /\ req'[r].did = c /\ req'[r].at = "insert"
    BY <2>0, InsertFacts
  <2>2. /\ accounts' = accounts
        /\ plc' = [plc EXCEPT ![c] = <<req[r].handle>>]
        /\ At(r, "signUp", "identity")
    BY <1>3, <2>0 DEF CreatePlc, repos, ghosts
  <2>3. ~Exists(c) /\ plc'[c] = <<req[r].handle>> /\ Range(plc'[c]) = {req[r].handle}
    BY <2>0, <1>p, RangeOne DEF Born, NothingOf
  <2> QED
    BY <2>1, <2>2, <2>0, <1>p, <2>3 DEF At, Others, Kept, HandlePublished, Accepted, Exists,
       Under, Row
<1>4. ASSUME NEW r \in Req, InsertAccount(r) PROVE accounts'[d].handle \in Range(plc'[d])
  BY <1>4, <1>p, GoFacts DEF InsertAccount, repos, ghosts, At, Others, Kept, HandlePublished,
     Accepted, Exists, Under, Row
<1>5. ASSUME NEW r \in Req, InsertRefused(r) PROVE accounts'[d].handle \in Range(plc'[d])
  BY <1>5, <1>p, EndFacts DEF InsertRefused, repos, ghosts, At, Others, HandlePublished,
     Accepted, Exists, Under, Row
<1>6. ASSUME NEW r \in Req, CreateRepo(r) PROVE accounts'[d].handle \in Range(plc'[d])
  BY <1>6, <1>p, GoFacts DEF CreateRepo, repos, ghosts, At, Others, Kept, HandlePublished,
     Accepted, Exists, Under, Row
<1>7. ASSUME NEW r \in Req, CreateRepoFails(r) PROVE accounts'[d].handle \in Range(plc'[d])
  BY <1>7, <1>p, EndFacts DEF CreateRepoFails, repos, ghosts, At, Others, HandlePublished,
     Accepted, Exists, Under, Row
<1>8. ASSUME NEW r \in Req, CreateRepoRefused(r) PROVE accounts'[d].handle \in Range(plc'[d])
  BY <1>8, <1>p, EndFacts DEF CreateRepoRefused, repos, ghosts, At, Others, HandlePublished,
     Accepted, Exists, Under, Row
<1>9. ASSUME NEW r \in Req, MarkCode(r) PROVE accounts'[d].handle \in Range(plc'[d])
  BY <1>9, <1>p, GoFacts DEF MarkCode, repos, ghosts, At, Others, Kept, HandlePublished,
     Accepted, Exists, Under, Row
<1>10. ASSUME NEW r \in Req, MarkCodeFails(r) PROVE accounts'[d].handle \in Range(plc'[d])
  BY <1>10, <1>p, GoFacts DEF MarkCodeFails, repos, ghosts, At, Others, Kept, HandlePublished,
     Accepted, Exists, Under, Row
<1>11. ASSUME NEW r \in Req, MintSession(r) PROVE accounts'[d].handle \in Range(plc'[d])
  BY <1>11, <1>p, EndFacts DEF MintSession, repos, ghosts, At, Others, HandlePublished,
     Accepted, Exists, Under, Row
<1>12. ASSUME NEW r \in Req, BeginUpdateHandle(r) PROVE accounts'[d].handle \in Range(plc'[d])
  BY <1>12, <1>p, StartFacts DEF BeginUpdateHandle, repos, ghosts, At, Others, ToUpdateHandle,
     HandlePublished, Accepted, Exists, Under, Row
<1>13. ASSUME NEW r \in Req, Submit(r) PROVE accounts'[d].handle \in Range(plc'[d])
  BY <1>13, <1>p, RangeAppend, GoFacts DEF Submit, repos, ghosts, At, Others, Kept,
     HandlePublished, Accepted, Exists, Under, Row
<1>14. ASSUME NEW r \in Req, SubmitRefused(r) PROVE accounts'[d].handle \in Range(plc'[d])
  BY <1>14, <1>p, EndFacts DEF SubmitRefused, repos, ghosts, At, Others, HandlePublished,
     Accepted, Exists, Under, Row
<1>15. ASSUME NEW r \in Req, SubmitAnswerLost(r) PROVE accounts'[d].handle \in Range(plc'[d])
  BY <1>15, <1>p, RangeAppend, EndFacts DEF SubmitAnswerLost, repos, ghosts, At, Others,
     HandlePublished, Accepted, Exists, Under, Row
<1>16. ASSUME NEW r \in Req, UpdateRow(r) PROVE accounts'[d].handle \in Range(plc'[d])
  BY <1>16, <1>p, GoFacts DEF UpdateRow, repos, ghosts, At, Others, Kept, HandlePublished,
     Accepted, Exists, Under, Row
<1>17. ASSUME NEW r \in Req, UpdateRowRefused(r) PROVE accounts'[d].handle \in Range(plc'[d])
  BY <1>17, <1>p, EndFacts DEF UpdateRowRefused, repos, ghosts, At, Others, HandlePublished,
     Accepted, Exists, Under, Row
<1>18. ASSUME NEW r \in Req, EmitIdentity(r) PROVE accounts'[d].handle \in Range(plc'[d])
  BY <1>18, <1>p, EndFacts DEF EmitIdentity, repos, ghosts, At, Others, HandlePublished,
     Accepted, Exists, Under, Row
<1>19. ASSUME NEW r \in Req, SetActive(r) PROVE accounts'[d].handle \in Range(plc'[d])
  BY <1>19, <1>p, StartFacts DEF SetActive, repos, ghosts, At, Others, ToSetActive,
     HandlePublished, Accepted, Exists, Under, Row
<1>20. ASSUME NEW r \in Req, EmitAccount(r) PROVE accounts'[d].handle \in Range(plc'[d])
  BY <1>20, <1>p, EndFacts DEF EmitAccount, repos, ghosts, At, Others, HandlePublished,
     Accepted, Exists, Under, Row
<1>21. ASSUME NEW r \in Req, BeginDelete(r) PROVE accounts'[d].handle \in Range(plc'[d])
  BY <1>21, <1>p, StartFacts DEF BeginDelete, repos, ghosts, At, Others, ToDelete,
     HandlePublished, Accepted, Exists, Under, Row
<1>22. ASSUME NEW r \in Req, DeleteRepo(r) PROVE accounts'[d].handle \in Range(plc'[d])
  BY <1>22, <1>p, GoFacts DEF DeleteRepo, repos, ghosts, At, Others, Kept, HandlePublished,
     Accepted, Exists, Under, Row
<1>23. ASSUME NEW r \in Req, DeleteRepoFails(r) PROVE accounts'[d].handle \in Range(plc'[d])
  BY <1>23, <1>p, EndFacts DEF DeleteRepoFails, repos, ghosts, At, Others, HandlePublished,
     Accepted, Exists, Under, Row
<1>24. ASSUME NEW r \in Req, DeleteRow(r) PROVE accounts'[d].handle \in Range(plc'[d])
  BY <1>24, <1>p, GoFacts DEF DeleteRow, repos, ghosts, At, Others, Kept, HandlePublished,
     Accepted, Exists, Under, Row
<1>25. ASSUME NEW r \in Req, EmitDeleted(r) PROVE accounts'[d].handle \in Range(plc'[d])
  BY <1>25, <1>p, EndFacts DEF EmitDeleted, repos, ghosts, At, Others, HandlePublished,
     Accepted, Exists, Under, Row
<1>26. ASSUME NEW r \in Req, Cut(r) PROVE accounts'[d].handle \in Range(plc'[d])
  BY <1>26, <1>p, EndFacts DEF Cut, repos, ghosts, At, Others, HandlePublished, Accepted,
     Exists, Under, Row
<1>27. ASSUME NEW c \in Did, Write(c) PROVE accounts'[d].handle \in Range(plc'[d])
  BY <1>27, <1>p DEF Write, repos, ghosts, HandlePublished, Accepted, Exists, Under, Row
<1>28. ASSUME NEW c \in Did, WriteRefused(c) PROVE accounts'[d].handle \in Range(plc'[d])
  BY <1>28, <1>p DEF WriteRefused, repos, ghosts, HandlePublished, Accepted, Exists, Under, Row
<1>29. CASE Restart
  BY <1>29, <1>p DEF Restart, repos, ghosts, HandlePublished, Accepted, Exists, Under, Row
<1>30. ASSUME NEW r \in Req, SignUp(r) PROVE accounts'[d].handle \in Range(plc'[d])
  BY <1>30, <1>1, <1>2, <1>3, <1>4, <1>5, <1>6, <1>7, <1>8, <1>9, <1>10, <1>11 DEF SignUp
<1>31. ASSUME NEW r \in Req, UpdateHandle(r) PROVE accounts'[d].handle \in Range(plc'[d])
  BY <1>31, <1>12, <1>13, <1>14, <1>15, <1>16, <1>17, <1>18 DEF UpdateHandle
<1>32. ASSUME NEW r \in Req, Status(r) \/ Delete(r) PROVE accounts'[d].handle \in Range(plc'[d])
  BY <1>32, <1>19, <1>20, <1>21, <1>22, <1>23, <1>24, <1>25 DEF Status, Delete
<1> QED
  BY <1>26, <1>27, <1>28, <1>29, <1>30, <1>31, <1>32 DEF Next

\* A request that conflicts with another disturbs its DID when it begins.
LEMMA NoConflictStep ==
  ASSUME TypeOK, Steps, Born, NoConflict, Next
  PROVE  NoConflict'
<1> USE AccountsAssumption, IdleFields
<1> SUFFICES ASSUME NEW d \in Did, d \notin disturbed', NEW p \in Req, NEW q \in Req, p # q,
                    req'[p].did = d, req'[q].did = d, Conflict(req'[p].kind, req'[q].kind)
             PROVE  FALSE
  BY DEF NoConflict
<1>p. d # None
  BY DEF Did
<1>1. ASSUME NEW r \in Req, BeginSignUp(r) PROVE FALSE
  BY <1>1, <1>p, StartFacts DEF BeginSignUp, repos, ghosts, At, Others, ToSignUp, NoConflict,
     Conflict, Crossed
<1>2. ASSUME NEW r \in Req, CreateDidWeb(r) PROVE FALSE
  BY <1>2, <1>p, InsertFacts, RequestFacts DEF CreateDidWeb, repos, ghosts, At, Others, Kept,
     NoConflict, Conflict, Crossed
<1>3. ASSUME NEW r \in Req, CreatePlc(r) PROVE FALSE
  <2>0. PICK c \in PlcDid : /\ plc[c] = <<>> /\ Insert(r, c)
                           /\ plc' = [plc EXCEPT ![c] = <<req[r].handle>>]
    BY <1>3 DEF CreatePlc
  <2>1. Others(r) /\ Kept(r) /\ req'[r].did = c /\ req'[r].at = "insert"
    BY <2>0, InsertFacts
  <2>2. /\ disturbed' = disturbed
        /\ At(r, "signUp", "identity")
    BY <1>3, <2>0 DEF CreatePlc, repos, ghosts
  <2>3. ~Exists(c) /\ \A s \in Req : req[s].did # c
    BY <2>0 DEF Born, NothingOf
  <2> QED
    BY <2>1, <2>2, <2>0, <1>p, <2>3 DEF At, Others, Kept, NoConflict, Conflict, Crossed
<1>4. ASSUME NEW r \in Req, InsertAccount(r) PROVE FALSE
  BY <1>4, <1>p, GoFacts DEF InsertAccount, repos, ghosts, At, Others, Kept, NoConflict,
     Conflict, Crossed
<1>5. ASSUME NEW r \in Req, InsertRefused(r) PROVE FALSE
  BY <1>5, <1>p, EndFacts DEF InsertRefused, repos, ghosts, At, Others, NoConflict, Conflict,
     Crossed
<1>6. ASSUME NEW r \in Req, CreateRepo(r) PROVE FALSE
  BY <1>6, <1>p, GoFacts DEF CreateRepo, repos, ghosts, At, Others, Kept, NoConflict, Conflict,
     Crossed
<1>7. ASSUME NEW r \in Req, CreateRepoFails(r) PROVE FALSE
  BY <1>7, <1>p, EndFacts DEF CreateRepoFails, repos, ghosts, At, Others, NoConflict, Conflict,
     Crossed
<1>8. ASSUME NEW r \in Req, CreateRepoRefused(r) PROVE FALSE
  BY <1>8, <1>p, EndFacts DEF CreateRepoRefused, repos, ghosts, At, Others, NoConflict,
     Conflict, Crossed
<1>9. ASSUME NEW r \in Req, MarkCode(r) PROVE FALSE
  BY <1>9, <1>p, GoFacts DEF MarkCode, repos, ghosts, At, Others, Kept, NoConflict, Conflict,
     Crossed
<1>10. ASSUME NEW r \in Req, MarkCodeFails(r) PROVE FALSE
  BY <1>10, <1>p, GoFacts DEF MarkCodeFails, repos, ghosts, At, Others, Kept, NoConflict,
     Conflict, Crossed
<1>11. ASSUME NEW r \in Req, MintSession(r) PROVE FALSE
  BY <1>11, <1>p, EndFacts DEF MintSession, repos, ghosts, At, Others, NoConflict, Conflict,
     Crossed
<1>12. ASSUME NEW r \in Req, BeginUpdateHandle(r) PROVE FALSE
  BY <1>12, <1>p, StartFacts DEF BeginUpdateHandle, repos, ghosts, At, Others, ToUpdateHandle,
     NoConflict, Conflict, Crossed
<1>13. ASSUME NEW r \in Req, Submit(r) PROVE FALSE
  BY <1>13, <1>p, GoFacts DEF Submit, repos, ghosts, At, Others, Kept, NoConflict, Conflict,
     Crossed
<1>14. ASSUME NEW r \in Req, SubmitRefused(r) PROVE FALSE
  BY <1>14, <1>p, EndFacts DEF SubmitRefused, repos, ghosts, At, Others, NoConflict, Conflict,
     Crossed
<1>15. ASSUME NEW r \in Req, SubmitAnswerLost(r) PROVE FALSE
  BY <1>15, <1>p, EndFacts DEF SubmitAnswerLost, repos, ghosts, At, Others, NoConflict,
     Conflict, Crossed
<1>16. ASSUME NEW r \in Req, UpdateRow(r) PROVE FALSE
  BY <1>16, <1>p, GoFacts DEF UpdateRow, repos, ghosts, At, Others, Kept, NoConflict, Conflict,
     Crossed
<1>17. ASSUME NEW r \in Req, UpdateRowRefused(r) PROVE FALSE
  BY <1>17, <1>p, EndFacts DEF UpdateRowRefused, repos, ghosts, At, Others, NoConflict,
     Conflict, Crossed
<1>18. ASSUME NEW r \in Req, EmitIdentity(r) PROVE FALSE
  BY <1>18, <1>p, EndFacts DEF EmitIdentity, repos, ghosts, At, Others, NoConflict, Conflict,
     Crossed
<1>19. ASSUME NEW r \in Req, SetActive(r) PROVE FALSE
  BY <1>19, <1>p, StartFacts DEF SetActive, repos, ghosts, At, Others, ToSetActive, NoConflict,
     Conflict, Crossed
<1>20. ASSUME NEW r \in Req, EmitAccount(r) PROVE FALSE
  BY <1>20, <1>p, EndFacts DEF EmitAccount, repos, ghosts, At, Others, NoConflict, Conflict,
     Crossed
<1>21. ASSUME NEW r \in Req, BeginDelete(r) PROVE FALSE
  BY <1>21, <1>p, StartFacts DEF BeginDelete, repos, ghosts, At, Others, ToDelete, NoConflict,
     Conflict, Crossed
<1>22. ASSUME NEW r \in Req, DeleteRepo(r) PROVE FALSE
  BY <1>22, <1>p, GoFacts DEF DeleteRepo, repos, ghosts, At, Others, Kept, NoConflict, Conflict,
     Crossed
<1>23. ASSUME NEW r \in Req, DeleteRepoFails(r) PROVE FALSE
  BY <1>23, <1>p, EndFacts DEF DeleteRepoFails, repos, ghosts, At, Others, NoConflict, Conflict,
     Crossed
<1>24. ASSUME NEW r \in Req, DeleteRow(r) PROVE FALSE
  BY <1>24, <1>p, GoFacts DEF DeleteRow, repos, ghosts, At, Others, Kept, NoConflict, Conflict,
     Crossed
<1>25. ASSUME NEW r \in Req, EmitDeleted(r) PROVE FALSE
  BY <1>25, <1>p, EndFacts DEF EmitDeleted, repos, ghosts, At, Others, NoConflict, Conflict,
     Crossed
<1>26. ASSUME NEW r \in Req, Cut(r) PROVE FALSE
  BY <1>26, <1>p, EndFacts DEF Cut, repos, ghosts, At, Others, NoConflict, Conflict, Crossed
<1>27. ASSUME NEW c \in Did, Write(c) PROVE FALSE
  BY <1>27, <1>p DEF Write, repos, ghosts, NoConflict, Conflict, Crossed
<1>28. ASSUME NEW c \in Did, WriteRefused(c) PROVE FALSE
  BY <1>28, <1>p DEF WriteRefused, repos, ghosts, NoConflict, Conflict, Crossed
<1>29. CASE Restart
  BY <1>29, <1>p DEF Restart, repos, ghosts, NoConflict, Conflict, Crossed
<1>30. ASSUME NEW r \in Req, SignUp(r) PROVE FALSE
  BY <1>30, <1>1, <1>2, <1>3, <1>4, <1>5, <1>6, <1>7, <1>8, <1>9, <1>10, <1>11 DEF SignUp
<1>31. ASSUME NEW r \in Req, UpdateHandle(r) PROVE FALSE
  BY <1>31, <1>12, <1>13, <1>14, <1>15, <1>16, <1>17, <1>18 DEF UpdateHandle
<1>32. ASSUME NEW r \in Req, Status(r) \/ Delete(r) PROVE FALSE
  BY <1>32, <1>19, <1>20, <1>21, <1>22, <1>23, <1>24, <1>25 DEF Status, Delete
<1> QED
  BY <1>26, <1>27, <1>28, <1>29, <1>30, <1>31, <1>32 DEF Next

\* The row comes and goes with the sign-up and the deletion alone.
LEMMA RowThereStep ==
  ASSUME TypeOK, Steps, Born, NoConflict, RowThere, Next
  PROVE  RowThere'
<1> USE AccountsAssumption, IdleFields
<1> SUFFICES ASSUME NEW d \in Did, d \notin disturbed', NEW q \in Req
             PROVE  RowFits(d, q)'
  BY DEF RowThere
<1>p. d # None
  BY DEF Did
<1>1. ASSUME NEW r \in Req, BeginSignUp(r) PROVE RowFits(d, q)'
  BY <1>1, <1>p, StartFacts DEF BeginSignUp, repos, ghosts, At, Others, ToSignUp, RowThere,
     RowFits, Under, Exists, NoConflict, Conflict, Crossed, Late
<1>2. ASSUME NEW r \in Req, CreateDidWeb(r) PROVE RowFits(d, q)'
  BY <1>2, <1>p, InsertFacts, RequestFacts DEF CreateDidWeb, repos, ghosts, At, Others, Kept,
     RowThere, RowFits, Under, Exists, NoConflict, Conflict, Crossed, Late
<1>3. ASSUME NEW r \in Req, CreatePlc(r) PROVE RowFits(d, q)'
  <2>0. PICK c \in PlcDid : /\ plc[c] = <<>> /\ Insert(r, c)
                           /\ plc' = [plc EXCEPT ![c] = <<req[r].handle>>]
    BY <1>3 DEF CreatePlc
  <2>1. Others(r) /\ Kept(r) /\ req'[r].did = c /\ req'[r].at = "insert"
    BY <2>0, InsertFacts
  <2>2. /\ UNCHANGED <<accounts, disturbed>>
        /\ At(r, "signUp", "identity")
    BY <1>3, <2>0 DEF CreatePlc, repos, ghosts
  <2>3. ~Exists(c) /\ \A s \in Req : req[s].did # c
    BY <2>0 DEF Born, NothingOf
  <2> QED
    BY <2>1, <2>2, <2>0, <1>p, <2>3 DEF At, Others, Kept, RowThere, RowFits, Under, Exists,
       NoConflict, Conflict, Crossed, Late
<1>4. ASSUME NEW r \in Req, InsertAccount(r) PROVE RowFits(d, q)'
  <2>1. Others(r) /\ Kept(r) /\ req'[r].did = req[r].did /\ req'[r].at = "repo"
    BY <1>4, GoFacts DEF InsertAccount
  <2>2. /\ accounts' = [accounts EXCEPT ![req[r].did] = [handle |-> req[r].handle, active |-> TRUE]]
        /\ disturbed' = disturbed
        /\ At(r, "signUp", "insert")
        /\ ~Exists(req[r].did)
    BY <1>4 DEF InsertAccount, repos, ghosts
  <2>3. accounts'[req[r].did] # None /\ \A e \in Did \ {req[r].did} : Exists(e)' = Exists(e)
    <3>1. req[r].did \in Did /\ req[r].handle \in Handle
      BY <2>2, RequestFacts DEF At
    <3>2. [handle |-> req[r].handle, active |-> TRUE] \in Row
      BY <3>1 DEF Row
    <3>3. accounts \in [Did -> {None} \cup Row]
      BY DEF TypeOK
    <3> QED
      BY <2>2, <3>1, <3>2, <3>3 DEF Exists
  <2> QED
    BY <2>1, <2>2, <1>p, <2>3, Alone DEF At, Others, Kept, RowThere, RowFits, Under, Exists,
       NoConflict, Conflict, Crossed, Late
<1>5. ASSUME NEW r \in Req, InsertRefused(r) PROVE RowFits(d, q)'
  BY <1>5, <1>p, EndFacts DEF InsertRefused, repos, ghosts, At, Others, RowThere, RowFits,
     Under, Exists, NoConflict, Conflict, Crossed, Late
<1>6. ASSUME NEW r \in Req, CreateRepo(r) PROVE RowFits(d, q)'
  BY <1>6, <1>p, GoFacts DEF CreateRepo, repos, ghosts, At, Others, Kept, RowThere, RowFits,
     Under, Exists, NoConflict, Conflict, Crossed, Late
<1>7. ASSUME NEW r \in Req, CreateRepoFails(r) PROVE RowFits(d, q)'
  BY <1>7, <1>p, EndFacts DEF CreateRepoFails, repos, ghosts, At, Others, RowThere, RowFits,
     Under, Exists, NoConflict, Conflict, Crossed, Late
<1>8. ASSUME NEW r \in Req, CreateRepoRefused(r) PROVE RowFits(d, q)'
  BY <1>8, <1>p, EndFacts DEF CreateRepoRefused, repos, ghosts, At, Others, RowThere, RowFits,
     Under, Exists, NoConflict, Conflict, Crossed, Late
<1>9. ASSUME NEW r \in Req, MarkCode(r) PROVE RowFits(d, q)'
  BY <1>9, <1>p, GoFacts DEF MarkCode, repos, ghosts, At, Others, Kept, RowThere, RowFits,
     Under, Exists, NoConflict, Conflict, Crossed, Late
<1>10. ASSUME NEW r \in Req, MarkCodeFails(r) PROVE RowFits(d, q)'
  BY <1>10, <1>p, GoFacts DEF MarkCodeFails, repos, ghosts, At, Others, Kept, RowThere, RowFits,
     Under, Exists, NoConflict, Conflict, Crossed, Late
<1>11. ASSUME NEW r \in Req, MintSession(r) PROVE RowFits(d, q)'
  BY <1>11, <1>p, EndFacts DEF MintSession, repos, ghosts, At, Others, RowThere, RowFits, Under,
     Exists, NoConflict, Conflict, Crossed, Late
<1>12. ASSUME NEW r \in Req, BeginUpdateHandle(r) PROVE RowFits(d, q)'
  BY <1>12, <1>p, StartFacts DEF BeginUpdateHandle, repos, ghosts, At, Others, ToUpdateHandle,
     RowThere, RowFits, Under, Exists, NoConflict, Conflict, Crossed, Late
<1>13. ASSUME NEW r \in Req, Submit(r) PROVE RowFits(d, q)'
  BY <1>13, <1>p, GoFacts DEF Submit, repos, ghosts, At, Others, Kept, RowThere, RowFits, Under,
     Exists, NoConflict, Conflict, Crossed, Late
<1>14. ASSUME NEW r \in Req, SubmitRefused(r) PROVE RowFits(d, q)'
  BY <1>14, <1>p, EndFacts DEF SubmitRefused, repos, ghosts, At, Others, RowThere, RowFits,
     Under, Exists, NoConflict, Conflict, Crossed, Late
<1>15. ASSUME NEW r \in Req, SubmitAnswerLost(r) PROVE RowFits(d, q)'
  BY <1>15, <1>p, EndFacts DEF SubmitAnswerLost, repos, ghosts, At, Others, RowThere, RowFits,
     Under, Exists, NoConflict, Conflict, Crossed, Late
<1>16. ASSUME NEW r \in Req, UpdateRow(r) PROVE RowFits(d, q)'
  <2>1. Others(r) /\ Kept(r) /\ req'[r].did = req[r].did /\ req'[r].at = "event"
    BY <1>16, GoFacts DEF UpdateRow
  <2>2. /\ accounts' = IF Exists(req[r].did) THEN [accounts EXCEPT ![req[r].did].handle = req[r].handle] ELSE accounts
        /\ disturbed' = disturbed
        /\ At(r, "handle", "update")
    BY <1>16 DEF UpdateRow, repos, ghosts
  <2>3. \A e \in Did : Exists(e)' = Exists(e)
    <3>1. req[r].did \in Did /\ req[r].handle \in Handle
      BY <2>2, RequestFacts DEF At
    <3> QED
      BY <2>2, <3>1, RowKept DEF Exists, TypeOK
  <2> QED
    BY <2>1, <2>2, <1>p, <2>3 DEF At, Others, Kept, RowThere, RowFits, Under, Exists,
       NoConflict, Conflict, Crossed, Late
<1>17. ASSUME NEW r \in Req, UpdateRowRefused(r) PROVE RowFits(d, q)'
  BY <1>17, <1>p, EndFacts DEF UpdateRowRefused, repos, ghosts, At, Others, RowThere, RowFits,
     Under, Exists, NoConflict, Conflict, Crossed, Late
<1>18. ASSUME NEW r \in Req, EmitIdentity(r) PROVE RowFits(d, q)'
  BY <1>18, <1>p, EndFacts DEF EmitIdentity, repos, ghosts, At, Others, RowThere, RowFits,
     Under, Exists, NoConflict, Conflict, Crossed, Late
<1>19. ASSUME NEW r \in Req, SetActive(r) PROVE RowFits(d, q)'
  <2>0. PICK c \in Did, on \in BOOLEAN : SetActive(r)!(c,on)
    BY <1>19 DEF SetActive
  <2>1. Others(r) /\ req[r] = Idle /\ req'[r].kind = "status" /\ req'[r].at = "event" /\ req'[r].did = c /\ req'[r].code = None
    BY <2>0, StartFacts DEF ToSetActive
  <2>2. /\ accounts' = IF Exists(c) THEN [accounts EXCEPT ![c].active = on] ELSE accounts
        /\ disturbed' = disturbed \cup Crossed("status", c) \cup Late(c)
        /\ MayAct(c)
    BY <1>19, <2>0 DEF SetActive, repos, ghosts
  <2>3. \A e \in Did : Exists(e)' = Exists(e)
    BY <2>0, <2>2, RowKept DEF Exists, TypeOK
  <2> QED
    BY <2>1, <2>2, <1>p, <2>3 DEF At, Others, RowThere, RowFits, Under, Exists, NoConflict,
       Conflict, Crossed, Late
<1>20. ASSUME NEW r \in Req, EmitAccount(r) PROVE RowFits(d, q)'
  BY <1>20, <1>p, EndFacts DEF EmitAccount, repos, ghosts, At, Others, RowThere, RowFits, Under,
     Exists, NoConflict, Conflict, Crossed, Late
<1>21. ASSUME NEW r \in Req, BeginDelete(r) PROVE RowFits(d, q)'
  BY <1>21, <1>p, StartFacts DEF BeginDelete, repos, ghosts, At, Others, ToDelete, RowThere,
     RowFits, Under, Exists, NoConflict, Conflict, Crossed, Late
<1>22. ASSUME NEW r \in Req, DeleteRepo(r) PROVE RowFits(d, q)'
  BY <1>22, <1>p, GoFacts DEF DeleteRepo, repos, ghosts, At, Others, Kept, RowThere, RowFits,
     Under, Exists, NoConflict, Conflict, Crossed, Late
<1>23. ASSUME NEW r \in Req, DeleteRepoFails(r) PROVE RowFits(d, q)'
  BY <1>23, <1>p, EndFacts DEF DeleteRepoFails, repos, ghosts, At, Others, RowThere, RowFits,
     Under, Exists, NoConflict, Conflict, Crossed, Late
<1>24. ASSUME NEW r \in Req, DeleteRow(r) PROVE RowFits(d, q)'
  <2>1. Others(r) /\ Kept(r) /\ req'[r].did = req[r].did /\ req'[r].at = "event"
    BY <1>24, GoFacts DEF DeleteRow
  <2>2. /\ accounts' = [accounts EXCEPT ![req[r].did] = None]
        /\ disturbed' = disturbed
        /\ At(r, "delete", "row")
    BY <1>24 DEF DeleteRow, repos, ghosts
  <2>3. accounts'[req[r].did] = None /\ \A e \in Did \ {req[r].did} : Exists(e)' = Exists(e)
    <3>1. req[r].did \in Did
      BY <2>2, RequestFacts DEF At
    <3>2. accounts \in [Did -> {None} \cup Row]
      BY DEF TypeOK
    <3> QED
      BY <2>2, <3>1, <3>2 DEF Exists
  <2> QED
    BY <2>1, <2>2, <1>p, <2>3, Alone DEF At, Others, Kept, RowThere, RowFits, Under, Exists,
       NoConflict, Conflict, Crossed, Late
<1>25. ASSUME NEW r \in Req, EmitDeleted(r) PROVE RowFits(d, q)'
  BY <1>25, <1>p, EndFacts DEF EmitDeleted, repos, ghosts, At, Others, RowThere, RowFits, Under,
     Exists, NoConflict, Conflict, Crossed, Late
<1>26. ASSUME NEW r \in Req, Cut(r) PROVE RowFits(d, q)'
  BY <1>26, <1>p, EndFacts DEF Cut, repos, ghosts, At, Others, RowThere, RowFits, Under, Exists,
     NoConflict, Conflict, Crossed, Late
<1>27. ASSUME NEW c \in Did, Write(c) PROVE RowFits(d, q)'
  BY <1>27, <1>p DEF Write, repos, ghosts, RowThere, RowFits, Under, Exists, NoConflict,
     Conflict, Crossed, Late
<1>28. ASSUME NEW c \in Did, WriteRefused(c) PROVE RowFits(d, q)'
  BY <1>28, <1>p DEF WriteRefused, repos, ghosts, RowThere, RowFits, Under, Exists, NoConflict,
     Conflict, Crossed, Late
<1>29. CASE Restart
  BY <1>29, <1>p DEF Restart, repos, ghosts, RowThere, RowFits, Under, Exists, NoConflict,
     Conflict, Crossed, Late
<1>30. ASSUME NEW r \in Req, SignUp(r) PROVE RowFits(d, q)'
  BY <1>30, <1>1, <1>2, <1>3, <1>4, <1>5, <1>6, <1>7, <1>8, <1>9, <1>10, <1>11 DEF SignUp
<1>31. ASSUME NEW r \in Req, UpdateHandle(r) PROVE RowFits(d, q)'
  BY <1>31, <1>12, <1>13, <1>14, <1>15, <1>16, <1>17, <1>18 DEF UpdateHandle
<1>32. ASSUME NEW r \in Req, Status(r) \/ Delete(r) PROVE RowFits(d, q)'
  BY <1>32, <1>19, <1>20, <1>21, <1>22, <1>23, <1>24, <1>25 DEF Status, Delete
<1> QED
  BY <1>26, <1>27, <1>28, <1>29, <1>30, <1>31, <1>32 DEF Next

\* The repository is bare or the account's own after every step.
LEMMA OwnRepoStep ==
  ASSUME TypeOK, Steps, Born, NoConflict, RowThere, OwnRepo, Next
  PROVE  OwnRepo'
<1> USE AccountsAssumption, IdleFields
<1> SUFFICES ASSUME NEW d \in Did, d \notin disturbed'
             PROVE  RepoFits(d)'
  BY DEF OwnRepo
<1>p. d # None
  BY DEF Did
<1>1. ASSUME NEW r \in Req, BeginSignUp(r) PROVE RepoFits(d)'
  BY <1>1, <1>p, StartFacts DEF BeginSignUp, repos, ghosts, At, Others, ToSignUp, OwnRepo,
     RepoFits, Bare, NoRecords, OwnRecords, Under, Exists
<1>2. ASSUME NEW r \in Req, CreateDidWeb(r) PROVE RepoFits(d)'
  BY <1>2, <1>p, InsertFacts, RequestFacts DEF CreateDidWeb, repos, ghosts, At, Others, Kept,
     OwnRepo, RepoFits, Bare, NoRecords, OwnRecords, Under, Exists
<1>3. ASSUME NEW r \in Req, CreatePlc(r) PROVE RepoFits(d)'
  <2>0. PICK c \in PlcDid : /\ plc[c] = <<>> /\ Insert(r, c)
                           /\ plc' = [plc EXCEPT ![c] = <<req[r].handle>>]
    BY <1>3 DEF CreatePlc
  <2>1. Others(r) /\ Kept(r) /\ req'[r].did = c /\ req'[r].at = "insert"
    BY <2>0, InsertFacts
  <2>2. /\ UNCHANGED <<accounts, disturbed, head, index, cache, life>>
        /\ At(r, "signUp", "identity")
    BY <1>3, <2>0 DEF CreatePlc, repos, ghosts
  <2>3. ~Exists(c) /\ \A s \in Req : req[s].did # c
    BY <2>0 DEF Born, NothingOf
  <2> QED
    BY <2>1, <2>2, <2>0, <1>p, <2>3 DEF At, Others, Kept, OwnRepo, RepoFits, Bare, NoRecords,
       OwnRecords, Under, Exists
<1>4. ASSUME NEW r \in Req, InsertAccount(r) PROVE RepoFits(d)'
  <2>1. Others(r) /\ Kept(r) /\ req'[r].did = req[r].did /\ req'[r].at = "repo"
    BY <1>4, GoFacts DEF InsertAccount
  <2>2. /\ UNCHANGED <<disturbed, head, index, cache>>
        /\ accounts' = [accounts EXCEPT ![req[r].did] = [handle |-> req[r].handle, active |-> TRUE]]
        /\ life' = [life EXCEPT ![req[r].did] = @ + 1]
        /\ At(r, "signUp", "insert")
        /\ ~Exists(req[r].did)
    BY <1>4 DEF InsertAccount, repos, ghosts
  <2>3. accounts'[req[r].did] # None /\ \A e \in Did \ {req[r].did} : Exists(e)' = Exists(e)
    <3>1. req[r].did \in Did /\ req[r].handle \in Handle
      BY <2>2, RequestFacts DEF At
    <3>2. [handle |-> req[r].handle, active |-> TRUE] \in Row
      BY <3>1 DEF Row
    <3>3. accounts \in [Did -> {None} \cup Row]
      BY DEF TypeOK
    <3> QED
      BY <2>2, <3>1, <3>2, <3>3 DEF Exists
  <2> QED
    BY <2>1, <2>2, <1>p, <2>3, Alone DEF At, Others, Kept, OwnRepo, RepoFits, Bare, NoRecords,
       OwnRecords, Under, Exists
<1>5. ASSUME NEW r \in Req, InsertRefused(r) PROVE RepoFits(d)'
  BY <1>5, <1>p, EndFacts DEF InsertRefused, repos, ghosts, At, Others, OwnRepo, RepoFits, Bare,
     NoRecords, OwnRecords, Under, Exists
<1>6. ASSUME NEW r \in Req, CreateRepo(r) PROVE RepoFits(d)'
  <2>1. Others(r) /\ Kept(r) /\ req'[r].did = req[r].did /\ req'[r].at = (IF req[r].code = None THEN "session" ELSE "code")
    BY <1>6, GoFacts DEF CreateRepo
  <2>2. /\ UNCHANGED <<accounts, disturbed, index, life>>
        /\ head' = [head EXCEPT ![req[r].did] = RepoOf(Opened(req[r].did))]
        /\ cache' = [cache EXCEPT ![req[r].did] = RepoOf(Opened(req[r].did))]
        /\ At(r, "signUp", "repo")
        /\ Exists(req[r].did)
    BY <1>6 DEF CreateRepo, repos, ghosts
  <2>4. DOMAIN head = Did /\ DOMAIN index = Did /\ DOMAIN cache = Did
    BY DEF TypeOK
  <2>5. CASE d = req[r].did
    <3>1. Bare(d) /\ NoRecords(d)
      BY <2>2, <2>5 DEF At, Under, Bare, OwnRepo, RepoFits
    <3>2. Opened(d) = {}
      BY <3>1 DEF Opened, NoRecords, NoRepo
    <3>3. ~Bare(d)'
      BY <2>1, <2>2, <2>5, Alone DEF At, Others, Under, Bare, Exists
    <3>4. OwnRecords(d)'
      BY <2>2, <2>4, <2>5, <3>1, <3>2 DEF NoRecords, OwnRecords
    <3> QED
      BY <3>3, <3>4 DEF RepoFits
  <2>6. CASE d # req[r].did
    BY <2>1, <2>2, <2>4, <2>6 DEF Others, OwnRepo, RepoFits, Bare, NoRecords, OwnRecords, Under,
       Exists
  <2> QED
    BY <2>5, <2>6
<1>7. ASSUME NEW r \in Req, CreateRepoFails(r) PROVE RepoFits(d)'
  <2>1. Others(r) /\ req'[r] = Idle
    BY <1>7, EndFacts DEF CreateRepoFails
  <2>2. /\ UNCHANGED <<accounts, index, life>>
        /\ disturbed' = disturbed \cup {req[r].did}
        /\ head' = head \/ head' = [head EXCEPT ![req[r].did] = RepoOf(Opened(req[r].did))]
        /\ cache' = [cache EXCEPT ![req[r].did] = RepoOf(Opened(req[r].did))]
        /\ At(r, "signUp", "repo")
        /\ Exists(req[r].did)
    BY <1>7 DEF CreateRepoFails, repos, ghosts
  <2>4. DOMAIN head = Did /\ DOMAIN index = Did /\ DOMAIN cache = Did
    BY DEF TypeOK
  <2>5. d # req[r].did
    BY <2>2
  <2>6. head'[d] = head[d] /\ index'[d] = index[d] /\ cache'[d] = cache[d]
    BY <2>2, <2>4, <2>5
  <2> QED
    BY <2>1, <2>2, <2>5, <2>6, <1>p DEF Others, OwnRepo, RepoFits, Bare, NoRecords, OwnRecords,
       Under, Exists
<1>8. ASSUME NEW r \in Req, CreateRepoRefused(r) PROVE RepoFits(d)'
  <2>1. Others(r) /\ req'[r] = Idle
    BY <1>8, EndFacts DEF CreateRepoRefused
  <2>2. /\ UNCHANGED <<accounts, disturbed, head, index, life>>
        /\ cache' = [cache EXCEPT ![req[r].did] = RepoOf(Opened(req[r].did))]
        /\ At(r, "signUp", "repo")
        /\ ~Exists(req[r].did)
    BY <1>8 DEF CreateRepoRefused, repos, ghosts
  <2>4. DOMAIN head = Did /\ DOMAIN index = Did /\ DOMAIN cache = Did
    BY DEF TypeOK
  <2>5. d # req[r].did
    BY <2>2 DEF At, RowThere, RowFits, Under
  <2> QED
    BY <2>1, <2>2, <2>4, <2>5, <1>p DEF Others, OwnRepo, RepoFits, Bare, NoRecords, OwnRecords,
       Under, Exists
<1>9. ASSUME NEW r \in Req, MarkCode(r) PROVE RepoFits(d)'
  BY <1>9, <1>p, GoFacts DEF MarkCode, repos, ghosts, At, Others, Kept, OwnRepo, RepoFits, Bare,
     NoRecords, OwnRecords, Under, Exists
<1>10. ASSUME NEW r \in Req, MarkCodeFails(r) PROVE RepoFits(d)'
  BY <1>10, <1>p, GoFacts DEF MarkCodeFails, repos, ghosts, At, Others, Kept, OwnRepo, RepoFits,
     Bare, NoRecords, OwnRecords, Under, Exists
<1>11. ASSUME NEW r \in Req, MintSession(r) PROVE RepoFits(d)'
  BY <1>11, <1>p, EndFacts DEF MintSession, repos, ghosts, At, Others, OwnRepo, RepoFits, Bare,
     NoRecords, OwnRecords, Under, Exists
<1>12. ASSUME NEW r \in Req, BeginUpdateHandle(r) PROVE RepoFits(d)'
  BY <1>12, <1>p, StartFacts DEF BeginUpdateHandle, repos, ghosts, At, Others, ToUpdateHandle,
     OwnRepo, RepoFits, Bare, NoRecords, OwnRecords, Under, Exists
<1>13. ASSUME NEW r \in Req, Submit(r) PROVE RepoFits(d)'
  BY <1>13, <1>p, GoFacts DEF Submit, repos, ghosts, At, Others, Kept, OwnRepo, RepoFits, Bare,
     NoRecords, OwnRecords, Under, Exists
<1>14. ASSUME NEW r \in Req, SubmitRefused(r) PROVE RepoFits(d)'
  BY <1>14, <1>p, EndFacts DEF SubmitRefused, repos, ghosts, At, Others, OwnRepo, RepoFits,
     Bare, NoRecords, OwnRecords, Under, Exists
<1>15. ASSUME NEW r \in Req, SubmitAnswerLost(r) PROVE RepoFits(d)'
  BY <1>15, <1>p, EndFacts DEF SubmitAnswerLost, repos, ghosts, At, Others, OwnRepo, RepoFits,
     Bare, NoRecords, OwnRecords, Under, Exists
<1>16. ASSUME NEW r \in Req, UpdateRow(r) PROVE RepoFits(d)'
  <2>1. Others(r) /\ Kept(r) /\ req'[r].did = req[r].did /\ req'[r].at = "event"
    BY <1>16, GoFacts DEF UpdateRow
  <2>2. /\ UNCHANGED <<disturbed, head, index, cache, life>>
        /\ accounts' = IF Exists(req[r].did) THEN [accounts EXCEPT ![req[r].did].handle = req[r].handle] ELSE accounts
        /\ At(r, "handle", "update")
    BY <1>16 DEF UpdateRow, repos, ghosts
  <2>3. \A e \in Did : Exists(e)' = Exists(e)
    <3>1. req[r].did \in Did /\ req[r].handle \in Handle
      BY <2>2, RequestFacts DEF At
    <3> QED
      BY <2>2, <3>1, RowKept DEF Exists, TypeOK
  <2> QED
    BY <2>1, <2>2, <1>p, <2>3 DEF At, Others, Kept, OwnRepo, RepoFits, Bare, NoRecords,
       OwnRecords, Under, Exists
<1>17. ASSUME NEW r \in Req, UpdateRowRefused(r) PROVE RepoFits(d)'
  BY <1>17, <1>p, EndFacts DEF UpdateRowRefused, repos, ghosts, At, Others, OwnRepo, RepoFits,
     Bare, NoRecords, OwnRecords, Under, Exists
<1>18. ASSUME NEW r \in Req, EmitIdentity(r) PROVE RepoFits(d)'
  BY <1>18, <1>p, EndFacts DEF EmitIdentity, repos, ghosts, At, Others, OwnRepo, RepoFits, Bare,
     NoRecords, OwnRecords, Under, Exists
<1>19. ASSUME NEW r \in Req, SetActive(r) PROVE RepoFits(d)'
  <2>0. PICK c \in Did, on \in BOOLEAN : SetActive(r)!(c,on)
    BY <1>19 DEF SetActive
  <2>1. Others(r) /\ req[r] = Idle /\ req'[r].kind = "status" /\ req'[r].at = "event" /\ req'[r].did = c /\ req'[r].code = None
    BY <2>0, StartFacts DEF ToSetActive
  <2>2. /\ UNCHANGED <<head, index, cache, life>>
        /\ accounts' = IF Exists(c) THEN [accounts EXCEPT ![c].active = on] ELSE accounts
        /\ disturbed' = disturbed \cup Crossed("status", c) \cup Late(c)
        /\ MayAct(c)
    BY <1>19, <2>0 DEF SetActive, repos, ghosts
  <2>3. \A e \in Did : Exists(e)' = Exists(e)
    BY <2>0, <2>2, RowKept DEF Exists, TypeOK
  <2> QED
    BY <2>1, <2>2, <1>p, <2>3 DEF At, Others, OwnRepo, RepoFits, Bare, NoRecords, OwnRecords,
       Under, Exists
<1>20. ASSUME NEW r \in Req, EmitAccount(r) PROVE RepoFits(d)'
  BY <1>20, <1>p, EndFacts DEF EmitAccount, repos, ghosts, At, Others, OwnRepo, RepoFits, Bare,
     NoRecords, OwnRecords, Under, Exists
<1>21. ASSUME NEW r \in Req, BeginDelete(r) PROVE RepoFits(d)'
  BY <1>21, <1>p, StartFacts DEF BeginDelete, repos, ghosts, At, Others, ToDelete, OwnRepo,
     RepoFits, Bare, NoRecords, OwnRecords, Under, Exists
<1>22. ASSUME NEW r \in Req, DeleteRepo(r) PROVE RepoFits(d)'
  <2>1. Others(r) /\ Kept(r) /\ req'[r].did = req[r].did /\ req'[r].at = "row"
    BY <1>22, GoFacts DEF DeleteRepo
  <2>2. /\ UNCHANGED <<accounts, disturbed, life>>
        /\ head' = [head EXCEPT ![req[r].did] = NoRepo]
        /\ index' = [index EXCEPT ![req[r].did] = {}]
        /\ cache' = [cache EXCEPT ![req[r].did] = NoRepo]
        /\ At(r, "delete", "repo")
    BY <1>22 DEF DeleteRepo, repos, ghosts
  <2>4. DOMAIN head = Did /\ DOMAIN index = Did /\ DOMAIN cache = Did
    BY DEF TypeOK
  <2>5. CASE d = req[r].did
    <3>1. Bare(d)'
      BY <2>1, <2>2, <2>5 DEF At, Kept, Under, Bare
    <3>2. NoRecords(d)'
      BY <2>2, <2>4, <2>5 DEF NoRecords
    <3> QED
      BY <3>1, <3>2 DEF RepoFits
  <2>6. CASE d # req[r].did
    BY <2>1, <2>2, <2>4, <2>6 DEF Others, OwnRepo, RepoFits, Bare, NoRecords, OwnRecords, Under,
       Exists
  <2> QED
    BY <2>5, <2>6
<1>23. ASSUME NEW r \in Req, DeleteRepoFails(r) PROVE RepoFits(d)'
  <2>1. Others(r) /\ req'[r] = Idle
    BY <1>23, EndFacts DEF DeleteRepoFails
  <2>2. /\ UNCHANGED <<accounts, life>>
        /\ disturbed' = disturbed \cup {req[r].did}
        /\ head' = head \/ head' = [head EXCEPT ![req[r].did] = NoRepo]
        /\ index' = index \/ index' = [index EXCEPT ![req[r].did] = {}]
        /\ cache' = [cache EXCEPT ![req[r].did] = NoRepo]
        /\ At(r, "delete", "repo")
    BY <1>23 DEF DeleteRepoFails, repos, ghosts
  <2>4. DOMAIN head = Did /\ DOMAIN index = Did /\ DOMAIN cache = Did
    BY DEF TypeOK
  <2>5. d # req[r].did
    BY <2>2
  <2>6. head'[d] = head[d] /\ index'[d] = index[d] /\ cache'[d] = cache[d]
    BY <2>2, <2>4, <2>5
  <2> QED
    BY <2>1, <2>2, <2>5, <2>6, <1>p DEF Others, OwnRepo, RepoFits, Bare, NoRecords, OwnRecords,
       Under, Exists
<1>24. ASSUME NEW r \in Req, DeleteRow(r) PROVE RepoFits(d)'
  <2>1. Others(r) /\ Kept(r) /\ req'[r].did = req[r].did /\ req'[r].at = "event"
    BY <1>24, GoFacts DEF DeleteRow
  <2>2. /\ UNCHANGED <<disturbed, head, index, cache, life>>
        /\ accounts' = [accounts EXCEPT ![req[r].did] = None]
        /\ At(r, "delete", "row")
    BY <1>24 DEF DeleteRow, repos, ghosts
  <2>3. accounts'[req[r].did] = None /\ \A e \in Did \ {req[r].did} : Exists(e)' = Exists(e)
    <3>1. req[r].did \in Did
      BY <2>2, RequestFacts DEF At
    <3>2. accounts \in [Did -> {None} \cup Row]
      BY DEF TypeOK
    <3> QED
      BY <2>2, <3>1, <3>2 DEF Exists
  <2> QED
    BY <2>1, <2>2, <1>p, <2>3, Alone DEF At, Others, Kept, OwnRepo, RepoFits, Bare, NoRecords,
       OwnRecords, Under, Exists
<1>25. ASSUME NEW r \in Req, EmitDeleted(r) PROVE RepoFits(d)'
  BY <1>25, <1>p, EndFacts DEF EmitDeleted, repos, ghosts, At, Others, OwnRepo, RepoFits, Bare,
     NoRecords, OwnRecords, Under, Exists
<1>26. ASSUME NEW r \in Req, Cut(r) PROVE RepoFits(d)'
  <2>1. Others(r) /\ req'[r] = Idle
    BY <1>26, EndFacts DEF Cut
  <2>2. /\ UNCHANGED <<accounts, head, index, cache, life>>
        /\ disturbed' = IF Untouched(req[r]) THEN disturbed ELSE disturbed \cup {req[r].did}
        /\ req[r] # Idle
    BY <1>26 DEF Cut, repos, ghosts
  <2>3. d \notin disturbed /\ (req[r].did = d => Untouched(req[r]))
    BY <2>2
  <2>4. Bare(d)' = Bare(d)
    BY <2>1, <2>2, <2>3, <1>p DEF Others, Untouched, Bare, Under, Exists
  <2> QED
    BY <2>2, <2>3, <2>4 DEF OwnRepo, RepoFits, NoRecords, OwnRecords
<1>27. ASSUME NEW c \in Did, Write(c) PROVE RepoFits(d)'
  <2>1. /\ UNCHANGED <<accounts, life>>
        /\ disturbed' = disturbed \cup Crossed("write", c)
        /\ head' = [head EXCEPT ![c] = RepoOf(Opened(c) \cup {life[c]})]
        /\ index' = [index EXCEPT ![c] = @ \cup {life[c]}]
        /\ cache' = [cache EXCEPT ![c] = RepoOf(Opened(c) \cup {life[c]})]
        /\ req' = req
        /\ Exists(c)
    BY <1>27 DEF Write, repos, ghosts
  <2>2. DOMAIN head = Did /\ DOMAIN index = Did /\ DOMAIN cache = Did
    BY DEF TypeOK
  <2>3. CASE d = c
    <3>1. \A q \in Req : req[q].did = d => ~Conflict(req[q].kind, "write")
      BY <2>1, <2>3 DEF Crossed
    <3>2. ~Bare(d) /\ ~Bare(d)'
      BY <2>1, <2>3, <3>1 DEF Bare, Under, Conflict, Exists
    <3>3. OwnRecords(d)
      BY <2>1, <3>2 DEF OwnRepo, RepoFits
    <3>4. Opened(d) = index[d]
      BY <3>3 DEF Opened, OwnRecords, NoRepo, RepoOf
    <3>5. OwnRecords(d)'
      BY <2>1, <2>2, <2>3, <3>3, <3>4 DEF OwnRecords
    <3> QED
      BY <3>2, <3>5 DEF RepoFits
  <2>4. CASE d # c
    BY <2>1, <2>2, <2>4 DEF OwnRepo, RepoFits, Bare, NoRecords, OwnRecords, Under, Exists
  <2> QED
    BY <2>3, <2>4
<1>28. ASSUME NEW c \in Did, WriteRefused(c) PROVE RepoFits(d)'
  BY <1>28, <1>p DEF WriteRefused, repos, ghosts, OwnRepo, RepoFits, Bare, NoRecords,
     OwnRecords, Under, Exists
<1>29. CASE Restart
  <2>1. /\ UNCHANGED <<accounts, head, index, life>>
        /\ disturbed' = disturbed \cup {req[r].did : r \in {q \in Req : ~Untouched(req[q])}}
        /\ cache' = [e \in Did |-> NoRepo]
        /\ (\A q \in Req : req'[q] = Idle)
    BY <1>29 DEF Restart, repos, ghosts
  <2>2. d \notin disturbed /\ \A q \in Req : req[q].did = d => Untouched(req[q])
    BY <2>1
  <2>3. Bare(d)' = Bare(d)
    BY <2>1, <2>2, <1>p DEF Untouched, Bare, Under, Exists
  <2> QED
    BY <2>1, <2>2, <2>3 DEF OwnRepo, RepoFits, NoRecords, OwnRecords
<1>30. ASSUME NEW r \in Req, SignUp(r) PROVE RepoFits(d)'
  BY <1>30, <1>1, <1>2, <1>3, <1>4, <1>5, <1>6, <1>7, <1>8, <1>9, <1>10, <1>11 DEF SignUp
<1>31. ASSUME NEW r \in Req, UpdateHandle(r) PROVE RepoFits(d)'
  BY <1>31, <1>12, <1>13, <1>14, <1>15, <1>16, <1>17, <1>18 DEF UpdateHandle
<1>32. ASSUME NEW r \in Req, Status(r) \/ Delete(r) PROVE RepoFits(d)'
  BY <1>32, <1>19, <1>20, <1>21, <1>22, <1>23, <1>24, <1>25 DEF Status, Delete
<1> QED
  BY <1>26, <1>27, <1>28, <1>29, <1>30, <1>31, <1>32 DEF Next

\* A code that was used is marked, or about to be.
LEMMA CodeStep ==
  ASSUME TypeOK, Steps, CodeUnused, Next
  PROVE  CodeUnused'
<1> USE AccountsAssumption, IdleFields
<1> SUFFICES ASSUME NEW x \in Code, x \notin spoiled'
             PROVE  CodeFits(x)'
  BY DEF CodeUnused
<1>p. /\ x # None
      /\ \A q \in Req : req[q].code # None => req[q].kind = "signUp"
  BY DEF Steps, Proper
<1>1. ASSUME NEW r \in Req, BeginSignUp(r) PROVE CodeFits(x)'
  BY <1>1, <1>p, StartFacts DEF BeginSignUp, repos, ghosts, At, Others, ToSignUp, CodeUnused,
     CodeFits
<1>2. ASSUME NEW r \in Req, CreateDidWeb(r) PROVE CodeFits(x)'
  BY <1>2, <1>p, InsertFacts, RequestFacts DEF CreateDidWeb, repos, ghosts, At, Others, Kept,
     CodeUnused, CodeFits
<1>3. ASSUME NEW r \in Req, CreatePlc(r) PROVE CodeFits(x)'
  BY <1>3, <1>p, InsertFacts, RequestFacts DEF CreatePlc, repos, ghosts, At, Others, Kept,
     CodeUnused, CodeFits
<1>4. ASSUME NEW r \in Req, InsertAccount(r) PROVE CodeFits(x)'
  <2>1. Others(r) /\ Kept(r) /\ req'[r].did = req[r].did /\ req'[r].at = "repo"
    BY <1>4, GoFacts DEF InsertAccount
  <2>2. /\ UNCHANGED <<usedBy, spoiled>>
        /\ uses' = IF req[r].code = None THEN uses ELSE [uses EXCEPT ![req[r].code] = @ + 1]
        /\ At(r, "signUp", "insert")
        /\ ~Exists(req[r].did)
    BY <1>4 DEF InsertAccount, repos, ghosts
  <2>3. CodeFits(x) /\ uses \in [Code -> Nat]
    BY <2>2 DEF CodeUnused, TypeOK
  <2>4. CASE req[r].code = x
    <3>1. uses[x] = 0
      BY <2>2, <2>3, <2>4 DEF At, CodeFits
    <3>2. uses'[x] = 1
      BY <2>2, <2>3, <2>4, <3>1, <1>p
    <3> QED
      BY <2>1, <2>2, <2>3, <2>4, <3>2 DEF Others, Kept, CodeFits
  <2>5. CASE req[r].code # x
    <3>1. uses'[x] = uses[x]
      BY <2>2, <2>3, <2>5
    <3> QED
      BY <2>1, <2>2, <2>3, <2>5, <3>1 DEF Others, Kept, CodeFits
  <2> QED
    BY <2>4, <2>5
<1>5. ASSUME NEW r \in Req, InsertRefused(r) PROVE CodeFits(x)'
  BY <1>5, <1>p, EndFacts DEF InsertRefused, repos, ghosts, At, Others, CodeUnused, CodeFits
<1>6. ASSUME NEW r \in Req, CreateRepo(r) PROVE CodeFits(x)'
  BY <1>6, <1>p, GoFacts DEF CreateRepo, repos, ghosts, At, Others, Kept, CodeUnused, CodeFits
<1>7. ASSUME NEW r \in Req, CreateRepoFails(r) PROVE CodeFits(x)'
  BY <1>7, <1>p, EndFacts DEF CreateRepoFails, repos, ghosts, At, Others, CodeUnused, CodeFits
<1>8. ASSUME NEW r \in Req, CreateRepoRefused(r) PROVE CodeFits(x)'
  BY <1>8, <1>p, EndFacts DEF CreateRepoRefused, repos, ghosts, At, Others, CodeUnused, CodeFits
<1>9. ASSUME NEW r \in Req, MarkCode(r) PROVE CodeFits(x)'
  <2>1. Others(r) /\ Kept(r) /\ req'[r].did = req[r].did /\ req'[r].at = "session"
    BY <1>9, GoFacts DEF MarkCode
  <2>2. /\ UNCHANGED <<uses, spoiled>>
        /\ usedBy' = [usedBy EXCEPT ![req[r].code] = req[r].did]
        /\ At(r, "signUp", "code")
    BY <1>9 DEF MarkCode, repos, ghosts
  <2>3. CodeFits(x)
    BY <2>2 DEF CodeUnused
  <2>4. CASE req[r].code = x
    <3>1. usedBy'[x] # None
      BY <2>2, <2>4, RequestFacts DEF At, TypeOK, Did
    <3> QED
      BY <2>1, <2>2, <2>3, <2>4, <3>1 DEF Others, Kept, CodeFits
  <2>5. CASE req[r].code # x
    <3>1. usedBy'[x] = usedBy[x]
      BY <2>2, <2>5 DEF TypeOK
    <3> QED
      BY <2>1, <2>2, <2>3, <2>5, <3>1 DEF Others, Kept, CodeFits
  <2> QED
    BY <2>4, <2>5
<1>10. ASSUME NEW r \in Req, MarkCodeFails(r) PROVE CodeFits(x)'
  BY <1>10, <1>p, GoFacts DEF MarkCodeFails, repos, ghosts, At, Others, Kept, CodeUnused, CodeFits
<1>11. ASSUME NEW r \in Req, MintSession(r) PROVE CodeFits(x)'
  BY <1>11, <1>p, EndFacts DEF MintSession, repos, ghosts, At, Others, CodeUnused, CodeFits
<1>12. ASSUME NEW r \in Req, BeginUpdateHandle(r) PROVE CodeFits(x)'
  BY <1>12, <1>p, StartFacts DEF BeginUpdateHandle, repos, ghosts, At, Others, ToUpdateHandle,
     CodeUnused, CodeFits
<1>13. ASSUME NEW r \in Req, Submit(r) PROVE CodeFits(x)'
  BY <1>13, <1>p, GoFacts DEF Submit, repos, ghosts, At, Others, Kept, CodeUnused, CodeFits
<1>14. ASSUME NEW r \in Req, SubmitRefused(r) PROVE CodeFits(x)'
  BY <1>14, <1>p, EndFacts DEF SubmitRefused, repos, ghosts, At, Others, CodeUnused, CodeFits
<1>15. ASSUME NEW r \in Req, SubmitAnswerLost(r) PROVE CodeFits(x)'
  BY <1>15, <1>p, EndFacts DEF SubmitAnswerLost, repos, ghosts, At, Others, CodeUnused, CodeFits
<1>16. ASSUME NEW r \in Req, UpdateRow(r) PROVE CodeFits(x)'
  BY <1>16, <1>p, GoFacts DEF UpdateRow, repos, ghosts, At, Others, Kept, CodeUnused, CodeFits
<1>17. ASSUME NEW r \in Req, UpdateRowRefused(r) PROVE CodeFits(x)'
  BY <1>17, <1>p, EndFacts DEF UpdateRowRefused, repos, ghosts, At, Others, CodeUnused, CodeFits
<1>18. ASSUME NEW r \in Req, EmitIdentity(r) PROVE CodeFits(x)'
  BY <1>18, <1>p, EndFacts DEF EmitIdentity, repos, ghosts, At, Others, CodeUnused, CodeFits
<1>19. ASSUME NEW r \in Req, SetActive(r) PROVE CodeFits(x)'
  BY <1>19, <1>p, StartFacts DEF SetActive, repos, ghosts, At, Others, ToSetActive, CodeUnused,
     CodeFits
<1>20. ASSUME NEW r \in Req, EmitAccount(r) PROVE CodeFits(x)'
  BY <1>20, <1>p, EndFacts DEF EmitAccount, repos, ghosts, At, Others, CodeUnused, CodeFits
<1>21. ASSUME NEW r \in Req, BeginDelete(r) PROVE CodeFits(x)'
  BY <1>21, <1>p, StartFacts DEF BeginDelete, repos, ghosts, At, Others, ToDelete, CodeUnused,
     CodeFits
<1>22. ASSUME NEW r \in Req, DeleteRepo(r) PROVE CodeFits(x)'
  BY <1>22, <1>p, GoFacts DEF DeleteRepo, repos, ghosts, At, Others, Kept, CodeUnused, CodeFits
<1>23. ASSUME NEW r \in Req, DeleteRepoFails(r) PROVE CodeFits(x)'
  BY <1>23, <1>p, EndFacts DEF DeleteRepoFails, repos, ghosts, At, Others, CodeUnused, CodeFits
<1>24. ASSUME NEW r \in Req, DeleteRow(r) PROVE CodeFits(x)'
  BY <1>24, <1>p, GoFacts DEF DeleteRow, repos, ghosts, At, Others, Kept, CodeUnused, CodeFits
<1>25. ASSUME NEW r \in Req, EmitDeleted(r) PROVE CodeFits(x)'
  BY <1>25, <1>p, EndFacts DEF EmitDeleted, repos, ghosts, At, Others, CodeUnused, CodeFits
<1>26. ASSUME NEW r \in Req, Cut(r) PROVE CodeFits(x)'
  <2>1. Others(r) /\ req'[r] = Idle
    BY <1>26, EndFacts DEF Cut
  <2>2. /\ UNCHANGED <<usedBy, uses>>
        /\ spoiled' = IF Untouched(req[r]) THEN spoiled ELSE spoiled \cup ({req[r].code} \ {None})
        /\ req[r] # Idle
    BY <1>26 DEF Cut, repos, ghosts
  <2>3. x \notin spoiled /\ (req[r].code = x => Untouched(req[r]))
    BY <2>2
  <2>4. req[r].code = x => req[r].at \notin {"repo", "code"}
    BY <2>3, <1>p DEF Untouched
  <2>5. CodeFits(x)
    BY <2>3 DEF CodeUnused
  <2> QED
    BY <2>1, <2>2, <2>4, <2>5, <1>p DEF Others, CodeFits
<1>27. ASSUME NEW c \in Did, Write(c) PROVE CodeFits(x)'
  BY <1>27, <1>p DEF Write, repos, ghosts, CodeUnused, CodeFits
<1>28. ASSUME NEW c \in Did, WriteRefused(c) PROVE CodeFits(x)'
  BY <1>28, <1>p DEF WriteRefused, repos, ghosts, CodeUnused, CodeFits
<1>29. CASE Restart
  <2>1. /\ UNCHANGED <<usedBy, uses>>
        /\ spoiled' = spoiled \cup ({req[r].code : r \in {q \in Req : ~Untouched(req[q])}} \ {None})
        /\ (\A q \in Req : req'[q] = Idle)
    BY <1>29 DEF Restart, repos, ghosts
  <2>2. x \notin spoiled /\ \A q \in Req : req[q].code = x => Untouched(req[q])
    BY <2>1
  <2>3. \A q \in Req : req[q].code = x => req[q].at \notin {"repo", "code"}
    BY <2>2, <1>p DEF Untouched
  <2>4. CodeFits(x)
    BY <2>2 DEF CodeUnused
  <2> QED
    BY <2>1, <2>3, <2>4, <1>p DEF CodeFits
<1>30. ASSUME NEW r \in Req, SignUp(r) PROVE CodeFits(x)'
  BY <1>30, <1>1, <1>2, <1>3, <1>4, <1>5, <1>6, <1>7, <1>8, <1>9, <1>10, <1>11 DEF SignUp
<1>31. ASSUME NEW r \in Req, UpdateHandle(r) PROVE CodeFits(x)'
  BY <1>31, <1>12, <1>13, <1>14, <1>15, <1>16, <1>17, <1>18 DEF UpdateHandle
<1>32. ASSUME NEW r \in Req, Status(r) \/ Delete(r) PROVE CodeFits(x)'
  BY <1>32, <1>19, <1>20, <1>21, <1>22, <1>23, <1>24, <1>25 DEF Status, Delete
<1> QED
  BY <1>26, <1>27, <1>28, <1>29, <1>30, <1>31, <1>32 DEF Next

-----------------------------------------------------------------------------
\* The inductive invariant holds of the empty server.
LEMMA InitInv ==
  Init => IInv
<1> SUFFICES ASSUME Init PROVE IInv
  OBVIOUS
<1> USE AccountsAssumption, IdleFields
<1>1. TypeOK
  <2>1. NoRepo \in Repos /\ Idle \in Request
    BY DEF NoRepo, Repos, Idle, Request, Kinds, Places
  <2>2. [status |-> "none", handle |-> None] \in Told
    BY DEF Told
  <2> QED
    BY <2>1, <2>2 DEF Init, TypeOK, repos, ghosts
<1>2. Steps
  BY DEF Init, Steps, Proper
<1>3. Born /\ HandlePublished
  BY DEF Init, Born, NothingOf, NoRecords, HandlePublished, Exists, Did, repos, ghosts
<1>4. Accepted /\ NoConflict /\ RowThere
  BY DEF Init, Accepted, NoConflict, RowThere, RowFits, Under, Did
<1>5. OwnRepo
  BY DEF Init, OwnRepo, RepoFits, Bare, NoRecords, Exists
<1>6. CodeUnused
  BY DEF Init, CodeUnused, CodeFits
<1> QED
  BY <1>1, <1>2, <1>3, <1>4, <1>5, <1>6 DEF IInv

\* The inductive invariant holds in every reachable state.
THEOREM Invariance ==
  Spec => []IInv
<1>1. IInv /\ [Next]_vars => IInv'
  <2> SUFFICES ASSUME IInv, [Next]_vars PROVE IInv'
    OBVIOUS
  <2>1. CASE Next
    BY <2>1, TypeStep, StepsStep, BornStep, AcceptedStep, PublishedStep, NoConflictStep,
       RowThereStep, OwnRepoStep, CodeStep DEF IInv
  <2>2. CASE UNCHANGED vars
    <3>1. UNCHANGED <<method, accounts, usedBy, plc, head, index, cache, told, req>>
          /\ UNCHANGED <<starts, life, uses, disturbed, spoiled>>
      BY <2>2 DEF vars, repos, ghosts
    <3>2. TypeOK' /\ Steps' /\ Born' /\ Accepted' /\ HandlePublished'
      BY <3>1 DEF IInv, TypeOK, Steps, Born, NothingOf, NoRecords, Accepted, HandlePublished,
         Exists, Under
    <3>3. NoConflict' /\ RowThere' /\ OwnRepo' /\ CodeUnused'
      BY <3>1 DEF IInv, NoConflict, RowThere, RowFits, OwnRepo, RepoFits, Bare, NoRecords,
                  OwnRecords, CodeUnused, CodeFits, Exists, Under
    <3> QED
      BY <3>2, <3>3 DEF IInv
  <2> QED
    BY <2>1, <2>2
<1> QED
  BY InitInv, <1>1, PTL DEF Spec

\* The variables keep their types.
THEOREM TypeCorrect ==
  Spec => []TypeOK
<1>1. IInv => TypeOK
  BY DEF IInv
<1> QED
  BY Invariance, <1>1, PTL

\* The handle of a did:plc in the table is one the directory has accepted.
THEOREM PublishedFirst ==
  Spec => []HandlePublished
<1>1. IInv => HandlePublished
  BY DEF IInv
<1> QED
  BY Invariance, <1>1, PTL

\* For a DID whose requests never conflicted or broke: without the account
\* there is no repository, and between requests its parts agree.
THEOREM RepoFollows ==
  Spec => []RepoFollowsAccount
<1>1. IInv => RepoFollowsAccount
  <2> SUFFICES ASSUME IInv, NEW d \in Did, d \notin disturbed
               PROVE  /\ ~Exists(d) => NoRecords(d)
                      /\ Exists(d) /\ Quiet(d) =>
                           head[d] = RepoOf(index[d]) /\ cache[d] \in {NoRepo, head[d]}
    BY DEF RepoFollowsAccount
  <2>1. RepoFits(d)
    BY DEF IInv, OwnRepo
  <2>2. ASSUME Exists(d), Quiet(d) PROVE ~Bare(d)
    BY <2>2 DEF Quiet, Bare, Under
  <2> QED
    BY <2>1, <2>2 DEF RepoFits, Bare, OwnRecords
<1> QED
  BY Invariance, <1>1, PTL

\* Nor does an account find records of an earlier one under its DID.
THEOREM OnlyOwnRecords ==
  Spec => []RepoIsOwn
<1>1. IInv => RepoIsOwn
  <2> SUFFICES ASSUME IInv, NEW d \in Did, d \notin disturbed
               PROVE  head[d].recs \cup index[d] \subseteq {life[d]}
    BY DEF RepoIsOwn
  <2>1. RepoFits(d)
    BY DEF IInv, OwnRepo
  <2> QED
    BY <2>1 DEF RepoFits, NoRecords, OwnRecords, NoRepo, RepoOf
<1> QED
  BY Invariance, <1>1, PTL

\* An invite code makes one account unless its sign-ups overlap or break.
THEOREM OneAccountPerCode ==
  Spec => []InviteOnce
<1>1. IInv => InviteOnce
  BY DEF IInv, CodeUnused, CodeFits, InviteOnce
<1> QED
  BY Invariance, <1>1, PTL

-----------------------------------------------------------------------------
(***************************************************************************)
(* The handle and the status of an undisturbed account: what its row, the  *)
(* directory and the last events say while a request is under way.         *)
(***************************************************************************)
\* The handle the directory gives for d.
Latest(d) == plc[d][Len(plc[d])]

\* The row goes ahead of the event and the directory ahead of the row, by the
\* handle that the one request that changes it brings along.
HandleFits(d) ==
  /\ Exists(d) =>
       \/ told[d].handle = accounts[d].handle
       \/ \E r \in Req : Under(r, d, "signUp", {"repo"}) \/ Under(r, d, "handle", {"event"})
  /\ \A r \in Req : Under(r, d, "handle", {"event"}) /\ Exists(d) => accounts[d].handle = req[r].handle
  /\ d \in PlcDid =>
       /\ Exists(d) => \/ Latest(d) = accounts[d].handle
                       \/ \E r \in Req : Under(r, d, "handle", {"update"})
       /\ \A r \in Req : Under(r, d, "signUp", {"insert"}) \/ Under(r, d, "handle", {"update"}) =>
            Latest(d) = req[r].handle

\* What the last #account event may say of d.
Statuses(d) ==
  IF ~Exists(d) THEN {"deleted"}
  ELSE IF ~accounts[d].active THEN {"deactivated"}
  ELSE {"none", "active"} \cup (IF life[d] > 1 THEN {"deleted"} ELSE {})

\* ... and the status too, by what the request asks for.
StatusFits(d) ==
  /\ life[d] > 0 =>
       \/ told[d].status \in Statuses(d)
       \/ \E r \in Req : Under(r, d, "status", {"event"}) \/ Under(r, d, "delete", {"event"})
  /\ \A r \in Req : Under(r, d, "status", {"event"}) =>
       Exists(d) /\ accounts[d].active = req[r].active

\* Before its first account nothing is said of a DID, and nobody but a sign-up
\* asks about it.
Unborn(d) ==
  life[d] = 0 =>
    ~Exists(d) /\ told[d].status = "none" /\ \A r \in Req : req[r].did = d => req[r].kind = "signUp"

Announced ==
  /\ \A d \in Did : Unborn(d)
  /\ \A d \in Did \ disturbed : HandleFits(d) /\ StatusFits(d)

\* The requests whose steps these look at.
Matters(r, d) ==
  \/ Under(r, d, "signUp", {"repo"}) \/ Under(r, d, "handle", {"update", "event"})
  \/ Under(r, d, "status", {"event"}) \/ Under(r, d, "delete", {"event"})

\* A request that matters has changed something.
LEMMA MattersTouched ==
  ASSUME NEW r \in Req, NEW d \in Did, Matters(r, d)
  PROVE  req[r].did = d /\ ~Untouched(req[r])
BY DEF Matters, Under, Untouched

\* What a change of the handle or of the status does to the rows.
LEMMA RowFields ==
  ASSUME TypeOK, NEW d \in Did, Exists(d)
  PROVE  /\ \A h : LET new == [accounts EXCEPT ![d].handle = h]
                   IN /\ new[d].handle = h /\ new[d].active = accounts[d].active
                      /\ \A e \in Did \ {d} : new[e] = accounts[e]
         /\ \A on : LET new == [accounts EXCEPT ![d].active = on]
                    IN /\ new[d].active = on /\ new[d].handle = accounts[d].handle
                       /\ \A e \in Did \ {d} : new[e] = accounts[e]
<1>1. accounts[d] \in Row /\ accounts \in [Did -> {None} \cup Row]
  BY DEF TypeOK, Exists
<1>2. ASSUME NEW h
      PROVE  LET new == [accounts EXCEPT ![d].handle = h]
             IN /\ new[d].handle = h /\ new[d].active = accounts[d].active
                /\ \A e \in Did \ {d} : new[e] = accounts[e]
  <2> DEFINE x == [accounts[d] EXCEPT !.handle = h]
  <2>1. x.handle = h /\ x.active = accounts[d].active
    BY <1>1 DEF Row
  <2>2. [accounts EXCEPT ![d].handle = h] = [accounts EXCEPT ![d] = x]
    OBVIOUS
  <2> HIDE DEF x
  <2> QED
    BY <1>1, <2>1, <2>2
<1>3. ASSUME NEW on
      PROVE  LET new == [accounts EXCEPT ![d].active = on]
             IN /\ new[d].active = on /\ new[d].handle = accounts[d].handle
                /\ \A e \in Did \ {d} : new[e] = accounts[e]
  <2> DEFINE x == [accounts[d] EXCEPT !.active = on]
  <2>1. x.active = on /\ x.handle = accounts[d].handle
    BY <1>1 DEF Row
  <2>2. [accounts EXCEPT ![d].active = on] = [accounts EXCEPT ![d] = x]
    OBVIOUS
  <2> HIDE DEF x
  <2> QED
    BY <1>1, <2>1, <2>2
<1> QED
  BY <1>2, <1>3

\* What an event does to what was told.
LEMMA ToldFields ==
  ASSUME TypeOK, NEW d \in Did
  PROVE  /\ \A s : LET new == [told EXCEPT ![d].status = s]
                   IN /\ new[d].status = s /\ new[d].handle = told[d].handle
                      /\ \A e \in Did \ {d} : new[e] = told[e]
         /\ \A h : LET new == [told EXCEPT ![d].handle = h]
                   IN /\ new[d].handle = h /\ new[d].status = told[d].status
                      /\ \A e \in Did \ {d} : new[e] = told[e]
<1>1. told[d] \in Told /\ told \in [Did -> Told]
  BY DEF TypeOK
<1>2. ASSUME NEW s
      PROVE  LET new == [told EXCEPT ![d].status = s]
             IN /\ new[d].status = s /\ new[d].handle = told[d].handle
                /\ \A e \in Did \ {d} : new[e] = told[e]
  <2> DEFINE x == [told[d] EXCEPT !.status = s]
  <2>1. x.status = s /\ x.handle = told[d].handle
    BY <1>1 DEF Told
  <2>2. [told EXCEPT ![d].status = s] = [told EXCEPT ![d] = x]
    OBVIOUS
  <2> HIDE DEF x
  <2> QED
    BY <1>1, <2>1, <2>2
<1>3. ASSUME NEW h
      PROVE  LET new == [told EXCEPT ![d].handle = h]
             IN /\ new[d].handle = h /\ new[d].status = told[d].status
                /\ \A e \in Did \ {d} : new[e] = told[e]
  <2> DEFINE x == [told[d] EXCEPT !.handle = h]
  <2>1. x.handle = h /\ x.status = told[d].status
    BY <1>1 DEF Told
  <2>2. [told EXCEPT ![d].handle = h] = [told EXCEPT ![d] = x]
    OBVIOUS
  <2> HIDE DEF x
  <2> QED
    BY <1>1, <2>1, <2>2
<1> QED
  BY <1>2, <1>3

\* The handle an operation brings is the latest one.
LEMMA LatestOne ==
  ASSUME NEW h
  PROVE  <<h>>[Len(<<h>>)] = h
OBVIOUS

LEMMA LatestAppend ==
  ASSUME NEW S, NEW s \in Seq(S), NEW h \in S
  PROVE  Append(s, h)[Len(Append(s, h))] = h
OBVIOUS

\* Nothing of d moves but requests at steps that do not matter.
LEMMA FitsStay ==
  ASSUME NEW d \in Did, HandleFits(d), StatusFits(d),
         told'[d] = told[d], accounts'[d] = accounts[d], life'[d] = life[d],
         d \in PlcDid => plc'[d] = plc[d],
         \A r \in Req : Matters(r, d) \/ Matters(r, d)' => req'[r] = req[r],
         \A r \in Req : d \in PlcDid /\ Under(r, d, "signUp", {"insert"})' => req'[r] = req[r]
  PROVE  HandleFits(d)' /\ StatusFits(d)'
<1>1. HandleFits(d)'
  <2>1. d \in PlcDid => Latest(d)' = Latest(d)
    BY DEF Latest
  <2>2. Exists(d)' = Exists(d)
    BY DEF Exists
  <2> QED
    BY <2>1, <2>2 DEF HandleFits, Matters, Under
<1>2. StatusFits(d)'
  <2>1. Statuses(d)' = Statuses(d) /\ Exists(d)' = Exists(d)
    BY DEF Statuses, Exists
  <2> QED
    BY <2>1 DEF StatusFits, Matters, Under
<1> QED
  BY <1>1, <1>2

\* A request moves that is not about d, or whose steps do not matter.
LEMMA FitsFar ==
  ASSUME NEW d \in Did, HandleFits(d), StatusFits(d), NEW r \in Req, Others(r),
         told'[d] = told[d], accounts'[d] = accounts[d], life'[d] = life[d],
         d \in PlcDid => plc'[d] = plc[d],
         ~Matters(r, d), ~Matters(r, d)', d \in PlcDid => ~Under(r, d, "signUp", {"insert"})'
  PROVE  HandleFits(d)' /\ StatusFits(d)'
<1>1. \A q \in Req : q # r => req'[q] = req[q]
  BY DEF Others
<1> QED
  BY <1>1, FitsStay

\* No other request of its kind, and no sign-up or deletion, is under way.
LEMMA OnlyKinds ==
  ASSUME NoConflict, NEW d \in Did, d \notin disturbed, NEW r \in Req, req[r].did = d
  PROVE  \A q \in Req \ {r} : req[q].did = d => req[q].kind \notin {req[r].kind, "signUp", "delete"}
BY DEF NoConflict, Conflict

\* Nobody but a sign-up deals with a DID before its first account.
LEMMA UnbornStep ==
  ASSUME IInv, Announced, Next, NEW d \in Did
  PROVE  Unborn(d)'
<1> USE AccountsAssumption, IdleFields DEF IInv
<1>p. Unborn(d) /\ d # None /\ life[d] \in Nat /\ told \in [Did -> Told]
  BY DEF Announced, Did, TypeOK
<1>1. ASSUME NEW r \in Req, BeginSignUp(r) PROVE Unborn(d)'
  BY <1>1, <1>p, StartFacts, RequestFacts
     DEF BeginSignUp, repos, ghosts, At, Others, Unborn, Exists, MayAct, ToSignUp
<1>2. ASSUME NEW r \in Req, CreateDidWeb(r) PROVE Unborn(d)'
  BY <1>2, <1>p, InsertFacts, RequestFacts
     DEF CreateDidWeb, repos, ghosts, At, Others, Unborn, Exists, MayAct, Kept
<1>3. ASSUME NEW r \in Req, CreatePlc(r) PROVE Unborn(d)'
  BY <1>3, <1>p, InsertFacts, RequestFacts
     DEF CreatePlc, repos, ghosts, At, Others, Unborn, Exists, MayAct, Kept
<1>4. ASSUME NEW r \in Req, InsertAccount(r) PROVE Unborn(d)'
  <2>1. Others(r) /\ Kept(r) /\ req'[r].did = req[r].did /\ req[r].kind = "signUp" /\ req[r].did \in Did
    BY <1>4, GoFacts, RequestFacts DEF InsertAccount, At
  <2>2. /\ life' = [life EXCEPT ![req[r].did] = @ + 1] /\ told' = told
        /\ \A e \in Did \ {req[r].did} : accounts'[e] = accounts[e]
    BY <1>4, <2>1 DEF InsertAccount, TypeOK
  <2>3. life'[d] = 0 => d # req[r].did /\ life[d] = 0
    BY <1>p, <2>1, <2>2 DEF TypeOK
  <2> QED
    BY <1>p, <2>1, <2>2, <2>3 DEF Unborn, Exists, Others, Kept
<1>5. ASSUME NEW r \in Req, InsertRefused(r) PROVE Unborn(d)'
  BY <1>5, <1>p, EndFacts, RequestFacts
     DEF InsertRefused, repos, ghosts, At, Others, Unborn, Exists, MayAct
<1>6. ASSUME NEW r \in Req, CreateRepo(r) PROVE Unborn(d)'
  BY <1>6, <1>p, GoFacts, RequestFacts
     DEF CreateRepo, repos, ghosts, At, Others, Unborn, Exists, MayAct, Kept
<1>7. ASSUME NEW r \in Req, CreateRepoFails(r) PROVE Unborn(d)'
  BY <1>7, <1>p, EndFacts, RequestFacts
     DEF CreateRepoFails, repos, ghosts, At, Others, Unborn, Exists, MayAct
<1>8. ASSUME NEW r \in Req, CreateRepoRefused(r) PROVE Unborn(d)'
  BY <1>8, <1>p, EndFacts, RequestFacts
     DEF CreateRepoRefused, repos, ghosts, At, Others, Unborn, Exists, MayAct
<1>9. ASSUME NEW r \in Req, MarkCode(r) PROVE Unborn(d)'
  BY <1>9, <1>p, GoFacts, RequestFacts
     DEF MarkCode, repos, ghosts, At, Others, Unborn, Exists, MayAct, Kept
<1>10. ASSUME NEW r \in Req, MarkCodeFails(r) PROVE Unborn(d)'
  BY <1>10, <1>p, GoFacts, RequestFacts
     DEF MarkCodeFails, repos, ghosts, At, Others, Unborn, Exists, MayAct, Kept
<1>11. ASSUME NEW r \in Req, MintSession(r) PROVE Unborn(d)'
  BY <1>11, <1>p, EndFacts, RequestFacts
     DEF MintSession, repos, ghosts, At, Others, Unborn, Exists, MayAct
<1>12. ASSUME NEW r \in Req, BeginUpdateHandle(r) PROVE Unborn(d)'
  BY <1>12, <1>p, StartFacts, RequestFacts
     DEF BeginUpdateHandle, repos, ghosts, At, Others, Unborn, Exists, MayAct, ToUpdateHandle
<1>13. ASSUME NEW r \in Req, Submit(r) PROVE Unborn(d)'
  BY <1>13, <1>p, GoFacts, RequestFacts
     DEF Submit, repos, ghosts, At, Others, Unborn, Exists, MayAct, Kept
<1>14. ASSUME NEW r \in Req, SubmitRefused(r) PROVE Unborn(d)'
  BY <1>14, <1>p, EndFacts, RequestFacts
     DEF SubmitRefused, repos, ghosts, At, Others, Unborn, Exists, MayAct
<1>15. ASSUME NEW r \in Req, SubmitAnswerLost(r) PROVE Unborn(d)'
  BY <1>15, <1>p, EndFacts, RequestFacts
     DEF SubmitAnswerLost, repos, ghosts, At, Others, Unborn, Exists, MayAct
<1>16. ASSUME NEW r \in Req, UpdateRow(r) PROVE Unborn(d)'
  BY <1>16, <1>p, GoFacts, RequestFacts
     DEF UpdateRow, repos, ghosts, At, Others, Unborn, Exists, MayAct, Kept
<1>17. ASSUME NEW r \in Req, UpdateRowRefused(r) PROVE Unborn(d)'
  BY <1>17, <1>p, EndFacts, RequestFacts
     DEF UpdateRowRefused, repos, ghosts, At, Others, Unborn, Exists, MayAct
<1>18. ASSUME NEW r \in Req, EmitIdentity(r) PROVE Unborn(d)'
  BY <1>18, <1>p, EndFacts, RequestFacts
     DEF EmitIdentity, repos, ghosts, At, Others, Unborn, Exists, MayAct
<1>19. ASSUME NEW r \in Req, SetActive(r) PROVE Unborn(d)'
  BY <1>19, <1>p, StartFacts, RequestFacts
     DEF SetActive, repos, ghosts, At, Others, Unborn, Exists, MayAct, ToSetActive
<1>20. ASSUME NEW r \in Req, EmitAccount(r) PROVE Unborn(d)'
  BY <1>20, <1>p, EndFacts, RequestFacts
     DEF EmitAccount, repos, ghosts, At, Others, Unborn, Exists, MayAct
<1>21. ASSUME NEW r \in Req, BeginDelete(r) PROVE Unborn(d)'
  BY <1>21, <1>p, StartFacts, RequestFacts
     DEF BeginDelete, repos, ghosts, At, Others, Unborn, Exists, MayAct, ToDelete
<1>22. ASSUME NEW r \in Req, DeleteRepo(r) PROVE Unborn(d)'
  BY <1>22, <1>p, GoFacts, RequestFacts
     DEF DeleteRepo, repos, ghosts, At, Others, Unborn, Exists, MayAct, Kept
<1>23. ASSUME NEW r \in Req, DeleteRepoFails(r) PROVE Unborn(d)'
  BY <1>23, <1>p, EndFacts, RequestFacts
     DEF DeleteRepoFails, repos, ghosts, At, Others, Unborn, Exists, MayAct
<1>24. ASSUME NEW r \in Req, DeleteRow(r) PROVE Unborn(d)'
  BY <1>24, <1>p, GoFacts, RequestFacts
     DEF DeleteRow, repos, ghosts, At, Others, Unborn, Exists, MayAct, Kept
<1>25. ASSUME NEW r \in Req, EmitDeleted(r) PROVE Unborn(d)'
  BY <1>25, <1>p, EndFacts, RequestFacts
     DEF EmitDeleted, repos, ghosts, At, Others, Unborn, Exists, MayAct
<1>26. ASSUME NEW r \in Req, Cut(r) PROVE Unborn(d)'
  BY <1>26, <1>p, EndFacts, RequestFacts
     DEF Cut, repos, ghosts, At, Others, Unborn, Exists, MayAct
<1>27. ASSUME NEW c \in Did, Write(c) PROVE Unborn(d)'
  BY <1>27, <1>p DEF Write, repos, ghosts, Unborn, Exists
<1>28. ASSUME NEW c \in Did, WriteRefused(c) PROVE Unborn(d)'
  BY <1>28, <1>p DEF WriteRefused, repos, ghosts, Unborn, Exists
<1>29. CASE Restart
  BY <1>29, <1>p DEF Restart, repos, ghosts, Unborn, Exists
<1>30. ASSUME NEW r \in Req, SignUp(r) PROVE Unborn(d)'
  BY <1>30, <1>1, <1>2, <1>3, <1>4, <1>5, <1>6, <1>7, <1>8, <1>9, <1>10, <1>11 DEF SignUp
<1>31. ASSUME NEW r \in Req, UpdateHandle(r) PROVE Unborn(d)'
  BY <1>31, <1>12, <1>13, <1>14, <1>15, <1>16, <1>17, <1>18 DEF UpdateHandle
<1>32. ASSUME NEW r \in Req, Status(r) \/ Delete(r) PROVE Unborn(d)'
  BY <1>32, <1>19, <1>20, <1>21, <1>22, <1>23, <1>24, <1>25 DEF Status, Delete
<1> QED
  BY <1>26, <1>27, <1>28, <1>29, <1>30, <1>31, <1>32 DEF Next

\* The events follow the row, and the row the directory, request by request.
LEMMA FitsStep ==
  ASSUME IInv, Announced, Next, NEW d \in Did, d \notin disturbed'
  PROVE  HandleFits(d)' /\ StatusFits(d)'
<1> USE AccountsAssumption, IdleFields DEF IInv
<1>p. /\ d # None /\ (d \in PlcDid => d \notin Handle)
      /\ \A r \in Req : req[r] = Idle \/ req[r].did # d => ~Matters(r, d)
  BY DEF Did, Matters, Under
<1>q. ASSUME d \notin disturbed
      PROVE  /\ HandleFits(d) /\ StatusFits(d) /\ Unborn(d)
             /\ \A r \in Req : RowFits(d, r)
             /\ \A r \in Req : req[r].did = d /\ req[r].kind \in {"signUp", "delete"} =>
                  \A q \in Req \ {r} : req[q].did # d
  BY <1>q, Alone DEF Announced, RowThere
<1>1. ASSUME NEW r \in Req, BeginSignUp(r) PROVE HandleFits(d)' /\ StatusFits(d)'
  <2>1. /\ Others(r) /\ UNCHANGED <<accounts, told, life>> /\ d \notin disturbed
        /\ (d \in PlcDid => plc'[d] = plc[d])
    BY <1>1, StartFacts, RequestFacts DEF BeginSignUp, repos, ghosts, At, TypeOK
  <2>2. ~Matters(r, d) /\ ~Matters(r, d)' /\ (d \in PlcDid => ~Under(r, d, "signUp", {"insert"})')
    BY <1>1, <1>p, <1>q, <2>1, StartFacts, RequestFacts DEF BeginSignUp, repos, ghosts, At, Matters, Under, ToSignUp
  <2> QED
    BY <1>q, <2>1, <2>2, FitsFar
<1>2. ASSUME NEW r \in Req, CreateDidWeb(r) PROVE HandleFits(d)' /\ StatusFits(d)'
  <2>1. /\ Others(r) /\ UNCHANGED <<accounts, told, life>> /\ d \notin disturbed
        /\ (d \in PlcDid => plc'[d] = plc[d])
    BY <1>2, InsertFacts, RequestFacts DEF CreateDidWeb, repos, ghosts, At, TypeOK
  <2>2. ~Matters(r, d) /\ ~Matters(r, d)' /\ (d \in PlcDid => ~Under(r, d, "signUp", {"insert"})')
    BY <1>2, <1>p, <1>q, <2>1, InsertFacts, RequestFacts DEF CreateDidWeb, repos, ghosts, At, Matters, Under, Kept
  <2> QED
    BY <1>q, <2>1, <2>2, FitsFar
<1>3. ASSUME NEW r \in Req, CreatePlc(r) PROVE HandleFits(d)' /\ StatusFits(d)'
  <2>0. PICK c \in PlcDid : /\ plc[c] = <<>> /\ Insert(r, c)
                           /\ plc' = [plc EXCEPT ![c] = <<req[r].handle>>]
    BY <1>3 DEF CreatePlc
  <2>1. Others(r) /\ Kept(r) /\ req'[r].did = c /\ req'[r].at = "insert"
    BY <2>0, InsertFacts
  <2>2. /\ UNCHANGED <<accounts, told, life>> /\ d \notin disturbed /\ req[r].did = None
        /\ req[r].kind = "signUp"
    BY <1>3 DEF CreatePlc, repos, ghosts, At, Steps, Proper
  <2>3. CASE d # c
    <3>1. ~Matters(r, d) /\ ~Matters(r, d)' /\ ~Under(r, d, "signUp", {"insert"})'
      BY <1>p, <2>1, <2>2, <2>3 DEF Matters, Under
    <3>2. d \in PlcDid => plc'[d] = plc[d]
      BY <2>0, <2>3 DEF TypeOK
    <3> QED
      BY <1>q, <2>1, <2>2, <3>1, <3>2, FitsFar
  <2>4. CASE d = c
    <3>1. ~Exists(d) /\ life[d] = 0 /\ \A s \in Req : req[s].did # d
      BY <2>0, <2>4 DEF Born, NothingOf
    <3>2. ~Exists(d)' /\ life'[d] = 0 /\ \A s \in Req : req'[s].did = d => s = r /\ req'[s].kind = "signUp"
      BY <2>1, <2>2, <2>4, <3>1 DEF Exists, Others, Kept
    <3>3. plc'[d] = <<req[r].handle>> /\ req'[r].handle = req[r].handle
      BY <2>0, <2>1, <2>4 DEF TypeOK, Kept
    <3>4. Latest(d)' = req'[r].handle
      BY <3>3, LatestOne DEF Latest
    <3>5. HandleFits(d)'
      BY <2>1, <3>2, <3>4 DEF HandleFits, Under
    <3>6. StatusFits(d)'
      BY <3>2 DEF StatusFits, Under
    <3> QED
      BY <3>5, <3>6
  <2> QED
    BY <2>3, <2>4
<1>4. ASSUME NEW r \in Req, InsertAccount(r) PROVE HandleFits(d)' /\ StatusFits(d)'
  <2>1. Others(r) /\ Kept(r) /\ req'[r].did = req[r].did /\ req'[r].at = "repo"
    BY <1>4, GoFacts DEF InsertAccount
  <2>2. /\ UNCHANGED <<told, plc>> /\ d \notin disturbed /\ ~Exists(req[r].did)
        /\ req[r].kind = "signUp" /\ req[r].at = "insert" /\ req[r].did \in Did /\ req[r].handle \in Handle
        /\ accounts' = [accounts EXCEPT ![req[r].did] = [handle |-> req[r].handle, active |-> TRUE]]
        /\ life' = [life EXCEPT ![req[r].did] = @ + 1]
    BY <1>4, RequestFacts DEF InsertAccount, repos, ghosts, At
  <2>3. CASE d # req[r].did
    <3>1. ~Matters(r, d) /\ ~Matters(r, d)' /\ ~Under(r, d, "signUp", {"insert"})'
      BY <1>p, <2>1, <2>2, <2>3 DEF Matters, Under
    <3>2. accounts'[d] = accounts[d] /\ life'[d] = life[d]
      BY <2>2, <2>3 DEF TypeOK
    <3> QED
      BY <1>q, <2>1, <2>2, <3>1, <3>2, FitsFar
  <2>4. CASE d = req[r].did
    <3>1. \A q \in Req : req'[q].did = d => q = r
      BY <1>q, <2>1, <2>2, <2>4 DEF Others
    <3>2. accounts'[d].handle = req[r].handle /\ accounts'[d].active
      BY <2>2, <2>4 DEF TypeOK
    <3>3. life[d] \in Nat /\ life'[d] = life[d] + 1
      BY <2>2, <2>4 DEF TypeOK
    <3>4. told[d].status \in Statuses(d)'
      <4>1. Exists(d)'
        <5>1. [handle |-> req[r].handle, active |-> TRUE] \in Row
          BY <2>2 DEF Row
        <5> QED
          BY <2>2, <2>4, <5>1 DEF TypeOK, Exists
      <4>2. CASE life[d] = 0
        BY <1>q, <2>2, <3>2, <4>1, <4>2 DEF Statuses, Unborn
      <4>3. CASE life[d] > 0
        <5>1. \A q \in Req : ~Under(q, d, "status", {"event"}) /\ ~Under(q, d, "delete", {"event"})
          BY <1>q, <2>2, <2>4 DEF Under
        <5>2. told[d].status = "deleted"
          BY <1>q, <2>2, <2>4, <4>3, <5>1 DEF StatusFits, Statuses
        <5> QED
          BY <3>2, <3>3, <4>1, <4>3, <5>2 DEF Statuses
      <4> QED
        BY <3>3, <4>2, <4>3
    <3>5. StatusFits(d)'
      BY <2>1, <2>2, <3>1, <3>4 DEF StatusFits, Under, Kept
    <3>6. d \in PlcDid => Latest(d)' = req[r].handle
      BY <1>q, <2>2, <2>4 DEF HandleFits, Latest, Under
    <3>7. HandleFits(d)'
      BY <2>1, <2>2, <2>4, <3>1, <3>2, <3>6 DEF HandleFits, Under, Kept
    <3> QED
      BY <3>5, <3>7
  <2> QED
    BY <2>3, <2>4
<1>5. ASSUME NEW r \in Req, InsertRefused(r) PROVE HandleFits(d)' /\ StatusFits(d)'
  <2>1. /\ Others(r) /\ UNCHANGED <<accounts, told, life>> /\ d \notin disturbed
        /\ (d \in PlcDid => plc'[d] = plc[d])
    BY <1>5, EndFacts, RequestFacts DEF InsertRefused, repos, ghosts, At, TypeOK
  <2>2. ~Matters(r, d) /\ ~Matters(r, d)' /\ (d \in PlcDid => ~Under(r, d, "signUp", {"insert"})')
    BY <1>5, <1>p, <1>q, <2>1, EndFacts, RequestFacts DEF InsertRefused, repos, ghosts, At, Matters, Under
  <2> QED
    BY <1>q, <2>1, <2>2, FitsFar
<1>6. ASSUME NEW r \in Req, CreateRepo(r) PROVE HandleFits(d)' /\ StatusFits(d)'
  <2>1. Others(r) /\ Kept(r) /\ req'[r].did = req[r].did /\ req'[r].at \in {"session", "code"}
    BY <1>6, GoFacts DEF CreateRepo
  <2>2. /\ UNCHANGED <<accounts, plc, life>> /\ d \notin disturbed
        /\ req[r].kind = "signUp" /\ req[r].at = "repo" /\ req[r].did \in Did
        /\ told' = [told EXCEPT ![req[r].did].handle = accounts[req[r].did].handle]
    BY <1>6, RequestFacts DEF CreateRepo, repos, ghosts, At
  <2>3. CASE d # req[r].did
    <3>1. ~Matters(r, d) /\ ~Matters(r, d)' /\ ~Under(r, d, "signUp", {"insert"})'
      BY <1>p, <2>1, <2>2, <2>3 DEF Matters, Under
    <3>2. told'[d] = told[d]
      BY <2>2, <2>3, ToldFields
    <3> QED
      BY <1>q, <2>1, <2>2, <3>1, <3>2, FitsFar
  <2>4. CASE d = req[r].did
    <3>1. \A q \in Req : req'[q].did = d => q = r
      BY <1>q, <2>1, <2>2, <2>4 DEF Others
    <3>2. told'[d].handle = accounts[d].handle /\ told'[d].status = told[d].status
      BY <2>2, <2>4, ToldFields
    <3>3. StatusFits(d)'
      <4>1. \A q \in Req : ~Under(q, d, "status", {"event"}) /\ ~Under(q, d, "delete", {"event"})
        BY <1>q, <2>2, <2>4 DEF Under
      <4>2. Statuses(d)' = Statuses(d)
        BY <2>2 DEF Statuses, Exists
      <4> QED
        BY <1>q, <2>1, <2>2, <3>1, <3>2, <4>1, <4>2 DEF StatusFits, Under
    <3>4. d \in PlcDid /\ Exists(d)' => Latest(d)' = accounts'[d].handle
      <4>1. \A q \in Req : ~Under(q, d, "handle", {"update"})
        BY <1>q, <2>2, <2>4 DEF Under
      <4> QED
        BY <1>q, <2>2, <4>1 DEF HandleFits, Latest, Exists
    <3>5. HandleFits(d)'
      BY <2>1, <2>2, <3>1, <3>2, <3>4 DEF HandleFits, Under, Kept
    <3> QED
      BY <3>3, <3>5
  <2> QED
    BY <2>3, <2>4
<1>7. ASSUME NEW r \in Req, CreateRepoFails(r) PROVE HandleFits(d)' /\ StatusFits(d)'
  <2>1. /\ Others(r) /\ UNCHANGED <<accounts, told, life>> /\ d \notin disturbed
        /\ (d \in PlcDid => plc'[d] = plc[d])
    BY <1>7, EndFacts, RequestFacts DEF CreateRepoFails, repos, ghosts, At, TypeOK
  <2>2. ~Matters(r, d) /\ ~Matters(r, d)' /\ (d \in PlcDid => ~Under(r, d, "signUp", {"insert"})')
    BY <1>7, <1>p, <1>q, <2>1, EndFacts, RequestFacts DEF CreateRepoFails, repos, ghosts, At, Matters, Under
  <2> QED
    BY <1>q, <2>1, <2>2, FitsFar
<1>8. ASSUME NEW r \in Req, CreateRepoRefused(r) PROVE HandleFits(d)' /\ StatusFits(d)'
  <2>1. /\ Others(r) /\ UNCHANGED <<accounts, told, life>> /\ d \notin disturbed
        /\ (d \in PlcDid => plc'[d] = plc[d])
    BY <1>8, EndFacts, RequestFacts DEF CreateRepoRefused, repos, ghosts, At, TypeOK
  <2>2. ~Matters(r, d) /\ ~Matters(r, d)' /\ (d \in PlcDid => ~Under(r, d, "signUp", {"insert"})')
    BY <1>8, <1>p, <1>q, <2>1, EndFacts, RequestFacts DEF CreateRepoRefused, repos, ghosts, At, Matters, Under, RowFits
  <2> QED
    BY <1>q, <2>1, <2>2, FitsFar
<1>9. ASSUME NEW r \in Req, MarkCode(r) PROVE HandleFits(d)' /\ StatusFits(d)'
  <2>1. /\ Others(r) /\ UNCHANGED <<accounts, told, life>> /\ d \notin disturbed
        /\ (d \in PlcDid => plc'[d] = plc[d])
    BY <1>9, GoFacts, RequestFacts DEF MarkCode, repos, ghosts, At, TypeOK
  <2>2. ~Matters(r, d) /\ ~Matters(r, d)' /\ (d \in PlcDid => ~Under(r, d, "signUp", {"insert"})')
    BY <1>9, <1>p, <1>q, <2>1, GoFacts, RequestFacts DEF MarkCode, repos, ghosts, At, Matters, Under, Kept
  <2> QED
    BY <1>q, <2>1, <2>2, FitsFar
<1>10. ASSUME NEW r \in Req, MarkCodeFails(r) PROVE HandleFits(d)' /\ StatusFits(d)'
  <2>1. /\ Others(r) /\ UNCHANGED <<accounts, told, life>> /\ d \notin disturbed
        /\ (d \in PlcDid => plc'[d] = plc[d])
    BY <1>10, GoFacts, RequestFacts DEF MarkCodeFails, repos, ghosts, At, TypeOK
  <2>2. ~Matters(r, d) /\ ~Matters(r, d)' /\ (d \in PlcDid => ~Under(r, d, "signUp", {"insert"})')
    BY <1>10, <1>p, <1>q, <2>1, GoFacts, RequestFacts DEF MarkCodeFails, repos, ghosts, At, Matters, Under, Kept
  <2> QED
    BY <1>q, <2>1, <2>2, FitsFar
<1>11. ASSUME NEW r \in Req, MintSession(r) PROVE HandleFits(d)' /\ StatusFits(d)'
  <2>1. /\ Others(r) /\ UNCHANGED <<accounts, told, life>> /\ d \notin disturbed
        /\ (d \in PlcDid => plc'[d] = plc[d])
    BY <1>11, EndFacts, RequestFacts DEF MintSession, repos, ghosts, At, TypeOK
  <2>2. ~Matters(r, d) /\ ~Matters(r, d)' /\ (d \in PlcDid => ~Under(r, d, "signUp", {"insert"})')
    BY <1>11, <1>p, <1>q, <2>1, EndFacts, RequestFacts DEF MintSession, repos, ghosts, At, Matters, Under
  <2> QED
    BY <1>q, <2>1, <2>2, FitsFar
<1>12. ASSUME NEW r \in Req, BeginUpdateHandle(r) PROVE HandleFits(d)' /\ StatusFits(d)'
  <2>1. /\ Others(r) /\ UNCHANGED <<accounts, told, life>> /\ d \notin disturbed
        /\ (d \in PlcDid => plc'[d] = plc[d])
    BY <1>12, StartFacts, RequestFacts DEF BeginUpdateHandle, repos, ghosts, At, TypeOK
  <2>2. ~Matters(r, d) /\ ~Matters(r, d)' /\ (d \in PlcDid => ~Under(r, d, "signUp", {"insert"})')
    BY <1>12, <1>p, <1>q, <2>1, StartFacts, RequestFacts DEF BeginUpdateHandle, repos, ghosts, At, Matters, Under, ToUpdateHandle
  <2> QED
    BY <1>q, <2>1, <2>2, FitsFar
<1>13. ASSUME NEW r \in Req, Submit(r) PROVE HandleFits(d)' /\ StatusFits(d)'
  <2>1. Others(r) /\ Kept(r) /\ req'[r].did = req[r].did /\ req'[r].at = "update"
    BY <1>13, GoFacts DEF Submit
  <2>2. /\ UNCHANGED <<accounts, told, life>> /\ d \notin disturbed
        /\ req[r].kind = "handle" /\ req[r].at = "submit" /\ req[r].did \in PlcDid /\ req[r].handle \in Handle
        /\ plc' = [plc EXCEPT ![req[r].did] = Append(@, req[r].handle)]
    BY <1>13, RequestFacts DEF Submit, repos, ghosts, At
  <2>3. CASE d # req[r].did
    <3>1. ~Matters(r, d) /\ ~Matters(r, d)' /\ ~Under(r, d, "signUp", {"insert"})'
      BY <1>p, <2>1, <2>2, <2>3 DEF Matters, Under
    <3>2. d \in PlcDid => plc'[d] = plc[d]
      BY <2>2, <2>3 DEF TypeOK
    <3> QED
      BY <1>q, <2>1, <2>2, <3>1, <3>2, FitsFar
  <2>4. CASE d = req[r].did
    <3>0. \A q \in Req \ {r} : req[q].did = d => req[q].kind \notin {"handle", "signUp", "delete"}
      BY <2>2, <2>4, OnlyKinds
    <3>1. \A q \in Req \ {r} : req'[q] = req[q] /\ (req[q].did = d => req[q].kind \notin {"handle", "signUp", "delete"})
      BY <2>1, <3>0 DEF Others
    <3>2. Latest(d)' = req[r].handle
      <4>1. plc[d] \in Seq(Handle) /\ plc'[d] = Append(plc[d], req[r].handle)
        BY <2>2, <2>4 DEF TypeOK
      <4> QED
        BY <2>2, <4>1, LatestAppend DEF Latest
    <3>3. StatusFits(d)'
      <4>1. Statuses(d)' = Statuses(d) /\ Exists(d)' = Exists(d)
        BY <2>2 DEF Statuses, Exists
      <4> QED
        BY <1>q, <2>1, <2>2, <3>1, <4>1 DEF StatusFits, Under, Kept
    <3>4. told[d].handle = accounts[d].handle \/ ~Exists(d)
      BY <1>q, <2>2, <3>1, <2>4 DEF HandleFits, Under
    <3>5. HandleFits(d)'
      BY <1>q, <2>1, <2>2, <2>4, <3>1, <3>2, <3>4 DEF HandleFits, Under, Kept, Exists
    <3> QED
      BY <3>3, <3>5
  <2> QED
    BY <2>3, <2>4
<1>14. ASSUME NEW r \in Req, SubmitRefused(r) PROVE HandleFits(d)' /\ StatusFits(d)'
  <2>1. /\ Others(r) /\ UNCHANGED <<accounts, told, life>> /\ d \notin disturbed
        /\ (d \in PlcDid => plc'[d] = plc[d])
    BY <1>14, EndFacts, RequestFacts DEF SubmitRefused, repos, ghosts, At, TypeOK
  <2>2. ~Matters(r, d) /\ ~Matters(r, d)' /\ (d \in PlcDid => ~Under(r, d, "signUp", {"insert"})')
    BY <1>14, <1>p, <1>q, <2>1, EndFacts, RequestFacts DEF SubmitRefused, repos, ghosts, At, Matters, Under
  <2> QED
    BY <1>q, <2>1, <2>2, FitsFar
<1>15. ASSUME NEW r \in Req, SubmitAnswerLost(r) PROVE HandleFits(d)' /\ StatusFits(d)'
  <2>1. /\ Others(r) /\ UNCHANGED <<accounts, told, life>> /\ d \notin disturbed
        /\ (d \in PlcDid => plc'[d] = plc[d])
    BY <1>15, EndFacts, RequestFacts DEF SubmitAnswerLost, repos, ghosts, At, TypeOK
  <2>2. ~Matters(r, d) /\ ~Matters(r, d)' /\ (d \in PlcDid => ~Under(r, d, "signUp", {"insert"})')
    BY <1>15, <1>p, <1>q, <2>1, EndFacts, RequestFacts DEF SubmitAnswerLost, repos, ghosts, At, Matters, Under
  <2> QED
    BY <1>q, <2>1, <2>2, FitsFar
<1>16. ASSUME NEW r \in Req, UpdateRow(r) PROVE HandleFits(d)' /\ StatusFits(d)'
  <2>1. Others(r) /\ Kept(r) /\ req'[r].did = req[r].did /\ req'[r].at = "event"
    BY <1>16, GoFacts DEF UpdateRow
  <2>2. /\ UNCHANGED <<plc, told, life>> /\ d \notin disturbed
        /\ req[r].kind = "handle" /\ req[r].at = "update" /\ req[r].did \in PlcDid /\ req[r].handle \in Handle
        /\ accounts' = IF Exists(req[r].did) THEN [accounts EXCEPT ![req[r].did].handle = req[r].handle]
                        ELSE accounts
        /\ req[r].did \in Did
    BY <1>16, RequestFacts DEF UpdateRow, repos, ghosts, At, Did
  <2>3. CASE d # req[r].did
    <3>1. ~Matters(r, d) /\ ~Matters(r, d)' /\ ~Under(r, d, "signUp", {"insert"})'
      BY <1>p, <2>1, <2>2, <2>3 DEF Matters, Under
    <3>2. accounts'[d] = accounts[d]
      BY <2>2, <2>3, RowFields
    <3> QED
      BY <1>q, <2>1, <2>2, <3>1, <3>2, FitsFar
  <2>4. CASE d = req[r].did
    <3>0. \A q \in Req \ {r} : req[q].did = d => req[q].kind \notin {"handle", "signUp", "delete"}
      BY <2>2, <2>4, OnlyKinds
    <3>1. \A q \in Req \ {r} : req'[q] = req[q] /\ (req[q].did = d => req[q].kind \notin {"handle", "signUp", "delete"})
      BY <2>1, <3>0 DEF Others
    <3>2. Exists(d)' <=> Exists(d)
      BY <2>2, <2>4, RowKept DEF Exists
    <3>3. Exists(d) => accounts'[d].handle = req[r].handle /\ accounts'[d].active = accounts[d].active
      BY <2>2, <2>4, RowFields
    <3>4. StatusFits(d)'
      <4>1. Statuses(d)' = Statuses(d)
        BY <2>2, <3>2, <3>3 DEF Statuses
      <4> QED
        BY <1>q, <2>1, <2>2, <3>1, <3>2, <3>3, <4>1 DEF StatusFits, Under, Kept
    <3>5. Latest(d)' = req[r].handle
      BY <1>q, <2>2, <2>4 DEF HandleFits, Under, Latest
    <3>6. HandleFits(d)'
      BY <2>1, <2>2, <2>4, <3>1, <3>2, <3>3, <3>5 DEF HandleFits, Under, Kept
    <3> QED
      BY <3>4, <3>6
  <2> QED
    BY <2>3, <2>4
<1>17. ASSUME NEW r \in Req, UpdateRowRefused(r) PROVE HandleFits(d)' /\ StatusFits(d)'
  <2>1. /\ Others(r) /\ UNCHANGED <<accounts, told, life>> /\ d \notin disturbed
        /\ (d \in PlcDid => plc'[d] = plc[d])
    BY <1>17, EndFacts, RequestFacts DEF UpdateRowRefused, repos, ghosts, At, TypeOK
  <2>2. ~Matters(r, d) /\ ~Matters(r, d)' /\ (d \in PlcDid => ~Under(r, d, "signUp", {"insert"})')
    BY <1>17, <1>p, <1>q, <2>1, EndFacts, RequestFacts DEF UpdateRowRefused, repos, ghosts, At, Matters, Under
  <2> QED
    BY <1>q, <2>1, <2>2, FitsFar
<1>18. ASSUME NEW r \in Req, EmitIdentity(r) PROVE HandleFits(d)' /\ StatusFits(d)'
  <2>1. Others(r) /\ req'[r] = Idle
    BY <1>18, EndFacts DEF EmitIdentity
  <2>2. /\ UNCHANGED <<accounts, plc, life>> /\ d \notin disturbed
        /\ req[r].kind = "handle" /\ req[r].at = "event" /\ req[r].did \in Did
        /\ told' = [told EXCEPT ![req[r].did].handle = req[r].handle]
    BY <1>18, RequestFacts DEF EmitIdentity, repos, ghosts, At
  <2>3. CASE d # req[r].did
    <3>1. ~Matters(r, d) /\ ~Matters(r, d)' /\ ~Under(r, d, "signUp", {"insert"})'
      BY <1>p, <2>1, <2>2, <2>3 DEF Matters, Under
    <3>2. told'[d] = told[d]
      BY <2>2, <2>3, ToldFields
    <3> QED
      BY <1>q, <2>1, <2>2, <3>1, <3>2, FitsFar
  <2>4. CASE d = req[r].did
    <3>0. \A q \in Req \ {r} : req[q].did = d => req[q].kind \notin {"handle", "signUp", "delete"}
      BY <2>2, <2>4, OnlyKinds
    <3>1. \A q \in Req \ {r} : req'[q] = req[q] /\ (req[q].did = d => req[q].kind \notin {"handle", "signUp", "delete"})
      BY <2>1, <3>0 DEF Others
    <3>2. told'[d].handle = req[r].handle /\ told'[d].status = told[d].status
      BY <2>2, <2>4, ToldFields
    <3>3. req'[r].did # d
      BY <1>p, <2>1
    <3>4. StatusFits(d)'
      <4>1. Statuses(d)' = Statuses(d) /\ Exists(d)' = Exists(d)
        BY <2>2 DEF Statuses, Exists
      <4> QED
        BY <1>q, <2>2, <3>1, <3>2, <3>3, <4>1 DEF StatusFits, Under
    <3>5. Exists(d) => accounts[d].handle = req[r].handle
      BY <1>q, <2>2, <2>4 DEF HandleFits, Under
    <3>6. HandleFits(d)'
      <4>1. Latest(d)' = Latest(d) /\ Exists(d)' = Exists(d)
        BY <2>2 DEF Latest, Exists
      <4> QED
        BY <1>q, <2>2, <3>1, <3>2, <3>3, <3>5, <4>1 DEF HandleFits, Under
    <3> QED
      BY <3>4, <3>6
  <2> QED
    BY <2>3, <2>4
<1>19. ASSUME NEW r \in Req, SetActive(r) PROVE HandleFits(d)' /\ StatusFits(d)'
  <2>0. PICK c \in Did, on \in BOOLEAN : SetActive(r)!(c, on)
    BY <1>19 DEF SetActive
  <2>1. Others(r) /\ req[r] = Idle /\ req'[r].kind = "status" /\ req'[r].at = "event" /\ req'[r].did = c
        /\ req'[r].active = on
    BY <2>0, StartFacts DEF ToSetActive
  <2>2. /\ UNCHANGED <<plc, told, life>> /\ d \notin disturbed
        /\ accounts' = IF Exists(c) THEN [accounts EXCEPT ![c].active = on] ELSE accounts
        /\ d \notin Crossed("status", c) \cup Late(c)
    BY <2>0 DEF repos, ghosts
  <2>3. CASE d # c
    <3>1. ~Matters(r, d) /\ ~Matters(r, d)' /\ ~Under(r, d, "signUp", {"insert"})'
      BY <1>p, <2>1, <2>3 DEF Matters, Under
    <3>2. accounts'[d] = accounts[d]
      BY <2>2, <2>3, RowFields
    <3> QED
      BY <1>q, <2>1, <2>2, <3>1, <3>2, FitsFar
  <2>4. CASE d = c
    <3>0. Exists(d) /\ \A q \in Req : req[q].did = d => req[q].kind \notin {"status", "signUp", "delete"}
      BY <2>2, <2>4 DEF Crossed, Late, Conflict
    <3>1. \A q \in Req \ {r} : req'[q] = req[q] /\ (req[q].did = d => req[q].kind \notin {"status", "signUp", "delete"})
      BY <2>1, <3>0 DEF Others
    <3>2. Exists(d)'
      BY <2>2, <2>4, <3>0, RowKept DEF Exists
    <3>3. accounts'[d].active = on /\ accounts'[d].handle = accounts[d].handle
      BY <2>2, <2>4, <3>0, RowFields
    <3>4. StatusFits(d)'
      BY <2>1, <2>4, <3>1, <3>2, <3>3 DEF StatusFits, Under
    <3>5. HandleFits(d)'
      <4>1. Latest(d)' = Latest(d) /\ req[r].did # d
        BY <1>p, <2>1, <2>2 DEF Latest
      <4> QED
        BY <1>q, <2>1, <2>2, <3>0, <3>1, <3>2, <3>3, <4>1 DEF HandleFits, Under
    <3> QED
      BY <3>4, <3>5
  <2> QED
    BY <2>3, <2>4
<1>20. ASSUME NEW r \in Req, EmitAccount(r) PROVE HandleFits(d)' /\ StatusFits(d)'
  <2>1. Others(r) /\ req'[r] = Idle
    BY <1>20, EndFacts DEF EmitAccount
  <2>2. /\ UNCHANGED <<accounts, plc, life>> /\ d \notin disturbed
        /\ req[r].kind = "status" /\ req[r].at = "event" /\ req[r].did \in Did
        /\ told' = [told EXCEPT ![req[r].did].status = IF req[r].active THEN "active" ELSE "deactivated"]
    BY <1>20, RequestFacts DEF EmitAccount, repos, ghosts, At
  <2>3. CASE d # req[r].did
    <3>1. ~Matters(r, d) /\ ~Matters(r, d)' /\ ~Under(r, d, "signUp", {"insert"})'
      BY <1>p, <2>1, <2>2, <2>3 DEF Matters, Under
    <3>2. told'[d] = told[d]
      BY <2>2, <2>3, ToldFields
    <3> QED
      BY <1>q, <2>1, <2>2, <3>1, <3>2, FitsFar
  <2>4. CASE d = req[r].did
    <3>0. \A q \in Req \ {r} : req[q].did = d => req[q].kind \notin {"status", "signUp", "delete"}
      BY <2>2, <2>4, OnlyKinds
    <3>1. \A q \in Req \ {r} : req'[q] = req[q] /\ (req[q].did = d => req[q].kind \notin {"status", "signUp", "delete"})
      BY <2>1, <3>0 DEF Others
    <3>2. /\ told'[d].status = (IF req[r].active THEN "active" ELSE "deactivated")
          /\ told'[d].handle = told[d].handle
      BY <2>2, <2>4, ToldFields
    <3>3. req'[r].did # d
      BY <1>p, <2>1
    <3>4. StatusFits(d)'
      <4>1. Exists(d) /\ accounts[d].active = req[r].active
        BY <1>q, <2>2, <2>4 DEF StatusFits, Under
      <4>2. told'[d].status \in Statuses(d)'
        BY <2>2, <3>2, <4>1 DEF Statuses, Exists
      <4> QED
        BY <3>1, <3>3, <4>2 DEF StatusFits, Under
    <3>5. HandleFits(d)'
      <4>1. Latest(d)' = Latest(d) /\ Exists(d)' = Exists(d)
        BY <2>2 DEF Latest, Exists
      <4> QED
        BY <1>q, <2>2, <3>1, <3>2, <3>3, <4>1 DEF HandleFits, Under
    <3> QED
      BY <3>4, <3>5
  <2> QED
    BY <2>3, <2>4
<1>21. ASSUME NEW r \in Req, BeginDelete(r) PROVE HandleFits(d)' /\ StatusFits(d)'
  <2>1. /\ Others(r) /\ UNCHANGED <<accounts, told, life>> /\ d \notin disturbed
        /\ (d \in PlcDid => plc'[d] = plc[d])
    BY <1>21, StartFacts, RequestFacts DEF BeginDelete, repos, ghosts, At, TypeOK
  <2>2. ~Matters(r, d) /\ ~Matters(r, d)' /\ (d \in PlcDid => ~Under(r, d, "signUp", {"insert"})')
    BY <1>21, <1>p, <1>q, <2>1, StartFacts, RequestFacts DEF BeginDelete, repos, ghosts, At, Matters, Under, ToDelete
  <2> QED
    BY <1>q, <2>1, <2>2, FitsFar
<1>22. ASSUME NEW r \in Req, DeleteRepo(r) PROVE HandleFits(d)' /\ StatusFits(d)'
  <2>1. /\ Others(r) /\ UNCHANGED <<accounts, told, life>> /\ d \notin disturbed
        /\ (d \in PlcDid => plc'[d] = plc[d])
    BY <1>22, GoFacts, RequestFacts DEF DeleteRepo, repos, ghosts, At, TypeOK
  <2>2. ~Matters(r, d) /\ ~Matters(r, d)' /\ (d \in PlcDid => ~Under(r, d, "signUp", {"insert"})')
    BY <1>22, <1>p, <1>q, <2>1, GoFacts, RequestFacts DEF DeleteRepo, repos, ghosts, At, Matters, Under, Kept
  <2> QED
    BY <1>q, <2>1, <2>2, FitsFar
<1>23. ASSUME NEW r \in Req, DeleteRepoFails(r) PROVE HandleFits(d)' /\ StatusFits(d)'
  <2>1. /\ Others(r) /\ UNCHANGED <<accounts, told, life>> /\ d \notin disturbed
        /\ (d \in PlcDid => plc'[d] = plc[d])
    BY <1>23, EndFacts, RequestFacts DEF DeleteRepoFails, repos, ghosts, At, TypeOK
  <2>2. ~Matters(r, d) /\ ~Matters(r, d)' /\ (d \in PlcDid => ~Under(r, d, "signUp", {"insert"})')
    BY <1>23, <1>p, <1>q, <2>1, EndFacts, RequestFacts DEF DeleteRepoFails, repos, ghosts, At, Matters, Under
  <2> QED
    BY <1>q, <2>1, <2>2, FitsFar
<1>24. ASSUME NEW r \in Req, DeleteRow(r) PROVE HandleFits(d)' /\ StatusFits(d)'
  <2>1. Others(r) /\ Kept(r) /\ req'[r].did = req[r].did /\ req'[r].at = "event"
    BY <1>24, GoFacts DEF DeleteRow
  <2>2. /\ UNCHANGED <<plc, told, life>> /\ d \notin disturbed
        /\ req[r].kind = "delete" /\ req[r].at = "row" /\ req[r].did \in Did
        /\ accounts' = [accounts EXCEPT ![req[r].did] = None]
    BY <1>24, RequestFacts DEF DeleteRow, repos, ghosts, At
  <2>3. CASE d # req[r].did
    <3>1. ~Matters(r, d) /\ ~Matters(r, d)' /\ ~Under(r, d, "signUp", {"insert"})'
      BY <1>p, <2>1, <2>2, <2>3 DEF Matters, Under
    <3>2. accounts'[d] = accounts[d]
      BY <2>2, <2>3 DEF TypeOK
    <3> QED
      BY <1>q, <2>1, <2>2, <3>1, <3>2, FitsFar
  <2>4. CASE d = req[r].did
    <3>1. \A q \in Req : req'[q].did = d => q = r
      BY <1>q, <2>1, <2>2, <2>4 DEF Others
    <3>2. ~Exists(d)'
      BY <2>2, <2>4 DEF TypeOK, Exists
    <3>3. HandleFits(d)' /\ StatusFits(d)'
      BY <2>1, <2>2, <2>4, <3>1, <3>2 DEF HandleFits, StatusFits, Under, Kept
    <3> QED
      BY <3>3
  <2> QED
    BY <2>3, <2>4
<1>25. ASSUME NEW r \in Req, EmitDeleted(r) PROVE HandleFits(d)' /\ StatusFits(d)'
  <2>1. Others(r) /\ req'[r] = Idle
    BY <1>25, EndFacts DEF EmitDeleted
  <2>2. /\ UNCHANGED <<accounts, plc, life>> /\ d \notin disturbed
        /\ req[r].kind = "delete" /\ req[r].at = "event" /\ req[r].did \in Did
        /\ told' = [told EXCEPT ![req[r].did].status = "deleted"]
    BY <1>25, RequestFacts DEF EmitDeleted, repos, ghosts, At
  <2>3. CASE d # req[r].did
    <3>1. ~Matters(r, d) /\ ~Matters(r, d)' /\ ~Under(r, d, "signUp", {"insert"})'
      BY <1>p, <2>1, <2>2, <2>3 DEF Matters, Under
    <3>2. told'[d] = told[d]
      BY <2>2, <2>3, ToldFields
    <3> QED
      BY <1>q, <2>1, <2>2, <3>1, <3>2, FitsFar
  <2>4. CASE d = req[r].did
    <3>1. \A q \in Req : req'[q].did # d
      BY <1>p, <1>q, <2>1, <2>2, <2>4 DEF Others
    <3>2. ~Exists(d)' /\ told'[d].status = "deleted"
      BY <1>q, <2>2, <2>4, ToldFields DEF RowFits, Under, Exists
    <3>3. HandleFits(d)' /\ StatusFits(d)'
      BY <3>1, <3>2 DEF HandleFits, StatusFits, Statuses, Under
    <3> QED
      BY <3>3
  <2> QED
    BY <2>3, <2>4
<1>26. ASSUME NEW r \in Req, Cut(r) PROVE HandleFits(d)' /\ StatusFits(d)'
  <2>1. Others(r) /\ req'[r] = Idle /\ UNCHANGED <<accounts, told, plc, life>>
        /\ disturbed \subseteq disturbed' /\ ~Matters(r, d)
    BY <1>26, EndFacts, MattersTouched DEF Cut, repos, ghosts
  <2>2. ~Matters(r, d)' /\ ~Under(r, d, "signUp", {"insert"})'
    BY <1>p, <2>1 DEF Matters, Under
  <2> QED
    BY <1>p, <1>q, <2>1, <2>2, FitsFar
<1>27. ASSUME NEW c \in Did, Write(c) PROVE HandleFits(d)' /\ StatusFits(d)'
  BY <1>27, <1>q, FitsStay DEF Write, repos, ghosts, Matters, Under
<1>28. ASSUME NEW c \in Did, WriteRefused(c) PROVE HandleFits(d)' /\ StatusFits(d)'
  BY <1>28, <1>q, FitsStay DEF WriteRefused, repos, ghosts, Matters, Under
<1>29. CASE Restart
  <2>1. UNCHANGED <<accounts, told, plc, life>> /\ d \notin disturbed /\ \A r \in Req : req'[r] = Idle
    BY <1>29 DEF Restart, repos, ghosts
  <2>2. \A r \in Req : ~Matters(r, d)
    BY <1>29, MattersTouched DEF Restart
  <2>3. \A r \in Req : ~Matters(r, d)' /\ ~Under(r, d, "signUp", {"insert"})'
    BY <1>p, <2>1 DEF Matters, Under
  <2> QED
    BY <1>q, <2>1, <2>2, <2>3, FitsStay
<1>30. ASSUME NEW r \in Req, SignUp(r) PROVE HandleFits(d)' /\ StatusFits(d)'
  BY <1>30, <1>1, <1>2, <1>3, <1>4, <1>5, <1>6, <1>7, <1>8, <1>9, <1>10, <1>11 DEF SignUp
<1>31. ASSUME NEW r \in Req, UpdateHandle(r) PROVE HandleFits(d)' /\ StatusFits(d)'
  BY <1>31, <1>12, <1>13, <1>14, <1>15, <1>16, <1>17, <1>18 DEF UpdateHandle
<1>32. ASSUME NEW r \in Req, Status(r) \/ Delete(r) PROVE HandleFits(d)' /\ StatusFits(d)'
  BY <1>32, <1>19, <1>20, <1>21, <1>22, <1>23, <1>24, <1>25 DEF Status, Delete
<1> QED
  BY <1>26, <1>27, <1>28, <1>29, <1>30, <1>31, <1>32 DEF Next

\* Nothing is said of anybody by the empty server.
LEMMA InitAnnounced ==
  Init => Announced
<1> SUFFICES ASSUME Init, NEW d \in Did PROVE Unborn(d) /\ HandleFits(d) /\ StatusFits(d)
  BY DEF Announced
<1>1. /\ ~Exists(d) /\ life[d] = 0 /\ told[d].status = "none"
      /\ \A r \in Req : req[r].did # d /\ ~Matters(r, d) /\ ~Under(r, d, "signUp", {"insert"})
  BY AccountsAssumption, IdleFields DEF Init, repos, ghosts, Exists, Did, Matters, Under
<1>2. ~Exists(d) /\ \A r \in Req : ~Under(r, d, "handle", {"update"}) /\ ~Under(r, d, "handle", {"event"})
  BY <1>1 DEF Matters, Under
<1>3. HandleFits(d)
  BY <1>1, <1>2 DEF HandleFits
<1>4. StatusFits(d)
  BY <1>1 DEF StatusFits, Matters
<1>5. Unborn(d)
  BY <1>1 DEF Unborn
<1> QED
  BY <1>3, <1>4, <1>5

\* Every step keeps what was announced fitting.
LEMMA AnnouncedStep ==
  IInv /\ Announced /\ [Next]_vars => Announced'
<1> SUFFICES ASSUME IInv, Announced, [Next]_vars PROVE Announced'
  OBVIOUS
<1>1. CASE Next
  <2>1. \A d \in Did : Unborn(d)'
    BY <1>1, UnbornStep
  <2>2. \A d \in Did \ disturbed' : HandleFits(d)' /\ StatusFits(d)'
    BY <1>1, FitsStep
  <2> QED
    BY <2>1, <2>2 DEF Announced
<1>2. CASE UNCHANGED vars
  <2>1. UNCHANGED <<accounts, plc, told, req, life, disturbed>>
    BY <1>2 DEF vars, repos, ghosts
  <2>2. \A d \in Did : Unborn(d)'
    BY <2>1 DEF Announced, Unborn, Exists
  <2>3. ASSUME NEW d \in Did \ disturbed PROVE HandleFits(d)' /\ StatusFits(d)'
    BY <2>1, <2>3, FitsStay DEF Announced
  <2> QED
    BY <2>1, <2>2, <2>3 DEF Announced
<1> QED
  BY <1>1, <1>2

\* What was announced fits in every reachable state.
THEOREM AnnouncedInvariance ==
  Spec => []Announced
BY InitAnnounced, Invariance, AnnouncedStep, PTL DEF Spec

\* Between the requests of a DID that never conflicted or broke, its row, the
\* directory's last operation and its last #identity event give one handle.
THEOREM HandlesAgree ==
  Spec => []HandleAgrees
<1>1. Announced => HandleAgrees
  <2> SUFFICES ASSUME Announced, NEW d \in Did, Quiet(d), Exists(d)
               PROVE  /\ told[d].handle = accounts[d].handle
                      /\ d \in PlcDid => Latest(d) = accounts[d].handle
    BY DEF HandleAgrees, Latest
  <2>1. HandleFits(d) /\ \A r \in Req : req[r].did # d
    BY DEF Announced, Quiet
  <2> QED
    BY <2>1 DEF HandleFits, Under
<1> QED
  BY AnnouncedInvariance, <1>1, PTL

\* ... and its last #account event says what the row says.
THEOREM StatusIsTold ==
  Spec => []StatusTold
<1>1. Announced => StatusTold
  <2> SUFFICES ASSUME Announced, NEW d \in Did, Quiet(d), life[d] > 0
               PROVE  told[d].status \in Statuses(d)
    BY DEF StatusTold, Statuses
  <2>1. StatusFits(d) /\ \A r \in Req : req[r].did # d
    BY DEF Announced, Quiet
  <2> QED
    BY <2>1 DEF StatusFits, Under
<1> QED
  BY AnnouncedInvariance, <1>1, PTL
=============================================================================
