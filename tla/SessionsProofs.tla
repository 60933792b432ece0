--------------------------- MODULE SessionsProofs ---------------------------
(***************************************************************************)
(* Theorems about module Sessions: what a refresh token and an e-mail      *)
(* token are good for, however requests interleave and fail, for any       *)
(* number of accounts, requests and tokens.                                *)
(***************************************************************************)
EXTENDS Sessions, TLAPS

Refresh(r) == req[r].kind = "refresh"

(***************************************************************************)
(* The inductive invariant.                                                *)
(***************************************************************************)
\* A request under way names what it is about.
Proper ==
  \A r \in Req :
    /\ req[r].kind = "none" => req[r].at = "idle" /\ req[r].mail = 0
    /\ req[r].kind = "login" => req[r].at \in {"app", "mint"} /\ req[r].did \in Did /\ req[r].mail = 0
    /\ Refresh(r) => /\ req[r].at \in {"delete", "mint"} /\ req[r].did \in Did /\ req[r].mail = 0
                     /\ req[r].token \in Token /\ req[r].token <= minted
    /\ req[r].kind \in {"confirm", "reset"} =>
         /\ req[r].at \in {"mark", "update"} /\ req[r].mail \in Mail /\ mail[req[r].mail] # None
    /\ req[r].kind = "confirm" => req[r].email \in Email
    /\ req[r].kind = "reset" => req[r].typed \in Secret

\* Tokens are numbered as they are made, and a login is named by its first.
Numbered ==
  /\ \A t \in Token : t > minted => sessions[t] = None /\ login[t] = 0
  /\ \A t \in Token : login[t] <= minted
  /\ \A t \in Token : t <= minted => login[t] # 0
  /\ \A c \in ended : c <= minted

\* One refresh at a time holds the token of a login: before it deletes the
\* token the row is there, afterwards it is not, and the account is the one
\* the login was for.
Refreshes ==
  /\ \A r \in Req : Refresh(r) /\ sessions[req[r].token] # None =>
       sessions[req[r].token].did = req[r].did
  /\ \A r \in Req : Refresh(r) /\ login[req[r].token] \notin crossed =>
       /\ sessions[req[r].token] # None <=> req[r].at = "delete"
       /\ Exists(req[r].did)
       /\ born[req[r].token] = life[req[r].did]
  /\ \A r, q \in Req : /\ Refresh(r) /\ Refresh(q)
                       /\ login[req[r].token] = login[req[q].token]
                       /\ login[req[r].token] \notin crossed
                       => r = q

\* The steps of a request that holds an e-mail token, of which there is one:
\* it has changed the account only when a reset is about to mark the token,
\* and a confirmation has marked it before it changes the account.
HeldRight(m) ==
  /\ \A r, q \in Req : req[r].mail = m /\ req[q].mail = m => r = q
  /\ \A r \in Req : req[r].mail = m => acts[m] = IF At(r, "reset", "mark") THEN 1 ELSE 0
  /\ \A r \in Req : req[r].mail = m /\ At(r, "confirm", "update") => mail[m].used
  /\ (\A r \in Req : req[r].mail # m) => acts[m] = 0 \/ (acts[m] = 1 /\ mail[m].used)

MailHeld == \A m \in Mail \ reused : HeldRight(m)

\* An e-mail token that was not sent has no row and has changed nothing.
MailNumbered == \A m \in Mail : m > mailed => mail[m] = None /\ acts[m] = 0

IInv ==
  /\ TypeOK /\ Proper /\ Numbered /\ Refreshes /\ MailHeld /\ MailNumbered
  /\ OneHolder /\ LoginLasts /\ SessionsOwn

-----------------------------------------------------------------------------
(***************************************************************************)
(* What moving, starting and ending a request change, and what an action   *)
(* need not look at.                                                       *)
(***************************************************************************)
Places == {"idle", "app", "delete", "mint", "mark", "update"}

\* The requests other than r stay.
Others(r) == \A q \in Req \ {r} : req'[q] = req[q]

\* What request r is about stays.
Kept(r) ==
  /\ req'[r].kind = req[r].kind /\ req'[r].did = req[r].did /\ req'[r].app = req[r].app
  /\ req'[r].token = req[r].token /\ req'[r].mail = req[r].mail /\ req'[r].typed = req[r].typed
  /\ req'[r].email = req[r].email /\ req'[r].life = req[r].life

\* The idle request is about nothing.
LEMMA IdleFields ==
  Idle \in Request /\ Idle.kind = "none" /\ Idle.at = "idle" /\ Idle.mail = 0
BY DEF Idle, Request

\* Moving a request on.
LEMMA GoFacts ==
  ASSUME req \in [Req -> Request], NEW r \in Req, NEW a \in Places, Go(r, a)
  PROVE  req' \in [Req -> Request] /\ Others(r) /\ Kept(r) /\ req'[r].at = a
<1> DEFINE x == [req[r] EXCEPT !.at = a]
<1>1. x \in Request
  BY DEF Request, Places
<1>2. /\ x.kind = req[r].kind /\ x.did = req[r].did /\ x.app = req[r].app
      /\ x.token = req[r].token /\ x.mail = req[r].mail /\ x.typed = req[r].typed
      /\ x.email = req[r].email /\ x.life = req[r].life /\ x.at = a
  BY DEF Request
<1>3. req' = [req EXCEPT ![r] = x]
  BY DEF Go
<1> HIDE DEF x
<1>4. req'[r] = x /\ Others(r)
  BY <1>3 DEF Others
<1> QED
  BY <1>1, <1>2, <1>3, <1>4 DEF Kept

\* Ending one.
LEMMA EndFacts ==
  ASSUME req \in [Req -> Request], NEW r \in Req, End(r)
  PROVE  req' \in [Req -> Request] /\ Others(r) /\ req'[r] = Idle
BY IdleFields DEF End, Others

\* Starting one.
LEMMA StartFacts ==
  ASSUME req \in [Req -> Request], starts \in Nat, starts <= MaxStarts, NEW r \in Req,
         NEW x \in Request, Start(r, x)
  PROVE  /\ req' \in [Req -> Request] /\ Others(r) /\ req[r] = Idle /\ req'[r] = x
         /\ starts' \in Nat /\ starts' <= MaxStarts
BY SessionsAssumption DEF Start, Others

\* What leaves the sessions, the logins and the refreshes alone.
LEMMA HoldersStay ==
  ASSUME IInv, UNCHANGED <<sessions, login, crossed, ended, minted>>,
         \A q \in Req : req'[q].kind = "refresh" \/ Refresh(q) => req'[q] = req[q]
  PROVE  Numbered' /\ OneHolder' /\ LoginLasts'
<1> USE DEF IInv
<1>1. Numbered'
  BY DEF Numbered
<1>2. \A c \in Token : HoldersOf(c)' = HoldersOf(c)
  BY DEF HoldersOf, At, Refresh
<1> QED
  BY <1>1, <1>2 DEF OneHolder, LoginLasts

\* And the accounts.
LEMMA RefreshesStay ==
  ASSUME IInv, UNCHANGED <<sessions, login, born, crossed, life>>,
         \A d \in Did : accounts'[d] # None <=> accounts[d] # None,
         \A q \in Req : req'[q].kind = "refresh" \/ Refresh(q) => req'[q] = req[q]
  PROVE  Refreshes'
BY DEF IInv, Refreshes, Refresh, Proper, Exists

\* What leaves the e-mail tokens and the requests that hold one alone.
LEMMA MailStays ==
  ASSUME IInv, UNCHANGED <<mail, mailed, acts, reused>>,
         \A q \in Req : req'[q].mail # 0 \/ req[q].mail # 0 => req'[q] = req[q]
  PROVE  MailHeld' /\ MailNumbered'
<1> USE DEF IInv
<1>1. \A m \in Mail : m # 0
  BY DEF Mail
<1>2. MailHeld'
  BY <1>1 DEF MailHeld, HeldRight, At
<1> QED
  BY <1>2 DEF MailNumbered

\* What leaves the sessions, the app passwords and the accounts' existence alone.
LEMMA OwnStays ==
  ASSUME IInv, UNCHANGED <<sessions, appPw, login, born, crossed, life>>,
         \A d \in Did : accounts'[d] # None <=> accounts[d] # None
  PROVE  SessionsOwn'
BY DEF IInv, SessionsOwn, Exists, TypeOK, Session

-----------------------------------------------------------------------------
(***************************************************************************)
(* Accounts come, change and go.                                           *)
(***************************************************************************)
\* Sign-up.
LEMMA SignUpStep ==
  ASSUME IInv, NEW r \in Req, SignUp(r)
  PROVE  IInv'
<1> USE DEF IInv
<1>0. req \in [Req -> Request] /\ req[r] \in Request /\ starts \in Nat /\ starts <= MaxStarts
  BY DEF TypeOK
<1>p. PICK d \in Did, s \in Secret, e \in Email :
        /\ ~Exists(d)
        /\ accounts' = [accounts EXCEPT ![d] = [active |-> TRUE, password |-> s, email |-> e]]
        /\ life' = [life EXCEPT ![d] = @ + 1]
        /\ Start(r, [Idle EXCEPT !.kind = "login", !.at = "mint", !.did = d, !.life = life[d] + 1])
  BY DEF SignUp
<1>l. life[d] + 1 \in Nat
  BY DEF TypeOK
<1> DEFINE x == [Idle EXCEPT !.kind = "login", !.at = "mint", !.did = d, !.life = life[d] + 1]
<1>a. /\ x \in Request /\ x.kind = "login" /\ x.at = "mint" /\ x.did = d /\ x.mail = 0
  BY <1>l DEF Idle, Request, TypeOK
<1>b. Start(r, x)
  BY <1>p
<1> HIDE DEF x
<1>1. /\ req' \in [Req -> Request] /\ Others(r) /\ req[r] = Idle /\ req'[r] = x
      /\ starts' \in Nat /\ starts' <= MaxStarts
  BY <1>0, <1>a, <1>b, StartFacts
<1>3. UNCHANGED <<sessions, appPw, mail, expired, staleMail, minted, mailed, issued,
                     login, born, crossed, ended, acts, reused>>
  BY DEF SignUp, tables, clock, counts, ghosts, At, Start, Go, End
<1>c. [active |-> TRUE, password |-> s, email |-> e] \in Account
  BY DEF Account
<1>4. /\ [active |-> TRUE, password |-> s, email |-> e] \in Account
      /\ [active |-> TRUE, password |-> s, email |-> e] # None
  BY <1>c, SessionsAssumption
<1>5. /\ accounts' \in [Did -> Account \cup {None}]
      /\ accounts'[d] # None /\ \A c \in Did \ {d} : accounts'[c] = accounts[c]
  BY <1>p, <1>4 DEF TypeOK
<1>x. life' \in [Did -> Nat] /\ \A c \in Did \ {d} : life'[c] = life[c]
  BY <1>p DEF TypeOK
<1>8. Numbered' /\ OneHolder' /\ LoginLasts'
  BY <1>0, <1>1, <1>3, <1>5, <1>x, <1>a, <1>p, IdleFields, HoldersStay DEF Proper,
     Refresh, Others, Kept
<1>9. MailHeld' /\ MailNumbered'
  BY <1>0, <1>1, <1>3, <1>5, <1>x, <1>a, <1>p, IdleFields, MailStays DEF Proper,
     Refresh, Others, Kept
<1>11. TypeOK'
  BY <1>0, <1>1, <1>3, <1>5, <1>x, <1>a, <1>p, IdleFields DEF TypeOK
<1>12. Proper'
  BY <1>0, <1>1, <1>3, <1>5, <1>x, <1>a, <1>p, IdleFields DEF TypeOK, Proper, Request,
     Refresh, Others, Kept
<1>13. Refreshes'
  <2>1. \A q \in Req : Refresh(q)' => q # r /\ Refresh(q) /\ req'[q] = req[q]
    BY <1>1, <1>a DEF Refresh, Others
  <2>2. \A q \in Req : Refresh(q) /\ login[req[q].token] \notin crossed =>
          /\ req[q].did \in Did /\ req[q].did # d
          /\ accounts'[req[q].did] # None /\ life'[req[q].did] = life[req[q].did]
    BY <1>p, <1>5, <1>x DEF Refreshes, Proper, Exists
  <2> QED
    BY <1>3, <2>1, <2>2 DEF Refreshes, Refresh, Exists
<1>14. SessionsOwn'
  BY <1>0, <1>1, <1>3, <1>5, <1>x, <1>a, <1>p, IdleFields DEF TypeOK, SessionsOwn, Exists
<1> QED
  BY <1>8, <1>9, <1>11, <1>12, <1>13, <1>14

\* The account is deactivated or activated.
LEMMA SetActiveStep ==
  ASSUME IInv, NEW d \in Did, NEW on \in BOOLEAN, SetActive(d, on)
  PROVE  IInv'
<1> USE DEF IInv
<1>1. [accounts[d] EXCEPT !.active = on] \in Account
  BY DEF SetActive, Exists, TypeOK, Account
<1>2. accounts' = [accounts EXCEPT ![d] = [accounts[d] EXCEPT !.active = on]] /\ Exists(d)
  BY DEF SetActive
<1>3. /\ accounts' \in [Did -> Account \cup {None}]
      /\ \A c \in Did : accounts'[c] # None <=> accounts[c] # None
  BY <1>1, <1>2, SessionsAssumption DEF TypeOK, Exists
<1>4. UNCHANGED <<sessions, appPw, mail, expired, staleMail, req, starts, minted,
                     mailed, issued, life, login, born, crossed, ended, acts, reused>>
  BY DEF SetActive, tables, clock, counts, ghosts, At, Start, Go, End
<1>6. Refreshes'
  BY <1>3, <1>4, RefreshesStay DEF Proper, Refresh, Others, Kept, Exists
<1>7. SessionsOwn'
  BY <1>3, <1>4, OwnStays DEF Exists
<1>8. Numbered' /\ OneHolder' /\ LoginLasts'
  BY <1>3, <1>4, HoldersStay DEF Proper, Refresh, Others, Kept
<1>9. MailHeld' /\ MailNumbered'
  BY <1>3, <1>4, MailStays DEF Proper, Refresh, Others, Kept
<1>11. TypeOK'
  BY <1>3, <1>4 DEF TypeOK
<1>12. Proper'
  BY <1>3, <1>4 DEF TypeOK, Proper, Request, Refresh, Others, Kept
<1> QED
  BY <1>6, <1>7, <1>8, <1>9, <1>11, <1>12

\* The account is deleted.
LEMMA DeleteAccountStep ==
  ASSUME IInv, NEW d \in Did, DeleteAccount(d)
  PROVE  IInv'
<1> USE DEF IInv
<1>1. /\ accounts' = [accounts EXCEPT ![d] = None]
      /\ sessions' = [t \in Token |-> IF t \in TokensOf(d) THEN None ELSE sessions[t]]
      /\ appPw' = [appPw EXCEPT ![d] = [n \in Name |-> 0]]
      /\ ended' = ended \cup {login[t] : t \in TokensOf(d)}
      /\ crossed' = crossed \cup Refreshing(d)
      /\ UNCHANGED <<mail, expired, staleMail, req, starts, minted, mailed, issued,
                     life, login, born, acts, reused>>
  BY DEF DeleteAccount, tables, clock, counts, ghosts, At, Start, Go, End
<1>9. MailHeld' /\ MailNumbered'
  BY <1>1, MailStays DEF Proper, Refresh, Others, Kept
<1>11. TypeOK'
  BY <1>1 DEF TypeOK, TokensOf, Refreshing, Proper, Refresh
<1>12. Proper'
  BY <1>1 DEF TypeOK, Proper, Request, Refresh, Others, Kept
<1>13. Numbered'
  BY <1>1 DEF TypeOK, Numbered, TokensOf
<1>14. Refreshes'
  BY <1>1 DEF TypeOK, Proper, Refreshes, Refresh, Refreshing, TokensOf, Exists
<1>15. OneHolder'
  <2>1. \A c \in Token : HoldersOf(c)' \subseteq HoldersOf(c)
    BY <1>1 DEF HoldersOf, At
  <2> QED
    BY <1>1, <2>1 DEF OneHolder
<1>16. LoginLasts'
  <2> SUFFICES ASSUME NEW c \in Token \ crossed', login[c] = c
               PROVE  c \in ended' <=> HoldersOf(c)' = {}
    BY <1>1 DEF LoginLasts
  <2>1. /\ c \in ended <=> HoldersOf(c) = {}
        /\ \A t, u \in HoldersOf(c) : t = u
    BY <1>1 DEF LoginLasts, OneHolder
  <2>2. HoldersOf(c)' \subseteq HoldersOf(c)
    BY <1>1 DEF HoldersOf, At
  <2>3. ASSUME NEW t \in TokensOf(d), login[t] = c
        PROVE  HoldersOf(c)' = {}
    <3>1. t \in Token /\ sessions[t] # None /\ t \in HoldersOf(c)
      BY <2>3 DEF TokensOf, HoldersOf
    <3>2. \A r \in Req : At(r, "refresh", "mint") => req[r].token # t
      BY <1>1, <2>3, <3>1 DEF Refreshes, Refresh, At
    <3>3. t \notin HoldersOf(c)'
      BY <1>1, <2>3, <3>1, <3>2 DEF HoldersOf, At
    <3> QED
      BY <2>1, <2>2, <3>1, <3>3
  <2>4. ASSUME NEW t \in HoldersOf(c), \A u \in TokensOf(d) : login[u] # c
        PROVE  t \in HoldersOf(c)'
    BY <1>1, <2>4 DEF HoldersOf, At
  <2> QED
    BY <1>1, <2>1, <2>2, <2>3, <2>4
<1>17. SessionsOwn'
  BY <1>1 DEF TypeOK, SessionsOwn, Exists, TokensOf, Session
<1> QED
  BY <1>9, <1>11, <1>12, <1>13, <1>14, <1>15, <1>16, <1>17

-----------------------------------------------------------------------------
(***************************************************************************)
(* Logging in, refreshing and logging out.                                 *)
(***************************************************************************)
\* A login begins.
LEMMA BeginLoginStep ==
  ASSUME IInv, NEW r \in Req, BeginLogin(r)
  PROVE  IInv'
<1> USE DEF IInv
<1>0. req \in [Req -> Request] /\ req[r] \in Request /\ starts \in Nat /\ starts <= MaxStarts
  BY DEF TypeOK
<1>p. PICK d \in Did, s \in Secret \cup 1..issued :
        Start(r, [Idle EXCEPT !.kind = "login", !.did = d, !.typed = s, !.life = life[d],
                              !.at = IF VerifyPassword(accounts[d].password, s) THEN "mint" ELSE "app"])
  BY DEF BeginLogin
<1>s. s \in Secret \cup Nat /\ life[d] \in Nat
  BY DEF TypeOK
<1> DEFINE x == [Idle EXCEPT !.kind = "login", !.did = d, !.typed = s, !.life = life[d],
                               !.at = IF VerifyPassword(accounts[d].password, s) THEN "mint" ELSE "app"]
<1>a. /\ x \in Request /\ x.kind = "login" /\ x.at \in {"app", "mint"} /\ x.did = d /\ x.mail = 0
  BY <1>s DEF Idle, Request, TypeOK
<1>b. Start(r, x)
  BY <1>p
<1> HIDE DEF x
<1>1. /\ req' \in [Req -> Request] /\ Others(r) /\ req[r] = Idle /\ req'[r] = x
      /\ starts' \in Nat /\ starts' <= MaxStarts
  BY <1>0, <1>a, <1>b, StartFacts
<1>3. UNCHANGED <<accounts, sessions, appPw, mail, expired, staleMail, minted,
                     mailed, issued, life, login, born, crossed, ended, acts, reused>>
  BY DEF BeginLogin, tables, clock, counts, ghosts, At, Start, Go, End
<1>6. Refreshes'
  BY <1>0, <1>1, <1>3, <1>a, IdleFields, RefreshesStay DEF Proper, Refresh, Others,
     Kept, Exists
<1>7. SessionsOwn'
  BY <1>0, <1>1, <1>3, <1>a, IdleFields, OwnStays DEF Exists
<1>8. Numbered' /\ OneHolder' /\ LoginLasts'
  BY <1>0, <1>1, <1>3, <1>a, IdleFields, HoldersStay DEF Proper, Refresh, Others, Kept
<1>9. MailHeld' /\ MailNumbered'
  BY <1>0, <1>1, <1>3, <1>a, IdleFields, MailStays DEF Proper, Refresh, Others, Kept
<1>11. TypeOK'
  BY <1>0, <1>1, <1>3, <1>a, IdleFields DEF TypeOK
<1>12. Proper'
  BY <1>1, <1>3, <1>a DEF Proper, Refresh, Others
<1> QED
  BY <1>6, <1>7, <1>8, <1>9, <1>11, <1>12

\* An app password fits.
LEMMA VerifyAppPasswordStep ==
  ASSUME IInv, NEW r \in Req, VerifyAppPassword(r)
  PROVE  IInv'
<1> USE DEF IInv
<1>0. req \in [Req -> Request] /\ req[r] \in Request /\ starts \in Nat /\ starts <= MaxStarts
  BY DEF TypeOK
<1>p. PICK n \in Name : req' = [req EXCEPT ![r] = [@ EXCEPT !.at = "mint", !.app = n]]
  BY DEF VerifyAppPassword
<1> DEFINE x == [req[r] EXCEPT !.at = "mint", !.app = n]
<1>a. /\ x \in Request /\ x.kind = req[r].kind /\ x.at = "mint" /\ x.did = req[r].did
      /\ x.mail = req[r].mail
  BY <1>0 DEF Request
<1>b. req' = [req EXCEPT ![r] = x]
  BY <1>p
<1> HIDE DEF x
<1>1. req' \in [Req -> Request] /\ Others(r) /\ req'[r] = x
  BY <1>0, <1>a, <1>b DEF Others
<1>3. /\ req[r].kind = "login"
      /\ UNCHANGED <<accounts, sessions, appPw, mail, expired, staleMail, starts,
                     minted, mailed, issued, life, login, born, crossed, ended, acts, reused>>
  BY DEF VerifyAppPassword, tables, clock, counts, ghosts, At, Start, Go, End
<1>6. Refreshes'
  BY <1>0, <1>1, <1>3, <1>a, RefreshesStay DEF Proper, Refresh, Others, Kept, Exists
<1>7. SessionsOwn'
  BY <1>0, <1>1, <1>3, <1>a, OwnStays DEF Exists
<1>8. Numbered' /\ OneHolder' /\ LoginLasts'
  BY <1>0, <1>1, <1>3, <1>a, HoldersStay DEF Proper, Refresh, Others, Kept
<1>9. MailHeld' /\ MailNumbered'
  BY <1>0, <1>1, <1>3, <1>a, MailStays DEF Proper, Refresh, Others, Kept
<1>11. TypeOK'
  BY <1>0, <1>1, <1>3, <1>a DEF TypeOK
<1>12. Proper'
  BY <1>0, <1>1, <1>3, <1>a DEF TypeOK, Proper, Request, Refresh, Others, Kept
<1> QED
  BY <1>6, <1>7, <1>8, <1>9, <1>11, <1>12

\* A refresh finds the row of its token.
LEMMA BeginRefreshStep ==
  ASSUME IInv, NEW r \in Req, BeginRefresh(r)
  PROVE  IInv'
<1> USE DEF IInv
<1>0. req \in [Req -> Request] /\ req[r] \in Request /\ starts \in Nat /\ starts <= MaxStarts
  BY DEF TypeOK
<1>p. PICK t \in Token \ expired :
        /\ sessions[t] # None
        /\ Active(sessions[t].did)
        /\ Start(r, [Idle EXCEPT !.kind = "refresh", !.at = "delete", !.token = t,
                                 !.did = sessions[t].did, !.app = sessions[t].app])
        /\ crossed' = crossed \cup Meets(t)
  BY DEF BeginRefresh
<1>s. sessions[t].did \in Did /\ sessions[t].app \in Name \cup {None} /\ t \in Token /\ t <= minted
  BY <1>p DEF TypeOK, Session, Numbered, Token
<1> DEFINE x == [Idle EXCEPT !.kind = "refresh", !.at = "delete", !.token = t,
                               !.did = sessions[t].did, !.app = sessions[t].app]
<1>a. /\ x \in Request /\ x.kind = "refresh" /\ x.at = "delete" /\ x.token = t
      /\ x.did = sessions[t].did /\ x.mail = 0
  BY <1>s DEF Idle, Request, TypeOK
<1>b. Start(r, x)
  BY <1>p
<1> HIDE DEF x
<1>1. /\ req' \in [Req -> Request] /\ Others(r) /\ req[r] = Idle /\ req'[r] = x
      /\ starts' \in Nat /\ starts' <= MaxStarts
  BY <1>0, <1>a, <1>b, StartFacts
<1>3. UNCHANGED <<accounts, sessions, appPw, mail, expired, staleMail, minted,
                     mailed, issued, life, login, born, ended, acts, reused>>
  BY DEF BeginRefresh, tables, clock, counts, ghosts, At, Start, Go, End
<1>4. /\ Exists(sessions[t].did)
      /\ \A q \in Req : Refresh(q) /\ req[q].token = t => login[t] \in crossed'
      /\ crossed' \subseteq Token \cup {0}
  BY <1>p, <1>s DEF Active, Meets, Refresh, TypeOK
<1>5. Refresh(r) = FALSE /\ (Refresh(r))' = TRUE
  BY <1>1, <1>a, IdleFields DEF Refresh
<1>9. MailHeld' /\ MailNumbered'
  BY <1>0, <1>1, <1>3, <1>4, <1>a, <1>s, IdleFields, MailStays DEF Proper, Refresh,
     Others, Kept
<1>11. TypeOK'
  BY <1>0, <1>1, <1>3, <1>4, <1>a, <1>s, IdleFields DEF TypeOK
<1>12. Proper'
  BY <1>0, <1>1, <1>3, <1>4, <1>a, <1>s, IdleFields DEF TypeOK, Proper, Request,
     Refresh, Others, Kept
<1>13. Numbered'
  BY <1>0, <1>1, <1>3, <1>4, <1>a, <1>s, IdleFields DEF TypeOK, Numbered
<1>14. Refreshes'
  <2>1. \A q \in Req \ {r} : req'[q] = req[q]
    BY <1>1 DEF Others
  <2>2. login[t] \notin crossed' => born[t] = life[sessions[t].did]
    BY <1>p, <1>s DEF SessionsOwn
  <2>3. ASSUME NEW q \in Req \ {r}, Refresh(q), login[req[q].token] = login[t]
        PROVE  login[t] \in crossed'
    <3>1. CASE req[q].token = t
      BY <1>4, <2>3, <3>1
    <3>2. CASE req[q].token # t
      <4> SUFFICES ASSUME login[t] \notin crossed
                   PROVE  FALSE
        BY <1>p
      <4>1. req[q].token \in HoldersOf(login[t])
        BY <2>3 DEF Refreshes, HoldersOf, Proper, At, Refresh
      <4>2. t \in HoldersOf(login[t])
        BY <1>p DEF HoldersOf
      <4>3. login[t] \in Token
        BY <1>s DEF TypeOK, Numbered
      <4> QED
        BY <3>2, <4>1, <4>2, <4>3 DEF OneHolder
    <3> QED
      BY <3>1, <3>2
  <2> QED
    BY <1>1, <1>3, <1>4, <1>a, <1>p, <1>s, <2>1, <2>2, <2>3 DEF Refreshes, Refresh, Exists
<1>15. OneHolder'
  <2>1. \A c \in Token : HoldersOf(c)' = HoldersOf(c)
    BY <1>1, <1>3, <1>a, IdleFields DEF HoldersOf, At, Others
  <2> QED
    BY <1>p, <2>1 DEF OneHolder
<1>16. LoginLasts'
  <2>1. \A c \in Token : HoldersOf(c)' = HoldersOf(c)
    BY <1>1, <1>3, <1>a, IdleFields DEF HoldersOf, At, Others
  <2> QED
    BY <1>3, <1>p, <2>1 DEF LoginLasts
<1>17. SessionsOwn'
  BY <1>3, <1>p DEF TypeOK, SessionsOwn, Exists
<1> QED
  BY <1>9, <1>11, <1>12, <1>13, <1>14, <1>15, <1>16, <1>17

\* A refresh deletes its token.
LEMMA DeleteOldStep ==
  ASSUME IInv, NEW r \in Req, DeleteOld(r)
  PROVE  IInv'
<1> USE DEF IInv
<1>0. req \in [Req -> Request] /\ req[r] \in Request /\ starts \in Nat /\ starts <= MaxStarts
  BY DEF TypeOK
<1>1. req' \in [Req -> Request] /\ Others(r) /\ Kept(r) /\ req'[r].at = "mint"
  BY <1>0, GoFacts DEF DeleteOld, Places
<1>3. /\ Refresh(r) /\ req[r].at = "delete"
      /\ sessions' = [sessions EXCEPT ![req[r].token] = None]
      /\ UNCHANGED <<accounts, appPw, mail, expired, staleMail, starts, minted, mailed,
                     issued, life, login, born, crossed, ended, acts, reused>>
  BY DEF DeleteOld, tables, clock, counts, ghosts, At, Start, Go, End, Refresh
<1>4. /\ req[r].token \in Token
      /\ \A q \in Req : Refresh(q)' <=> Refresh(q)
      /\ \A q \in Req : req'[q].token = req[q].token /\ req'[q].did = req[q].did
  BY <1>1, <1>3 DEF Proper, Refresh, Others, Kept
<1>5. \A c \in Token \ crossed : HoldersOf(c)' = HoldersOf(c)
  <2>1. \A q \in Req : At(q, "refresh", "mint")' <=> At(q, "refresh", "mint") \/ q = r
    BY <1>1, <1>3 DEF At, Refresh, Others, Kept
  <2>2. login[req[r].token] \notin crossed => sessions[req[r].token] # None
    BY <1>3 DEF Refreshes
  <2>3. \A t \in Token : t # req[r].token => sessions'[t] = sessions[t]
    BY <1>3 DEF TypeOK
  <2>4. sessions'[req[r].token] = None
    BY <1>3, <1>4 DEF TypeOK
  <2> QED
    BY <1>3, <1>4, <2>1, <2>2, <2>3, <2>4 DEF HoldersOf
<1>9. MailHeld' /\ MailNumbered'
  BY <1>0, <1>1, <1>3, MailStays DEF Proper, Refresh, Others, Kept
<1>11. TypeOK'
  BY <1>0, <1>1, <1>3 DEF TypeOK
<1>12. Proper'
  BY <1>0, <1>1, <1>3 DEF TypeOK, Proper, Request, Refresh, Others, Kept
<1>13. Numbered'
  BY <1>0, <1>1, <1>3 DEF TypeOK, Numbered
<1>14. Refreshes'
  <2>1. \A t \in Token : sessions'[t] = IF t = req[r].token THEN None ELSE sessions[t]
    BY <1>3 DEF TypeOK
  <2>2. ASSUME NEW q \in Req, Refresh(q), login[req[q].token] \notin crossed, q # r
        PROVE  req[q].token # req[r].token /\ req'[q].at = req[q].at
    BY <1>1, <1>3, <2>2 DEF Refreshes, Others
  <2>3. \A q \in Req : Refresh(q) => req[q].token \in Token
    BY DEF Proper
  <2> QED
    BY <1>1, <1>3, <1>4, <2>1, <2>2, <2>3 DEF Refreshes, Refresh, Exists
<1>15. OneHolder'
  BY <1>3, <1>5 DEF OneHolder
<1>16. LoginLasts'
  BY <1>3, <1>5 DEF LoginLasts
<1>17. SessionsOwn'
  BY <1>0, <1>1, <1>3 DEF TypeOK, SessionsOwn, Exists
<1> QED
  BY <1>9, <1>11, <1>12, <1>13, <1>14, <1>15, <1>16, <1>17

\* A session is minted.
LEMMA MintStep ==
  ASSUME IInv, NEW r \in Req, Mint(r)
  PROVE  IInv'
<1> USE DEF IInv
<1>0. req \in [Req -> Request] /\ req[r] \in Request /\ starts \in Nat /\ starts <= MaxStarts
  BY DEF TypeOK
<1>1. req' \in [Req -> Request] /\ Others(r) /\ req'[r] = Idle
  BY <1>0, EndFacts DEF Mint
<1>2. /\ req[r].at = "mint" /\ req[r].kind \in {"login", "refresh"} /\ req[r].did \in Did
      /\ req[r].mail = 0
      /\ Refresh(r) => req[r].token \in Token /\ req[r].token <= minted
  BY <1>0 DEF Mint, Proper, Request, Refresh
<1>3. /\ Exists(req[r].did) /\ minted + 1 \in Token /\ minted' = minted + 1 /\ minted \in Nat
  BY SessionsAssumption DEF Mint, TypeOK, Token
<1>n. PICK n \in Token : n = minted + 1
  BY <1>3
<1> DEFINE row == [did |-> req[r].did, app |-> req[r].app]
<1>r. row \in Session /\ row # None /\ row.did = req[r].did
  <2>1. row \in Session
    BY <1>0, <1>2 DEF Request, Session
  <2> QED
    BY <2>1, SessionsAssumption
<1>c. PICK c0 \in Token : /\ Refresh(r) => c0 = login[req[r].token] /\ c0 <= minted
                          /\ ~Refresh(r) => c0 = n
  <2>1. CASE Refresh(r)
    <3>1. login[req[r].token] \in Token /\ login[req[r].token] <= minted
      BY <1>2, <2>1 DEF TypeOK, Numbered
    <3> QED
      BY <2>1, <3>1
  <2>2. CASE ~Refresh(r)
    BY <2>2
  <2> QED
    BY <2>1, <2>2
<1>4. /\ sessions' = [sessions EXCEPT ![n] = row]
      /\ login' = [login EXCEPT ![n] = c0]
      /\ Refresh(r) => born' = [born EXCEPT ![n] = born[req[r].token]] /\ crossed' = crossed
      /\ ~Refresh(r) => /\ born' = [born EXCEPT ![n] = req[r].life]
                        /\ crossed' = IF req[r].life # life[req[r].did] THEN crossed \cup {n} ELSE crossed
      /\ UNCHANGED <<accounts, appPw, mail, expired, staleMail, starts, mailed, issued, life, ended,
                     acts, reused>>
  BY <1>2, <1>n, <1>c DEF Mint, Refresh, tables, clock, counts, ghosts
<1>5. /\ \A t \in Token : sessions'[t] = IF t = n THEN row ELSE sessions[t]
      /\ \A t \in Token : login'[t] = IF t = n THEN c0 ELSE login[t]
      /\ \A t \in Token : t # n => born'[t] = born[t]
      /\ Refresh(r) => born'[n] = born[req[r].token]
      /\ ~Refresh(r) => born'[n] = req[r].life
  BY <1>4 DEF TypeOK
<1>6. sessions[n] = None /\ login[n] = 0
  BY <1>3, <1>n DEF Numbered
<1>7. /\ \A q \in Req : Refresh(q)' => q # r /\ Refresh(q) /\ req'[q] = req[q]
      /\ \A q \in Req : Refresh(q) => req[q].token \in Token /\ req[q].token <= minted /\ req[q].token # n
      /\ \A q \in Req \ {r} : Refresh(q) => Refresh(q)' /\ req'[q] = req[q]
  BY <1>1, <1>3, <1>n, IdleFields DEF Refresh, Others, Proper
<1>8. crossed \subseteq crossed' /\ crossed' \subseteq crossed \cup {n}
  BY <1>4
<1> HIDE DEF row
<1>e. ASSUME NEW c \in Token, c # c0
      PROVE  HoldersOf(c)' = HoldersOf(c)
  <2>1. ASSUME NEW t \in Token, login[t] = c
        PROVE  (\E q \in Req : At(q, "refresh", "mint") /\ req[q].token = t)'
               <=> \E q \in Req : At(q, "refresh", "mint") /\ req[q].token = t
    BY <1>7, <1>c, <1>e, <2>1 DEF At, Refresh
  <2>2. c # 0
    BY DEF Token
  <2> QED
    BY <1>5, <1>6, <1>e, <2>1, <2>2 DEF HoldersOf
<1>f. ASSUME c0 \notin crossed'
      PROVE  HoldersOf(c0)' = {n}
  <2>1. n \in HoldersOf(c0)'
    BY <1>5, <1>r DEF HoldersOf
  <2>2. ASSUME NEW t \in HoldersOf(c0)', t # n
        PROVE  FALSE
    <3>1. t \in Token /\ login[t] = c0
      BY <1>5, <2>2 DEF HoldersOf
    <3>2. Refresh(r)
      <4>1. login[t] <= minted
        BY <3>1 DEF Numbered
      <4> QED
        BY <1>3, <1>n, <1>c, <3>1, <4>1
    <3>3. /\ c0 = login[req[r].token] /\ c0 \notin crossed /\ sessions[req[r].token] = None
          /\ \A q \in Req : Refresh(q) /\ login[req[q].token] = c0 => q = r
      BY <1>2, <1>8, <1>c, <1>f, <3>2 DEF Refreshes
    <3>4. t \in HoldersOf(c0) /\ req[r].token \in HoldersOf(c0)
      <4>1. \A q \in Req : At(q, "refresh", "mint")' => At(q, "refresh", "mint") /\ req'[q] = req[q]
        BY <1>7 DEF At, Refresh
      <4>2. At(r, "refresh", "mint") /\ req[r].token \in Token
        BY <1>2, <3>2 DEF At, Refresh
      <4> QED
        BY <1>5, <2>2, <3>1, <3>3, <4>1, <4>2 DEF HoldersOf
    <3>5. t = req[r].token
      BY <1>8, <1>c, <3>3, <3>4 DEF OneHolder
    <3>6. \A q \in Req : ~(At(q, "refresh", "mint")' /\ req'[q].token = t)
      BY <1>7, <3>3, <3>5 DEF At, Refresh
    <3> QED
      BY <1>5, <2>2, <3>1, <3>3, <3>5, <3>6 DEF HoldersOf
  <2> QED
    BY <2>1, <2>2
<1>9. MailHeld' /\ MailNumbered'
  BY <1>0, <1>1, <1>2, <1>3, <1>4, <1>5, <1>7, <1>8, <1>c, <1>n, <1>r, IdleFields,
     MailStays DEF Proper, Refresh, Others, Kept
<1>11. TypeOK'
  <2>1. sessions' \in [Token -> Session \cup {None}] /\ login' \in [Token -> Token \cup {0}]
    BY <1>4, <1>r DEF TypeOK
  <2>2. born' \in [Token -> Nat]
    <3>1. Refresh(r) => born[req[r].token] \in Nat
      BY <1>2 DEF TypeOK
    <3>2. req[r].life \in Nat
      BY <1>0 DEF Request
    <3> QED
      BY <1>4, <3>1, <3>2 DEF TypeOK
  <2>3. crossed' \subseteq Token \cup {0} /\ minted' \in Nat
    BY <1>3, <1>8 DEF TypeOK
  <2> QED
    BY <1>1, <1>4, <2>1, <2>2, <2>3 DEF TypeOK
<1>12. Proper'
  <2>1. minted <= minted'
    BY <1>3
  <2>2. \A q \in Req : req[q].token \in Nat
    BY DEF TypeOK, Request, Token
  <2>3. \A q \in Req \ {r} : Refresh(q) => req[q].token <= minted'
    BY <1>3, <2>1, <2>2 DEF Proper
  <2> QED
    BY <1>1, <1>4, <2>3, IdleFields DEF Proper, Refresh, Others
<1>13. Numbered'
  <2>1. ASSUME NEW t \in Token
        PROVE  /\ t > minted' => t # n /\ t > minted
               /\ t <= minted' => t = n \/ t <= minted
    BY <1>3, <1>n DEF Token
  <2>2. \A t \in Token : login'[t] <= minted'
    <3>1. \A t \in Token : login[t] \in Nat /\ login[t] <= minted
      BY DEF Numbered, TypeOK, Token
    <3>2. c0 <= minted' /\ c0 \in Nat
      BY <1>3, <1>n, <1>c DEF Token
    <3> TAKE t \in Token
    <3>3. login'[t] = c0 \/ login'[t] = login[t]
      BY <1>5
    <3>4. login[t] \in Nat /\ login[t] <= minted + 1
      BY <1>3, <3>1
    <3> QED
      BY <1>3, <3>2, <3>3, <3>4
  <2>3. \A c \in ended : c <= minted'
    BY <1>3 DEF Numbered, TypeOK, Token
  <2>4. c0 # 0
    BY DEF Token
  <2> QED
    BY <1>4, <1>5, <2>1, <2>2, <2>3, <2>4 DEF Numbered
<1>14. Refreshes'
  <2>1. \A q \in Req : Refresh(q) =>
          /\ sessions'[req[q].token] = sessions[req[q].token]
          /\ login'[req[q].token] = login[req[q].token]
          /\ born'[req[q].token] = born[req[q].token]
    BY <1>5, <1>7
  <2> QED
    BY <1>4, <1>7, <1>8, <2>1 DEF Refreshes, Refresh, Exists
<1>15. OneHolder'
  BY <1>8, <1>e, <1>f DEF OneHolder
<1>16. LoginLasts'
  <2> SUFFICES ASSUME NEW c \in Token \ crossed', login'[c] = c
               PROVE  c \in ended <=> HoldersOf(c)' = {}
    BY <1>4 DEF LoginLasts
  <2>1. CASE c # c0
    BY <1>5, <1>8, <1>e, <2>1 DEF LoginLasts
  <2>2. CASE c = c0 /\ Refresh(r)
    <3>1. req[r].token \in HoldersOf(c)
      BY <1>2, <1>c, <2>2 DEF HoldersOf, At, Refresh
    <3>2. c # n /\ login[c] = c
      BY <1>3, <1>n, <1>5, <1>c, <2>2
    <3> QED
      BY <1>8, <1>f, <2>2, <3>1, <3>2 DEF LoginLasts
  <2>3. CASE c = c0 /\ ~Refresh(r)
    BY <1>3, <1>n, <1>c, <1>f, <2>3 DEF Numbered
  <2> QED
    BY <2>1, <2>2, <2>3
<1>17. SessionsOwn'
  <2>1. \A t \in Token : t # n /\ sessions'[t] # None => accounts'[sessions'[t].did] # None
    BY <1>4, <1>5 DEF SessionsOwn, Exists
  <2>2. \A t \in Token : t # n /\ sessions'[t] # None /\ login'[t] \notin crossed'
          => born'[t] = life'[sessions'[t].did]
    BY <1>4, <1>5, <1>8 DEF SessionsOwn
  <2>3. sessions'[n].did = req[r].did /\ accounts'[req[r].did] # None
    BY <1>3, <1>4, <1>5, <1>r DEF Exists
  <2>4. login'[n] \notin crossed' => born'[n] = life'[req[r].did]
    BY <1>3, <1>4, <1>5, <1>8, <1>c DEF Refreshes
  <2> QED
    BY <1>4, <2>1, <2>2, <2>3, <2>4 DEF SessionsOwn, Exists
<1> QED
  BY <1>9, <1>11, <1>12, <1>13, <1>14, <1>15, <1>16, <1>17

\* A client logs out.
LEMMA LogoutStep ==
  ASSUME IInv, NEW t \in Token, Logout(t)
  PROVE  IInv'
<1> USE DEF IInv
<1>1. /\ sessions' = [sessions EXCEPT ![t] = None]
      /\ ended' = IF sessions[t] # None THEN ended \cup {login[t]} ELSE ended
      /\ crossed' = crossed \cup Meets(t)
      /\ t <= minted
      /\ UNCHANGED <<accounts, appPw, mail, expired, staleMail, req, starts, minted,
                     mailed, issued, life, login, born, acts, reused>>
  BY DEF Logout, tables, clock, counts, ghosts, At, Start, Go, End
<1>2. \A q \in Req : Refresh(q) /\ req[q].token = t => login[t] \in crossed'
  BY <1>1 DEF Meets, Refresh
<1>3. \A u \in Token : sessions'[u] = IF u = t THEN None ELSE sessions[u]
  BY <1>1 DEF TypeOK
<1>4. \A c \in Token : HoldersOf(c)' \subseteq HoldersOf(c)
  BY <1>1, <1>3 DEF HoldersOf, At
<1>5. login[t] \in Token \cup {0} /\ login[t] <= minted
  BY DEF TypeOK, Numbered
<1>9. MailHeld' /\ MailNumbered'
  BY <1>1, <1>3, <1>5, MailStays DEF Proper, Refresh, Others, Kept
<1>11. TypeOK'
  BY <1>1, <1>3, <1>5 DEF TypeOK, Meets, Proper, Refresh
<1>12. Proper'
  BY <1>1, <1>3, <1>5 DEF TypeOK, Proper, Request, Refresh, Others, Kept
<1>13. Numbered'
  BY <1>1, <1>3, <1>5 DEF TypeOK, Numbered
<1>14. Refreshes'
  <2>1. \A q \in Req : Refresh(q) => req[q].token \in Token
    BY DEF Proper
  <2> QED
    BY <1>1, <1>2, <1>3, <2>1 DEF Refreshes, Refresh, Exists
<1>15. OneHolder'
  BY <1>1, <1>4 DEF OneHolder
<1>16. LoginLasts'
  <2> SUFFICES ASSUME NEW c \in Token \ crossed', login[c] = c
               PROVE  c \in ended' <=> HoldersOf(c)' = {}
    BY <1>1 DEF LoginLasts
  <2>1. c \in ended <=> HoldersOf(c) = {}
    BY <1>1 DEF LoginLasts
  <2>2. CASE sessions[t] # None /\ login[t] = c
    <3>1. t \in HoldersOf(c)
      BY <2>2 DEF HoldersOf
    <3>2. HoldersOf(c) \subseteq {t}
      BY <1>1, <3>1 DEF OneHolder
    <3>3. t \notin HoldersOf(c)'
      BY <1>1, <1>2, <1>3, <2>2 DEF HoldersOf, At, Refresh
    <3> QED
      BY <1>1, <1>4, <2>2, <3>2, <3>3
  <2>3. CASE ~(sessions[t] # None /\ login[t] = c)
    <3>1. HoldersOf(c)' = HoldersOf(c)
      BY <1>1, <1>3, <2>3 DEF HoldersOf, At
    <3> QED
      BY <1>1, <2>1, <2>3, <3>1
  <2> QED
    BY <2>2, <2>3
<1>17. SessionsOwn'
  BY <1>1, <1>3, <1>5 DEF TypeOK, SessionsOwn, Exists
<1> QED
  BY <1>9, <1>11, <1>12, <1>13, <1>14, <1>15, <1>16, <1>17

-----------------------------------------------------------------------------
(***************************************************************************)
(* App passwords.                                                          *)
(***************************************************************************)
\* An app password is made.
LEMMA InsertAppPasswordStep ==
  ASSUME IInv, NEW d \in Did, NEW n \in Name, InsertAppPassword(d, n)
  PROVE  IInv'
<1> USE DEF IInv
<1>1. /\ Exists(d) /\ issued' = issued + 1
      /\ appPw' = [appPw EXCEPT ![d][n] = issued + 1]
      /\ UNCHANGED <<accounts, sessions, mail, expired, staleMail, req, starts, minted,
                     mailed, life, login, born, crossed, ended, acts, reused>>
  BY DEF InsertAppPassword, tables, clock, counts, ghosts, At, Start, Go, End
<1>6. Refreshes'
  BY <1>1, RefreshesStay DEF Proper, Refresh, Others, Kept, Exists
<1>8. Numbered' /\ OneHolder' /\ LoginLasts'
  BY <1>1, HoldersStay DEF Proper, Refresh, Others, Kept
<1>9. MailHeld' /\ MailNumbered'
  BY <1>1, MailStays DEF Proper, Refresh, Others, Kept
<1>11. TypeOK'
  BY <1>1 DEF TypeOK
<1>12. Proper'
  BY <1>1 DEF TypeOK, Proper, Request, Refresh, Others, Kept
<1>13. SessionsOwn'
  <2>1. \A c \in Did, m \in Name : appPw'[c][m] # 0 => appPw[c][m] # 0 \/ c = d
    BY <1>1 DEF TypeOK
  <2> QED
    BY <1>1, <2>1 DEF SessionsOwn, Exists
<1> QED
  BY <1>6, <1>8, <1>9, <1>11, <1>12, <1>13

\* An app password is revoked.
LEMMA DeleteAppPasswordStep ==
  ASSUME IInv, NEW d \in Did, NEW n \in Name, DeleteAppPassword(d, n)
  PROVE  IInv'
<1> USE DEF IInv
<1>1. /\ appPw' = [appPw EXCEPT ![d][n] = 0]
      /\ UNCHANGED <<accounts, sessions, mail, expired, staleMail, req, starts, minted,
                     mailed, issued, life, login, born, crossed, ended, acts, reused>>
  BY DEF DeleteAppPassword, tables, clock, counts, ghosts, At, Start, Go, End
<1>6. Refreshes'
  BY <1>1, RefreshesStay DEF Proper, Refresh, Others, Kept, Exists
<1>8. Numbered' /\ OneHolder' /\ LoginLasts'
  BY <1>1, HoldersStay DEF Proper, Refresh, Others, Kept
<1>9. MailHeld' /\ MailNumbered'
  BY <1>1, MailStays DEF Proper, Refresh, Others, Kept
<1>11. TypeOK'
  BY <1>1 DEF TypeOK
<1>12. Proper'
  BY <1>1 DEF TypeOK, Proper, Request, Refresh, Others, Kept
<1>13. SessionsOwn'
  <2>1. \A c \in Did, m \in Name : appPw'[c][m] # 0 => appPw[c][m] # 0
    BY <1>1 DEF TypeOK
  <2> QED
    BY <1>1, <2>1 DEF SessionsOwn, Exists
<1> QED
  BY <1>6, <1>8, <1>9, <1>11, <1>12, <1>13

-----------------------------------------------------------------------------
(***************************************************************************)
(* Tokens sent by e-mail.                                                  *)
(***************************************************************************)
\* A token is sent.
LEMMA InsertMailStep ==
  ASSUME IInv, NEW d \in Did, NEW purpose \in {"confirm", "reset"}, InsertMail(d, purpose)
  PROVE  IInv'
<1> USE DEF IInv
<1> DEFINE row == [did |-> d, purpose |-> purpose, used |-> FALSE]
<1>r. row \in MailRow /\ row # None
  <2>1. row \in MailRow
    BY DEF MailRow
  <2> QED
    BY <2>1, SessionsAssumption
<1>s. /\ mailed' = mailed + 1 /\ mail' = [mail EXCEPT ![mailed + 1] = row] /\ mailed < MaxMail
      /\ UNCHANGED <<accounts, sessions, appPw, expired, staleMail, req, starts,
                     minted, issued, life, login, born, crossed, ended, acts, reused>>
  BY DEF InsertMail, tables, clock, counts, ghosts
<1>n. PICK k \in Mail : k = mailed + 1
  BY <1>s, SessionsAssumption DEF TypeOK, Mail
<1> HIDE DEF row
<1>1. \A m \in Mail : mail'[m] = IF m = k THEN row ELSE mail[m]
  BY <1>s, <1>n DEF TypeOK
<1>2. mail[k] = None /\ acts[k] = 0 /\ mailed' \in Nat /\ mailed' <= MaxMail
  BY <1>s, <1>n, SessionsAssumption DEF MailNumbered, TypeOK
<1>3. \A q \in Req : req[q].mail # 0 => req[q].mail \in Mail /\ req[q].mail # k
  BY <1>2, <1>n DEF Proper, TypeOK, Request, Refresh
<1>6. Refreshes'
  BY <1>r, <1>s, <1>n, <1>1, <1>2, <1>3, RefreshesStay DEF Proper, Refresh, Others,
     Kept, Exists
<1>7. SessionsOwn'
  BY <1>r, <1>s, <1>n, <1>1, <1>2, <1>3, OwnStays DEF Exists
<1>8. Numbered' /\ OneHolder' /\ LoginLasts'
  BY <1>r, <1>s, <1>n, <1>1, <1>2, <1>3, HoldersStay DEF Proper, Refresh, Others, Kept
<1>11. TypeOK'
  <2>1. mail' \in [Mail -> MailRow \cup {None}]
    BY <1>r, <1>s DEF TypeOK
  <2> QED
    BY <1>s, <1>2, <2>1 DEF TypeOK
<1>12. Proper'
  <2>1. \A m \in Mail : mail[m] # None => mail'[m] # None
    BY <1>r, <1>1
  <2> QED
    BY <1>s, <2>1 DEF Proper, Refresh
<1>13. MailHeld'
  <2>1. ASSUME NEW m \in Mail \ reused, m # k
        PROVE  mail'[m] = mail[m]
    BY <1>1, <2>1
  <2>2. k # 0
    BY DEF Mail
  <2> QED
    BY <1>s, <1>2, <1>3, <2>1, <2>2 DEF MailHeld, HeldRight, At
<1>14. MailNumbered'
  <2>1. \A m \in Mail : m > mailed' => m # k /\ m > mailed
    BY <1>s, <1>n DEF TypeOK, Mail
  <2> QED
    BY <1>s, <1>1, <2>1 DEF MailNumbered
<1> QED
  BY <1>6, <1>7, <1>8, <1>11, <1>12, <1>13, <1>14

\* A confirmation finds its token.
LEMMA BeginConfirmEmailStep ==
  ASSUME IInv, NEW r \in Req, BeginConfirmEmail(r)
  PROVE  IInv'
<1> USE DEF IInv
<1>0. req \in [Req -> Request] /\ req[r] \in Request /\ starts \in Nat /\ starts <= MaxStarts
  BY DEF TypeOK
<1>p. PICK m \in Mail, e \in Email :
        /\ findEmailToken(m, "confirm")
        /\ Start(r, [Idle EXCEPT !.kind = "confirm", !.at = "mark", !.did = mail[m].did,
                                 !.mail = m, !.email = e])
        /\ reused' = reused \cup Holds(m)
  BY DEF BeginConfirmEmail
<1>s. mail[m] \in MailRow /\ mail[m].did \in Did /\ mail[m] # None /\ ~mail[m].used
  BY <1>p DEF findEmailToken, TypeOK, MailRow
<1> DEFINE x == [Idle EXCEPT !.kind = "confirm", !.at = "mark", !.did = mail[m].did,
                               !.mail = m, !.email = e]
<1>a. /\ x \in Request /\ x.kind = "confirm" /\ x.at = "mark" /\ x.mail = m
      /\ x.email = e
  BY <1>s DEF Idle, Request, TypeOK
<1>b. Start(r, x)
  BY <1>p
<1> HIDE DEF x
<1>1. /\ req' \in [Req -> Request] /\ Others(r) /\ req[r] = Idle /\ req'[r] = x
      /\ starts' \in Nat /\ starts' <= MaxStarts
  BY <1>0, <1>a, <1>b, StartFacts
<1>3. UNCHANGED <<accounts, sessions, appPw, mail, expired, staleMail, minted,
                     mailed, issued, life, login, born, crossed, ended, acts>>
  BY DEF BeginConfirmEmail, tables, clock, counts, ghosts, At, Start, Go, End
<1>4. /\ reused \subseteq reused' /\ reused' \subseteq Mail \cup {0}
      /\ (\E q \in Req : req[q].mail = m) => m \in reused'
  BY <1>p DEF Holds, TypeOK
<1>5. \A q \in Req \ {r} : req'[q] = req[q]
  BY <1>1 DEF Others
<1>6. Refreshes'
  BY <1>0, <1>1, <1>3, <1>4, <1>a, <1>p, <1>s, IdleFields, RefreshesStay DEF Proper,
     Refresh, Others, Kept, Exists
<1>7. SessionsOwn'
  BY <1>0, <1>1, <1>3, <1>4, <1>a, <1>p, <1>s, IdleFields, OwnStays DEF Exists
<1>8. Numbered' /\ OneHolder' /\ LoginLasts'
  BY <1>0, <1>1, <1>3, <1>4, <1>a, <1>p, <1>s, IdleFields, HoldersStay DEF Proper,
     Refresh, Others, Kept
<1>11. TypeOK'
  BY <1>0, <1>1, <1>3, <1>4, <1>a, <1>p, <1>s, IdleFields DEF TypeOK
<1>12. Proper'
  BY <1>0, <1>1, <1>3, <1>4, <1>a, <1>p, <1>s, IdleFields DEF TypeOK, Proper, Request,
     Refresh, Others, Kept
<1>13. MailHeld'
  <2>1. Idle.mail = 0 /\ m # 0
    BY IdleFields DEF Mail
  <2>2. ASSUME NEW k \in Mail \ reused', k # m
        PROVE  /\ \A q \in Req : req'[q].mail = k => q # r /\ req'[q] = req[q]
               /\ \A q \in Req : req[q].mail = k => q # r
    BY <1>1, <1>5, <1>a, <2>1, <2>2 DEF Mail
  <2>3. ASSUME m \notin reused'
        PROVE  /\ \A q \in Req : req'[q].mail = m => q = r
               /\ acts[m] = 0 /\ m \notin reused
    BY <1>1, <1>4, <1>5, <1>s, <2>1, <2>3 DEF MailHeld, HeldRight
  <2> SUFFICES ASSUME NEW k \in Mail \ reused'
               PROVE  HeldRight(k)'
    BY DEF MailHeld, HeldRight
  <2>4. CASE k = m
    <3>1. req'[r].mail = m /\ ~At(r, "reset", "mark")' /\ ~At(r, "confirm", "update")'
      BY <1>1, <1>a DEF At
    <3> QED
      BY <1>3, <2>3, <2>4, <3>1 DEF HeldRight
  <2>5. CASE k # m
    <3>1. \A q \in Req : req'[q].mail = k <=> req[q].mail = k
      BY <1>1, <1>5, <1>a, <2>1, <2>5 DEF Mail
    <3>2. HeldRight(k)
      BY <1>4 DEF MailHeld, HeldRight
    <3> QED
      BY <1>3, <2>2, <2>5, <3>1, <3>2 DEF HeldRight, At
  <2> QED
    BY <2>4, <2>5
<1>14. MailNumbered'
  BY <1>0, <1>1, <1>3, <1>4, <1>a, <1>p, <1>s, IdleFields DEF MailNumbered
<1> QED
  BY <1>6, <1>7, <1>8, <1>11, <1>12, <1>13, <1>14

\* A reset finds its token.
LEMMA BeginResetPasswordStep ==
  ASSUME IInv, NEW r \in Req, BeginResetPassword(r)
  PROVE  IInv'
<1> USE DEF IInv
<1>0. req \in [Req -> Request] /\ req[r] \in Request /\ starts \in Nat /\ starts <= MaxStarts
  BY DEF TypeOK
<1>p. PICK m \in Mail, s \in Secret :
        /\ findEmailToken(m, "reset")
        /\ Start(r, [Idle EXCEPT !.kind = "reset", !.at = "update", !.did = mail[m].did,
                                 !.mail = m, !.typed = s])
        /\ reused' = reused \cup Holds(m)
  BY DEF BeginResetPassword
<1>s. mail[m] \in MailRow /\ mail[m].did \in Did /\ mail[m] # None /\ ~mail[m].used
  BY <1>p DEF findEmailToken, TypeOK, MailRow
<1> DEFINE x == [Idle EXCEPT !.kind = "reset", !.at = "update", !.did = mail[m].did,
                               !.mail = m, !.typed = s]
<1>a. /\ x \in Request /\ x.kind = "reset" /\ x.at = "update" /\ x.mail = m
      /\ x.typed = s
  BY <1>s DEF Idle, Request, TypeOK
<1>b. Start(r, x)
  BY <1>p
<1> HIDE DEF x
<1>1. /\ req' \in [Req -> Request] /\ Others(r) /\ req[r] = Idle /\ req'[r] = x
      /\ starts' \in Nat /\ starts' <= MaxStarts
  BY <1>0, <1>a, <1>b, StartFacts
<1>3. UNCHANGED <<accounts, sessions, appPw, mail, expired, staleMail, minted,
                     mailed, issued, life, login, born, crossed, ended, acts>>
  BY DEF BeginResetPassword, tables, clock, counts, ghosts, At, Start, Go, End
<1>4. /\ reused \subseteq reused' /\ reused' \subseteq Mail \cup {0}
      /\ (\E q \in Req : req[q].mail = m) => m \in reused'
  BY <1>p DEF Holds, TypeOK
<1>5. \A q \in Req \ {r} : req'[q] = req[q]
  BY <1>1 DEF Others
<1>6. Refreshes'
  BY <1>0, <1>1, <1>3, <1>4, <1>a, <1>p, <1>s, IdleFields, RefreshesStay DEF Proper,
     Refresh, Others, Kept, Exists
<1>7. SessionsOwn'
  BY <1>0, <1>1, <1>3, <1>4, <1>a, <1>p, <1>s, IdleFields, OwnStays DEF Exists
<1>8. Numbered' /\ OneHolder' /\ LoginLasts'
  BY <1>0, <1>1, <1>3, <1>4, <1>a, <1>p, <1>s, IdleFields, HoldersStay DEF Proper,
     Refresh, Others, Kept
<1>11. TypeOK'
  BY <1>0, <1>1, <1>3, <1>4, <1>a, <1>p, <1>s, IdleFields DEF TypeOK
<1>12. Proper'
  BY <1>0, <1>1, <1>3, <1>4, <1>a, <1>p, <1>s, IdleFields DEF TypeOK, Proper, Request,
     Refresh, Others, Kept
<1>13. MailHeld'
  <2>1. Idle.mail = 0 /\ m # 0
    BY IdleFields DEF Mail
  <2>2. ASSUME NEW k \in Mail \ reused', k # m
        PROVE  /\ \A q \in Req : req'[q].mail = k => q # r /\ req'[q] = req[q]
               /\ \A q \in Req : req[q].mail = k => q # r
    BY <1>1, <1>5, <1>a, <2>1, <2>2 DEF Mail
  <2>3. ASSUME m \notin reused'
        PROVE  /\ \A q \in Req : req'[q].mail = m => q = r
               /\ acts[m] = 0 /\ m \notin reused
    BY <1>1, <1>4, <1>5, <1>s, <2>1, <2>3 DEF MailHeld, HeldRight
  <2> SUFFICES ASSUME NEW k \in Mail \ reused'
               PROVE  HeldRight(k)'
    BY DEF MailHeld, HeldRight
  <2>4. CASE k = m
    <3>1. req'[r].mail = m /\ ~At(r, "reset", "mark")' /\ ~At(r, "confirm", "update")'
      BY <1>1, <1>a DEF At
    <3> QED
      BY <1>3, <2>3, <2>4, <3>1 DEF HeldRight
  <2>5. CASE k # m
    <3>1. \A q \in Req : req'[q].mail = k <=> req[q].mail = k
      BY <1>1, <1>5, <1>a, <2>1, <2>5 DEF Mail
    <3>2. HeldRight(k)
      BY <1>4 DEF MailHeld, HeldRight
    <3> QED
      BY <1>3, <2>2, <2>5, <3>1, <3>2 DEF HeldRight, At
  <2> QED
    BY <2>4, <2>5
<1>14. MailNumbered'
  BY <1>0, <1>1, <1>3, <1>4, <1>a, <1>p, <1>s, IdleFields DEF MailNumbered
<1> QED
  BY <1>6, <1>7, <1>8, <1>11, <1>12, <1>13, <1>14

\* An e-mail token is marked.
LEMMA markEmailTokenUsedStep ==
  ASSUME IInv, NEW r \in Req, markEmailTokenUsed(r)
  PROVE  IInv'
<1> USE DEF IInv
<1>0. req \in [Req -> Request] /\ req[r] \in Request /\ starts \in Nat /\ starts <= MaxStarts
  BY DEF TypeOK
<1>2. /\ req[r].kind \in {"confirm", "reset"} /\ req[r].at = "mark" /\ req[r].mail \in Mail
      /\ mail[req[r].mail] \in MailRow /\ req[r].mail # 0
  <2>1. req[r].kind \in {"none", "login", "refresh", "confirm", "reset"} /\ req[r].at = "mark"
    BY <1>0 DEF markEmailTokenUsed, Request
  <2>2. req[r].kind \in {"confirm", "reset"}
    BY <2>1 DEF Proper, Refresh
  <2>3. req[r].mail \in Mail /\ mail[req[r].mail] # None
    BY <2>2 DEF Proper
  <2> QED
    BY <2>1, <2>2, <2>3 DEF TypeOK, Mail
<1>m. PICK m \in Mail : m = req[r].mail
  BY <1>2
<1>1. /\ req' \in [Req -> Request] /\ Others(r)
      /\ req[r].kind = "confirm" => Kept(r) /\ req'[r].at = "update"
      /\ req[r].kind = "reset" => req'[r] = Idle
  BY <1>0, <1>2, GoFacts, EndFacts DEF markEmailTokenUsed, AfterMark, Places
<1>5. \A q \in Req \ {r} : req'[q] = req[q]
  BY <1>1 DEF Others
<1>k. /\ \A q \in Req : req'[q].kind = "refresh" \/ Refresh(q) => q # r /\ req'[q] = req[q]
      /\ \A q \in Req : req'[q].mail # 0 => req'[q].mail = req[q].mail
      /\ \A q \in Req \ {r} : req'[q].mail = req[q].mail
  BY <1>1, <1>2, <1>5, IdleFields DEF Refresh, Kept
<1> DEFINE row == [mail[m] EXCEPT !.used = TRUE]
<1>r. row \in MailRow /\ row # None /\ row.used
  <2>1. row \in MailRow /\ row.used
    BY <1>2, <1>m DEF MailRow
  <2> QED
    BY <2>1, SessionsAssumption
<1>3. /\ mail' = [mail EXCEPT ![m] = row]
      /\ UNCHANGED <<accounts, sessions, appPw, expired, staleMail, starts, minted,
                     mailed, issued, life, login, born, crossed, ended, acts, reused>>
  BY <1>m DEF markEmailTokenUsed, tables, clock, counts, ghosts
<1> HIDE DEF row
<1>4. mail' \in [Mail -> MailRow \cup {None}] /\ \A k \in Mail : mail'[k] = IF k = m THEN row ELSE mail[k]
  BY <1>3, <1>r DEF TypeOK
<1>6. Refreshes'
  BY <1>3, <1>4, <1>k, RefreshesStay
<1>7. SessionsOwn'
  BY <1>3, <1>4, <1>k, OwnStays DEF Exists
<1>8. Numbered' /\ OneHolder' /\ LoginLasts'
  BY <1>3, <1>k, HoldersStay
<1>11. TypeOK'
  BY <1>1, <1>2, <1>3, <1>5, <1>k, <1>4, <1>m DEF TypeOK
<1>12. Proper'
  <2>1. \A k \in Mail : mail[k] # None => mail'[k] # None
    BY <1>4, <1>r
  <2> QED
    BY <1>1, <1>2, <1>3, <1>5, <2>1, IdleFields DEF Proper, Refresh, Kept
<1>13. MailHeld'
  <2> SUFFICES ASSUME NEW k \in Mail \ reused'
               PROVE  HeldRight(k)'
    BY DEF MailHeld
  <2>1. HeldRight(k) /\ k # 0
    BY <1>3 DEF MailHeld, Mail
  <2>2. CASE k = m
    <3>1. CASE req[r].kind = "confirm"
      <4>1. acts[m] = 0 /\ \A q \in Req : req'[q].mail = m => q = r
        BY <1>m, <1>2, <1>k, <2>1, <2>2, <3>1 DEF HeldRight, At
      <4>2. req'[r].mail = m /\ ~At(r, "reset", "mark")'
        BY <1>m, <1>1, <3>1 DEF At, Kept
      <4> QED
        BY <1>3, <1>4, <1>m, <1>r, <2>2, <4>1, <4>2 DEF HeldRight
    <3>2. CASE req[r].kind = "reset"
      <4>1. acts[m] = 1 /\ \A q \in Req : req'[q].mail # m
        BY <1>m, <1>1, <1>2, <1>k, <2>1, <2>2, <3>2, IdleFields DEF HeldRight, At
      <4> QED
        BY <1>3, <1>4, <1>m, <1>r, <2>2, <4>1 DEF HeldRight
    <3> QED
      BY <1>2, <3>1, <3>2
  <2>3. CASE k # m
    <3>1. \A q \in Req : req'[q].mail = k <=> req[q].mail = k
      BY <1>m, <1>1, <1>2, <1>5, <1>k, <2>1, <2>3, IdleFields DEF Kept
    <3>2. \A q \in Req : req[q].mail = k => req'[q] = req[q]
      BY <1>m, <1>5, <2>3
    <3>3. mail'[k] = mail[k] /\ acts'[k] = acts[k]
      BY <1>3, <1>m, <2>3 DEF TypeOK
    <3> QED
      BY <2>1, <3>1, <3>2, <3>3 DEF HeldRight, At
  <2> QED
    BY <2>2, <2>3
<1>14. MailNumbered'
  <2>1. mail[m] # None
    BY <1>2, <1>m, SessionsAssumption
  <2> QED
    BY <1>3, <1>4, <1>m, <2>1 DEF MailNumbered
<1> QED
  BY <1>6, <1>7, <1>8, <1>11, <1>12, <1>13, <1>14

\* The mark of an e-mail token fails.
LEMMA MarkFailsStep ==
  ASSUME IInv, NEW r \in Req, MarkFails(r)
  PROVE  IInv'
<1> USE DEF IInv
<1>0. req \in [Req -> Request] /\ req[r] \in Request /\ starts \in Nat /\ starts <= MaxStarts
  BY DEF TypeOK
<1>2. /\ req[r].kind \in {"confirm", "reset"} /\ req[r].at = "mark" /\ req[r].mail \in Mail
      /\ mail[req[r].mail] \in MailRow /\ req[r].mail # 0
  <2>1. req[r].kind \in {"none", "login", "refresh", "confirm", "reset"} /\ req[r].at = "mark"
    BY <1>0 DEF MarkFails, Request
  <2>2. req[r].kind \in {"confirm", "reset"}
    BY <2>1 DEF Proper, Refresh
  <2>3. req[r].mail \in Mail /\ mail[req[r].mail] # None
    BY <2>2 DEF Proper
  <2> QED
    BY <2>1, <2>2, <2>3 DEF TypeOK, Mail
<1>m. PICK m \in Mail : m = req[r].mail
  BY <1>2
<1>1. /\ req' \in [Req -> Request] /\ Others(r)
      /\ req[r].kind = "confirm" => Kept(r) /\ req'[r].at = "update"
      /\ req[r].kind = "reset" => req'[r] = Idle
  BY <1>0, <1>2, GoFacts, EndFacts DEF MarkFails, AfterMark, Places
<1>5. \A q \in Req \ {r} : req'[q] = req[q]
  BY <1>1 DEF Others
<1>k. /\ \A q \in Req : req'[q].kind = "refresh" \/ Refresh(q) => q # r /\ req'[q] = req[q]
      /\ \A q \in Req : req'[q].mail # 0 => req'[q].mail = req[q].mail
      /\ \A q \in Req \ {r} : req'[q].mail = req[q].mail
  BY <1>1, <1>2, <1>5, IdleFields DEF Refresh, Kept
<1>3. /\ reused' = reused \cup {m}
      /\ UNCHANGED <<accounts, sessions, appPw, mail, expired, staleMail, starts,
                     minted, mailed, issued, life, login, born, crossed, ended, acts>>
  BY <1>m DEF MarkFails, tables, clock, counts, ghosts
<1>6. Refreshes'
  BY <1>3, <1>k, RefreshesStay
<1>7. SessionsOwn'
  BY <1>3, <1>k, OwnStays DEF Exists
<1>8. Numbered' /\ OneHolder' /\ LoginLasts'
  BY <1>3, <1>k, HoldersStay
<1>11. TypeOK'
  BY <1>1, <1>2, <1>3, <1>5, <1>k, <1>m DEF TypeOK
<1>12. Proper'
  <2>1. \A k \in Mail : mail[k] # None => mail'[k] # None
    BY <1>3
  <2> QED
    BY <1>1, <1>2, <1>3, <1>5, <2>1, IdleFields DEF Proper, Refresh, Kept
<1>13. MailHeld'
  <2> SUFFICES ASSUME NEW k \in Mail \ reused'
               PROVE  HeldRight(k)'
    BY DEF MailHeld
  <2>1. HeldRight(k) /\ k # 0
    BY <1>3 DEF MailHeld, Mail
  <2>2. CASE k = m
    BY <1>3, <2>2
  <2>3. CASE k # m
    <3>1. \A q \in Req : req'[q].mail = k <=> req[q].mail = k
      BY <1>m, <1>1, <1>2, <1>5, <1>k, <2>1, <2>3, IdleFields DEF Kept
    <3>2. \A q \in Req : req[q].mail = k => req'[q] = req[q]
      BY <1>m, <1>5, <2>3
    <3>3. mail'[k] = mail[k] /\ acts'[k] = acts[k]
      BY <1>3, <1>m, <2>3 DEF TypeOK
    <3> QED
      BY <2>1, <3>1, <3>2, <3>3 DEF HeldRight, At
  <2> QED
    BY <2>2, <2>3
<1>14. MailNumbered'
  BY <1>1, <1>2, <1>3, <1>5, <1>k, <1>m DEF MailNumbered, TypeOK
<1> QED
  BY <1>6, <1>7, <1>8, <1>11, <1>12, <1>13, <1>14

\* A token changes the account.
LEMMA UpdateAccountStep ==
  ASSUME IInv, NEW r \in Req, UpdateAccount(r)
  PROVE  IInv'
<1> USE DEF IInv
<1>0. req \in [Req -> Request] /\ req[r] \in Request /\ starts \in Nat /\ starts <= MaxStarts
  BY DEF TypeOK
<1>2. /\ req[r].kind \in {"confirm", "reset"} /\ req[r].at = "update" /\ req[r].mail \in Mail
      /\ mail[req[r].mail] \in MailRow /\ req[r].mail # 0
  <2>1. req[r].kind \in {"none", "login", "refresh", "confirm", "reset"} /\ req[r].at = "update"
    BY <1>0 DEF UpdateAccount, Request
  <2>2. req[r].kind \in {"confirm", "reset"}
    BY <2>1 DEF Proper, Refresh
  <2>3. req[r].mail \in Mail /\ mail[req[r].mail] # None
    BY <2>2 DEF Proper
  <2> QED
    BY <2>1, <2>2, <2>3 DEF TypeOK, Mail
<1>m. PICK m \in Mail : m = req[r].mail
  BY <1>2
<1>1. /\ req' \in [Req -> Request] /\ Others(r)
      /\ req[r].kind = "reset" => Kept(r) /\ req'[r].at = "mark"
      /\ req[r].kind = "confirm" => req'[r] = Idle
  BY <1>0, <1>2, GoFacts, EndFacts DEF UpdateAccount, Places
<1>5. \A q \in Req \ {r} : req'[q] = req[q]
  BY <1>1 DEF Others
<1>k. /\ \A q \in Req : req'[q].kind = "refresh" \/ Refresh(q) => q # r /\ req'[q] = req[q]
      /\ \A q \in Req : req'[q].mail # 0 => req'[q].mail = req[q].mail
      /\ \A q \in Req \ {r} : req'[q].mail = req[q].mail
  BY <1>1, <1>2, <1>5, IdleFields DEF Refresh, Kept
<1>3. /\ acts' = [acts EXCEPT ![m] = @ + 1]
      /\ UNCHANGED <<sessions, appPw, mail, expired, staleMail, starts, minted, mailed,
                     issued, life, login, born, crossed, ended, reused>>
  BY <1>m DEF UpdateAccount, tables, clock, counts, ghosts
<1>4. /\ accounts' \in [Did -> Account \cup {None}]
      /\ \A c \in Did : accounts'[c] # None <=> accounts[c] # None
  <2> DEFINE d == req[r].did
  <2>1. CASE ~Exists(d)
    BY <2>1 DEF UpdateAccount, TypeOK
  <2>2. CASE Exists(d) /\ d \notin Did
    BY <2>2 DEF UpdateAccount, TypeOK
  <2>3. ASSUME Exists(d), d \in Did, NEW row \in Account, accounts' = [accounts EXCEPT ![d] = row]
        PROVE  /\ accounts' \in [Did -> Account \cup {None}]
               /\ \A c \in Did : accounts'[c] # None <=> accounts[c] # None
    BY <2>3, SessionsAssumption DEF TypeOK, Exists
  <2>4. CASE Exists(d) /\ d \in Did /\ req[r].kind = "reset"
    <3>1. req[r].typed \in Secret /\ accounts[d] \in Account
      BY <2>4 DEF Proper, TypeOK, Exists
    <3>2. [accounts[d] EXCEPT !.password = req[r].typed] \in Account
      BY <3>1 DEF Account
    <3>3. accounts' = [accounts EXCEPT ![d] = [accounts[d] EXCEPT !.password = req[r].typed]]
      BY <2>4 DEF UpdateAccount
    <3> QED
      BY <2>3, <2>4, <3>2, <3>3
  <2>5. CASE Exists(d) /\ d \in Did /\ req[r].kind = "confirm"
    <3>1. req[r].email \in Email /\ accounts[d] \in Account
      BY <2>5 DEF Proper, TypeOK, Exists
    <3>2. [accounts[d] EXCEPT !.email = req[r].email] \in Account
      BY <3>1 DEF Account
    <3>3. accounts' = [accounts EXCEPT ![d] = [accounts[d] EXCEPT !.email = req[r].email]]
      BY <2>5 DEF UpdateAccount
    <3> QED
      BY <2>3, <2>5, <3>2, <3>3
  <2> QED
    BY <1>2, <2>1, <2>2, <2>4, <2>5
<1>a. acts' \in [Mail -> Nat] /\ acts'[m] = acts[m] + 1 /\ \A k \in Mail \ {m} : acts'[k] = acts[k]
  BY <1>3, <1>m DEF TypeOK
<1>6. Refreshes'
  BY <1>3, <1>4, <1>k, RefreshesStay
<1>7. SessionsOwn'
  BY <1>3, <1>4, <1>k, OwnStays DEF Exists
<1>8. Numbered' /\ OneHolder' /\ LoginLasts'
  BY <1>3, <1>k, HoldersStay
<1>11. TypeOK'
  BY <1>1, <1>2, <1>3, <1>5, <1>k, <1>4, <1>a, <1>m DEF TypeOK
<1>12. Proper'
  <2>1. \A k \in Mail : mail[k] # None => mail'[k] # None
    BY <1>3
  <2> QED
    BY <1>1, <1>2, <1>3, <1>5, <2>1, IdleFields DEF Proper, Refresh, Kept
<1>13. MailHeld'
  <2> SUFFICES ASSUME NEW k \in Mail \ reused'
               PROVE  HeldRight(k)'
    BY DEF MailHeld
  <2>1. HeldRight(k) /\ k # 0
    BY <1>3 DEF MailHeld, Mail
  <2>2. CASE k = m
    <3>1. CASE req[r].kind = "confirm"
      <4>1. acts[m] = 0 /\ mail[m].used /\ \A q \in Req : req'[q].mail # m
        BY <1>m, <1>1, <1>2, <1>k, <2>1, <2>2, <3>1, IdleFields DEF HeldRight, At
      <4>2. acts'[m] = 1 /\ mail' = mail
        BY <1>3, <1>a, <4>1
      <4> QED
        BY <2>2, <4>1, <4>2 DEF HeldRight
    <3>2. CASE req[r].kind = "reset"
      <4>1. acts[m] = 0 /\ \A q \in Req : req'[q].mail = m => q = r
        BY <1>m, <1>1, <1>2, <1>k, <2>1, <2>2, <3>2 DEF HeldRight, At
      <4>2. acts'[m] = 1
        BY <1>a, <4>1
      <4>3. At(r, "reset", "mark")' /\ ~At(r, "confirm", "update")' /\ req'[r].mail = m
        BY <1>m, <1>1, <3>2 DEF At, Kept
      <4> QED
        BY <2>2, <4>1, <4>2, <4>3 DEF HeldRight
    <3> QED
      BY <1>2, <3>1, <3>2
  <2>3. CASE k # m
    <3>1. \A q \in Req : req'[q].mail = k <=> req[q].mail = k
      BY <1>m, <1>1, <1>2, <1>5, <1>k, <2>1, <2>3, IdleFields DEF Kept
    <3>2. \A q \in Req : req[q].mail = k => req'[q] = req[q]
      BY <1>m, <1>5, <2>3
    <3>3. mail'[k] = mail[k] /\ acts'[k] = acts[k]
      BY <1>3, <1>m, <2>3 DEF TypeOK
    <3> QED
      BY <2>1, <3>1, <3>2, <3>3 DEF HeldRight, At
  <2> QED
    BY <2>2, <2>3
<1>14. MailNumbered'
  <2>1. mail[m] # None
    BY <1>2, <1>m, SessionsAssumption
  <2> QED
    BY <1>3, <1>a, <1>m, <2>1 DEF MailNumbered
<1> QED
  BY <1>6, <1>7, <1>8, <1>11, <1>12, <1>13, <1>14

-----------------------------------------------------------------------------
(***************************************************************************)
(* Time passes, and requests fail.                                         *)
(***************************************************************************)
\* A refresh token expires.
LEMMA ExpireStep ==
  ASSUME IInv, NEW t \in Token, Expire(t)
  PROVE  IInv'
<1> USE DEF IInv
<1>1. /\ expired' = expired \cup {t}
      /\ UNCHANGED <<accounts, sessions, appPw, mail, staleMail, req, starts, minted,
                     mailed, issued, life, login, born, crossed, ended, acts, reused>>
  BY DEF Expire, tables, clock, counts, ghosts
<1>6. Refreshes'
  BY <1>1, RefreshesStay DEF Proper, Refresh, Others, Kept, Exists
<1>7. SessionsOwn'
  BY <1>1, OwnStays DEF Exists
<1>8. Numbered' /\ OneHolder' /\ LoginLasts'
  BY <1>1, HoldersStay DEF Proper, Refresh, Others, Kept
<1>9. MailHeld' /\ MailNumbered'
  BY <1>1, MailStays DEF Proper, Refresh, Others, Kept
<1>11. TypeOK'
  BY <1>1 DEF TypeOK
<1>12. Proper'
  BY <1>1 DEF TypeOK, Proper, Request, Refresh, Others, Kept
<1> QED
  BY <1>6, <1>7, <1>8, <1>9, <1>11, <1>12

\* An e-mail token expires.
LEMMA ExpireMailStep ==
  ASSUME IInv, NEW m \in Mail, ExpireMail(m)
  PROVE  IInv'
<1> USE DEF IInv
<1>1. /\ staleMail' = staleMail \cup {m}
      /\ UNCHANGED <<accounts, sessions, appPw, mail, expired, req, starts, minted,
                     mailed, issued, life, login, born, crossed, ended, acts, reused>>
  BY DEF ExpireMail, tables, clock, counts, ghosts
<1>6. Refreshes'
  BY <1>1, RefreshesStay DEF Proper, Refresh, Others, Kept, Exists
<1>7. SessionsOwn'
  BY <1>1, OwnStays DEF Exists
<1>8. Numbered' /\ OneHolder' /\ LoginLasts'
  BY <1>1, HoldersStay DEF Proper, Refresh, Others, Kept
<1>9. MailHeld' /\ MailNumbered'
  BY <1>1, MailStays DEF Proper, Refresh, Others, Kept
<1>11. TypeOK'
  BY <1>1 DEF TypeOK
<1>12. Proper'
  BY <1>1 DEF TypeOK, Proper, Request, Refresh, Others, Kept
<1> QED
  BY <1>6, <1>7, <1>8, <1>9, <1>11, <1>12

\* A request ends early.
LEMMA FailStep ==
  ASSUME IInv, NEW r \in Req, Fail(r)
  PROVE  IInv'
<1> USE DEF IInv
<1>0. req \in [Req -> Request] /\ req[r] \in Request /\ starts \in Nat /\ starts <= MaxStarts
  BY DEF TypeOK
<1>1. req' \in [Req -> Request] /\ Others(r) /\ req'[r] = Idle
  BY <1>0, EndFacts DEF Fail
<1>2. /\ ended' = IF At(r, "refresh", "mint") THEN ended \cup {login[req[r].token]} ELSE ended
      /\ reused' = IF At(r, "reset", "mark") THEN reused \cup {req[r].mail} ELSE reused
  BY DEF Fail
<1>3. UNCHANGED <<accounts, sessions, appPw, mail, expired, staleMail, starts,
                     minted, mailed, issued, life, login, born, crossed, acts>>
  BY DEF Fail, tables, clock, counts, ghosts
<1>4. \A q \in Req : req'[q] = IF q = r THEN Idle ELSE req[q]
  BY <1>1 DEF Others
<1>5. At(r, "refresh", "mint") => req[r].token \in Token
  BY DEF At, Proper, Refresh
<1>h. \A c \in Token : HoldersOf(c)' \subseteq HoldersOf(c)
  BY <1>3, <1>4, IdleFields DEF HoldersOf, At
<1>7. SessionsOwn'
  BY <1>1, <1>2, <1>3, <1>4, <1>5, IdleFields, OwnStays DEF Exists
<1>11. TypeOK'
  <2>1. ended' \subseteq Token \cup {0}
    BY <1>2, <1>5 DEF TypeOK
  <2>2. reused' \subseteq Mail \cup {0}
    BY <1>0, <1>2 DEF TypeOK, Request
  <2> QED
    BY <1>1, <1>3, <2>1, <2>2 DEF TypeOK
<1>12. Proper'
  BY <1>1, <1>2, <1>3, <1>4, <1>5, IdleFields DEF TypeOK, Proper, Request, Refresh,
     Others, Kept
<1>13. Numbered'
  BY <1>1, <1>2, <1>3, <1>4, <1>5, IdleFields DEF TypeOK, Numbered
<1>14. Refreshes'
  <2>1. \A q \in Req : Refresh(q)' => Refresh(q) /\ req'[q] = req[q]
    BY <1>4, IdleFields DEF Refresh
  <2> QED
    BY <1>3, <2>1 DEF Refreshes, Refresh, Exists
<1>15. MailHeld'
  <2> SUFFICES ASSUME NEW k \in Mail \ reused'
               PROVE  HeldRight(k)'
    BY DEF MailHeld
  <2>1. HeldRight(k) /\ k # 0
    BY <1>2 DEF MailHeld, Mail
  <2>2. CASE req[r].mail = k
    <3>1. ~At(r, "reset", "mark")
      BY <1>2, <2>2
    <3>2. acts[k] = 0 /\ \A q \in Req : req'[q].mail # k
      BY <1>4, <2>1, <2>2, <3>1, IdleFields DEF HeldRight
    <3> QED
      BY <1>3, <3>2 DEF HeldRight
  <2>3. CASE req[r].mail # k
    <3>1. \A q \in Req : req'[q].mail = k <=> req[q].mail = k
      BY <1>4, <2>1, <2>3, IdleFields
    <3>2. \A q \in Req : req[q].mail = k => req'[q] = req[q]
      BY <1>4, <2>3
    <3> QED
      BY <1>3, <2>1, <3>1, <3>2 DEF HeldRight, At
  <2> QED
    BY <2>2, <2>3
<1>16. MailNumbered'
  BY <1>1, <1>2, <1>3, <1>4, <1>5, IdleFields DEF MailNumbered, TypeOK
<1>17. OneHolder'
  BY <1>3, <1>h DEF OneHolder
<1>18. LoginLasts'
  <2> SUFFICES ASSUME NEW c \in Token \ crossed, login[c] = c
               PROVE  c \in ended' <=> HoldersOf(c)' = {}
    BY <1>3 DEF LoginLasts
  <2>1. c \in ended <=> HoldersOf(c) = {}
    BY DEF LoginLasts
  <2>2. CASE At(r, "refresh", "mint") /\ login[req[r].token] = c
    <3>1. req[r].token \in HoldersOf(c)
      BY <1>5, <2>2 DEF HoldersOf
    <3>2. HoldersOf(c) \subseteq {req[r].token}
      BY <3>1 DEF OneHolder
    <3>3. /\ sessions[req[r].token] = None
          /\ \A q \in Req : Refresh(q) /\ login[req[q].token] = c => q = r
      BY <2>2 DEF Refreshes, At, Refresh
    <3>4. \A q \in Req : ~(At(q, "refresh", "mint")' /\ req'[q].token = req[r].token)
      BY <1>4, <2>2, <3>3, IdleFields DEF At, Refresh
    <3>5. req[r].token \notin HoldersOf(c)'
      BY <1>3, <3>3, <3>4 DEF HoldersOf
    <3> QED
      BY <1>2, <1>h, <2>2, <3>2, <3>5
  <2>3. CASE ~(At(r, "refresh", "mint") /\ login[req[r].token] = c)
    <3>1. HoldersOf(c)' = HoldersOf(c)
      BY <1>3, <1>4, <2>3, IdleFields DEF HoldersOf, At
    <3>2. c \in ended' <=> c \in ended
      BY <1>2, <2>3
    <3> QED
      BY <2>1, <3>1, <3>2
  <2> QED
    BY <2>2, <2>3
<1> QED
  BY <1>7, <1>11, <1>12, <1>13, <1>14, <1>15, <1>16, <1>17, <1>18

-----------------------------------------------------------------------------
(***************************************************************************)
(* The invariant holds initially and every step keeps it.                  *)
(***************************************************************************)
LEMMA InitInv == Init => IInv
<1> SUFFICES ASSUME Init
             PROVE  IInv
  OBVIOUS
<1> USE DEF Init
<1>1. \A r \in Req : req[r] = Idle
  OBVIOUS
<1>2. TypeOK
  BY IdleFields, SessionsAssumption DEF TypeOK
<1>3. Proper
  BY <1>1, IdleFields DEF Proper, Refresh
<1>4. Numbered
  BY DEF Numbered, Token
<1>5. Refreshes
  BY <1>1, IdleFields DEF Refreshes, Refresh
<1>6. MailHeld /\ MailNumbered
  BY <1>1, IdleFields DEF MailHeld, HeldRight, MailNumbered, Mail
<1>7. \A c \in Token : HoldersOf(c) = {} /\ login[c] # c
  BY <1>1, IdleFields DEF HoldersOf, At, Token
<1>8. OneHolder /\ LoginLasts
  BY <1>7 DEF OneHolder, LoginLasts
<1>9. SessionsOwn
  BY DEF SessionsOwn
<1> QED
  BY <1>2, <1>3, <1>4, <1>5, <1>6, <1>8, <1>9 DEF IInv

LEMMA NextInv == IInv /\ [Next]_vars => IInv'
<1> SUFFICES ASSUME IInv, [Next]_vars
             PROVE  IInv'
  OBVIOUS
<1>1. CASE UNCHANGED vars
  <2> USE <1>1 DEF vars, tables, clock, counts, ghosts
  <2>1. TypeOK' /\ Proper' /\ Numbered' /\ MailNumbered'
    BY DEF IInv, TypeOK, Proper, Refresh, Numbered, MailNumbered
  <2>2. Numbered' /\ OneHolder' /\ LoginLasts'
    BY HoldersStay
  <2>3. Refreshes' /\ MailHeld' /\ SessionsOwn'
    BY RefreshesStay, MailStays, OwnStays
  <2> QED
    BY <2>1, <2>2, <2>3 DEF IInv
<1>2. ASSUME NEW r \in Req,
             \/ SignUp(r) \/ BeginLogin(r) \/ VerifyAppPassword(r)
             \/ BeginRefresh(r) \/ DeleteOld(r) \/ Mint(r)
             \/ BeginConfirmEmail(r) \/ BeginResetPassword(r)
             \/ markEmailTokenUsed(r) \/ MarkFails(r) \/ UpdateAccount(r) \/ Fail(r)
      PROVE  IInv'
  BY <1>2, SignUpStep, BeginLoginStep, VerifyAppPasswordStep, BeginRefreshStep,
     DeleteOldStep,
     MintStep, BeginConfirmEmailStep, BeginResetPasswordStep, markEmailTokenUsedStep,
     MarkFailsStep, UpdateAccountStep, FailStep
<1>3. ASSUME NEW t \in Token, Logout(t) \/ Expire(t)
      PROVE  IInv'
  BY <1>3, LogoutStep, ExpireStep
<1>4. ASSUME NEW m \in Mail, ExpireMail(m)
      PROVE  IInv'
  BY <1>4, ExpireMailStep
<1>5. ASSUME NEW d \in Did, NEW on \in BOOLEAN, SetActive(d, on)
      PROVE  IInv'
  BY <1>5, SetActiveStep
<1>6. ASSUME NEW d \in Did, DeleteAccount(d)
      PROVE  IInv'
  BY <1>6, DeleteAccountStep
<1>7. ASSUME NEW d \in Did, RequestEmailConfirmation(d)
      PROVE  IInv'
  BY <1>7, InsertMailStep DEF RequestEmailConfirmation
<1>8. ASSUME NEW d \in Did, NEW n \in Name,
             \/ HandleCreateAppPassword(d, n) \/ appPasswordCreate(d, n)
             \/ HandleRevokeAppPassword(d, n) \/ appPasswordRevoke(d, n)
      PROVE  IInv'
  BY <1>8, InsertAppPasswordStep, DeleteAppPasswordStep
     DEF HandleCreateAppPassword, appPasswordCreate, HandleRevokeAppPassword, appPasswordRevoke
<1>9. ASSUME NEW e \in Email, RequestPasswordReset(e)
      PROVE  IInv'
  BY <1>9, InsertMailStep DEF RequestPasswordReset
<1> QED
  BY <1>1, <1>2, <1>3, <1>4, <1>5, <1>6, <1>7, <1>8, <1>9 DEF Next

\* However requests interleave, fail and are cut short, and for any number of
\* accounts, requests and tokens, the sessions and tokens keep the invariant.
THEOREM Invariance == Spec => []IInv
BY InitInv, NextInv, PTL DEF Spec

\* The tables, the requests and the counters keep their types.
THEOREM TypeCorrect == Spec => []TypeOK
<1>1. IInv => TypeOK
  BY DEF IInv
<1> QED
  BY <1>1, Invariance, PTL

\* A login never has two tokens it can go on with (auth.go:
\* HandleRefreshSession deletes one before it mints the next), unless two
\* requests met over one token.
THEOREM OneToken == Spec => []OneHolder
<1>1. IInv => OneHolder
  BY DEF IInv
<1> QED
  BY <1>1, Invariance, PTL

\* A login that no two requests met over lasts until it is logged out, its
\* account is deleted or a refresh fails halfway, and no refresh revives it
\* (auth.go: HandleRefreshSession, HandleDeleteSession).
THEOREM LastsUntilEnded == Spec => []LoginLasts
<1>1. IInv => LoginLasts
  BY DEF IInv
<1> QED
  BY <1>1, Invariance, PTL

\* Every session and app password belongs to an account that exists, and a
\* session to the account its login was for (auth.go: mintSession; db.go:
\* ON DELETE CASCADE).
THEOREM NothingLeftBehind == Spec => []SessionsOwn
<1>1. IInv => SessionsOwn
  BY DEF IInv
<1> QED
  BY <1>1, Invariance, PTL

\* An e-mail token that one request held at a time changes an account at most
\* once, and is shown as used once it has (email.go: HandleConfirmEmail,
\* HandleResetPassword).
THEOREM UsedOnce == Spec => []ActsOnce
<1>1. IInv => ActsOnce
  <2> SUFFICES ASSUME IInv, NEW m \in Mail \ reused
               PROVE  /\ acts[m] <= 1
                      /\ acts[m] = 1 /\ Holds(m) = {} => TokenStatus(m) = "used"
    BY DEF ActsOnce
  <2>1. HeldRight(m)
    BY DEF IInv, MailHeld
  <2>2. acts[m] \in {0, 1}
    BY <2>1 DEF HeldRight
  <2>3. ASSUME acts[m] = 1, Holds(m) = {}
        PROVE  TokenStatus(m) = "used"
    BY <2>1, <2>3 DEF HeldRight, Holds, TokenStatus
  <2> QED
    BY <2>2, <2>3
<1> QED
  BY <1>1, Invariance, PTL
=============================================================================
