------------------------------- MODULE Sessions -------------------------------
(***************************************************************************)
(* Logins and the tokens they rest on (internal/api/auth.go, apppass.go,   *)
(* email.go and the administrator's handlers of app passwords and e-mail   *)
(* tokens): refresh tokens in the table auth_sessions, app passwords, and  *)
(* the tokens that confirm an address or reset a password.                 *)
(*                                                                         *)
(* No handler holds a lock or a transaction: each statement that changes a *)
(* table is an action, and so is each read that a later statement relies   *)
(* on; requests interleave between them and may be cut short at any.       *)
(*                                                                         *)
(* Random tokens are numbered as they are made.  Access tokens are signed  *)
(* and stored nowhere: who had an account can present one until it runs    *)
(* out.  Time shows only in the tokens that have expired.  The steps of    *)
(* sign-up, status and deletion are in module Accounts; here each is one.  *)
(***************************************************************************)
EXTENDS Integers

CONSTANTS Did,        \* accounts
          Secret,     \* passwords people choose
          Email,      \* addresses
          Name,       \* names of app passwords
          None,       \* no row, no value
          Req,        \* requests that can be under way at once
          MaxStarts,  \* bound on logins, sign-ups, refreshes, uses of e-mail tokens and
                      \* sessions
          MaxMail,    \* bound on e-mail tokens
          MaxApp,     \* bound on app passwords
          MaxLife     \* bound on the accounts a DID has one after the other

Token == 1..MaxStarts
Mail == 1..MaxMail

\* Rows of accounts, auth_sessions and email_tokens, as far as they matter.
Account == [active : BOOLEAN, password : Secret, email : Email]
Session == [did : Did, app : Name \cup {None}]
MailRow == [did : Did, purpose : {"confirm", "reset"}, used : BOOLEAN]

ASSUME SessionsAssumption ==
  /\ None \notin Did \cup Secret \cup Email \cup Name
  /\ None \notin Account
  /\ None \notin Session
  /\ None \notin MailRow
  /\ Secret \cap Nat = {}
  /\ MaxStarts \in Nat /\ MaxMail \in Nat /\ MaxApp \in Nat /\ MaxLife \in Nat

VARIABLES
  accounts,   \* the table accounts
  sessions,   \* the table auth_sessions, by refresh token
  appPw,      \* the table app_passwords: 0, or the secret of a DID's name
  mail,       \* the table email_tokens
  expired,    \* refresh tokens whose time is over
  staleMail,  \* e-mail tokens whose time is over
  req,        \* requests under way
  starts, minted, mailed, issued,  \* counts of requests and of tokens made
  life,       \* how many accounts each DID has had
  login,      \* the first refresh token of the login each token continues
  born,       \* the account (by number) that each token's login was for
  crossed,    \* logins a refresh of which met another refresh, a logout or the
              \* end of the account, and logins minted for a later account
  ended,      \* logins that were ended: see Logout, DeleteAccount and Fail
  acts,       \* how often each e-mail token has changed an account
  reused      \* e-mail tokens with requests that met or failed to mark them

ghosts == <<life, login, born, crossed, ended, acts, reused>>
counts == <<starts, minted, mailed, issued>>
tables == <<accounts, sessions, appPw, mail>>
clock == <<expired, staleMail>>
vars == <<tables, clock, req, counts, ghosts>>

Idle == [kind |-> "none", at |-> "idle", did |-> None, app |-> None, token |-> 0,
         mail |-> 0, typed |-> 0, email |-> None, life |-> 0]

Init ==
  /\ accounts = [d \in Did |-> None]
  /\ sessions = [t \in Token |-> None]
  /\ appPw = [d \in Did |-> [n \in Name |-> 0]]
  /\ mail = [m \in Mail |-> None]
  /\ expired = {} /\ staleMail = {}
  /\ req = [r \in Req |-> Idle]
  /\ starts = 0 /\ minted = 0 /\ mailed = 0 /\ issued = 0
  /\ life = [d \in Did |-> 0]
  /\ login = [t \in Token |-> 0]
  /\ born = [t \in Token |-> 0]
  /\ crossed = {} /\ ended = {}
  /\ acts = [m \in Mail |-> 0]
  /\ reused = {}

-----------------------------------------------------------------------------
(***************************************************************************)
(* Helpers.                                                                *)
(***************************************************************************)
Exists(d) == accounts[d] # None
Active(d) == Exists(d) /\ accounts[d].active

At(r, kind, at) == req[r].kind = kind /\ req[r].at = at
Go(r, at) == req' = [req EXCEPT ![r].at = at]
End(r) == req' = [req EXCEPT ![r] = Idle]

Start(r, x) ==
  /\ req[r] = Idle
  /\ starts < MaxStarts
  /\ starts' = starts + 1
  /\ req' = [req EXCEPT ![r] = x]

\* requireAuth takes a signed token that is stored nowhere: who ever had the
\* account may have one, even if the account is gone.
requireAuth(d) == life[d] > 0

\* A password fits the one that was hashed.
VerifyPassword(set, typed) == set = typed

\* The login of t, if a refresh with t is under way.
Meets(t) ==
  {login[t] : q \in {q \in Req : req[q].kind = "refresh" /\ req[q].token = t}}

\* The e-mail token m, if a request holds it.
Holds(m) == {m : q \in {q \in Req : req[q].mail = m}}

-----------------------------------------------------------------------------
(***************************************************************************)
(* Accounts come, change and go.                                           *)
(***************************************************************************)
\* Sign-up; a session is minted at its end.
SignUp(r) ==
  \E d \in Did, s \in Secret, e \in Email :
    /\ ~Exists(d)
    /\ life[d] < MaxLife
    /\ accounts' = [accounts EXCEPT ![d] = [active |-> TRUE, password |-> s, email |-> e]]
    /\ life' = [life EXCEPT ![d] = @ + 1]
    /\ Start(r, [Idle EXCEPT !.kind = "login", !.at = "mint", !.did = d, !.life = life[d] + 1])
    /\ UNCHANGED <<sessions, appPw, mail, clock, minted, mailed, issued, login, born,
                   crossed, ended, acts, reused>>

SetActive(d, on) ==
  /\ Exists(d)
  /\ accounts[d].active # on
  /\ accounts' = [accounts EXCEPT ![d].active = on]
  /\ UNCHANGED <<sessions, appPw, mail, clock, req, counts, ghosts>>

\* The refresh tokens of d that have a row.
TokensOf(d) == {t \in Token : sessions[t] # None /\ sessions[t].did = d}

\* The logins of d that are being refreshed.
Refreshing(d) ==
  {login[req[q].token] : q \in {q \in Req : req[q].kind = "refresh" /\ req[q].did = d}}

\* Variant: the rows that refer to the account stay.
DeleteAccountOnly(d) ==
  /\ Exists(d)
  /\ accounts' = [accounts EXCEPT ![d] = None]
  /\ ended' = ended \cup {login[t] : t \in TokensOf(d)}
  /\ crossed' = crossed \cup Refreshing(d)
  /\ UNCHANGED <<sessions, appPw, mail, clock, req, counts, life, login, born, acts, reused>>

\* The row goes, and with it (ON DELETE CASCADE) the sessions and the app
\* passwords; e-mail tokens do not refer to the account.
DeleteAccount(d) ==
  /\ Exists(d)
  /\ accounts' = [accounts EXCEPT ![d] = None]
  /\ sessions' = [t \in Token |-> IF t \in TokensOf(d) THEN None ELSE sessions[t]]
  /\ appPw' = [appPw EXCEPT ![d] = [n \in Name |-> 0]]
  /\ ended' = ended \cup {login[t] : t \in TokensOf(d)}
  /\ crossed' = crossed \cup Refreshing(d)
  /\ UNCHANGED <<mail, clock, req, counts, life, login, born, acts, reused>>

-----------------------------------------------------------------------------
(***************************************************************************)
(* Logging in, refreshing and logging out.                                 *)
(***************************************************************************)
\* By handle, address or DID: a deactivated account is not found.
lookupAccount(d) == Active(d)

\* The password is compared with the row that was found; if it is another
\* one, the app passwords come next.
BeginLogin(r) ==
  \E d \in Did, s \in Secret \cup 1..issued :
    /\ lookupAccount(d)
    /\ Start(r, [Idle EXCEPT !.kind = "login", !.did = d, !.typed = s, !.life = life[d],
                             !.at = IF VerifyPassword(accounts[d].password, s) THEN "mint" ELSE "app"])
    /\ UNCHANGED <<tables, clock, minted, mailed, issued, ghosts>>

VerifyAppPassword(r) ==
  /\ At(r, "login", "app")
  /\ \E n \in Name :
       /\ VerifyPassword(appPw[req[r].did][n], req[r].typed)
       /\ req' = [req EXCEPT ![r] = [@ EXCEPT !.at = "mint", !.app = n]]
  /\ UNCHANGED <<tables, clock, counts, ghosts>>

\* The row of the token is there and in time, and the account is active.
BeginRefresh(r) ==
  \E t \in Token \ expired :
    /\ sessions[t] # None
    /\ Active(sessions[t].did)
    /\ Start(r, [Idle EXCEPT !.kind = "refresh", !.at = "delete", !.token = t,
                             !.did = sessions[t].did, !.app = sessions[t].app])
    /\ crossed' = crossed \cup Meets(t)
    /\ UNCHANGED <<tables, clock, minted, mailed, issued, life, login, born, ended, acts, reused>>

\* Variant: the old token is kept.
KeepOld(r) ==
  /\ At(r, "refresh", "delete")
  /\ Go(r, "mint")
  /\ UNCHANGED <<tables, clock, counts, ghosts>>

\* The old token goes; how many rows the DELETE removed is not looked at.
DeleteOld(r) ==
  /\ At(r, "refresh", "delete")
  /\ sessions' = [sessions EXCEPT ![req[r].token] = None]
  /\ Go(r, "mint")
  /\ UNCHANGED <<accounts, appPw, mail, clock, counts, ghosts>>

\* mintSession: the row refers to the account, which must exist.
Mint(r) ==
  /\ req[r].at = "mint"
  /\ Exists(req[r].did)
  /\ minted < MaxStarts
  /\ minted' = minted + 1
  /\ sessions' = [sessions EXCEPT ![minted + 1] = [did |-> req[r].did, app |-> req[r].app]]
  /\ IF req[r].kind = "refresh"
     THEN /\ login' = [login EXCEPT ![minted + 1] = login[req[r].token]]
          /\ born' = [born EXCEPT ![minted + 1] = born[req[r].token]]
     ELSE /\ login' = [login EXCEPT ![minted + 1] = minted + 1]
          /\ born' = [born EXCEPT ![minted + 1] = req[r].life]
  /\ crossed' = IF req[r].kind = "login" /\ req[r].life # life[req[r].did]
                THEN crossed \cup {minted + 1} ELSE crossed
  /\ End(r)
  /\ UNCHANGED <<accounts, appPw, mail, clock, starts, mailed, issued, life,
                 ended, acts, reused>>

\* Variant: every session of the account is deleted.
LogoutEverywhere(t) ==
  /\ t <= minted
  /\ sessions' = [u \in Token |-> IF sessions[t] # None /\ sessions[u] # None
                                     /\ sessions[u].did = sessions[t].did
                                  THEN None ELSE sessions[u]]
  /\ ended' = IF sessions[t] # None THEN ended \cup {login[t]} ELSE ended
  /\ crossed' = crossed \cup Meets(t)
  /\ UNCHANGED <<accounts, appPw, mail, clock, req, counts, life, login, born, acts, reused>>

\* Logging out deletes by the token, whether or not it has a row.
Logout(t) ==
  /\ t <= minted
  /\ sessions' = [sessions EXCEPT ![t] = None]
  /\ ended' = IF sessions[t] # None THEN ended \cup {login[t]} ELSE ended
  /\ crossed' = crossed \cup Meets(t)
  /\ UNCHANGED <<accounts, appPw, mail, clock, req, counts, life, login, born, acts, reused>>

-----------------------------------------------------------------------------
(***************************************************************************)
(* App passwords, which the owner or the administrator makes and revokes.   *)
(***************************************************************************)
\* The INSERT fails if the name is taken or the account is gone.
InsertAppPassword(d, n) ==
  /\ Exists(d)
  /\ appPw[d][n] = 0
  /\ issued < MaxApp
  /\ issued' = issued + 1
  /\ appPw' = [appPw EXCEPT ![d][n] = issued + 1]
  /\ UNCHANGED <<accounts, sessions, mail, clock, req, starts, minted, mailed, ghosts>>

HandleCreateAppPassword(d, n) == requireAuth(d) /\ InsertAppPassword(d, n)
appPasswordCreate(d, n) == InsertAppPassword(d, n)

\* Sessions that were opened with it stay.
DeleteAppPassword(d, n) ==
  /\ appPw[d][n] # 0
  /\ appPw' = [appPw EXCEPT ![d][n] = 0]
  /\ UNCHANGED <<accounts, sessions, mail, clock, req, counts, ghosts>>

HandleRevokeAppPassword(d, n) == requireAuth(d) /\ DeleteAppPassword(d, n)
appPasswordRevoke(d, n) == DeleteAppPassword(d, n)

-----------------------------------------------------------------------------
(***************************************************************************)
(* Tokens sent by e-mail.                                                  *)
(***************************************************************************)
InsertMail(d, purpose) ==
  /\ mailed < MaxMail
  /\ mailed' = mailed + 1
  /\ mail' = [mail EXCEPT ![mailed + 1] = [did |-> d, purpose |-> purpose, used |-> FALSE]]
  /\ UNCHANGED <<accounts, sessions, appPw, clock, req, starts, minted, issued, ghosts>>

\* The confirmation goes to the address of the row, a reset to an address
\* that some row has.
RequestEmailConfirmation(d) == requireAuth(d) /\ Exists(d) /\ InsertMail(d, "confirm")
RequestPasswordReset(e) ==
  \E d \in Did : Exists(d) /\ accounts[d].email = e /\ InsertMail(d, "reset")

\* Variant: a used token is found.
FindAnyEmailToken(m, purpose) ==
  /\ mail[m] # None
  /\ mail[m].purpose = purpose
  /\ m \notin staleMail

findEmailToken(m, purpose) ==
  /\ mail[m] # None
  /\ mail[m].purpose = purpose
  /\ ~mail[m].used
  /\ m \notin staleMail

\* The token is looked up; confirming marks it first and resetting last.
BeginConfirmEmail(r) ==
  \E m \in Mail, e \in Email :
    /\ findEmailToken(m, "confirm")
    /\ Start(r, [Idle EXCEPT !.kind = "confirm", !.at = "mark", !.did = mail[m].did,
                             !.mail = m, !.email = e])
    /\ reused' = reused \cup Holds(m)
    /\ UNCHANGED <<tables, clock, minted, mailed, issued, life, login, born, crossed, ended, acts>>

BeginResetPassword(r) ==
  \E m \in Mail, s \in Secret :
    /\ findEmailToken(m, "reset")
    /\ Start(r, [Idle EXCEPT !.kind = "reset", !.at = "update", !.did = mail[m].did,
                             !.mail = m, !.typed = s])
    /\ reused' = reused \cup Holds(m)
    /\ UNCHANGED <<tables, clock, minted, mailed, issued, life, login, born, crossed, ended, acts>>

AfterMark(r) == IF req[r].kind = "confirm" THEN Go(r, "update") ELSE End(r)

markEmailTokenUsed(r) ==
  /\ req[r].at = "mark"
  /\ mail' = [mail EXCEPT ![req[r].mail].used = TRUE]
  /\ AfterMark(r)
  /\ UNCHANGED <<accounts, sessions, appPw, clock, counts, ghosts>>

\* The error of the UPDATE is ignored.
MarkFails(r) ==
  /\ req[r].at = "mark"
  /\ reused' = reused \cup {req[r].mail}
  /\ AfterMark(r)
  /\ UNCHANGED <<tables, clock, counts, life, login, born, crossed, ended, acts>>

\* UPDATE accounts: no row is no error.
UpdateAccount(r) ==
  /\ req[r].at = "update"
  /\ LET d == req[r].did
     IN accounts' =
          IF ~Exists(d) THEN accounts
          ELSE IF req[r].kind = "reset" THEN [accounts EXCEPT ![d].password = req[r].typed]
          ELSE [accounts EXCEPT ![d].email = req[r].email]
  /\ acts' = [acts EXCEPT ![req[r].mail] = @ + 1]
  /\ IF req[r].kind = "reset" THEN Go(r, "mark") ELSE End(r)
  /\ UNCHANGED <<sessions, appPw, mail, clock, counts, life, login, born, crossed, ended, reused>>

-----------------------------------------------------------------------------
\* Time passes.
Expire(t) ==
  /\ t <= minted
  /\ expired' = expired \cup {t}
  /\ UNCHANGED <<tables, staleMail, req, counts, ghosts>>
ExpireMail(m) ==
  /\ m <= mailed
  /\ staleMail' = staleMail \cup {m}
  /\ UNCHANGED <<tables, expired, req, counts, ghosts>>

\* A request is refused, or cut short by an error, its client or a crash: a
\* refresh that has deleted its token leaves the login without one, a reset
\* that has changed the password leaves its token unused.
Fail(r) ==
  /\ req[r] # Idle
  /\ ended' = IF At(r, "refresh", "mint") THEN ended \cup {login[req[r].token]} ELSE ended
  /\ reused' = IF At(r, "reset", "mark") THEN reused \cup {req[r].mail} ELSE reused
  /\ End(r)
  /\ UNCHANGED <<tables, clock, counts, life, login, born, crossed, acts>>

Next ==
  \/ \E r \in Req :
       \/ SignUp(r) \/ BeginLogin(r) \/ VerifyAppPassword(r)
       \/ BeginRefresh(r) \/ DeleteOld(r) \/ Mint(r)
       \/ BeginConfirmEmail(r) \/ BeginResetPassword(r)
       \/ markEmailTokenUsed(r) \/ MarkFails(r) \/ UpdateAccount(r) \/ Fail(r)
  \/ \E t \in Token : Logout(t) \/ Expire(t)
  \/ \E m \in Mail : ExpireMail(m)
  \/ \E d \in Did :
       \/ \E on \in BOOLEAN : SetActive(d, on)
       \/ DeleteAccount(d)
       \/ RequestEmailConfirmation(d)
       \/ \E n \in Name :
            \/ HandleCreateAppPassword(d, n) \/ appPasswordCreate(d, n)
            \/ HandleRevokeAppPassword(d, n) \/ appPasswordRevoke(d, n)
  \/ \E e \in Email : RequestPasswordReset(e)

Spec == Init /\ [][Next]_vars

-----------------------------------------------------------------------------
(***************************************************************************)
(* Properties.                                                             *)
(***************************************************************************)
Request ==
  [kind : {"none", "login", "refresh", "confirm", "reset"},
   at : {"idle", "app", "delete", "mint", "mark", "update"},
   did : Did \cup {None}, app : Name \cup {None}, token : Token \cup {0},
   mail : Mail \cup {0}, typed : Secret \cup Nat, email : Email \cup {None},
   life : Nat]

\* Types of the tables, the requests and the counters.
TypeOK ==
  /\ accounts \in [Did -> Account \cup {None}]
  /\ sessions \in [Token -> Session \cup {None}]
  /\ appPw \in [Did -> [Name -> Nat]]
  /\ mail \in [Mail -> MailRow \cup {None}]
  /\ expired \subseteq Token /\ staleMail \subseteq Mail
  /\ req \in [Req -> Request]
  /\ starts \in Nat /\ starts <= MaxStarts
  /\ minted \in Nat /\ mailed \in Nat /\ mailed <= MaxMail /\ issued \in Nat
  /\ life \in [Did -> Nat]
  /\ login \in [Token -> Token \cup {0}]
  /\ born \in [Token -> Nat]
  /\ crossed \subseteq Token \cup {0} /\ ended \subseteq Token \cup {0}
  /\ acts \in [Mail -> Nat]
  /\ reused \subseteq Mail \cup {0}

\* The tokens a login can go on with: those with a row, and the one that a
\* refresh has deleted and is about to replace.
HoldersOf(c) ==
  {t \in Token : login[t] = c /\ \/ sessions[t] # None
                                 \/ \E r \in Req : At(r, "refresh", "mint") /\ req[r].token = t}

\* A refresh token is good for one refresh (HandleRefreshSession deletes it
\* before it mints the next): however refreshes, logouts and failures follow
\* each other, a login has never two tokens, unless two requests met over one.
OneHolder ==
  \A c \in Token \ crossed : \A t, u \in HoldersOf(c) : t = u

\* A login goes on until its token is logged out, its account is deleted or a
\* refresh fails between the deletion and the new row, and not a step longer:
\* no refresh brings an ended login back unless it met its end.
LoginLasts ==
  \A c \in Token \ crossed : login[c] = c => (c \in ended <=> HoldersOf(c) = {})

\* No session and no app password without its account, and none that an
\* earlier account of the same DID left behind (a did:web can be signed up
\* again), unless a request was under way while one account followed the other.
SessionsOwn ==
  /\ \A t \in Token : sessions[t] # None =>
       /\ Exists(sessions[t].did)
       /\ login[t] \notin crossed => born[t] = life[sessions[t].did]
  /\ \A d \in Did, n \in Name : appPw[d][n] # 0 => Exists(d)

\* listEmailTokens: how the administrator's page shows a token.
TokenStatus(m) ==
  IF mail[m].used THEN "used" ELSE IF m \in staleMail THEN "expired" ELSE "pending"

\* An e-mail token changes an account once, and is shown as used when it has:
\* look-up, UPDATE and mark are separate statements, in another order for a
\* reset than for a confirmation.  Excepted are tokens that two requests held
\* at a time and those whose mark failed.
ActsOnce ==
  \A m \in Mail \ reused :
    /\ acts[m] <= 1
    /\ acts[m] = 1 /\ Holds(m) = {} => TokenStatus(m) = "used"
====
