---------------------------- MODULE BridgeProofs ----------------------------
(***************************************************************************)
(* Theorems about module Bridge: what is published, and how often, where   *)
(* the echo of a post ends, and the round trip, for any number of contents *)
(* and runs.                                                               *)
(***************************************************************************)
EXTENDS Bridge, FiniteSetTheorems, TLAPS

(***************************************************************************)
(* The inductive invariant.                                                *)
(***************************************************************************)
\* A run under way.
Sync == [at : {"idle", "list", "publish", "create", "put", "mark", "archive", "fetch", "note"},
         todo : SUBSET (Key \X Content), item : Key \X (Content \cup {None}),
         profile : BOOLEAN, clean : BOOLEAN]

\* A run copies a record exactly at the steps that do it, and puts the profile.
Placed ==
  \A r \in Run :
    /\ run[r].at \in {"create", "put", "mark", "fetch", "note"} => Item(r) \in Content
    /\ run[r].at \in {"idle", "list", "publish", "archive"} => run[r].item = NoItem
    /\ run[r].at = "put" => run[r].item[1] = Self

\* A run is about to publish its record.
Holding(r) == run[r].at \in {"create", "put", "mark"}

\* One run publishes a content; before it calls createRecord there is no copy,
\* and there is none of a content that nobody publishes and that has no mark.
Once(p) ==
  /\ copies[p] <= 1
  /\ \A r, q \in Run : Holding(r) /\ Holding(q) /\ Item(r) = p /\ Item(q) = p => r = q
  /\ \A r \in Run : run[r].at = "create" /\ Item(r) = p => copies[p] = 0
  /\ p \notin published /\ (\A r \in Run : Holding(r) => Item(r) # p) => copies[p] = 0

Publishing == \A p \in Content \ excused : Once(p)

\* A run has p, of key k, listed or in hand.
Has(r, k, p) ==
  \/ \E x \in run[r].todo : x[1] = k /\ x[2] = p
  \/ run[r].item[1] = k /\ run[r].item[2] = p

\* p is or was at key k.
Named(k, p) == local[k] = p \/ remote[k] = p \/ \E r \in Run : Has(r, k, p)

\* A key names one post, a content is a post or a profile, and what is at a
\* key was written and the key handed out.
Known ==
  /\ \A k \in Key, p, q \in Content : k # Self /\ Named(k, p) /\ Named(k, q) => p = q
  /\ \A k \in Key, p \in Content : Named(k, p) => k <= keys /\ p \in written
  /\ \A k \in Key, p \in Content : Named(Self, p) /\ Named(k, p) => k = Self

\* What a run is archiving is still on the other side, unless it was deleted.
Listed ==
  \A r \in Run : run[r].at \in {"archive", "fetch", "note"} =>
    \A k \in Key \ {Self}, p \in Content \ removed : Has(r, k, p) => remote[k] = p

\* A post is at its own key and, once it was published, at that of its copy.
SpreadOver(p, o, c) ==
  \A k \in Key \ {Self} :
    /\ local[k] = p \/ remote[k] = p => k \in {o, c}
    /\ local[k] = p /\ remote[k] # p => k = o
    /\ copies[p] = 0 /\ (local[k] = p \/ remote[k] = p) => k = o

Spread(p) == \E o, c \in Key : SpreadOver(p, o, c)

Spreading == \A p \in Content \ (excused \cup removed) : Spread(p)

IInv == TypeOK /\ Placed /\ Publishing /\ Known /\ Listed /\ Spreading

-----------------------------------------------------------------------------
(***************************************************************************)
(* What moving a run changes, and what an action need not look at.         *)
(***************************************************************************)
\* The runs other than r stay.
Others(r) == \A q \in Run \ {r} : run'[q] = run[q]

\* Moving a run on, with its record in hand.
LEMMA GoFacts ==
  ASSUME TypeOK, NEW r \in Run, NEW a \in {"create", "put", "mark", "note"}, Go(r, a)
  PROVE  /\ run' \in [Run -> Sync] /\ Others(r) /\ run'[r].at = a
         /\ run'[r].item = run[r].item /\ run'[r].todo = run[r].todo
<1> DEFINE x == [run[r] EXCEPT !.at = a]
<1>1. x \in Sync /\ x.at = a /\ x.item = run[r].item /\ x.todo = run[r].todo
  BY DEF TypeOK, Sync
<1>2. run' = [run EXCEPT ![r] = x]
  BY DEF Go
<1> HIDE DEF x
<1> QED
  BY <1>1, <1>2 DEF TypeOK, Sync, Others

\* Being done with a record.
LEMMA OverFacts ==
  ASSUME TypeOK, NEW r \in Run, NEW a \in {"publish", "archive"}, Over(r, a) \/ Error(r, a)
  PROVE  /\ run' \in [Run -> Sync] /\ Others(r) /\ run'[r].at = a
         /\ run'[r].item = NoItem /\ run'[r].todo = run[r].todo
<1>0. NoItem \in Key \X (Content \cup {None}) /\ run[r] \in Sync /\ run \in [Run -> Sync]
  BY BridgeAssumption DEF NoItem, Key, Self, TypeOK, Sync
<1>1. PICK b \in BOOLEAN : run' = [run EXCEPT ![r] = [@ EXCEPT !.at = a, !.item = NoItem, !.clean = b]]
  <2>1. CASE Over(r, a)
    <3>1. run' = [run EXCEPT ![r] = [@ EXCEPT !.at = a, !.item = NoItem]]
      BY <2>1 DEF Over
    <3>2. [run[r] EXCEPT !.at = a, !.item = NoItem]
            = [run[r] EXCEPT !.at = a, !.item = NoItem, !.clean = run[r].clean]
      BY <1>0 DEF Sync
    <3> QED
      BY <1>0, <3>1, <3>2 DEF Sync
  <2>2. CASE Error(r, a)
    BY <2>2 DEF Error
  <2> QED
    BY <2>1, <2>2
<1> DEFINE x == [run[r] EXCEPT !.at = a, !.item = NoItem, !.clean = b]
<1>2. x \in Sync /\ x.at = a /\ x.item = NoItem /\ x.todo = run[r].todo
  BY <1>0 DEF Sync
<1>3. run' = [run EXCEPT ![r] = x]
  BY <1>1
<1> HIDE DEF x
<1> QED
  BY <1>0, <1>2, <1>3 DEF Others

\* What people do leaves everything of a run but whether it is clean.
LEMMA DisturbFacts ==
  ASSUME TypeOK, Disturb
  PROVE  /\ run' \in [Run -> Sync]
         /\ \A q \in Run : run'[q].at = run[q].at /\ run'[q].item = run[q].item /\ run'[q].todo = run[q].todo
<1>1. \A q \in Run : run[q] \in Sync
  BY DEF TypeOK, Sync
<1>2. ASSUME NEW q \in Run
      PROVE  /\ [run[q] EXCEPT !.clean = FALSE] \in Sync
             /\ [run[q] EXCEPT !.clean = FALSE].at = run[q].at
             /\ [run[q] EXCEPT !.clean = FALSE].item = run[q].item
             /\ [run[q] EXCEPT !.clean = FALSE].todo = run[q].todo
  BY <1>1 DEF Sync
<1>3. run' = [q \in Run |-> [run[q] EXCEPT !.clean = FALSE]]
  BY DEF Disturb
<1> QED
  BY <1>2, <1>3

\* What is in a list of records.
LEMMA RecordsFacts ==
  ASSUME NEW side \in [Key -> Content \cup {None}]
  PROVE  /\ Records(side) \subseteq Key \X Content
         /\ \A x \in Records(side) : x[1] \in Key /\ x[2] \in Content /\ side[x[1]] = x[2]
BY DEF Records

\* The idle run has nothing.
LEMMA NothingInHand ==
  /\ NoItem[1] = Self /\ NoItem[2] = None /\ NoItem[2] \notin Content
  /\ NoItem \in Key \X (Content \cup {None})
BY BridgeAssumption DEF NoItem, Key, Self

LEMMA IdleFacts == Idle \in Sync /\ Idle.at = "idle" /\ Idle.item = NoItem /\ Idle.todo = {}
BY NothingInHand DEF Idle, Sync

\* Taking up what is here: all of it, or in a run that is not clean a part.
LEMMA ListFacts ==
  ASSUME TypeOK, NEW r \in Run, ListLocal(r) \/ ListLocalFails(r)
  PROVE  \E y \in Sync :
           /\ run' = [run EXCEPT ![r] = y]
           /\ y.at = "publish" /\ y.item = run[r].item /\ y.profile = run[r].profile
           /\ y.todo \subseteq Records(local)
           /\ y.clean => run[r].clean /\ y.todo = Records(local)
<1>0. run[r] \in Sync /\ Records(local) \subseteq Key \X Content
  BY RecordsFacts DEF TypeOK, Sync
<1>1. CASE ListLocal(r)
  <2> DEFINE y == [run[r] EXCEPT !.at = "publish", !.todo = Records(local)]
  <2>1. /\ y \in Sync /\ y.at = "publish" /\ y.item = run[r].item /\ y.profile = run[r].profile
        /\ y.todo = Records(local) /\ y.clean = run[r].clean
    BY <1>0 DEF Sync
  <2>2. run' = [run EXCEPT ![r] = y]
    BY <1>1 DEF ListLocal
  <2> HIDE DEF y
  <2> QED
    BY <2>1, <2>2
<1>2. CASE ListLocalFails(r)
  <2>1. PICK S \in SUBSET Records(local) :
          run' = [run EXCEPT ![r] = [@ EXCEPT !.at = "publish", !.todo = S, !.clean = FALSE]]
    <3>1. \A S \in {{}, {x \in Records(local) : x[1] # Self}} : S \in SUBSET Records(local)
      OBVIOUS
    <3> QED
      BY <1>2, <3>1 DEF ListLocalFails
  <2> DEFINE y == [run[r] EXCEPT !.at = "publish", !.todo = S, !.clean = FALSE]
  <2>2. /\ y \in Sync /\ y.at = "publish" /\ y.item = run[r].item /\ y.profile = run[r].profile
        /\ y.todo = S /\ ~y.clean
    BY <1>0 DEF Sync
  <2>3. run' = [run EXCEPT ![r] = y]
    BY <2>1
  <2> HIDE DEF y
  <2> QED
    BY <2>2, <2>3
<1> QED
  BY <1>1, <1>2

\* Taking up a record to publish.  If another run has its content in hand, or
\* if it has its mark, it is excused.
LEMMA ChooseFacts ==
  ASSUME TypeOK, NEW r \in Run, Choose(r) \/ ChooseAgain(r)
  PROVE  \E x \in run[r].todo, y \in Sync :
           /\ run' = [run EXCEPT ![r] = y]
           /\ y.at = "create" /\ y.item = x /\ y.todo = run[r].todo \ {x}
           /\ y.profile = run[r].profile /\ (y.clean => run[r].clean)
           /\ excused \subseteq excused' /\ excused' \subseteq Content
           /\ x[2] \notin published \/ x[2] \in excused'
           /\ \A q \in Run \ {r} : Holding(q) /\ Item(q) = x[2] => x[2] \in excused'
<1>0. run[r] \in Sync /\ excused \subseteq Content
      /\ \A x \in run[r].todo : x \in Key \X Content /\ x[2] \in Content
  BY DEF TypeOK, Sync
<1>1. CASE Choose(r)
  <2>1. PICK x \in run[r].todo :
          /\ x[2] \notin published
          /\ run' = [run EXCEPT ![r].at = "create", ![r].todo = @ \ {x}, ![r].item = x]
          /\ excused' = excused \cup Contested(r, x[2])
    BY <1>1 DEF Choose
  <2> DEFINE y == [run[r] EXCEPT !.at = "create", !.todo = run[r].todo \ {x}, !.item = x]
  <2>2. /\ y \in Sync /\ y.at = "create" /\ y.item = x /\ y.todo = run[r].todo \ {x}
        /\ y.profile = run[r].profile /\ y.clean = run[r].clean
    BY <1>0 DEF Sync
  <2>3. run' = [run EXCEPT ![r] = y]
    BY <2>1
  <2> HIDE DEF y
  <2>4. /\ excused \subseteq excused' /\ excused' \subseteq Content
        /\ \A q \in Run \ {r} : Holding(q) /\ Item(q) = x[2] => x[2] \in excused'
    BY <1>0, <2>1 DEF Contested, Holding
  <2> QED
    BY <2>1, <2>2, <2>3, <2>4
<1>2. CASE ChooseAgain(r)
  <2>1. PICK x \in run[r].todo :
          /\ run' = [run EXCEPT ![r].at = "create", ![r].todo = @ \ {x}, ![r].item = x,
                                ![r].clean = FALSE]
          /\ excused' = excused \cup {x[2]}
    BY <1>2 DEF ChooseAgain
  <2> DEFINE y == [run[r] EXCEPT !.at = "create", !.todo = run[r].todo \ {x}, !.item = x, !.clean = FALSE]
  <2>2. /\ y \in Sync /\ y.at = "create" /\ y.item = x /\ y.todo = run[r].todo \ {x}
        /\ y.profile = run[r].profile /\ ~y.clean
    BY <1>0 DEF Sync
  <2>3. run' = [run EXCEPT ![r] = y]
    BY <2>1
  <2> HIDE DEF y
  <2>4. excused \subseteq excused' /\ excused' \subseteq Content /\ x[2] \in excused'
    BY <1>0, <2>1
  <2> QED
    BY <2>2, <2>3, <2>4
<1> QED
  BY <1>1, <1>2

\* Taking up a record to archive.
LEMMA FetchFacts ==
  ASSUME TypeOK, NEW r \in Run, Fetch(r)
  PROVE  \E x \in run[r].todo, y \in Sync :
           /\ run' = [run EXCEPT ![r] = y]
           /\ y.at = "fetch" /\ y.item = x /\ y.todo = run[r].todo \ {x}
           /\ y.profile = run[r].profile /\ (y.clean => run[r].clean)
<1>0. run[r] \in Sync /\ \A x \in run[r].todo : x \in Key \X Content
  BY DEF TypeOK, Sync
<1>1. PICK x \in run[r].todo :
        run' = [run EXCEPT ![r].at = "fetch", ![r].todo = @ \ {x}, ![r].item = x,
                           ![r].clean = @ /\ x[2] \notin archived]
  BY DEF Fetch
<1>2. PICK b \in BOOLEAN : b = (run[r].clean /\ x[2] \notin archived)
  BY Zenon
<1> DEFINE y == [run[r] EXCEPT !.at = "fetch", !.todo = run[r].todo \ {x}, !.item = x, !.clean = b]
<1>3. /\ y \in Sync /\ y.at = "fetch" /\ y.item = x /\ y.todo = run[r].todo \ {x}
      /\ y.profile = run[r].profile /\ y.clean = b
  BY <1>0 DEF Sync
<1>4. run' = [run EXCEPT ![r] = y]
  BY <1>1, <1>2
<1> HIDE DEF y
<1> QED
  BY <1>2, <1>3, <1>4

\* Nothing was ever at the next key.
LEMMA NextKeyIsNew ==
  ASSUME IInv, NEW n \in Key, n = keys + 1
  PROVE  \A p \in Content : ~Named(n, p)
<1>1. ~(n <= keys)
  BY BridgeAssumption DEF IInv, TypeOK, Key
<1> QED
  BY <1>1 DEF IInv, Known

\* p arrives on the other side, at the new key n.
Arrives(n, p) ==
  /\ n = keys + 1 /\ n # Self /\ keys' = n
  /\ remote' \in [Key -> Content \cup {None}]
  /\ \A k \in Key : remote'[k] = IF k = n THEN p ELSE remote[k]
  /\ \A q \in Content : ~Named(n, q)

\* What leaves the copies, the marks and the runs that publish alone.
LEMMA OnceStays ==
  ASSUME IInv, UNCHANGED <<copies, published>>, excused \subseteq excused',
         \A q \in Run : Holding(q) \/ Holding(q)' => run'[q].at = run[q].at /\ run'[q].item = run[q].item
  PROVE  Publishing'
<1> SUFFICES ASSUME NEW p \in Content \ excused'
             PROVE  Once(p)'
  BY DEF Publishing
<1>1. Once(p)
  BY DEF IInv, Publishing
<1>2. \A q \in Run : run'[q].at = "create" => Holding(q)'
  BY DEF Holding
<1> QED
  BY <1>1, <1>2 DEF Once, Holding, Item

\* What puts no content at a new key.
LEMMA KnownStays ==
  ASSUME IInv, UNCHANGED <<keys, written>>,
         \A k \in Key, p \in Content : Named(k, p)' => Named(k, p)
  PROVE  Known'
<1>1. Self \in Key
  BY BridgeAssumption DEF Self, Key
<1> QED
  BY <1>1 DEF IInv, Known

\* What leaves the other side and the runs that archive alone.
LEMMA ListedStays ==
  ASSUME IInv, UNCHANGED <<remote, removed>>,
         \A q \in Run : run'[q].at \in {"archive", "fetch", "note"} =>
           \A k \in Key \ {Self}, p \in Content : Has(q, k, p)' => run[q].at \in {"archive", "fetch", "note"} /\ Has(q, k, p)
  PROVE  Listed'
BY DEF IInv, Listed

\* What leaves the posts alone.
LEMMA SpreadStays ==
  ASSUME IInv, excused \subseteq excused', removed \subseteq removed',
         \A k \in Key \ {Self} : local'[k] = local[k] /\ remote'[k] = remote[k],
         \A p \in Content : copies'[p] = 0 => copies[p] = 0
  PROVE  Spreading'
<1> SUFFICES ASSUME NEW p \in Content \ (excused' \cup removed')
             PROVE  Spread(p)'
  BY DEF Spreading
<1>1. Spread(p)
  BY DEF IInv, Spreading
<1>2. PICK o, c \in Key : SpreadOver(p, o, c)
  BY <1>1 DEF Spread
<1>3. SpreadOver(p, o, c)'
  BY <1>2 DEF SpreadOver
<1> QED
  BY <1>3 DEF Spread

-----------------------------------------------------------------------------
(***************************************************************************)
(* People write and delete, and the administrator sets the account.        *)
(***************************************************************************)
\* The administrator sets a field.
LEMMA SetConfigStep ==
  ASSUME IInv, NEW field \in {"handle", "password"}, SetConfig(field)
  PROVE  IInv'
<1> USE DEF IInv
<1>2. config' = config \cup {field} /\ UNCHANGED <<local, remote, keys, published, archived, run, runs, written, removed, copies, excused, overlapped>>
  BY DEF SetConfig, sides, marks, ghosts
<1>11. TypeOK'
  BY <1>2 DEF TypeOK, Sync
<1>12. Placed'
  BY <1>2 DEF Placed, Item
<1>13. Publishing'
  BY <1>2, OnceStays DEF Holding
<1>14. Known'
  BY <1>2, KnownStays DEF Named, Has
<1>15. Listed'
  BY <1>2, ListedStays DEF Has
<1>16. Spreading'
  BY <1>2, SpreadStays
<1> QED
  BY <1>11, <1>12, <1>13, <1>14, <1>15, <1>16

\* A post is written here.
LEMMA WriteLocalStep ==
  ASSUME IInv, NEW p \in Content, WriteLocal(p)
  PROVE  IInv'
<1> USE DEF IInv
<1>1. /\ run' \in [Run -> Sync]
      /\ \A q \in Run : run'[q].at = run[q].at /\ run'[q].item = run[q].item /\ run'[q].todo = run[q].todo
  BY DisturbFacts DEF WriteLocal
<1>3. \A s \in Run, j \in Key, v \in Content : Has(s, j, v)' <=> Has(s, j, v)
  BY <1>1 DEF Has
<1>2. /\ p \notin written /\ keys < MaxKey /\ written' = written \cup {p} /\ keys' = keys + 1
      /\ local' = [local EXCEPT ![keys + 1] = p]
      /\ UNCHANGED <<config, remote, published, archived, runs, removed, copies, excused, overlapped>>
  BY DEF WriteLocal, sides, marks, ghosts
<1>n. PICK n \in Key : n = keys + 1 /\ n # Self /\ keys' = n
  BY <1>2, BridgeAssumption DEF TypeOK, Key, Self
<1>4. local' \in [Key -> Content \cup {None}] /\ \A k \in Key : local'[k] = IF k = n THEN p ELSE local[k]
  BY <1>2, <1>n DEF TypeOK
<1>5. \A q \in Content : ~Named(n, q)
  BY <1>n, NextKeyIsNew
<1>6. \A k \in Key : ~Named(k, p)
  BY <1>2 DEF Known
<1>7. \A k \in Key, q \in Content : Named(k, q)' => Named(k, q) \/ (k = n /\ q = p)
  BY <1>2, <1>3, <1>4 DEF Named
<1>11. TypeOK'
  BY <1>1, <1>2, <1>4, <1>n DEF TypeOK, Sync
<1>12. Placed'
  BY <1>1, <1>2, <1>3 DEF Placed, Item
<1>13. Publishing'
  BY <1>1, <1>2, <1>3, OnceStays DEF Holding
<1>14. Known'
  <2>1. \A k \in Key : k <= keys => k <= keys'
    BY <1>2, BridgeAssumption DEF TypeOK, Key
  <2>2. n <= keys' /\ Self \in Key /\ p \in written' /\ written \subseteq written'
    BY <1>2, <1>n, BridgeAssumption DEF Key, Self
  <2> QED
    BY <1>5, <1>6, <1>7, <1>n, <2>1, <2>2 DEF Known
<1>15. Listed'
  BY <1>1, <1>2, <1>3, ListedStays
<1>16. Spreading'
  <2> SUFFICES ASSUME NEW q \in Content \ (excused \cup removed)
               PROVE  Spread(q)'
    BY <1>2 DEF Spreading
  <2>1. CASE q = p
    <3>1. \A k \in Key : local[k] # p /\ remote[k] # p
      BY <1>6 DEF Named
    <3>2. \A k \in Key \ {Self} : local'[k] = p \/ remote'[k] = p => k = n
      BY <1>2, <1>4, <3>1
    <3> QED
      BY <1>2, <1>n, <2>1, <3>2 DEF Spread, SpreadOver
  <2>2. CASE q # p
    <3>1. Spread(q)
      BY DEF Spreading
    <3>2. PICK o, c \in Key : SpreadOver(q, o, c)
      BY <3>1 DEF Spread
    <3>3. local[n] # q /\ remote[n] # q
      BY <1>5 DEF Named
    <3>4. \A k \in Key : (local'[k] = q <=> local[k] = q) /\ (remote'[k] = q <=> remote[k] = q)
      BY <1>2, <1>4, <2>2, <3>3
    <3>5. SpreadOver(q, o, c)'
      BY <1>2, <3>2, <3>4 DEF SpreadOver
    <3> QED
      BY <3>5 DEF Spread
  <2> QED
    BY <2>1, <2>2
<1> QED
  BY <1>11, <1>12, <1>13, <1>14, <1>15, <1>16

\* A post is written on the other side.
LEMMA WriteRemoteStep ==
  ASSUME IInv, NEW p \in Content, WriteRemote(p)
  PROVE  IInv'
<1> USE DEF IInv
<1>1. /\ run' \in [Run -> Sync]
      /\ \A q \in Run : run'[q].at = run[q].at /\ run'[q].item = run[q].item /\ run'[q].todo = run[q].todo
  BY DisturbFacts DEF WriteRemote
<1>3. \A s \in Run, j \in Key, v \in Content : Has(s, j, v)' <=> Has(s, j, v)
  BY <1>1 DEF Has
<1>2. /\ p \notin written /\ keys < MaxKey /\ written' = written \cup {p} /\ keys' = keys + 1
      /\ remote' = [remote EXCEPT ![keys + 1] = p]
      /\ UNCHANGED <<config, local, published, archived, runs, removed, copies, excused, overlapped>>
  BY DEF WriteRemote, sides, marks, ghosts
<1>n. PICK n \in Key : n = keys + 1 /\ n # Self /\ keys' = n
  BY <1>2, BridgeAssumption DEF TypeOK, Key, Self
<1>4. remote' \in [Key -> Content \cup {None}] /\ \A k \in Key : remote'[k] = IF k = n THEN p ELSE remote[k]
  BY <1>2, <1>n DEF TypeOK
<1>5. \A q \in Content : ~Named(n, q)
  BY <1>n, NextKeyIsNew
<1>6. \A k \in Key : ~Named(k, p)
  BY <1>2 DEF Known
<1>7. \A k \in Key, q \in Content : Named(k, q)' => Named(k, q) \/ (k = n /\ q = p)
  BY <1>2, <1>3, <1>4 DEF Named
<1>11. TypeOK'
  BY <1>1, <1>2, <1>4, <1>n DEF TypeOK, Sync
<1>12. Placed'
  BY <1>1, <1>2, <1>3 DEF Placed, Item
<1>13. Publishing'
  BY <1>1, <1>2, <1>3, OnceStays DEF Holding
<1>14. Known'
  <2>1. \A k \in Key : k <= keys => k <= keys'
    BY <1>2, BridgeAssumption DEF TypeOK, Key
  <2>2. n <= keys' /\ Self \in Key /\ p \in written' /\ written \subseteq written'
    BY <1>2, <1>n, BridgeAssumption DEF Key, Self
  <2> QED
    BY <1>5, <1>6, <1>7, <1>n, <2>1, <2>2 DEF Known
<1>15. Listed'
  <2>1. \A k \in Key, q \in Content : remote[k] = q => remote'[k] = q
    BY <1>4, <1>5 DEF Named
  <2> QED
    BY <1>1, <1>2, <1>3, <2>1 DEF Listed
<1>16. Spreading'
  <2> SUFFICES ASSUME NEW q \in Content \ (excused \cup removed)
               PROVE  Spread(q)'
    BY <1>2 DEF Spreading
  <2>1. CASE q = p
    <3>1. \A k \in Key : local[k] # p /\ remote[k] # p
      BY <1>6 DEF Named
    <3>2. \A k \in Key \ {Self} : local'[k] = p \/ remote'[k] = p => k = n
      BY <1>2, <1>4, <3>1
    <3> QED
      BY <1>2, <1>n, <2>1, <3>2 DEF Spread, SpreadOver
  <2>2. CASE q # p
    <3>1. Spread(q)
      BY DEF Spreading
    <3>2. PICK o, c \in Key : SpreadOver(q, o, c)
      BY <3>1 DEF Spread
    <3>3. local[n] # q /\ remote[n] # q
      BY <1>5 DEF Named
    <3>4. \A k \in Key : (local'[k] = q <=> local[k] = q) /\ (remote'[k] = q <=> remote[k] = q)
      BY <1>2, <1>4, <2>2, <3>3
    <3>5. SpreadOver(q, o, c)'
      BY <1>2, <3>2, <3>4 DEF SpreadOver
    <3> QED
      BY <3>5 DEF Spread
  <2> QED
    BY <2>1, <2>2
<1> QED
  BY <1>11, <1>12, <1>13, <1>14, <1>15, <1>16

\* A profile is written.
LEMMA EditProfileStep ==
  ASSUME IInv, NEW p \in Content, EditProfile(p)
  PROVE  IInv'
<1> USE DEF IInv
<1>1. /\ run' \in [Run -> Sync]
      /\ \A q \in Run : run'[q].at = run[q].at /\ run'[q].item = run[q].item /\ run'[q].todo = run[q].todo
  BY DisturbFacts DEF EditProfile
<1>3. \A s \in Run, j \in Key, v \in Content : Has(s, j, v)' <=> Has(s, j, v)
  BY <1>1 DEF Has
<1>2. /\ p \notin written /\ written' = written \cup {p}
      /\ \/ local' = [local EXCEPT ![Self] = p] /\ UNCHANGED remote
         \/ remote' = [remote EXCEPT ![Self] = p] /\ UNCHANGED local
      /\ UNCHANGED <<config, keys, published, archived, runs, removed, copies, excused, overlapped>>
  BY DEF EditProfile, marks
<1>s. Self \in Key
  BY BridgeAssumption DEF Self, Key
<1>4. /\ local' \in [Key -> Content \cup {None}] /\ remote' \in [Key -> Content \cup {None}]
      /\ \A k \in Key \ {Self} : local'[k] = local[k] /\ remote'[k] = remote[k]
      /\ local'[Self] \in {local[Self], p} /\ remote'[Self] \in {remote[Self], p}
  BY <1>2, <1>s DEF TypeOK
<1>6. \A k \in Key : ~Named(k, p)
  BY <1>2 DEF Known
<1>7. \A k \in Key, q \in Content : Named(k, q)' => Named(k, q) \/ (k = Self /\ q = p)
  BY <1>3, <1>4 DEF Named
<1>11. TypeOK'
  BY <1>1, <1>2, <1>4 DEF TypeOK, Sync
<1>12. Placed'
  BY <1>1, <1>2, <1>3 DEF Placed, Item
<1>13. Publishing'
  BY <1>1, <1>2, <1>3, OnceStays DEF Holding
<1>14. Known'
  <2>1. Self <= keys
    BY BridgeAssumption DEF TypeOK, Key, Self
  <2> QED
    BY <1>2, <1>6, <1>7, <2>1, <1>s DEF Known
<1>15. Listed'
  <2> QED
    BY <1>1, <1>2, <1>3, <1>4 DEF Listed
<1>16. Spreading'
  BY <1>2, <1>4, SpreadStays
<1> QED
  BY <1>11, <1>12, <1>13, <1>14, <1>15, <1>16

\* A post is deleted.
LEMMA DeleteStep ==
  ASSUME IInv, NEW k \in Key, Delete(k)
  PROVE  IInv'
<1> USE DEF IInv
<1>1. /\ run' \in [Run -> Sync]
      /\ \A q \in Run : run'[q].at = run[q].at /\ run'[q].item = run[q].item /\ run'[q].todo = run[q].todo
  BY DisturbFacts DEF Delete
<1>3. \A s \in Run, j \in Key, v \in Content : Has(s, j, v)' <=> Has(s, j, v)
  BY <1>1 DEF Has
<1>2. /\ k # Self
      /\ UNCHANGED <<config, keys, published, archived, runs, written, copies, excused, overlapped>>
  BY DEF Delete, marks
<1>p. PICK p \in Content :
        /\ removed' = removed \cup {p}
        /\ \/ local[k] = p /\ local' = [local EXCEPT ![k] = None] /\ UNCHANGED remote
           \/ remote[k] = p /\ remote' = [remote EXCEPT ![k] = None] /\ UNCHANGED local
  BY DEF Delete, TypeOK
<1>4. /\ local' \in [Key -> Content \cup {None}] /\ remote' \in [Key -> Content \cup {None}]
      /\ \A j \in Key, q \in Content \ {p} : (local'[j] = q <=> local[j] = q) /\ (remote'[j] = q <=> remote[j] = q)
      /\ \A j \in Key, q \in Content : (local'[j] = q => local[j] = q) /\ (remote'[j] = q => remote[j] = q)
  BY <1>p, BridgeAssumption DEF TypeOK
<1>11. TypeOK'
  BY <1>1, <1>2, <1>3, <1>4, <1>p DEF TypeOK, Sync
<1>12. Placed'
  BY <1>1, <1>2, <1>3, <1>4, <1>p DEF Placed, Item
<1>13. Publishing'
  BY <1>1, <1>2, <1>3, <1>4, <1>p, OnceStays DEF Holding
<1>14. Known'
  BY <1>1, <1>2, <1>3, <1>4, <1>p, KnownStays DEF Named
<1>15. Listed'
  <2> QED
    BY <1>1, <1>3, <1>4, <1>p DEF Listed
<1>16. Spreading'
  <2> SUFFICES ASSUME NEW q \in Content \ (excused \cup removed), q # p
               PROVE  Spread(q)'
    BY <1>2, <1>p DEF Spreading
  <2>1. Spread(q)
    BY DEF Spreading
  <2>2. \A j \in Key : (local'[j] = q <=> local[j] = q) /\ (remote'[j] = q <=> remote[j] = q)
    BY <1>4
  <2>3. PICK o, c \in Key : SpreadOver(q, o, c)
    BY <2>1 DEF Spread
  <2>4. SpreadOver(q, o, c)'
    BY <1>2, <2>2, <2>3 DEF SpreadOver
  <2> QED
    BY <2>4 DEF Spread
<1> QED
  BY <1>11, <1>12, <1>13, <1>14, <1>15, <1>16

-----------------------------------------------------------------------------
(***************************************************************************)
(* Sync: publish...                                                        *)
(***************************************************************************)
\* A run begins.
LEMMA BeginSyncStep ==
  ASSUME IInv, NEW r \in Run, BeginSync(r)
  PROVE  IInv'
<1> USE DEF IInv
<1>1. /\ run' \in [Run -> Sync] /\ run'[r].at = "list" /\ run'[r].item = NoItem /\ run'[r].todo = {}
      /\ \A q \in Run \ {r} : run'[q].at = run[q].at /\ run'[q].item = run[q].item /\ run'[q].todo = run[q].todo
  <2>1. \A q \in Run : run[q] \in Sync
    BY DEF TypeOK, Sync
  <2>2. ASSUME NEW q \in Run
        PROVE  /\ [run[q] EXCEPT !.clean = FALSE] \in Sync
               /\ [run[q] EXCEPT !.clean = FALSE].at = run[q].at
               /\ [run[q] EXCEPT !.clean = FALSE].item = run[q].item
               /\ [run[q] EXCEPT !.clean = FALSE].todo = run[q].todo
    BY <2>1 DEF Sync
  <2> DEFINE x == [Idle EXCEPT !.at = "list", !.clean = \A s \in Run : At(s, "idle")]
  <2>3. x \in Sync /\ x.at = "list" /\ x.item = NoItem /\ x.todo = {}
    BY NothingInHand DEF Sync, Idle
  <2>4. run' = [q \in Run |-> IF q = r THEN x ELSE [run[q] EXCEPT !.clean = FALSE]]
    BY DEF BeginSync
  <2> HIDE DEF x
  <2> QED
    BY <2>2, <2>3, <2>4
<1>2. /\ run[r].at = "idle" /\ runs' = runs + 1 /\ overlapped' \in BOOLEAN
      /\ UNCHANGED <<config, local, remote, keys, published, archived, written, removed, copies, excused>>
  BY DEF BeginSync, sides, marks, At, TypeOK
<1>3. \A q \in Run, k \in Key, p \in Content : Has(q, k, p)' => q # r /\ Has(q, k, p)
  BY <1>1, NothingInHand DEF Has
<1>11. TypeOK'
  BY <1>1, <1>2, <1>3, NothingInHand DEF TypeOK, Sync
<1>12. Placed'
  BY <1>1, <1>2, <1>3, NothingInHand DEF Placed, Item
<1>13. Publishing'
  BY <1>1, <1>2, <1>3, NothingInHand, OnceStays DEF Holding
<1>14. Known'
  <2>1. \A k \in Key, p \in Content : Named(k, p)' => Named(k, p)
    BY <1>2, <1>3 DEF Named
  <2> QED
    BY <1>2, <2>1, KnownStays
<1>15. Listed'
  BY <1>1, <1>2, <1>3, NothingInHand, ListedStays
<1>16. Spreading'
  BY <1>1, <1>2, <1>3, NothingInHand, SpreadStays
<1> QED
  BY <1>11, <1>12, <1>13, <1>14, <1>15, <1>16

\* A run lists the local records.
LEMMA ListLocalStep ==
  ASSUME IInv, NEW r \in Run, ListLocal(r) \/ ListLocalFails(r)
  PROVE  IInv'
<1> USE DEF IInv
<1>0. Records(local) \subseteq Key \X Content /\ \A x \in Records(local) : x[2] \in Content /\ local[x[1]] = x[2]
  BY RecordsFacts DEF TypeOK
<1>y. PICK y \in Sync : /\ run' = [run EXCEPT ![r] = y]
                        /\ y.at = "publish" /\ y.item = run[r].item /\ y.todo \subseteq Records(local)
  BY ListFacts
<1>1. /\ run' \in [Run -> Sync] /\ Others(r) /\ run'[r].at = "publish" /\ run'[r].item = run[r].item
      /\ run'[r].todo \subseteq Records(local)
  BY <1>y DEF TypeOK, Sync, Others
<1>2. run[r].at = "list" /\ UNCHANGED <<config, local, remote, keys, published, archived, runs, written, removed, copies, excused, overlapped>>
  BY DEF ListLocal, ListLocalFails, sides, marks, ghosts, At
<1>3. \A q \in Run, k \in Key, p \in Content : Has(q, k, p)' => local[k] = p \/ (q # r /\ Has(q, k, p))
  <2>1. run[r].item = NoItem
    BY <1>2 DEF Placed
  <2> QED
    BY <1>0, <1>1, <2>1, NothingInHand DEF Has, Others
<1>11. TypeOK'
  BY <1>1, <1>2, <1>3, NothingInHand DEF TypeOK, Sync
<1>12. Placed'
  BY <1>1, <1>2, <1>3, NothingInHand DEF Placed, Item, Others
<1>13. Publishing'
  BY <1>1, <1>2, <1>3, NothingInHand, OnceStays DEF Holding, Others
<1>14. Known'
  <2>1. \A k \in Key, p \in Content : Named(k, p)' => Named(k, p)
    BY <1>2, <1>3 DEF Named
  <2> QED
    BY <1>2, <2>1, KnownStays
<1>15. Listed'
  BY <1>1, <1>2, <1>3, NothingInHand, ListedStays DEF Others, Has
<1>16. Spreading'
  BY <1>1, <1>2, <1>3, NothingInHand, SpreadStays
<1> QED
  BY <1>11, <1>12, <1>13, <1>14, <1>15, <1>16

\* A run takes up a record that has no mark, or whose mark it did not find.
LEMMA ChooseStep ==
  ASSUME IInv, NEW r \in Run, Choose(r) \/ ChooseAgain(r)
  PROVE  IInv'
<1> USE DEF IInv
<1>p. PICK x \in run[r].todo, y \in Sync :
        /\ run' = [run EXCEPT ![r] = y]
        /\ y.at = "create" /\ y.item = x /\ y.todo = run[r].todo \ {x}
        /\ excused \subseteq excused' /\ excused' \subseteq Content
        /\ x[2] \notin published \/ x[2] \in excused'
        /\ \A q \in Run \ {r} : Holding(q) /\ Item(q) = x[2] => x[2] \in excused'
  BY ChooseFacts
<1>0. run[r] \in Sync /\ x \in Key \X Content /\ x[2] \in Content
  BY DEF TypeOK, Sync
<1>1. /\ run' \in [Run -> Sync] /\ Others(r) /\ run'[r].at = "create" /\ run'[r].item = x
      /\ run'[r].todo = run[r].todo \ {x}
  BY <1>p DEF TypeOK, Sync, Others
<1>2. run[r].at = "publish" /\ UNCHANGED <<config, local, remote, keys, published, archived, runs, written, removed, copies, overlapped>>
  BY DEF Choose, ChooseAgain, sides, marks, At
<1>3. \A q \in Run, k \in Key, p \in Content : Has(q, k, p)' => Has(q, k, p)
  BY <1>1, NothingInHand DEF Has, Others
<1>4. /\ excused \subseteq excused' /\ excused' \subseteq Content
      /\ \A q \in Run \ {r} : Holding(q) /\ Item(q) = x[2] => x[2] \in excused'
  BY <1>p
<1>11. TypeOK'
  BY <1>0, <1>4, <1>1, <1>2, <1>3, NothingInHand DEF TypeOK, Sync
<1>12. Placed'
  BY <1>0, <1>4, <1>1, <1>2, <1>3, NothingInHand DEF Placed, Item, Others
<1>13. Publishing'
  <2> SUFFICES ASSUME NEW p \in Content \ excused'
               PROVE  Once(p)'
    BY DEF Publishing
  <2>1. Once(p)
    BY <1>4 DEF Publishing
  <2>2. \A q \in Run \ {r} : /\ Holding(q)' <=> Holding(q)
                           /\ Item(q)' = Item(q) /\ run'[q].at = run[q].at
    BY <1>1 DEF Holding, Others, Item
  <2>3. Holding(r)' /\ ~Holding(r) /\ Item(r)' = x[2]
    BY <1>1, <1>2 DEF Holding, Item
  <2>4. CASE p = x[2]
    <3>1. \A q \in Run : Holding(q) => Item(q) # p
      BY <1>4, <2>3, <2>4
    <3>2. copies[p] = 0
      BY <1>p, <2>1, <2>4, <3>1 DEF Once
    <3>3. \A q \in Run : Holding(q)' /\ Item(q)' = p => q = r
      BY <2>2, <3>1
    <3> QED
      BY <1>2, <2>3, <2>4, <3>2, <3>3 DEF Once
  <2>5. CASE p # x[2]
    <3>1. \A q \in Run : Holding(q)' /\ Item(q)' = p <=> Holding(q) /\ Item(q) = p
      BY <2>2, <2>3, <2>5
    <3>2. \A q \in Run : (run[q].at = "create" /\ Item(q) = p)' => run[q].at = "create" /\ Item(q) = p
      BY <2>2, <2>3, <2>5
    <3> QED
      BY <1>2, <2>1, <3>1, <3>2 DEF Once
  <2> QED
    BY <2>4, <2>5
<1>14. Known'
  <2>1. \A k \in Key, p \in Content : Named(k, p)' => Named(k, p)
    BY <1>2, <1>3 DEF Named
  <2> QED
    BY <1>2, <2>1, KnownStays
<1>15. Listed'
  BY <1>0, <1>4, <1>1, <1>2, <1>3, NothingInHand, ListedStays DEF Others
<1>16. Spreading'
  BY <1>0, <1>4, <1>1, <1>2, <1>3, NothingInHand, SpreadStays
<1> QED
  BY <1>11, <1>12, <1>13, <1>14, <1>15, <1>16

\* Nothing is made on the other side.
LEMMA CreateFailsStep ==
  ASSUME IInv, NEW r \in Run, CreateFails(r)
  PROVE  IInv'
<1> USE DEF IInv
<1>1. /\ run' \in [Run -> Sync] /\ Others(r) /\ run'[r].todo = run[r].todo
      /\ \/ run'[r].at = "publish" /\ run'[r].item = NoItem
         \/ run'[r].at = "put" /\ run'[r].item = run[r].item /\ run[r].item[1] = Self
  BY GoFacts, OverFacts DEF CreateFails
<1>2. run[r].at = "create" /\ UNCHANGED <<config, local, remote, keys, published, archived, runs, written, removed, copies, excused, overlapped>>
  BY DEF CreateFails, sides, marks, ghosts, At
<1>4. excused \subseteq excused'
  BY <1>2
<1>3. \A q \in Run, k \in Key, p \in Content : Has(q, k, p)' => Has(q, k, p)
  BY <1>1, NothingInHand DEF Has, Others
<1>11. TypeOK'
  BY <1>1, <1>2, <1>3, NothingInHand, <1>4 DEF TypeOK, Sync
<1>12. Placed'
  BY <1>1, <1>2, <1>3, NothingInHand, <1>4 DEF Placed, Item, Others
<1>13. Publishing'
  <2> SUFFICES ASSUME NEW p \in Content \ excused'
               PROVE  Once(p)'
    BY DEF Publishing
  <2>1. Once(p)
    BY <1>4 DEF Publishing
  <2>2. \A q \in Run \ {r} : /\ Holding(q)' <=> Holding(q)
                           /\ Item(q)' = Item(q) /\ run'[q].at = run[q].at
    BY <1>1 DEF Holding, Others, Item
  <2>3. \A q \in Run : Holding(q)' /\ Item(q)' = p => Holding(q) /\ Item(q) = p
    BY <1>1, <1>2, <2>2, NothingInHand DEF Holding, Item
  <2>4. CASE p = Item(r)
    <3>1. Holding(r) /\ copies[p] = 0
      BY <1>2, <2>1, <2>4 DEF Once, Holding
    <3> QED
      BY <1>2, <2>1, <2>3, <3>1 DEF Once
  <2>5. CASE p # Item(r)
    <3>1. \A q \in Run : Holding(q) /\ Item(q) = p => Holding(q)' /\ Item(q)' = p
      BY <2>2, <2>5
    <3>2. \A q \in Run : (run[q].at = "create" /\ Item(q) = p)' => run[q].at = "create" /\ Item(q) = p
      BY <2>2, <2>3, <2>5 DEF Holding
    <3>3. copies'[p] = copies[p] /\ (p \in published => p \in published')
      BY <1>2, <2>5 DEF TypeOK
    <3> QED
      BY <2>1, <2>3, <3>1, <3>2, <3>3 DEF Once
  <2> QED
    BY <2>4, <2>5
<1>14. Known'
  BY <1>1, <1>2, <1>3, NothingInHand, <1>4, KnownStays DEF Named
<1>15. Listed'
  BY <1>1, <1>2, <1>3, NothingInHand, <1>4, ListedStays DEF Others
<1>16. Spreading'
  BY <1>1, <1>2, <1>3, NothingInHand, <1>4, SpreadStays
<1> QED
  BY <1>11, <1>12, <1>13, <1>14, <1>15, <1>16

\* A record is made on the other side.
LEMMA CreateStep ==
  ASSUME IInv, NEW r \in Run, Create(r)
  PROVE  IInv'
<1> USE DEF IInv
<1>1. /\ run' \in [Run -> Sync] /\ Others(r) /\ run'[r].todo = run[r].todo
      /\ \/ run'[r].at \in {"put", "mark"} /\ run'[r].item = run[r].item
         \/ run'[r].at = "publish" /\ run'[r].item = NoItem
  BY GoFacts, OverFacts DEF Create
<1>2. /\ run[r].at = "create" /\ copies' = [copies EXCEPT ![Item(r)] = @ + 1]
      /\ UNCHANGED <<config, local, published, archived, runs, written, removed, overlapped>>
  BY DEF Create, marks, At
<1>i. Item(r) \in Content /\ run[r].item[1] \in Key /\ Named(run[r].item[1], Item(r))
  BY <1>2 DEF Placed, TypeOK, Named, Has, Item
<1>4. /\ excused \subseteq excused' /\ excused' \subseteq Content
      /\ run'[r].at = "put" => run[r].item[1] = Self
      /\ run'[r].at = "publish" => Item(r) \in excused'
  <2>1. CASE run[r].item[1] = Self
    BY <1>i, <2>1, GoFacts DEF Create, TypeOK
  <2>2. CASE run[r].item[1] # Self
    BY <1>i, <2>2, GoFacts, OverFacts DEF Create, TypeOK
  <2> QED
    BY <2>1, <2>2
<1>c. copies' \in [Content -> Nat] /\ copies'[Item(r)] = copies[Item(r)] + 1
  BY <1>2, <1>i DEF TypeOK
<1>3. \A q \in Run, k \in Key, p \in Content : Has(q, k, p)' => Has(q, k, p)
  BY <1>1, NothingInHand DEF Has, Others
<1>s. run[r].item[1] = Self => UNCHANGED <<remote, keys>>
  BY DEF Create
<1>o. ASSUME run[r].item[1] # Self
      PROVE  \E n \in Key : Arrives(n, Item(r))
  <2>1. keys < MaxKey /\ keys' = keys + 1 /\ remote' = [remote EXCEPT ![keys + 1] = Item(r)]
    BY <1>o DEF Create
  <2>2. PICK n \in Key : n = keys + 1 /\ n # Self
    BY <2>1, BridgeAssumption DEF TypeOK, Key, Self
  <2>3. /\ remote' \in [Key -> Content \cup {None}]
        /\ \A k \in Key : remote'[k] = IF k = n THEN Item(r) ELSE remote[k]
    BY <1>i, <2>1, <2>2 DEF TypeOK
  <2>4. \A q \in Content : ~Named(n, q)
    BY <2>2, NextKeyIsNew
  <2> QED
    BY <2>1, <2>2, <2>3, <2>4 DEF Arrives
<1>11. TypeOK'
  <2>1. remote' \in [Key -> Content \cup {None}] /\ keys' \in Key
    BY <1>o, <1>s DEF TypeOK, Arrives
  <2> QED
    BY <1>1, <1>2, <1>4, <1>c, <2>1 DEF TypeOK, Sync
<1>12. Placed'
  BY <1>1, <1>2, <1>3, NothingInHand, <1>4, <1>i, <1>c DEF Placed, Item, Others
<1>13. Publishing'
  <2> SUFFICES ASSUME NEW p \in Content \ excused'
               PROVE  Once(p)'
    BY DEF Publishing
  <2>1. Once(p)
    BY <1>4 DEF Publishing
  <2>2. \A q \in Run \ {r} : /\ Holding(q)' <=> Holding(q)
                           /\ Item(q)' = Item(q) /\ run'[q].at = run[q].at
    BY <1>1 DEF Holding, Others, Item
  <2>3. \A q \in Run : Holding(q)' /\ Item(q)' = p => Holding(q) /\ Item(q) = p
    BY <1>1, <1>2, <2>2, NothingInHand DEF Holding, Item
  <2>4. CASE p = Item(r)
    <3>1. Holding(r) /\ copies[p] = 0 /\ copies'[p] = 1
      BY <1>2, <1>c, <2>1, <2>4 DEF Once, Holding
    <3>2. Holding(r)' /\ Item(r)' = p /\ run'[r].at # "create"
      BY <1>1, <1>4, <2>4 DEF Holding, Item
    <3>3. \A q \in Run : Holding(q) /\ Item(q) = p => q = r
      BY <2>1, <2>4, <3>1 DEF Once
    <3> QED
      BY <2>3, <3>1, <3>2, <3>3 DEF Once, Holding
  <2>5. CASE p # Item(r)
    <3>1. \A q \in Run : Holding(q) /\ Item(q) = p => Holding(q)' /\ Item(q)' = p
      BY <2>2, <2>5
    <3>2. \A q \in Run : (run[q].at = "create" /\ Item(q) = p)' => run[q].at = "create" /\ Item(q) = p
      BY <2>2, <2>3, <2>5 DEF Holding
    <3>3. copies'[p] = copies[p] /\ (p \in published => p \in published')
      BY <1>2, <2>5 DEF TypeOK
    <3> QED
      BY <2>1, <2>3, <3>1, <3>2, <3>3 DEF Once
  <2> QED
    BY <2>4, <2>5
<1>14. Known'
  <2>1. CASE run[r].item[1] = Self
    <3>1. \A k \in Key, p \in Content : Named(k, p)' => Named(k, p)
      BY <1>2, <1>3, <1>s, <2>1 DEF Named
    <3> QED
      BY <1>2, <1>s, <2>1, <3>1, KnownStays
  <2>2. CASE run[r].item[1] # Self
    <3>1. PICK n \in Key : Arrives(n, Item(r))
      BY <1>o, <2>2
    <3>2. \A k \in Key, p \in Content : Named(k, p)' => Named(k, p) \/ (k = n /\ p = Item(r))
      BY <1>2, <1>3, <3>1 DEF Named, Arrives
    <3>3. ~Named(Self, Item(r)) /\ Item(r) \in written
      BY <1>i, <2>2 DEF Known
    <3>4. n <= keys' /\ \A k \in Key : k <= keys => k <= keys'
      BY <3>1, BridgeAssumption DEF TypeOK, Key, Arrives
    <3>5. Self \in Key
      BY BridgeAssumption DEF Self, Key
    <3> QED
      BY <1>2, <3>1, <3>2, <3>3, <3>4, <3>5 DEF Known, Arrives
  <2> QED
    BY <2>1, <2>2
<1>15. Listed'
  <2>1. \A k \in Key, p \in Content : remote[k] = p => remote'[k] = p
    BY <1>o, <1>s DEF Named, Arrives
  <2>2. run'[r].at \notin {"archive", "fetch", "note"}
    BY <1>1
  <2> QED
    BY <1>1, <1>2, <1>3, <2>1, <2>2 DEF Listed, Others
<1>16. Spreading'
  <2>1. \A p \in Content : copies'[p] = 0 => copies[p] = 0
    BY <1>2, <1>c, <1>i DEF TypeOK
  <2>2. CASE run[r].item[1] = Self
    BY <1>2, <1>4, <1>s, <2>1, <2>2, SpreadStays
  <2>3. CASE run[r].item[1] # Self
    <3>1. PICK n \in Key : Arrives(n, Item(r))
      BY <1>o, <2>3
    <3> SUFFICES ASSUME NEW p \in Content \ (excused' \cup removed)
                 PROVE  Spread(p)'
      BY <1>2 DEF Spreading
    <3>2. Spread(p) /\ Once(p)
      BY <1>4 DEF Spreading, Publishing
    <3>3. PICK o, c \in Key : SpreadOver(p, o, c)
      BY <3>2 DEF Spread
    <3>4. CASE p = Item(r)
      <4>1. copies[p] = 0 /\ copies'[p] # 0
        BY <1>2, <1>c, <3>2, <3>4 DEF Once
      <4>2. SpreadOver(p, o, n)'
        BY <1>2, <3>1, <3>3, <3>4, <4>1 DEF SpreadOver, Arrives
      <4> QED
        BY <4>2 DEF Spread
    <3>5. CASE p # Item(r)
      <4>1. remote[n] # p /\ local[n] # p
        BY <3>1 DEF Named, Arrives
      <4>2. \A k \in Key : remote'[k] = p <=> remote[k] = p
        BY <3>1, <3>5, <4>1 DEF Arrives
      <4>3. SpreadOver(p, o, c)'
        BY <1>2, <2>1, <3>3, <4>2 DEF SpreadOver
      <4> QED
        BY <4>3 DEF Spread
    <3> QED
      BY <3>4, <3>5
  <2> QED
    BY <2>2, <2>3
<1> QED
  BY <1>11, <1>12, <1>13, <1>14, <1>15, <1>16

\* The profile is put at its key.
LEMMA PutSelfStep ==
  ASSUME IInv, NEW r \in Run, PutSelf(r)
  PROVE  IInv'
<1> USE DEF IInv
<1>1. /\ run' \in [Run -> Sync] /\ Others(r) /\ run'[r].todo = run[r].todo
      /\ \/ run'[r].at = "mark" /\ run'[r].item = run[r].item
         \/ run'[r].at = "publish" /\ run'[r].item = NoItem
  BY GoFacts, OverFacts DEF PutSelf
<1>2. /\ run[r].at = "put" /\ remote' = [remote EXCEPT ![Self] = Item(r)]
      /\ UNCHANGED <<config, local, keys, published, archived, runs, written, removed, copies, overlapped>>
  BY DEF PutSelf, marks, At
<1>i. Item(r) \in Content /\ run[r].item[1] = Self /\ Self \in Key
  BY <1>2, BridgeAssumption DEF Placed, Self, Key
<1>4. /\ excused \subseteq excused' /\ excused' \subseteq Content
      /\ run'[r].at = "publish" => Item(r) \in excused'
  BY <1>i, GoFacts, OverFacts DEF PutSelf, TypeOK
<1>3. \A q \in Run, k \in Key, p \in Content : Has(q, k, p)' => Has(q, k, p)
  BY <1>1, NothingInHand DEF Has, Others
<1>5. /\ remote' \in [Key -> Content \cup {None}] /\ remote'[Self] = Item(r)
      /\ \A k \in Key \ {Self} : remote'[k] = remote[k]
  BY <1>2, <1>i DEF TypeOK
<1>11. TypeOK'
  BY <1>1, <1>2, <1>3, NothingInHand, <1>4, <1>5, <1>i DEF TypeOK, Sync
<1>12. Placed'
  BY <1>1, <1>2, <1>3, NothingInHand, <1>4, <1>5, <1>i DEF Placed, Item, Others
<1>13. Publishing'
  <2> SUFFICES ASSUME NEW p \in Content \ excused'
               PROVE  Once(p)'
    BY DEF Publishing
  <2>1. Once(p)
    BY <1>4 DEF Publishing
  <2>2. \A q \in Run \ {r} : /\ Holding(q)' <=> Holding(q)
                           /\ Item(q)' = Item(q) /\ run'[q].at = run[q].at
    BY <1>1 DEF Holding, Others, Item
  <2>3. \A q \in Run : Holding(q)' /\ Item(q)' = p => Holding(q) /\ Item(q) = p
    BY <1>1, <1>2, <2>2, NothingInHand DEF Holding, Item
  <2>4. CASE p = Item(r)
    <3>1. Holding(r)
      BY <1>2 DEF Holding
    <3> QED
      BY <1>1, <1>2, <1>4, <2>1, <2>2, <2>3, <2>4, <3>1 DEF Once, Holding, Item
  <2>5. CASE p # Item(r)
    <3>1. \A q \in Run : Holding(q) /\ Item(q) = p => Holding(q)' /\ Item(q)' = p
      BY <2>2, <2>5
    <3>2. \A q \in Run : (run[q].at = "create" /\ Item(q) = p)' => run[q].at = "create" /\ Item(q) = p
      BY <2>2, <2>3, <2>5 DEF Holding
    <3>3. copies'[p] = copies[p] /\ (p \in published => p \in published')
      BY <1>2, <2>5 DEF TypeOK
    <3> QED
      BY <2>1, <2>3, <3>1, <3>2, <3>3 DEF Once
  <2> QED
    BY <2>4, <2>5
<1>14. Known'
  <2>1. Named(Self, Item(r))
    BY <1>i DEF Named, Has, Item
  <2>2. \A k \in Key, p \in Content : Named(k, p)' => Named(k, p) \/ (k = Self /\ p = Item(r))
    BY <1>2, <1>3, <1>5 DEF Named
  <2> QED
    BY <1>2, <2>1, <2>2, KnownStays
<1>15. Listed'
  <2> QED
    BY <1>1, <1>2, <1>3, <1>5 DEF Listed, Others
<1>16. Spreading'
  BY <1>1, <1>2, <1>3, NothingInHand, <1>4, <1>5, <1>i, SpreadStays
<1> QED
  BY <1>11, <1>12, <1>13, <1>14, <1>15, <1>16

\* The profile is not put.
LEMMA PutSelfFailsStep ==
  ASSUME IInv, NEW r \in Run, PutSelfFails(r)
  PROVE  IInv'
<1> USE DEF IInv
<1>1. /\ run' \in [Run -> Sync] /\ Others(r) /\ run'[r].todo = run[r].todo
      /\ run'[r].at = "publish" /\ run'[r].item = NoItem
  BY GoFacts, OverFacts DEF PutSelfFails
<1>2. /\ run[r].at = "put" /\ excused' = excused \cup {Item(r)}
      /\ UNCHANGED <<config, local, remote, keys, published, archived, runs, written, removed, copies, overlapped>>
  BY DEF PutSelfFails, sides, marks, At
<1>4. /\ excused \subseteq excused' /\ excused' \subseteq Content
      /\ Item(r) \in excused'
  BY <1>2 DEF TypeOK, Placed
<1>3. \A q \in Run, k \in Key, p \in Content : Has(q, k, p)' => Has(q, k, p)
  BY <1>1, NothingInHand DEF Has, Others
<1>11. TypeOK'
  BY <1>1, <1>2, <1>3, NothingInHand, <1>4 DEF TypeOK, Sync
<1>12. Placed'
  BY <1>1, <1>2, <1>3, NothingInHand, <1>4 DEF Placed, Item, Others
<1>13. Publishing'
  <2> SUFFICES ASSUME NEW p \in Content \ excused'
               PROVE  Once(p)'
    BY DEF Publishing
  <2>1. Once(p)
    BY <1>4 DEF Publishing
  <2>2. \A q \in Run \ {r} : /\ Holding(q)' <=> Holding(q)
                           /\ Item(q)' = Item(q) /\ run'[q].at = run[q].at
    BY <1>1 DEF Holding, Others, Item
  <2>3. \A q \in Run : Holding(q)' /\ Item(q)' = p => Holding(q) /\ Item(q) = p
    BY <1>1, <1>2, <2>2, NothingInHand DEF Holding, Item
  <2>4. CASE p = Item(r)
    BY <1>4, <2>4
  <2>5. CASE p # Item(r)
    <3>1. \A q \in Run : Holding(q) /\ Item(q) = p => Holding(q)' /\ Item(q)' = p
      BY <2>2, <2>5
    <3>2. \A q \in Run : (run[q].at = "create" /\ Item(q) = p)' => run[q].at = "create" /\ Item(q) = p
      BY <2>2, <2>3, <2>5 DEF Holding
    <3>3. copies'[p] = copies[p] /\ (p \in published => p \in published')
      BY <1>2, <2>5 DEF TypeOK
    <3> QED
      BY <2>1, <2>3, <3>1, <3>2, <3>3 DEF Once
  <2> QED
    BY <2>4, <2>5
<1>14. Known'
  <2>1. \A k \in Key, p \in Content : Named(k, p)' => Named(k, p)
    BY <1>2, <1>3 DEF Named
  <2> QED
    BY <1>2, <2>1, KnownStays
<1>15. Listed'
  BY <1>1, <1>2, <1>3, NothingInHand, <1>4, ListedStays DEF Others
<1>16. Spreading'
  BY <1>1, <1>2, <1>3, NothingInHand, <1>4, SpreadStays
<1> QED
  BY <1>11, <1>12, <1>13, <1>14, <1>15, <1>16

\* A publication is marked, or not.
LEMMA MarkPublishedStep ==
  ASSUME IInv, NEW r \in Run, MarkPublished(r)
  PROVE  IInv'
<1> USE DEF IInv
<1>1. /\ run' \in [Run -> Sync] /\ Others(r) /\ run'[r].todo = run[r].todo
      /\ run'[r].at = "publish" /\ run'[r].item = NoItem
  BY GoFacts, OverFacts DEF MarkPublished
<1>2. /\ run[r].at = "mark"
      /\ UNCHANGED <<config, local, remote, keys, archived, runs, written, removed, copies, overlapped>>
  BY DEF MarkPublished, sides, At
<1>i. Item(r) \in Content
  BY <1>2 DEF Placed
<1>4. /\ excused \subseteq excused' /\ excused' \subseteq Content
      /\ published \subseteq published' /\ published' \subseteq Content
      /\ Item(r) \in excused' \cup published'
  BY <1>i DEF MarkPublished, TypeOK
<1>3. \A q \in Run, k \in Key, p \in Content : Has(q, k, p)' => Has(q, k, p)
  BY <1>1, NothingInHand DEF Has, Others
<1>11. TypeOK'
  BY <1>1, <1>2, <1>3, NothingInHand, <1>4 DEF TypeOK, Sync
<1>12. Placed'
  BY <1>1, <1>2, <1>3, NothingInHand, <1>4 DEF Placed, Item, Others
<1>13. Publishing'
  <2> SUFFICES ASSUME NEW p \in Content \ excused'
               PROVE  Once(p)'
    BY DEF Publishing
  <2>1. Once(p)
    BY <1>4 DEF Publishing
  <2>2. \A q \in Run \ {r} : /\ Holding(q)' <=> Holding(q)
                           /\ Item(q)' = Item(q) /\ run'[q].at = run[q].at
    BY <1>1 DEF Holding, Others, Item
  <2>3. \A q \in Run : Holding(q)' /\ Item(q)' = p => Holding(q) /\ Item(q) = p
    BY <1>1, <1>2, <2>2, NothingInHand DEF Holding, Item
  <2>4. CASE p = Item(r)
    <3>1. Holding(r)
      BY <1>2 DEF Holding
    <3>2. p \in published'
      BY <1>4, <2>4
    <3> QED
      BY <1>1, <1>2, <2>1, <2>2, <2>3, <2>4, <3>1, <3>2 DEF Once, Holding, Item
  <2>5. CASE p # Item(r)
    <3>1. \A q \in Run : Holding(q) /\ Item(q) = p => Holding(q)' /\ Item(q)' = p
      BY <2>2, <2>5
    <3>2. \A q \in Run : (run[q].at = "create" /\ Item(q) = p)' => run[q].at = "create" /\ Item(q) = p
      BY <2>2, <2>3, <2>5 DEF Holding
    <3>3. copies'[p] = copies[p] /\ (p \in published => p \in published')
      BY <1>2, <1>4
    <3> QED
      BY <2>1, <2>3, <3>1, <3>2, <3>3 DEF Once
  <2> QED
    BY <2>4, <2>5
<1>14. Known'
  <2>1. \A k \in Key, p \in Content : Named(k, p)' => Named(k, p)
    BY <1>2, <1>3 DEF Named
  <2> QED
    BY <1>2, <2>1, KnownStays
<1>15. Listed'
  BY <1>1, <1>2, <1>3, NothingInHand, <1>4, ListedStays DEF Others
<1>16. Spreading'
  BY <1>1, <1>2, <1>3, NothingInHand, <1>4, SpreadStays
<1> QED
  BY <1>11, <1>12, <1>13, <1>14, <1>15, <1>16

-----------------------------------------------------------------------------
(***************************************************************************)
(* ... then archive.                                                       *)
(***************************************************************************)
\* A run lists the other side's posts.
LEMMA ListRemoteStep ==
  ASSUME IInv, NEW r \in Run, ListRemote(r)
  PROVE  IInv'
<1> USE DEF IInv
<1>0. Records(remote) \subseteq Key \X Content /\ \A x \in Records(remote) : x[2] \in Content /\ remote[x[1]] = x[2]
  BY RecordsFacts DEF TypeOK
<1>1. /\ run' \in [Run -> Sync] /\ Others(r) /\ run'[r].at = "archive" /\ run'[r].item = run[r].item
      /\ run'[r].todo \subseteq Records(remote)
  <2>1. ASSUME NEW T \in SUBSET Records(remote), NEW b \in BOOLEAN,
               run' = [run EXCEPT ![r] = [@ EXCEPT !.at = "archive", !.clean = b, !.todo = T]]
        PROVE  /\ run' \in [Run -> Sync] /\ Others(r) /\ run'[r].at = "archive"
               /\ run'[r].item = run[r].item /\ run'[r].todo \subseteq Records(remote)
    <3> DEFINE x == [run[r] EXCEPT !.at = "archive", !.clean = b, !.todo = T]
    <3>0. run[r] \in Sync /\ T \subseteq Key \X Content
      BY <1>0 DEF TypeOK, Sync
    <3>1. x \in Sync /\ x.at = "archive" /\ x.item = run[r].item /\ x.todo = T
      BY <3>0 DEF Sync
    <3>2. run' = [run EXCEPT ![r] = x]
      BY <2>1
    <3> HIDE DEF x
    <3> QED
      BY <3>1, <3>2 DEF TypeOK, Sync, Others
  <2>2. CASE run' = [run EXCEPT ![r] = [@ EXCEPT !.at = "archive",
                                          !.todo = {x \in Records(remote) : x[1] # Self}]]
    <3> DEFINE T == {x \in Records(remote) : x[1] # Self}
    <3>1. run[r] \in Sync /\ T \in SUBSET Records(remote)
      BY DEF TypeOK, Sync
    <3>2. run' = [run EXCEPT ![r] = [@ EXCEPT !.at = "archive", !.todo = T]]
      BY <2>2
    <3> HIDE DEF T
    <3>3. [run[r] EXCEPT !.at = "archive", !.todo = T]
            = [run[r] EXCEPT !.at = "archive", !.clean = run[r].clean, !.todo = T]
      BY <3>1 DEF Sync
    <3> QED
      BY <2>1, <3>1, <3>2, <3>3 DEF Sync
  <2>3. ASSUME NEW j \in Key,
               run' = [run EXCEPT ![r] = [@ EXCEPT !.at = "archive", !.clean = FALSE,
                                          !.todo = {x \in Records(remote) : x[1] > j}]]
        PROVE  /\ run' \in [Run -> Sync] /\ Others(r) /\ run'[r].at = "archive"
               /\ run'[r].item = run[r].item /\ run'[r].todo \subseteq Records(remote)
    BY <2>1, <2>3
  <2> QED
    BY <2>2, <2>3 DEF ListRemote
<1>2. run[r].at = "publish" /\ UNCHANGED <<config, local, remote, keys, published, archived, runs, written, removed, copies, excused, overlapped>>
  BY DEF ListRemote, sides, marks, ghosts, At
<1>3. \A q \in Run, k \in Key, p \in Content : Has(q, k, p)' => remote[k] = p \/ (q # r /\ Has(q, k, p))
  <2>1. run[r].item = NoItem
    BY <1>2 DEF Placed
  <2> QED
    BY <1>0, <1>1, <2>1, NothingInHand DEF Has, Others
<1>11. TypeOK'
  BY <1>1, <1>2, <1>3, NothingInHand DEF TypeOK, Sync
<1>12. Placed'
  BY <1>1, <1>2, <1>3, NothingInHand DEF Placed, Item, Others
<1>13. Publishing'
  BY <1>1, <1>2, <1>3, NothingInHand, OnceStays DEF Holding, Others
<1>14. Known'
  <2>1. \A k \in Key, p \in Content : Named(k, p)' => Named(k, p)
    BY <1>2, <1>3 DEF Named
  <2> QED
    BY <1>2, <2>1, KnownStays
<1>15. Listed'
  <2> QED
    BY <1>1, <1>2, <1>3 DEF Listed, Others
<1>16. Spreading'
  BY <1>1, <1>2, <1>3, NothingInHand, SpreadStays
<1> QED
  BY <1>11, <1>12, <1>13, <1>14, <1>15, <1>16

\* A run reads the other side's profile.
LEMMA ListProfileStep ==
  ASSUME IInv, NEW r \in Run, ListProfile(r)
  PROVE  IInv'
<1> USE DEF IInv
<1>0. Records(remote) \subseteq Key \X Content /\ \A x \in Records(remote) : x[2] \in Content /\ remote[x[1]] = x[2]
  BY RecordsFacts DEF TypeOK
<1>1. /\ run' \in [Run -> Sync] /\ Others(r) /\ run'[r].at = "archive" /\ run'[r].item = run[r].item
      /\ run'[r].todo \subseteq Records(remote) \cup run[r].todo
  <2> DEFINE T == {x \in Records(remote) : x[1] = Self}
             y == [run[r] EXCEPT !.profile = TRUE, !.todo = T]
             z == [run[r] EXCEPT !.profile = TRUE, !.clean = FALSE]
  <2>0. run[r] \in Sync /\ T \subseteq Key \X Content /\ T \subseteq Records(remote)
    BY <1>0 DEF TypeOK, Sync
  <2> HIDE DEF T
  <2>1. /\ y \in Sync /\ y.at = run[r].at /\ y.item = run[r].item /\ y.todo \subseteq Records(remote)
        /\ z \in Sync /\ z.at = run[r].at /\ z.item = run[r].item /\ z.todo = run[r].todo
    BY <2>0 DEF Sync
  <2>2. run' = [run EXCEPT ![r] = y] \/ run' = [run EXCEPT ![r] = z]
    BY DEF ListProfile, T
  <2>3. run[r].at = "archive"
    BY DEF ListProfile, At
  <2> HIDE DEF y, z
  <2> QED
    BY <2>1, <2>2, <2>3 DEF TypeOK, Sync, Others
<1>2. run[r].at = "archive" /\ UNCHANGED <<config, local, remote, keys, published, archived, runs, written, removed, copies, excused, overlapped>>
  BY DEF ListProfile, sides, marks, ghosts, At
<1>3. \A q \in Run, k \in Key, p \in Content : Has(q, k, p)' => remote[k] = p \/ Has(q, k, p)
  BY <1>0, <1>1 DEF Has, Others
<1>11. TypeOK'
  BY <1>1, <1>2, <1>3, NothingInHand DEF TypeOK, Sync
<1>12. Placed'
  BY <1>1, <1>2, <1>3, NothingInHand DEF Placed, Item, Others
<1>13. Publishing'
  BY <1>1, <1>2, <1>3, NothingInHand, OnceStays DEF Holding, Others
<1>14. Known'
  <2>1. \A k \in Key, p \in Content : Named(k, p)' => Named(k, p)
    BY <1>2, <1>3 DEF Named
  <2> QED
    BY <1>2, <2>1, KnownStays
<1>15. Listed'
  <2> QED
    BY <1>1, <1>2, <1>3 DEF Listed, Others
<1>16. Spreading'
  BY <1>1, <1>2, <1>3, NothingInHand, SpreadStays
<1> QED
  BY <1>11, <1>12, <1>13, <1>14, <1>15, <1>16

\* A run takes up a record to archive.
LEMMA FetchStep ==
  ASSUME IInv, NEW r \in Run, Fetch(r)
  PROVE  IInv'
<1> USE DEF IInv
<1>p. PICK x \in run[r].todo, y \in Sync :
        /\ run' = [run EXCEPT ![r] = y]
        /\ y.at = "fetch" /\ y.item = x /\ y.todo = run[r].todo \ {x}
  BY FetchFacts
<1>0. run[r] \in Sync /\ x \in Key \X Content /\ x[2] \in Content
  BY DEF TypeOK, Sync
<1>1. /\ run' \in [Run -> Sync] /\ Others(r) /\ run'[r].at = "fetch" /\ run'[r].item = x
      /\ run'[r].todo = run[r].todo \ {x}
  BY <1>p DEF TypeOK, Sync, Others
<1>2. run[r].at = "archive" /\ UNCHANGED <<config, local, remote, keys, published, archived, runs, written, removed, copies, excused, overlapped>>
  BY DEF Fetch, sides, marks, ghosts, At
<1>3. \A q \in Run, k \in Key, p \in Content : Has(q, k, p)' => Has(q, k, p)
  BY <1>1, NothingInHand DEF Has, Others
<1>11. TypeOK'
  BY <1>1, <1>2 DEF TypeOK, Sync
<1>12. Placed'
  BY <1>0, <1>1, <1>2 DEF Placed, Item, Others
<1>13. Publishing'
  BY <1>1, <1>2, OnceStays DEF Holding, Others
<1>14. Known'
  <2>1. \A k \in Key, p \in Content : Named(k, p)' => Named(k, p)
    BY <1>2, <1>3 DEF Named
  <2> QED
    BY <1>2, <2>1, KnownStays
<1>15. Listed'
  BY <1>1, <1>2, <1>3, ListedStays DEF Others
<1>16. Spreading'
  BY <1>2, SpreadStays
<1> QED
  BY <1>11, <1>12, <1>13, <1>14, <1>15, <1>16

\* A record is written here.
LEMMA ArchiveStep ==
  ASSUME IInv, NEW r \in Run, Archive(r)
  PROVE  IInv'
<1> USE DEF IInv
<1>2. /\ run[r].at = "fetch" /\ local' = [local EXCEPT ![run[r].item[1]] = Item(r)]
      /\ UNCHANGED <<config, remote, keys, published, archived, runs, written, removed, copies, excused, overlapped>>
  BY DEF Archive, marks, ghosts, At
<1>0. PICK x \in Key \X Content : x = run[r].item /\ x[1] \in Key /\ x[2] \in Content
  BY <1>2 DEF TypeOK, Placed, Item
<1>1. /\ run' \in [Run -> Sync] /\ Others(r) /\ run'[r].at = "note" /\ run'[r].item = x
      /\ run'[r].todo = run[r].todo
  BY <1>0, GoFacts DEF Archive
<1>3. \A q \in Run, k \in Key, p \in Content : Has(q, k, p)' => Has(q, k, p)
  BY <1>0, <1>1 DEF Has, Others
<1>4. /\ local' \in [Key -> Content \cup {None}]
      /\ \A k \in Key : local'[k] = IF k = x[1] THEN x[2] ELSE local[k]
  BY <1>0, <1>2 DEF TypeOK, Item
<1>5. Has(r, x[1], x[2]) /\ Named(x[1], x[2])
  BY <1>0 DEF Has, Named
<1>11. TypeOK'
  BY <1>0, <1>4, <1>1, <1>2, <1>3, NothingInHand DEF TypeOK, Sync
<1>12. Placed'
  BY <1>0, <1>4, <1>1, <1>2, <1>3, NothingInHand DEF Placed, Item, Others
<1>13. Publishing'
  BY <1>0, <1>4, <1>1, <1>2, <1>3, NothingInHand, OnceStays DEF Holding, Others
<1>14. Known'
  <2>1. \A k \in Key, p \in Content : Named(k, p)' => Named(k, p)
    BY <1>2, <1>3, <1>4, <1>5 DEF Named
  <2> QED
    BY <1>2, <2>1, KnownStays
<1>15. Listed'
  BY <1>0, <1>4, <1>1, <1>2, <1>3, NothingInHand, ListedStays DEF Others
<1>16. Spreading'
  <2> SUFFICES ASSUME NEW p \in Content \ (excused \cup removed)
               PROVE  Spread(p)'
    BY <1>2 DEF Spreading
  <2>1. Spread(p)
    BY DEF Spreading
  <2>2. PICK o, c \in Key : SpreadOver(p, o, c)
    BY <2>1 DEF Spread
  <2>3. CASE p = x[2]
    <3>1. x[1] # Self => remote[x[1]] = p
      BY <1>0, <1>2, <1>5, <2>3 DEF Listed
    <3>2. SpreadOver(p, o, c)'
      BY <1>2, <1>4, <2>2, <3>1 DEF SpreadOver
    <3> QED
      BY <3>2 DEF Spread
  <2>4. CASE p # x[2]
    <3>1. x[1] # Self => local[x[1]] # p
      BY <1>0, <1>5, <2>4 DEF Known, Named
    <3>2. \A k \in Key \ {Self} : local'[k] = p <=> local[k] = p
      BY <1>4, <2>4, <3>1
    <3>3. SpreadOver(p, o, c)'
      BY <1>2, <2>2, <3>2 DEF SpreadOver
    <3> QED
      BY <3>3 DEF Spread
  <2> QED
    BY <2>3, <2>4
<1> QED
  BY <1>11, <1>12, <1>13, <1>14, <1>15, <1>16

\* A record is not written.
LEMMA ArchiveFailsStep ==
  ASSUME IInv, NEW r \in Run, ArchiveFails(r)
  PROVE  IInv'
<1> USE DEF IInv
<1>1. /\ run' \in [Run -> Sync] /\ Others(r) /\ run'[r].at = "archive"
      /\ run'[r].item = NoItem /\ run'[r].todo = run[r].todo
  BY OverFacts DEF ArchiveFails
<1>2. run[r].at = "fetch" /\ UNCHANGED <<config, local, remote, keys, published, archived, runs, written, removed, copies, excused, overlapped>>
  BY DEF ArchiveFails, sides, marks, ghosts, At
<1>3. \A q \in Run, k \in Key, p \in Content : Has(q, k, p)' => Has(q, k, p)
  BY <1>1, NothingInHand DEF Has, Others
<1>11. TypeOK'
  BY <1>1, <1>2, <1>3, NothingInHand DEF TypeOK, Sync
<1>12. Placed'
  BY <1>1, <1>2, <1>3, NothingInHand DEF Placed, Item, Others
<1>13. Publishing'
  BY <1>1, <1>2, <1>3, NothingInHand, OnceStays DEF Holding, Others
<1>14. Known'
  <2>1. \A k \in Key, p \in Content : Named(k, p)' => Named(k, p)
    BY <1>2, <1>3 DEF Named
  <2> QED
    BY <1>2, <2>1, KnownStays
<1>15. Listed'
  BY <1>1, <1>2, <1>3, NothingInHand, ListedStays DEF Others
<1>16. Spreading'
  BY <1>1, <1>2, <1>3, NothingInHand, SpreadStays
<1> QED
  BY <1>11, <1>12, <1>13, <1>14, <1>15, <1>16

\* An archived record is marked, or not.
LEMMA MarkArchivedStep ==
  ASSUME IInv, NEW r \in Run, MarkArchived(r)
  PROVE  IInv'
<1> USE DEF IInv
<1>1. /\ run' \in [Run -> Sync] /\ Others(r) /\ run'[r].at = "archive"
      /\ run'[r].item = NoItem /\ run'[r].todo = run[r].todo
  BY OverFacts DEF MarkArchived
<1>2. run[r].at = "note" /\ UNCHANGED <<config, local, remote, keys, published, runs, written, removed, copies, excused, overlapped>>
  BY DEF MarkArchived, sides, ghosts, At
<1>4. archived' \subseteq Content
  BY <1>2 DEF MarkArchived, TypeOK, Placed
<1>3. \A q \in Run, k \in Key, p \in Content : Has(q, k, p)' => Has(q, k, p)
  BY <1>1, NothingInHand DEF Has, Others
<1>11. TypeOK'
  BY <1>1, <1>2, <1>3, NothingInHand, <1>4 DEF TypeOK, Sync
<1>12. Placed'
  BY <1>1, <1>2, <1>3, NothingInHand, <1>4 DEF Placed, Item, Others
<1>13. Publishing'
  BY <1>1, <1>2, <1>3, NothingInHand, <1>4, OnceStays DEF Holding, Others
<1>14. Known'
  <2>1. \A k \in Key, p \in Content : Named(k, p)' => Named(k, p)
    BY <1>2, <1>3 DEF Named
  <2> QED
    BY <1>2, <2>1, KnownStays
<1>15. Listed'
  BY <1>1, <1>2, <1>3, NothingInHand, <1>4, ListedStays DEF Others
<1>16. Spreading'
  BY <1>1, <1>2, <1>3, NothingInHand, <1>4, SpreadStays
<1> QED
  BY <1>11, <1>12, <1>13, <1>14, <1>15, <1>16

\* A run ends.
LEMMA EndSyncStep ==
  ASSUME IInv, NEW r \in Run, EndSync(r)
  PROVE  IInv'
<1> USE DEF IInv
<1>1. run' \in [Run -> Sync] /\ Others(r) /\ run'[r] = Idle
  BY IdleFacts DEF EndSync, TypeOK, Sync, Others
<1>2. run[r].at = "archive" /\ UNCHANGED <<config, local, remote, keys, published, archived, runs, written, removed, copies, excused, overlapped>>
  BY DEF EndSync, Ending, sides, marks, ghosts, At
<1>3. \A q \in Run, k \in Key, p \in Content : Has(q, k, p)' => Has(q, k, p)
  BY <1>1, NothingInHand, IdleFacts DEF Has, Others
<1>11. TypeOK'
  BY <1>1, <1>2, <1>3, NothingInHand, IdleFacts DEF TypeOK, Sync
<1>12. Placed'
  BY <1>1, <1>2, <1>3, NothingInHand, IdleFacts DEF Placed, Item, Others
<1>13. Publishing'
  BY <1>1, <1>2, <1>3, NothingInHand, IdleFacts, OnceStays DEF Holding, Others
<1>14. Known'
  <2>1. \A k \in Key, p \in Content : Named(k, p)' => Named(k, p)
    BY <1>2, <1>3 DEF Named
  <2> QED
    BY <1>2, <2>1, KnownStays
<1>15. Listed'
  BY <1>1, <1>2, <1>3, NothingInHand, IdleFacts, ListedStays DEF Others
<1>16. Spreading'
  BY <1>1, <1>2, <1>3, NothingInHand, IdleFacts, SpreadStays
<1> QED
  BY <1>11, <1>12, <1>13, <1>14, <1>15, <1>16

\* A run is cut short.
LEMMA AbortStep ==
  ASSUME IInv, NEW r \in Run, Abort(r)
  PROVE  IInv'
<1> USE DEF IInv
<1>1. run' \in [Run -> Sync] /\ Others(r) /\ run'[r] = Idle
  BY IdleFacts DEF Abort, TypeOK, Sync, Others
<1>2. UNCHANGED <<config, local, remote, keys, published, archived, runs, written, removed, copies, overlapped>>
  BY DEF Abort, sides, marks
<1>4. /\ excused \subseteq excused' /\ excused' \subseteq Content
      /\ run[r].at \in {"mark", "put"} => Item(r) \in excused'
  BY DEF Abort, At, TypeOK, Placed
<1>3. \A q \in Run, k \in Key, p \in Content : Has(q, k, p)' => Has(q, k, p)
  BY <1>1, NothingInHand, IdleFacts DEF Has, Others
<1>11. TypeOK'
  BY <1>1, <1>2, <1>3, NothingInHand, <1>4, IdleFacts DEF TypeOK, Sync
<1>12. Placed'
  BY <1>1, <1>2, <1>3, NothingInHand, <1>4, IdleFacts DEF Placed, Item, Others
<1>13. Publishing'
  <2> SUFFICES ASSUME NEW p \in Content \ excused'
               PROVE  Once(p)'
    BY DEF Publishing
  <2>1. Once(p)
    BY <1>4 DEF Publishing
  <2>2. \A q \in Run \ {r} : /\ Holding(q)' <=> Holding(q)
                           /\ Item(q)' = Item(q) /\ run'[q].at = run[q].at
    BY <1>1 DEF Holding, Others, Item
  <2>3. \A q \in Run : Holding(q)' /\ Item(q)' = p => Holding(q) /\ Item(q) = p
    BY <1>1, <1>2, <2>2, NothingInHand, IdleFacts DEF Holding, Item
  <2>4. CASE p = Item(r)
    <3>1. run[r].at \notin {"mark", "put"} /\ ~Holding(r)'
      BY <1>1, <1>4, <2>4, IdleFacts DEF Holding
    <3>2. CASE run[r].at = "create"
      BY <1>1, <1>2, <2>1, <2>2, <2>3, <2>4, <3>1, <3>2 DEF Once, Holding
    <3>3. CASE run[r].at # "create"
      BY <1>1, <1>2, <2>1, <2>2, <2>3, <3>1, <3>3 DEF Once, Holding
    <3> QED
      BY <3>2, <3>3
  <2>5. CASE p # Item(r)
    <3>1. \A q \in Run : Holding(q) /\ Item(q) = p => Holding(q)' /\ Item(q)' = p
      BY <2>2, <2>5
    <3>2. \A q \in Run : (run[q].at = "create" /\ Item(q) = p)' => run[q].at = "create" /\ Item(q) = p
      BY <2>2, <2>3, <2>5 DEF Holding
    <3>3. copies'[p] = copies[p] /\ (p \in published => p \in published')
      BY <1>2, <2>5 DEF TypeOK
    <3> QED
      BY <2>1, <2>3, <3>1, <3>2, <3>3 DEF Once
  <2> QED
    BY <2>4, <2>5
<1>14. Known'
  <2>1. \A k \in Key, p \in Content : Named(k, p)' => Named(k, p)
    BY <1>2, <1>3 DEF Named
  <2> QED
    BY <1>2, <2>1, KnownStays
<1>15. Listed'
  BY <1>1, <1>2, <1>3, NothingInHand, <1>4, IdleFacts, ListedStays DEF Others
<1>16. Spreading'
  BY <1>1, <1>2, <1>3, NothingInHand, <1>4, IdleFacts, SpreadStays
<1> QED
  BY <1>11, <1>12, <1>13, <1>14, <1>15, <1>16

-----------------------------------------------------------------------------
(***************************************************************************)
(* The invariant holds initially and every step keeps it.                  *)
(***************************************************************************)
LEMMA InitInv == Init => IInv
<1> SUFFICES ASSUME Init
             PROVE  IInv
  OBVIOUS
<1>1. \A r \in Run : run[r] = Idle
  BY DEF Init
<1>2. \A r \in Run, k \in Key, p \in Content : ~Has(r, k, p)
  BY <1>1, IdleFacts, NothingInHand DEF Has
<1>3. \A k \in Key, p \in Content : ~Named(k, p)
  BY <1>2, BridgeAssumption DEF Init, Named
<1>4. TypeOK
  <2>1. run \in [Run -> Sync]
    BY IdleFacts DEF Init
  <2>2. keys \in Key
    BY BridgeAssumption DEF Init, Key
  <2> QED
    BY <2>1, <2>2 DEF Init, TypeOK, Sync
<1>5. Placed
  BY <1>1, IdleFacts DEF Placed
<1>6. Publishing
  BY <1>1, IdleFacts DEF Init, Publishing, Once, Holding
<1>7. Known
  BY <1>3, BridgeAssumption DEF Known, Key, Self
<1>8. Listed
  BY <1>2 DEF Listed
<1>9. Spreading
  <2> SUFFICES ASSUME NEW p \in Content
               PROVE  Spread(p)
    BY DEF Spreading
  <2>1. Self \in Key /\ SpreadOver(p, Self, Self)
    BY <1>3, BridgeAssumption DEF SpreadOver, Named, Self, Key
  <2> QED
    BY <2>1 DEF Spread
<1> QED
  BY <1>4, <1>5, <1>6, <1>7, <1>8, <1>9 DEF IInv

LEMMA NextInv == IInv /\ [Next]_vars => IInv'
<1> SUFFICES ASSUME IInv, [Next]_vars
             PROVE  IInv'
  OBVIOUS
<1>1. CASE UNCHANGED vars
  <2> USE <1>1 DEF vars, sides, marks, ghosts
  <2>1. TypeOK' /\ Placed'
    BY DEF IInv, TypeOK, Placed, Item
  <2>2. Publishing' /\ Listed'
    BY OnceStays, ListedStays DEF Holding, Has
  <2>3. Known' /\ Spreading'
    BY KnownStays, SpreadStays DEF Named, Has
  <2> QED
    BY <2>1, <2>2, <2>3 DEF IInv
<1>2. ASSUME NEW field \in {"handle", "password"}, SetConfig(field)
      PROVE  IInv'
  BY <1>2, SetConfigStep
<1>3. ASSUME NEW p \in Content, WriteLocal(p) \/ WriteRemote(p) \/ EditProfile(p)
      PROVE  IInv'
  BY <1>3, WriteLocalStep, WriteRemoteStep, EditProfileStep
<1>4. ASSUME NEW k \in Key, Delete(k)
      PROVE  IInv'
  BY <1>4, DeleteStep
<1>5. ASSUME NEW r \in Run,
             \/ BeginSync(r) \/ ListLocal(r) \/ ListLocalFails(r) \/ Choose(r) \/ ChooseAgain(r)
             \/ CreateFails(r) \/ Create(r) \/ PutSelf(r) \/ PutSelfFails(r) \/ MarkPublished(r)
             \/ ListRemote(r) \/ ListProfile(r) \/ Fetch(r) \/ Archive(r)
             \/ ArchiveFails(r) \/ MarkArchived(r) \/ EndSync(r) \/ Abort(r)
      PROVE  IInv'
  BY <1>5, BeginSyncStep, ListLocalStep, ChooseStep, CreateFailsStep, CreateStep,
     PutSelfStep,
     PutSelfFailsStep, MarkPublishedStep, ListRemoteStep, ListProfileStep, FetchStep, ArchiveStep,
     ArchiveFailsStep, MarkArchivedStep, EndSyncStep, AbortStep
<1> QED
  BY <1>1, <1>2, <1>3, <1>4, <1>5 DEF Next

\* However runs fail, overlap and are cut short, and for any number of
\* contents, keys and runs, the bridge keeps the invariant.
THEOREM Invariance == Spec => []IInv
BY InitInv, NextInv, PTL DEF Spec

\* The variables of the bridge keep their types.
THEOREM TypeCorrect == Spec => []TypeOK
<1>1. IInv => TypeOK
  BY DEF IInv
<1> QED
  BY <1>1, Invariance, PTL

\* A content is published once (bridge.go: publish, synced, markSynced),
\* unless two runs had it in hand at a time, its mark was lost or a look-up of
\* its mark failed (synced: false on any error).
THEOREM NotTwice == Spec => []PublishedOnce
<1>1. IInv => PublishedOnce
  BY DEF IInv, Publishing, Once, PublishedOnce
<1> QED
  BY <1>1, Invariance, PTL

\* A post that was copied comes back, or goes out again, once and no more: the
\* other side has two records of it at most, and here all but one have the
\* key they have there (bridge.go: publish, archive).  Excused are the contents
\* NotTwice excuses.
THEOREM NoEndlessEcho == Spec => []EchoEnds
<1>1. ASSUME NEW S, NEW o, NEW c, S \subseteq {o, c}
      PROVE  Cardinality(S) <= 2 /\ (S \subseteq {o} => Cardinality(S) <= 1)
  <2>1. IsFiniteSet({o}) /\ Cardinality({o}) = 1
    BY FS_Singleton
  <2>2. IsFiniteSet({o, c}) /\ Cardinality({o, c}) <= 2
    <3>1. {o, c} = {o} \cup {c}
      OBVIOUS
    <3> QED
      BY <2>1, <3>1, FS_AddElement
  <2>3. \A T : IsFiniteSet(T) /\ S \subseteq T => Cardinality(S) <= Cardinality(T)
    BY FS_Subset
  <2>4. IsFiniteSet(S) /\ Cardinality(S) \in Nat /\ Cardinality({o, c}) \in Nat
    BY <1>1, <2>2, FS_Subset, FS_CardinalityType
  <2>5. Cardinality(S) <= Cardinality({o, c})
    BY <1>1, <2>2, <2>3
  <2> QED
    BY <2>1, <2>2, <2>3, <2>4, <2>5
<1>2. IInv => EchoEnds
  <2> SUFFICES ASSUME IInv, NEW p \in Content \ (excused \cup removed)
               PROVE  LET here == {k \in Key \ {Self} : local[k] = p}
                          there == {k \in Key \ {Self} : remote[k] = p}
                      IN  Cardinality(there) <= 2 /\ Cardinality(here \ there) <= 1
    BY DEF EchoEnds
  <2> DEFINE here == {k \in Key \ {Self} : local[k] = p}
             there == {k \in Key \ {Self} : remote[k] = p}
  <2>1. PICK o, c \in Key : SpreadOver(p, o, c)
    BY DEF IInv, Spreading, Spread
  <2>2. there \subseteq {o, c} /\ here \ there \subseteq {o}
    BY <2>1 DEF SpreadOver
  <2> HIDE DEF here, there
  <2>3. Cardinality(there) <= 2 /\ Cardinality(here \ there) <= 1
    BY <1>1, <2>2
  <2> QED
    BY <2>3 DEF here, there
<1> QED
  BY <1>2, Invariance, PTL

-----------------------------------------------------------------------------
(***************************************************************************)
(* The round trip.  What else is true of the two sides and of a run        *)
(* between them.                                                           *)
(***************************************************************************)
\* A side has p as a post; p was never one.
Post(side, p) == \E k \in Key \ {Self} : side[k] = p
NeverPost(p) == \A k \in Key \ {Self} : ~Named(k, p)

\* A run has p listed as the profile, or in hand.
Lists(r, p) == <<Self, p>> \in run[r].todo
Holds(r, p) == run[r].item = <<Self, p>>

Sending(r) == run[r].at \in {"publish", "create", "put", "mark"}
Fetching(r) == run[r].at \in {"archive", "fetch", "note"}

\* A mark says the truth: a post with one is on that side, unless somebody
\* deleted it, and with a marked profile that side has a profile.
Arrived(side, marked) ==
  \A p \in marked :
    /\ p \in written
    /\ p \in removed \/ Post(side, p) \/ NeverPost(p)
    /\ Named(Self, p) => side[Self] # None

\* So it is with a record that is about to be marked.
Safe(side, r) ==
  IF run[r].item[1] = Self THEN side[Self] # None
  ELSE Item(r) \in removed \/ Post(side, Item(r))

Arriving(side, at) == \A r \in Run : run[r].at = at => Safe(side, r)

Truthful ==
  /\ Arrived(remote, published) /\ Arriving(remote, "mark")
  /\ Arrived(local, archived) /\ Arriving(local, "note")

\* A clean run is the only one, and so is any run as long as no two overlap.
Alone ==
  \A r, q \in Run :
    /\ run[r].clean => run[r].at # "idle" /\ (q # r => run[q].at = "idle")
    /\ run[r].at # "idle" /\ run[q].at # "idle" => r = q \/ overlapped

\* A run deals with one profile at a time, and the other side's comes last.
OneProfile(r) ==
  /\ \A p, q \in Content : Lists(r, p) /\ Lists(r, q) => p = q
  /\ \A p, q \in Content : Lists(r, p) => ~Holds(r, q)
  /\ run[r].at = "list" \/ Sending(r) => ~run[r].profile

\* Halfway through a clean run every local post is on the other side or about
\* to be sent...
PostsGo(r) ==
  \A p \in Content \ removed : Post(local, p) =>
    /\ Sending(r) => \/ Post(remote, p) \/ p \in Contents(run[r].todo)
                     \/ run[r].at = "create" /\ Item(r) = p
    /\ Fetching(r) => Post(remote, p)

\* ... and then every post there is here or about to be fetched.
PostsCome(r) ==
  Fetching(r) => \A p \in Content \ removed :
    Post(remote, p) => \/ Post(local, p) \/ p \in Contents(run[r].todo)
                       \/ run[r].at = "fetch" /\ Item(r) = p

\* The same for the profile; one that is not sent again has its mark.
ProfileGoes(r) ==
  /\ Sending(r) => \A p \in Content : Lists(r, p) \/ Holds(r, p) => local[Self] = p
  /\ local[Self] # None =>
       /\ Sending(r) => \/ remote[Self] = local[Self] \/ Lists(r, local[Self])
                        \/ run[r].at \in {"create", "put"} /\ Holds(r, local[Self])
       /\ Fetching(r) => remote[Self] = local[Self] \/ local[Self] \in published

ProfileComes(r) ==
  Fetching(r) =>
    /\ \A p \in Content : Lists(r, p) \/ (run[r].at = "fetch" /\ Holds(r, p)) => remote[Self] = p
    /\ run[r].profile /\ remote[Self] # None =>
         \/ remote[Self] = local[Self] \/ Lists(r, remote[Self])
         \/ run[r].at = "fetch" /\ Holds(r, remote[Self])

Clean(r) == PostsGo(r) /\ PostsCome(r) /\ ProfileGoes(r) /\ ProfileComes(r)

\* If runs do not overlap, a profile that was published here and one that was
\* archived there are the same, because what is put on a side replaces nothing
\* that the other side has marked but its like.
MarksAgree == local[Self] \in published /\ remote[Self] \in archived => local[Self] = remote[Self]

Replaces(r) ==
  \A p \in Content :
    /\ Sending(r) /\ (Lists(r, p) \/ (run[r].at # "mark" /\ Holds(r, p)))
         => local[Self] = p \/ local[Self] \notin published
    /\ run[r].at = "mark" /\ Holds(r, p) => remote[Self] = p \/ remote[Self] \notin archived
    /\ Fetching(r) /\ (Lists(r, p) \/ (run[r].at = "fetch" /\ Holds(r, p)))
         => remote[Self] = p \/ remote[Self] \notin archived
    /\ run[r].at = "note" /\ Holds(r, p) => local[Self] = p \/ local[Self] \notin published

\* The invariant: of every run, and of the clean one.
OnTrack ==
  /\ \A r \in Run : OneProfile(r) /\ (run[r].clean => Clean(r))
  /\ overlapped \/ (MarksAgree /\ \A r \in Run : Replaces(r))

TInv == IInv /\ Truthful /\ Alone /\ OnTrack

-----------------------------------------------------------------------------
(***************************************************************************)
(* What an action need not look at.                                        *)
(***************************************************************************)
\* Moving one run.
LEMMA Moves ==
  ASSUME TypeOK, NEW r \in Run, NEW y, run' = [run EXCEPT ![r] = y]
  PROVE  run'[r] = y /\ Others(r)
BY DEF TypeOK, Others

\* What people do leaves the place of a profile in a run, and no run clean.
LEMMA Disturbed ==
  ASSUME TypeOK, Disturb
  PROVE  \A q \in Run : /\ run'[q].at = run[q].at /\ run'[q].item = run[q].item
                        /\ run'[q].todo = run[q].todo /\ run'[q].profile = run[q].profile
                        /\ ~run'[q].clean
<1>1. \A q \in Run : run[q] \in Sync
  BY DEF TypeOK, Sync
<1>2. ASSUME NEW q \in Run
      PROVE  LET x == [run[q] EXCEPT !.clean = FALSE]
             IN /\ x.at = run[q].at /\ x.item = run[q].item /\ x.todo = run[q].todo
                /\ x.profile = run[q].profile /\ ~x.clean
  BY <1>1 DEF Sync
<1>3. run' = [q \in Run |-> [run[q] EXCEPT !.clean = FALSE]]
  BY DEF Disturb
<1> QED
  BY <1>2, <1>3

\* What is at a profile's key.
LEMMA Profiles ==
  ASSUME TInv
  PROVE  /\ Self \in Key /\ local[Self] \in Content \cup {None} /\ remote[Self] \in Content \cup {None}
         /\ local[Self] # None => local[Self] \in Content
         /\ remote[Self] # None => remote[Self] \in Content
<1>1. Self \in Key
  BY BridgeAssumption DEF Key, Self
<1> QED
  BY <1>1 DEF TInv, IInv, TypeOK

\* What an item is known as.
LEMMA Items ==
  ASSUME TypeOK, NEW r \in Run
  PROVE  /\ run[r].item[1] \in Key /\ run[r].item = <<run[r].item[1], Item(r)>>
         /\ \A p \in Content : Holds(r, p) <=> run[r].item[1] = Self /\ Item(r) = p
         /\ Item(r) \in Content => Named(run[r].item[1], Item(r))
<1>1. run[r].item \in Key \X (Content \cup {None})
  BY DEF TypeOK
<1> QED
  BY <1>1 DEF Item, Holds, Named, Has

\* What is listed is known as that.
LEMMA Todo ==
  ASSUME TypeOK, NEW r \in Run, NEW x \in run[r].todo
  PROVE  /\ x[1] \in Key /\ x[2] \in Content /\ x = <<x[1], x[2]>> /\ Named(x[1], x[2])
         /\ x[1] = Self => Lists(r, x[2])
<1>1. run[r].todo \subseteq Key \X Content
  BY DEF TypeOK
<1> QED
  BY <1>1 DEF Named, Has, Lists

\* A content is a profile or a post.
LEMMA OneKind ==
  ASSUME Known, NEW p \in Content, Named(Self, p)
  PROVE  NeverPost(p) /\ ~Post(local, p) /\ ~Post(remote, p)
BY DEF Known, NeverPost, Post, Named

\* A list has a content as its post or as its profile.
LEMMA ListedContent ==
  ASSUME TypeOK, NEW r \in Run, NEW p \in Content
  PROVE  /\ p \in Contents(run[r].todo) <=> \E x \in run[r].todo : x[2] = p
         /\ Lists(r, p) => p \in Contents(run[r].todo) /\ Named(Self, p)
BY DEF Contents, Lists, Named, Has

\* The marks stay true if what is marked is in the run's hand, and if no side
\* loses a post that nobody deleted, or its profile.
LEMMA TruthStays ==
  ASSUME IInv, Truthful,
         written \subseteq written', removed \subseteq removed',
         \A p \in Content : /\ Post(remote, p) => Post(remote, p)' \/ p \in removed'
                            /\ Post(local, p) => Post(local, p)' \/ p \in removed',
         remote[Self] # None => remote'[Self] # None,
         local[Self] # None => local'[Self] # None,
         \A p \in written, k \in Key : Named(k, p)' => Named(k, p) \/ (k # Self /\ ~NeverPost(p)),
         \A p \in published' : p \in published \/ \E q \in Run : run[q].at = "mark" /\ Item(q) = p,
         \A p \in archived' : p \in archived \/ \E q \in Run : run[q].at = "note" /\ Item(q) = p,
         \A q \in Run : run'[q].at = "mark" =>
           \/ run[q].at = "mark" /\ run'[q].item = run[q].item
           \/ Safe(remote, q)',
         \A q \in Run : run'[q].at = "note" =>
           \/ run[q].at = "note" /\ run'[q].item = run[q].item
           \/ Safe(local, q)'
  PROVE  Truthful'
<1>0. Self \in Key
  BY BridgeAssumption DEF Self, Key
<1>1. published \subseteq Content /\ archived \subseteq Content /\ written \subseteq Content
  BY DEF IInv, TypeOK
<1>2. \A q \in Run : run[q].at \in {"mark", "note"} => Item(q) \in Content
  BY DEF IInv, Placed
<1>3. \A p \in written : /\ NeverPost(p) => NeverPost(p)'
                         /\ Named(Self, p)' => Named(Self, p)
  BY <1>0 DEF NeverPost
<1>4. ASSUME NEW q \in Run, Item(q) \in Content
      PROVE  /\ Item(q) \in written
             /\ run[q].item[1] = Self => NeverPost(Item(q))
             /\ run[q].item[1] # Self => ~Named(Self, Item(q))
  BY <1>0, <1>4, Items, OneKind DEF IInv, Known
<1>5. Arrived(remote, published)'
  <2> SUFFICES ASSUME NEW p \in published'
               PROVE  /\ p \in written' /\ (p \in removed' \/ Post(remote, p)' \/ NeverPost(p)')
                      /\ (Named(Self, p)' => remote'[Self] # None)
    BY DEF Arrived
  <2>1. CASE p \in published
    BY <1>1, <1>3, <2>1 DEF Truthful, Arrived
  <2>2. CASE \E q \in Run : run[q].at = "mark" /\ Item(q) = p
    <3>1. PICK q \in Run : run[q].at = "mark" /\ Item(q) = p
      BY <2>2
    <3>2. IF run[q].item[1] = Self THEN remote[Self] # None ELSE p \in removed \/ Post(remote, p)
      BY <3>1 DEF Truthful, Arriving, Safe
    <3> QED
      BY <1>1, <1>2, <1>3, <1>4, <3>1, <3>2
  <2> QED
    BY <2>1, <2>2
<1>6. Arrived(local, archived)'
  <2> SUFFICES ASSUME NEW p \in archived'
               PROVE  /\ p \in written' /\ (p \in removed' \/ Post(local, p)' \/ NeverPost(p)')
                      /\ (Named(Self, p)' => local'[Self] # None)
    BY DEF Arrived
  <2>1. CASE p \in archived
    BY <1>1, <1>3, <2>1 DEF Truthful, Arrived
  <2>2. CASE \E q \in Run : run[q].at = "note" /\ Item(q) = p
    <3>1. PICK q \in Run : run[q].at = "note" /\ Item(q) = p
      BY <2>2
    <3>2. IF run[q].item[1] = Self THEN local[Self] # None ELSE p \in removed \/ Post(local, p)
      BY <3>1 DEF Truthful, Arriving, Safe
    <3> QED
      BY <1>1, <1>2, <1>3, <1>4, <3>1, <3>2
  <2> QED
    BY <2>1, <2>2
<1>7. Arriving(remote, "mark")'
  <2> SUFFICES ASSUME NEW q \in Run, run'[q].at = "mark"
               PROVE  Safe(remote, q)'
    BY DEF Arriving
  <2>1. CASE run[q].at = "mark" /\ run'[q].item = run[q].item
    <3>1. Safe(remote, q)
      BY <2>1 DEF Truthful, Arriving
    <3>2. Item(q) \in Content /\ Item(q)' = Item(q)
      BY <1>2, <2>1 DEF Item
    <3> QED
      BY <2>1, <3>1, <3>2 DEF Safe
  <2> QED
    BY <2>1
<1>8. Arriving(local, "note")'
  <2> SUFFICES ASSUME NEW q \in Run, run'[q].at = "note"
               PROVE  Safe(local, q)'
    BY DEF Arriving
  <2>1. CASE run[q].at = "note" /\ run'[q].item = run[q].item
    <3>1. Safe(local, q)
      BY <2>1 DEF Truthful, Arriving
    <3>2. Item(q) \in Content /\ Item(q)' = Item(q)
      BY <1>2, <2>1 DEF Item
    <3> QED
      BY <2>1, <3>1, <3>2 DEF Safe
  <2> QED
    BY <2>1
<1> QED
  BY <1>5, <1>6, <1>7, <1>8 DEF Truthful

\* A run that moves by itself is the only one that matters: while it is clean
\* the others are idle, and so they are as long as no two runs overlap.
LEMMA OnlyOne ==
  ASSUME IInv, Alone, OnTrack, NEW r \in Run, run[r].at # "idle", Others(r), overlapped' = overlapped,
         run'[r].clean => run[r].clean /\ run'[r].at # "idle",
         OneProfile(r)', run'[r].clean => Clean(r)',
         ~overlapped => MarksAgree' /\ Replaces(r)'
  PROVE  Alone' /\ OnTrack'
<1>1. \A q \in Run \ {r} : run'[q] = run[q]
  BY DEF Others
<1>2. Alone'
  BY <1>1 DEF Alone
<1>3. \A q \in Run \ {r} : OneProfile(q)'
  BY <1>1 DEF OnTrack, OneProfile, Lists, Holds, Sending
<1>4. \A q \in Run \ {r} : ~run[q].clean
  BY DEF Alone
<1>5. ASSUME ~overlapped, NEW q \in Run \ {r} PROVE Replaces(q)'
  <2>1. run[q].at = "idle"
    BY <1>5 DEF Alone
  <2> QED
    BY <1>1, <2>1 DEF Replaces, Sending, Fetching
<1> QED
  BY <1>1, <1>2, <1>3, <1>4, <1>5 DEF OnTrack

\* What people do: no run is clean afterwards.
LEMMA NoneClean ==
  ASSUME IInv, Alone, OnTrack, overlapped' = overlapped, Disturb,
         ~overlapped => MarksAgree' /\ \A q \in Run : Replaces(q)'
  PROVE  Alone' /\ OnTrack'
<1>1. \A q \in Run : /\ run'[q].at = run[q].at /\ run'[q].item = run[q].item /\ run'[q].todo = run[q].todo
                     /\ run'[q].profile = run[q].profile /\ ~run'[q].clean
  BY Disturbed DEF IInv
<1>2. Alone'
  BY <1>1 DEF Alone
<1>3. \A q \in Run : OneProfile(q)'
  BY <1>1 DEF OnTrack, OneProfile, Lists, Holds, Sending
<1> QED
  BY <1>1, <1>2, <1>3 DEF OnTrack

\* ... and what moves no mark and no profile leaves the profiles in step.
LEMMA StepKept ==
  ASSUME MarksAgree, \A q \in Run : Replaces(q), UNCHANGED <<published, archived>>,
         local'[Self] = local[Self], remote'[Self] = remote[Self],
         \A q \in Run : /\ run'[q].at = run[q].at /\ run'[q].item = run[q].item
                        /\ run'[q].todo = run[q].todo
  PROVE  MarksAgree' /\ \A q \in Run : Replaces(q)'
BY DEF MarksAgree, Replaces, Sending, Fetching, Lists, Holds

-----------------------------------------------------------------------------
(***************************************************************************)
(* The round trip: people write and delete, a run starts.                  *)
(***************************************************************************)
LEMMA SetConfigTruth ==
  ASSUME TInv, NEW field \in {"handle", "password"}, SetConfig(field)
  PROVE  Truthful' /\ Alone' /\ OnTrack'
<1>1. UNCHANGED <<local, remote, published, archived, run, written, removed, overlapped>>
  BY DEF SetConfig, sides, marks, ghosts
<1>2. Truthful'
  BY <1>1 DEF TInv, Truthful, Arrived, Arriving, Safe, Item, Post, NeverPost, Named, Has
<1>3. Alone'
  BY <1>1 DEF TInv, Alone
<1>4. OnTrack'
  BY <1>1 DEF TInv, OnTrack, OneProfile, Clean, PostsGo, PostsCome, ProfileGoes, ProfileComes,
              MarksAgree, Replaces, Sending, Fetching, Lists, Holds, Post, Contents, Item
<1> QED
  BY <1>2, <1>3, <1>4

LEMMA WriteTruth ==
  ASSUME TInv, NEW p \in Content, WriteLocal(p) \/ WriteRemote(p)
  PROVE  Truthful' /\ Alone' /\ OnTrack'
<1>1. /\ \A q \in Run : run'[q].at = run[q].at /\ run'[q].item = run[q].item /\ run'[q].todo = run[q].todo
      /\ Disturb
  BY Disturbed DEF WriteLocal, WriteRemote, TInv, IInv
<1>2. /\ p \notin written /\ keys < MaxKey /\ written' = written \cup {p}
      /\ \/ local' = [local EXCEPT ![keys + 1] = p] /\ remote' = remote
         \/ remote' = [remote EXCEPT ![keys + 1] = p] /\ local' = local
      /\ UNCHANGED <<published, archived, removed, overlapped>>
  BY DEF WriteLocal, WriteRemote, marks
<1>n. PICK n \in Key : n = keys + 1 /\ n # Self
  BY <1>2, BridgeAssumption DEF TInv, IInv, TypeOK, Key, Self
<1>3. \A q \in Content : ~Named(n, q)
  BY <1>n, NextKeyIsNew DEF TInv
<1>4. /\ \A k \in Key : local'[k] = local[k] \/ (k = n /\ local'[k] = p)
      /\ \A k \in Key : remote'[k] = remote[k] \/ (k = n /\ remote'[k] = p)
  BY <1>2, <1>n DEF TInv, IInv, TypeOK
<1>5. \A k \in Key \ {n} : local'[k] = local[k] /\ remote'[k] = remote[k]
  BY <1>4
<1>6. Self \in Key \ {n}
  BY <1>n, BridgeAssumption DEF Key, Self
<1>7. Truthful'
  <2>1. \A q \in Content : /\ Post(local, q) => Post(local, q)'
                           /\ Post(remote, q) => Post(remote, q)'
    BY <1>3, <1>5 DEF Post, Named
  <2>2. \A q \in written, k \in Key : Named(k, q)' => Named(k, q)
    BY <1>1, <1>2, <1>4 DEF Named, Has
  <2> HIDE DEF Item
  <2> QED
    BY <1>1, <1>2, <1>5, <1>6, <2>1, <2>2, TruthStays DEF TInv
<1>8. ~overlapped => MarksAgree' /\ \A q \in Run : Replaces(q)'
  <2>1. local'[Self] = local[Self] /\ remote'[Self] = remote[Self]
    BY <1>5, <1>6
  <2> QED
    BY <1>1, <1>2, <2>1, StepKept DEF TInv, OnTrack
<1> QED
  BY <1>1, <1>2, <1>7, <1>8, NoneClean DEF TInv

LEMMA EditProfileTruth ==
  ASSUME TInv, NEW p \in Content, EditProfile(p)
  PROVE  Truthful' /\ Alone' /\ OnTrack'
<1>1. /\ \A q \in Run : run'[q].at = run[q].at /\ run'[q].item = run[q].item /\ run'[q].todo = run[q].todo
      /\ Disturb
  BY Disturbed DEF EditProfile, TInv, IInv
<1>2. /\ p \notin written /\ written' = written \cup {p}
      /\ \/ local' = [local EXCEPT ![Self] = p] /\ remote' = remote
         \/ remote' = [remote EXCEPT ![Self] = p] /\ local' = local
      /\ UNCHANGED <<published, archived, removed, overlapped>>
  BY DEF EditProfile, marks
<1>3. Self \in Key /\ p # None
  BY BridgeAssumption DEF Key, Self
<1>4. /\ (local' = local /\ remote'[Self] = p) \/ (remote' = remote /\ local'[Self] = p)
      /\ \A k \in Key : local'[k] = local[k] \/ (k = Self /\ local'[k] = p)
      /\ \A k \in Key : remote'[k] = remote[k] \/ (k = Self /\ remote'[k] = p)
  <2>1. local \in [Key -> Content \cup {None}] /\ remote \in [Key -> Content \cup {None}]
    BY DEF TInv, IInv, TypeOK
  <2> QED
    BY <1>2, <1>3, <2>1
<1>5. published \subseteq written /\ archived \subseteq written
  BY DEF TInv, Truthful, Arrived
<1>6. Truthful'
  <2>1. \A q \in Content : /\ Post(local, q) => Post(local, q)'
                           /\ Post(remote, q) => Post(remote, q)'
    BY <1>4 DEF Post
  <2>2. \A q \in written, k \in Key : Named(k, q)' => Named(k, q)
    BY <1>1, <1>2, <1>4 DEF Named, Has
  <2> QED
    BY <1>1, <1>2, <1>3, <1>4, <2>1, <2>2, TruthStays DEF TInv
<1>7. ~overlapped => MarksAgree' /\ \A q \in Run : Replaces(q)'
  BY <1>1, <1>2, <1>4, <1>5 DEF TInv, OnTrack, MarksAgree, Replaces, Sending, Fetching, Lists, Holds
<1> QED
  BY <1>1, <1>2, <1>6, <1>7, NoneClean DEF TInv

LEMMA DeleteTruth ==
  ASSUME TInv, NEW d \in Key, Delete(d)
  PROVE  Truthful' /\ Alone' /\ OnTrack'
<1>1. /\ \A q \in Run : run'[q].at = run[q].at /\ run'[q].item = run[q].item /\ run'[q].todo = run[q].todo
      /\ Disturb
  BY Disturbed DEF Delete, TInv, IInv
<1>2. /\ d # Self
      /\ \/ /\ local' = [local EXCEPT ![d] = None] /\ remote' = remote
            /\ removed' = removed \cup {local[d]}
         \/ /\ remote' = [remote EXCEPT ![d] = None] /\ local' = local
            /\ removed' = removed \cup {remote[d]}
      /\ UNCHANGED <<published, archived, written, overlapped>>
  BY DEF Delete, marks
<1>3. /\ \A k \in Key : local'[k] = local[k] \/ (k = d /\ local'[k] = None /\ local[k] \in removed')
      /\ \A k \in Key : remote'[k] = remote[k] \/ (k = d /\ remote'[k] = None /\ remote[k] \in removed')
      /\ removed \subseteq removed'
  BY <1>2 DEF TInv, IInv, TypeOK
<1>4. local'[Self] = local[Self] /\ remote'[Self] = remote[Self]
  BY <1>2, <1>3, BridgeAssumption DEF Key, Self
<1>5. Truthful'
  <2>1. \A q \in Content : /\ Post(local, q) => Post(local, q)' \/ q \in removed'
                           /\ Post(remote, q) => Post(remote, q)' \/ q \in removed'
    BY <1>3 DEF Post
  <2>2. \A q \in written, k \in Key : Named(k, q)' => Named(k, q)
    BY <1>1, <1>3, BridgeAssumption DEF Named, Has, TInv, IInv, TypeOK
  <2> QED
    BY <1>1, <1>2, <1>3, <1>4, <2>1, <2>2, TruthStays DEF TInv
<1>6. ~overlapped => MarksAgree' /\ \A q \in Run : Replaces(q)'
  BY <1>1, <1>2, <1>4, StepKept DEF TInv, OnTrack
<1> QED
  BY <1>1, <1>2, <1>5, <1>6, NoneClean DEF TInv

LEMMA BeginSyncTruth ==
  ASSUME TInv, NEW r \in Run, BeginSync(r)
  PROVE  Truthful' /\ Alone' /\ OnTrack'
<1>1. /\ run'[r].at = "list" /\ run'[r].item = NoItem /\ run'[r].todo = {} /\ ~run'[r].profile
      /\ run'[r].clean => \A s \in Run : run[s].at = "idle"
      /\ \A q \in Run \ {r} : /\ run'[q].at = run[q].at /\ run'[q].item = run[q].item
                              /\ run'[q].todo = run[q].todo /\ run'[q].profile = run[q].profile
                              /\ ~run'[q].clean
  <2>1. \A q \in Run : run[q] \in Sync
    BY DEF TInv, IInv, TypeOK, Sync
  <2>2. ASSUME NEW q \in Run
        PROVE  LET y == [run[q] EXCEPT !.clean = FALSE]
               IN /\ y.at = run[q].at /\ y.item = run[q].item /\ y.todo = run[q].todo
                  /\ y.profile = run[q].profile /\ ~y.clean
    BY <2>1 DEF Sync
  <2> DEFINE x == [Idle EXCEPT !.at = "list", !.clean = \A s \in Run : At(s, "idle")]
  <2>3. /\ x.at = "list" /\ x.item = NoItem /\ x.todo = {} /\ ~x.profile
        /\ x.clean => \A s \in Run : run[s].at = "idle"
    BY DEF Idle, At
  <2>4. run' = [q \in Run |-> IF q = r THEN x ELSE [run[q] EXCEPT !.clean = FALSE]]
    BY DEF BeginSync
  <2> HIDE DEF x
  <2> QED
    BY <2>2, <2>3, <2>4
<1>2. /\ run[r].at = "idle" /\ overlapped' = (overlapped \/ \E s \in Run : run[s].at # "idle")
      /\ UNCHANGED <<local, remote, published, archived, written, removed>>
  BY DEF BeginSync, sides, marks, At
<1>3. \A q \in Run, k \in Key, p \in Content : Has(q, k, p)' => Has(q, k, p)
  BY <1>1, NothingInHand DEF Has
<1>4. Truthful'
  <2>1. \A q \in written, k \in Key : Named(k, q)' => Named(k, q)
    BY <1>2, <1>3 DEF Named, TInv, IInv, TypeOK
  <2>2. \A q \in Content : Post(local, q)' = Post(local, q) /\ Post(remote, q)' = Post(remote, q)
    BY <1>2 DEF Post
  <2> QED
    BY <1>1, <1>2, <2>1, <2>2, TruthStays DEF TInv
<1>5. Alone'
  <2>1. \A q \in Run \ {r} : run'[q].at = "idle" \/ overlapped'
    BY <1>1, <1>2
  <2>2. \A q \in Run : run'[q].clean => q = r /\ \A s \in Run \ {r} : run'[s].at = "idle"
    BY <1>1
  <2> QED
    BY <1>1, <1>2, <2>1, <2>2 DEF TInv, Alone
<1>6. \A q \in Run : OneProfile(q)'
  <2>1. \A q \in Run \ {r} : OneProfile(q)'
    BY <1>1 DEF TInv, OnTrack, OneProfile, Lists, Holds, Sending
  <2> QED
    BY <1>1, <2>1, NothingInHand DEF OneProfile, Lists, Holds, Sending
<1>7. \A q \in Run : run'[q].clean => Clean(q)'
  BY <1>1 DEF Clean, PostsGo, PostsCome, ProfileGoes, ProfileComes, Sending, Fetching
<1>8. overlapped' \/ (MarksAgree' /\ \A q \in Run : Replaces(q)')
  <2> SUFFICES ASSUME ~overlapped'
               PROVE  MarksAgree' /\ \A q \in Run : Replaces(q)'
    OBVIOUS
  <2>1. \A q \in Run : run'[q].at \in {"idle", "list"}
    BY <1>1, <1>2
  <2> QED
    BY <1>2, <2>1 DEF TInv, OnTrack, MarksAgree, Replaces, Sending, Fetching
<1> QED
  BY <1>4, <1>5, <1>6, <1>7, <1>8 DEF OnTrack

-----------------------------------------------------------------------------
(***************************************************************************)
(* The round trip: a run sends.                                            *)
(***************************************************************************)
\* A run that moves by itself and touches no side and no mark.
LEMMA TruthKept ==
  ASSUME TInv, NEW r \in Run, Others(r),
         UNCHANGED <<local, remote, published, archived, written, removed>>,
         run'[r].at \notin {"mark", "note"},
         \A k \in Key, p \in Content : Has(r, k, p)' => Named(k, p)
  PROVE  Truthful'
<1>1. \A q \in Run \ {r} : run'[q] = run[q]
  BY DEF Others
<1>2. \A k \in Key, p \in Content : Named(k, p)' => Named(k, p)
  BY <1>1 DEF Named, Has
<1>3. \A p \in Content : Post(local, p)' = Post(local, p) /\ Post(remote, p)' = Post(remote, p)
  BY DEF Post
<1> QED
  BY <1>1, <1>2, <1>3, TruthStays DEF TInv, IInv, TypeOK

LEMMA ListLocalTruth ==
  ASSUME TInv, NEW r \in Run, ListLocal(r) \/ ListLocalFails(r)
  PROVE  Truthful' /\ Alone' /\ OnTrack'
<1>0. local \in [Key -> Content \cup {None}] /\ Self \in Key
  BY BridgeAssumption DEF TInv, IInv, TypeOK, Key, Self
<1>1. PICK y \in Sync :
        /\ run' = [run EXCEPT ![r] = y]
        /\ y.at = "publish" /\ y.item = run[r].item /\ y.profile = run[r].profile
        /\ y.todo \subseteq Records(local)
        /\ y.clean => run[r].clean /\ y.todo = Records(local)
  BY ListFacts DEF TInv, IInv
<1>2. /\ run[r].at = "list"
      /\ UNCHANGED <<local, remote, published, archived, written, removed, overlapped>>
  BY DEF ListLocal, ListLocalFails, At, sides, marks, ghosts
<1>3. run'[r] = y /\ Others(r)
  BY <1>1, Moves DEF TInv, IInv
<1>4. run[r].item = NoItem /\ NoItem[2] \notin Content /\ ~run[r].profile
  BY <1>2, NothingInHand DEF TInv, IInv, Placed, OnTrack, OneProfile
<1>r. \A p \in Content, k \in Key : <<k, p>> \in Records(local) <=> local[k] = p
  BY BridgeAssumption DEF Records
<1>5. /\ \A p \in Content : Lists(r, p)' => local[Self] = p
      /\ \A p \in Content : ~Holds(r, p)'
  <2>1. \A p \in Content : Lists(r, p)' => local[Self] = p
    BY <1>0, <1>1, <1>3, <1>r DEF Lists
  <2>2. \A p \in Content : ~Holds(r, p)'
    BY <1>1, <1>3, <1>4 DEF Holds
  <2> QED
    BY <2>1, <2>2
<1>6. Truthful'
  <2>1. \A k \in Key, p \in Content : Has(r, k, p)' => Named(k, p)
    BY <1>0, <1>1, <1>3, <1>4, RecordsFacts DEF Has, Named
  <2> QED
    BY <1>1, <1>2, <1>3, <2>1, TruthKept
<1>7. OneProfile(r)'
  BY <1>1, <1>3, <1>4, <1>5 DEF OneProfile
<1>8. run'[r].clean => Clean(r)'
  <2> SUFFICES ASSUME y.todo = Records(local) PROVE Clean(r)'
    BY <1>1, <1>3
  <2>1. Sending(r)' /\ ~Fetching(r)'
    BY <1>1, <1>3 DEF Sending, Fetching
  <2>2. PostsGo(r)'
    <3>1. \A p \in Content : Post(local, p) => p \in Contents(Records(local))
      <4> SUFFICES ASSUME NEW p \in Content, NEW k \in Key, local[k] = p
                   PROVE  p \in Contents(Records(local))
        BY DEF Post
      <4>1. <<k, p>> \in Records(local) /\ <<k, p>>[2] = p
        BY <1>r
      <4> QED
        BY <4>1 DEF Contents
    <3> QED
      BY <1>1, <1>2, <1>3, <2>1, <3>1 DEF PostsGo, Post
  <2>3. ProfileGoes(r)'
    <3>1. local[Self] # None => Lists(r, local[Self])'
      BY <1>0, <1>2, <1>3, <1>r DEF Lists
    <3> QED
      BY <1>0, <1>2, <1>5, <2>1, <3>1 DEF ProfileGoes, Lists
  <2> QED
    BY <2>1, <2>2, <2>3 DEF Clean, PostsCome, ProfileComes
<1>9. ~overlapped => MarksAgree' /\ Replaces(r)'
  BY <1>1, <1>2, <1>3, <1>5 DEF TInv, OnTrack, MarksAgree, Replaces, Fetching
<1> QED
  BY <1>1, <1>2, <1>3, <1>6, <1>7, <1>8, <1>9, OnlyOne DEF TInv

LEMMA ChooseTruth ==
  ASSUME TInv, NEW r \in Run, Choose(r) \/ ChooseAgain(r)
  PROVE  Truthful' /\ Alone' /\ OnTrack'
<1>1. PICK x \in run[r].todo, y \in Sync :
        /\ run' = [run EXCEPT ![r] = y]
        /\ y.at = "create" /\ y.item = x /\ y.todo = run[r].todo \ {x}
        /\ y.profile = run[r].profile /\ (y.clean => run[r].clean)
  BY ChooseFacts DEF TInv, IInv
<1>2. /\ run[r].at = "publish"
      /\ UNCHANGED <<local, remote, published, archived, written, removed, overlapped>>
  BY DEF Choose, ChooseAgain, At, sides, marks
<1>3. run'[r] = y /\ Others(r)
  BY <1>1, Moves DEF TInv, IInv
<1>4. x[1] \in Key /\ x[2] \in Content /\ x = <<x[1], x[2]>> /\ (x[1] = Self => Lists(r, x[2]))
  BY Todo DEF TInv, IInv
<1>5. /\ \A p \in Content : Lists(r, p)' <=> Lists(r, p) /\ x # <<Self, p>>
      /\ \A p \in Content : Holds(r, p)' <=> x = <<Self, p>>
      /\ \A p \in Content : Lists(r, p) \/ Holds(r, p) <=> (Lists(r, p) \/ Holds(r, p))'
  <2>1. run[r].item = NoItem
    BY <1>2 DEF TInv, IInv, Placed
  <2>2. \A p \in Content : ~Holds(r, p)
    BY <2>1, NothingInHand DEF Holds
  <2> QED
    BY <1>1, <1>3, <1>4, <2>2 DEF Lists, Holds
<1>6. Truthful'
  <2>1. \A k \in Key, p \in Content : Has(r, k, p)' => Named(k, p)
    BY <1>1, <1>3 DEF Has, Named
  <2> QED
    BY <1>1, <1>2, <1>3, <2>1, TruthKept
<1>7. OneProfile(r)'
  BY <1>1, <1>2, <1>3, <1>5 DEF OneProfile, TInv, OnTrack, Sending
<1>s. Sending(r) /\ Sending(r)' /\ ~Fetching(r)'
  BY <1>1, <1>2, <1>3 DEF Sending, Fetching
<1>8. run'[r].clean => Clean(r)'
  <2> SUFFICES ASSUME run[r].clean PROVE Clean(r)'
    BY <1>1, <1>3
  <2>1. Clean(r)
    BY DEF TInv, OnTrack
  <2>2. PostsGo(r)'
    <3>1. \A p \in Content : p \in Contents(run[r].todo) => p \in Contents(run'[r].todo) \/ Item(r)' = p
      BY <1>1, <1>3 DEF Contents, Item
    <3> QED
      BY <1>1, <1>2, <1>3, <1>s, <2>1, <3>1 DEF Clean, PostsGo, Post
  <2>3. ProfileGoes(r)'
    <3>1. local[Self] # None => local[Self] \in Content
      BY Profiles
    <3> QED
      BY <1>1, <1>2, <1>3, <1>5, <1>s, <2>1, <3>1 DEF Clean, ProfileGoes
  <2> QED
    BY <1>s, <2>2, <2>3 DEF Clean, PostsCome, ProfileComes
<1>9. ~overlapped => MarksAgree' /\ Replaces(r)'
  BY <1>1, <1>2, <1>3, <1>5, <1>s DEF TInv, OnTrack, MarksAgree, Replaces
<1> QED
  BY <1>1, <1>2, <1>3, <1>6, <1>7, <1>8, <1>9, OnlyOne DEF TInv

\* A run that drops its record and goes on with what it has listed, not clean.
LEMMA GiveUp ==
  ASSUME TInv, NEW r \in Run, NEW a \in {"publish", "archive"}, Error(r, a)
  PROVE  /\ Others(r) /\ run'[r].at = a /\ run'[r].item = NoItem /\ run'[r].todo = run[r].todo
         /\ run'[r].profile = run[r].profile /\ ~run'[r].clean
         /\ \A p \in Content : ~Holds(r, p)' /\ (Lists(r, p)' <=> Lists(r, p))
         /\ \A k \in Key, p \in Content : Has(r, k, p)' => Named(k, p)
<1> DEFINE y == [run[r] EXCEPT !.at = a, !.item = NoItem, !.clean = FALSE]
<1>1. /\ y.at = a /\ y.todo = run[r].todo /\ y.item = NoItem
      /\ y.profile = run[r].profile /\ ~y.clean
  BY DEF TInv, IInv, TypeOK
<1>2. run' = [run EXCEPT ![r] = y]
  BY DEF Error
<1> HIDE DEF y
<1>3. run'[r] = y /\ Others(r)
  BY <1>2, Moves DEF TInv, IInv
<1> QED
  BY <1>1, <1>3, NothingInHand DEF Holds, Lists, Has, Named

\* A run that is done with its record.
LEMMA GoOn ==
  ASSUME TInv, NEW r \in Run, NEW a \in {"publish", "archive"}, Over(r, a)
  PROVE  /\ Others(r) /\ run'[r].at = a /\ run'[r].item = NoItem /\ run'[r].todo = run[r].todo
         /\ run'[r].profile = run[r].profile /\ run'[r].clean = run[r].clean
         /\ \A p \in Content : ~Holds(r, p)' /\ (Lists(r, p)' <=> Lists(r, p))
         /\ \A k \in Key, p \in Content : Has(r, k, p)' => Named(k, p)
<1> DEFINE y == [run[r] EXCEPT !.at = a, !.item = NoItem]
<1>1. /\ y.at = a /\ y.todo = run[r].todo /\ y.item = NoItem
      /\ y.profile = run[r].profile /\ y.clean = run[r].clean
  BY DEF TInv, IInv, TypeOK
<1>2. run' = [run EXCEPT ![r] = y]
  BY DEF Over
<1> HIDE DEF y
<1>3. run'[r] = y /\ Others(r)
  BY <1>2, Moves DEF TInv, IInv
<1> QED
  BY <1>1, <1>3, NothingInHand DEF Holds, Lists, Has, Named

\* A run that goes on with its record.
LEMMA Proceed ==
  ASSUME TInv, NEW r \in Run, NEW a \in {"put", "mark", "note"}, Go(r, a)
  PROVE  /\ Others(r) /\ run'[r].at = a /\ run'[r].item = run[r].item /\ run'[r].todo = run[r].todo
         /\ run'[r].profile = run[r].profile /\ run'[r].clean = run[r].clean
         /\ \A p \in Content : (Holds(r, p)' <=> Holds(r, p)) /\ (Lists(r, p)' <=> Lists(r, p))
         /\ \A k \in Key, p \in Content : Has(r, k, p)' => Named(k, p)
<1> DEFINE y == [run[r] EXCEPT !.at = a]
<1>1. /\ y.at = a /\ y.todo = run[r].todo /\ y.item = run[r].item
      /\ y.profile = run[r].profile /\ y.clean = run[r].clean
  BY DEF TInv, IInv, TypeOK
<1>2. run' = [run EXCEPT ![r] = y]
  BY DEF Go
<1> HIDE DEF y
<1>3. run'[r] = y /\ Others(r)
  BY <1>2, Moves DEF TInv, IInv
<1> QED
  BY <1>1, <1>3, NothingInHand DEF Holds, Lists, Has, Named

\* Nothing was made, and the run goes on with the next record.
LEMMA GiveUpTruth ==
  ASSUME TInv, NEW r \in Run, run[r].at \in {"create", "put"}, Error(r, "publish"),
         UNCHANGED <<local, remote, published, archived, written, removed, overlapped>>
  PROVE  Truthful' /\ Alone' /\ OnTrack'
<1>1. /\ Others(r) /\ run'[r].at = "publish" /\ run'[r].profile = run[r].profile /\ ~run'[r].clean
      /\ \A p \in Content : ~Holds(r, p)' /\ (Lists(r, p)' <=> Lists(r, p))
      /\ \A k \in Key, p \in Content : Has(r, k, p)' => Named(k, p)
  BY GiveUp
<1>2. Truthful'
  BY <1>1, TruthKept
<1>3. OneProfile(r)'
  BY <1>1 DEF TInv, OnTrack, OneProfile, Sending
<1>4. ~overlapped => MarksAgree' /\ Replaces(r)'
  BY <1>1 DEF TInv, OnTrack, MarksAgree, Replaces, Sending, Fetching
<1> QED
  BY <1>1, <1>2, <1>3, <1>4, OnlyOne DEF TInv

\* The call of a profile is answered: putRecord is next.
LEMMA PutNextTruth ==
  ASSUME TInv, NEW r \in Run, run[r].at = "create", run[r].item[1] = Self, Go(r, "put"),
         UNCHANGED <<local, remote, published, archived, written, removed, overlapped>>
  PROVE  Truthful' /\ Alone' /\ OnTrack'
<1>1. /\ Others(r) /\ run'[r].at = "put" /\ run'[r].profile = run[r].profile
      /\ run'[r].todo = run[r].todo /\ run'[r].clean = run[r].clean
      /\ \A p \in Content : (Holds(r, p)' <=> Holds(r, p)) /\ (Lists(r, p)' <=> Lists(r, p))
      /\ \A k \in Key, p \in Content : Has(r, k, p)' => Named(k, p)
  BY Proceed
<1>s. Sending(r) /\ Sending(r)' /\ ~Fetching(r)'
  BY <1>1 DEF Sending, Fetching
<1>2. Truthful'
  BY <1>1, TruthKept
<1>3. OneProfile(r)'
  BY <1>1, <1>s DEF TInv, OnTrack, OneProfile
<1>4. run'[r].clean => Clean(r)'
  <2> SUFFICES ASSUME run[r].clean PROVE Clean(r)'
    BY <1>1
  <2>1. Clean(r)
    BY DEF TInv, OnTrack
  <2>2. PostsGo(r)'
    <3>1. ~Post(local, Item(r))
      <4>1. Item(r) \in Content
        BY DEF TInv, IInv, Placed
      <4> QED
        BY <4>1, Items, OneKind DEF TInv, IInv
    <3> QED
      BY <1>1, <1>s, <2>1, <3>1 DEF Clean, PostsGo, Post
  <2>3. ProfileGoes(r)'
    <3>1. local[Self] # None => local[Self] \in Content
      BY Profiles
    <3> QED
      BY <1>1, <1>s, <2>1, <3>1 DEF Clean, ProfileGoes
  <2> QED
    BY <1>s, <2>2, <2>3 DEF Clean, PostsCome, ProfileComes
<1>5. ~overlapped => MarksAgree' /\ Replaces(r)'
  BY <1>1, <1>s DEF TInv, OnTrack, MarksAgree, Replaces
<1> QED
  BY <1>1, <1>2, <1>3, <1>4, <1>5, OnlyOne DEF TInv

LEMMA CreateFailsTruth ==
  ASSUME TInv, NEW r \in Run, CreateFails(r)
  PROVE  Truthful' /\ Alone' /\ OnTrack'
<1>1. /\ run[r].at = "create" /\ (Error(r, "publish") \/ (run[r].item[1] = Self /\ Go(r, "put")))
      /\ UNCHANGED <<local, remote, published, archived, written, removed, overlapped>>
  BY DEF CreateFails, At, sides, marks, ghosts
<1> QED
  BY <1>1, GiveUpTruth, PutNextTruth

LEMMA PutSelfFailsTruth ==
  ASSUME TInv, NEW r \in Run, PutSelfFails(r)
  PROVE  Truthful' /\ Alone' /\ OnTrack'
<1>1. /\ run[r].at = "put" /\ Error(r, "publish")
      /\ UNCHANGED <<local, remote, published, archived, written, removed, overlapped>>
  BY DEF PutSelfFails, At, sides, marks, ghosts
<1> QED
  BY <1>1, GiveUpTruth

LEMMA CreateTruth ==
  ASSUME TInv, NEW r \in Run, Create(r)
  PROVE  Truthful' /\ Alone' /\ OnTrack'
<1>1. CASE run[r].item[1] = Self
  BY <1>1, PutNextTruth DEF Create, At, sides, marks, ghosts
<1>2. CASE run[r].item[1] # Self
  <2>1. /\ run[r].at = "create" /\ keys < MaxKey /\ remote' = [remote EXCEPT ![keys + 1] = Item(r)]
        /\ Go(r, "mark") \/ Error(r, "publish")
        /\ UNCHANGED <<local, published, archived, written, removed, overlapped>>
    BY <1>2 DEF Create, At, marks
  <2>n. PICK n \in Key : n = keys + 1 /\ n # Self
    BY <2>1, BridgeAssumption DEF TInv, IInv, TypeOK, Key, Self
  <2>p. PICK p \in Content : p = Item(r)
    BY <2>1 DEF TInv, IInv, Placed
  <2>2. /\ Self \in Key \ {n} /\ run[r].item[1] \in Key
        /\ Named(run[r].item[1], p) /\ \A q \in Content : ~Holds(r, q)
    BY <1>2, <2>p, <2>n, Items, BridgeAssumption DEF TInv, IInv, Key, Self
  <2>3. remote'[n] = p /\ \A k \in Key \ {n} : remote'[k] = remote[k]
    BY <2>1, <2>n, <2>p DEF TInv, IInv, TypeOK
  <2>4. \A q \in Content : ~Named(n, q)
    BY <2>n, NextKeyIsNew DEF TInv
  <2>5. \A q \in Content : /\ Post(remote, q)' <=> Post(remote, q) \/ q = p
                           /\ Post(local, q)' = Post(local, q)
    <3>1. \A q \in Content : remote[n] # q
      BY <2>4 DEF Named
    <3> QED
      BY <2>1, <2>n, <2>3, <3>1 DEF Post
  <2>6. /\ Others(r) /\ run'[r].at \in {"mark", "publish"} /\ run'[r].todo = run[r].todo
        /\ run'[r].profile = run[r].profile
        /\ run'[r].clean => run[r].clean /\ run'[r].at = "mark"
        /\ run'[r].at = "mark" => run'[r].item = run[r].item
        /\ \A q \in Content : ~Holds(r, q)' /\ (Lists(r, q)' <=> Lists(r, q))
        /\ \A k \in Key, q \in Content : Has(r, k, q)' => Named(k, q)
    BY <2>1, <2>2, GiveUp, Proceed
  <2>s. Sending(r) /\ Sending(r)' /\ ~Fetching(r)'
    BY <2>1, <2>6 DEF Sending, Fetching
  <2>7. Truthful'
    <3>1. \A q \in Run \ {r} : run'[q] = run[q]
      BY <2>6 DEF Others
    <3>2. \A q \in written, k \in Key : Named(k, q)' => Named(k, q) \/ (k # Self /\ ~NeverPost(q))
      <4> SUFFICES ASSUME NEW q \in written, NEW k \in Key, Named(k, q)', ~Named(k, q)
                   PROVE  k # Self /\ ~NeverPost(q)
        OBVIOUS
      <4>1. q \in Content
        BY DEF TInv, IInv, TypeOK
      <4>2. k = n /\ q = p
        BY <2>1, <2>3, <2>6, <3>1, <4>1 DEF Named, Has
      <4> QED
        BY <1>2, <2>n, <2>2, <4>2 DEF NeverPost
    <3>3. run'[r].at = "mark" => Safe(remote, r)'
      <4> SUFFICES ASSUME run'[r].at = "mark" PROVE Safe(remote, r)'
        OBVIOUS
      <4>1. Item(r)' = p /\ Post(remote, p)'
        BY <2>5, <2>6, <2>p DEF Item
      <4> QED
        BY <1>2, <2>6, <4>1 DEF Safe
    <3>4. \A q \in Run : run'[q].at = "mark" => (run[q].at = "mark" /\ run'[q].item = run[q].item) \/ Safe(remote, q)'
      BY <3>1, <3>3
    <3>5. \A q \in Run : run'[q].at = "note" => run[q].at = "note" /\ run'[q].item = run[q].item
      BY <2>6, <3>1
    <3> QED
      BY <2>1, <2>2, <2>3, <2>5, <3>2, <3>4, <3>5, TruthStays DEF TInv
  <2>8. OneProfile(r)'
    BY <2>6, <2>s DEF TInv, OnTrack, OneProfile
  <2>9. run'[r].clean => Clean(r)'
    <3> SUFFICES ASSUME run[r].clean, run'[r].at = "mark" PROVE Clean(r)'
      BY <2>6
    <3>1. Clean(r)
      BY DEF TInv, OnTrack
    <3>2. PostsGo(r)'
      BY <2>1, <2>5, <2>6, <2>p, <2>s, <3>1 DEF Clean, PostsGo
    <3>3. ProfileGoes(r)'
      <4>1. local[Self] # None => local[Self] \in Content
        BY Profiles
      <4> QED
        BY <2>1, <2>2, <2>3, <2>6, <2>s, <3>1, <4>1 DEF Clean, ProfileGoes
    <3> QED
      BY <2>s, <3>2, <3>3 DEF Clean, PostsCome, ProfileComes
  <2>10. ~overlapped => MarksAgree' /\ Replaces(r)'
    BY <2>1, <2>2, <2>3, <2>6, <2>s DEF TInv, OnTrack, MarksAgree, Replaces
  <2> QED
    BY <2>1, <2>6, <2>7, <2>8, <2>9, <2>10, OnlyOne DEF TInv
<1> QED
  BY <1>1, <1>2

LEMMA PutSelfTruth ==
  ASSUME TInv, NEW r \in Run, PutSelf(r)
  PROVE  Truthful' /\ Alone' /\ OnTrack'
<1>1. /\ run[r].at = "put" /\ remote' = [remote EXCEPT ![Self] = Item(r)]
      /\ Go(r, "mark") \/ Error(r, "publish")
      /\ UNCHANGED <<local, published, archived, written, removed, overlapped>>
  BY DEF PutSelf, At, marks
<1>p. PICK p \in Content : p = Item(r)
  BY <1>1 DEF TInv, IInv, Placed
<1>2. /\ Self \in Key /\ p # None /\ run[r].item[1] = Self /\ Named(Self, p)
      /\ \A q \in Content : Holds(r, q) <=> q = p
  <2>1. run[r].item[1] = Self
    BY <1>1 DEF TInv, IInv, Placed
  <2> QED
    BY <1>p, <2>1, Items, BridgeAssumption DEF TInv, IInv, Key, Self
<1>3. remote'[Self] = p /\ \A k \in Key \ {Self} : remote'[k] = remote[k]
  BY <1>1, <1>2, <1>p DEF TInv, IInv, TypeOK
<1>4. \A q \in Content : /\ Post(remote, q)' <=> Post(remote, q)
                         /\ Post(local, q)' = Post(local, q)
  BY <1>1, <1>3 DEF Post
<1>5. /\ Others(r) /\ run'[r].at \in {"mark", "publish"} /\ run'[r].todo = run[r].todo
      /\ run'[r].profile = run[r].profile
      /\ run'[r].clean => run[r].clean /\ run'[r].at = "mark"
      /\ run'[r].at = "mark" => run'[r].item = run[r].item
      /\ \A q \in Content : (Holds(r, q)' => run'[r].at = "mark" /\ q = p) /\ (Lists(r, q)' <=> Lists(r, q))
      /\ \A k \in Key, q \in Content : Has(r, k, q)' => Named(k, q)
  BY <1>1, <1>2, GiveUp, Proceed
<1>s. Sending(r) /\ Sending(r)' /\ ~Fetching(r)'
  BY <1>1, <1>5 DEF Sending, Fetching
<1>6. Truthful'
  <2>1. \A q \in Run \ {r} : run'[q] = run[q]
    BY <1>5 DEF Others
  <2>2. \A q \in written, k \in Key : Named(k, q)' => Named(k, q)
    <3> SUFFICES ASSUME NEW q \in written, NEW k \in Key, Named(k, q)', ~Named(k, q) PROVE FALSE
      OBVIOUS
    <3>1. q \in Content
      BY DEF TInv, IInv, TypeOK
    <3>2. k = Self /\ q = p
      BY <1>1, <1>3, <1>5, <2>1, <3>1 DEF Named, Has
    <3> QED
      BY <1>2, <3>2
  <2>3. run'[r].at = "mark" => Safe(remote, r)'
    BY <1>2, <1>3, <1>5 DEF Safe
  <2>4. \A q \in Run : run'[q].at = "mark" => (run[q].at = "mark" /\ run'[q].item = run[q].item) \/ Safe(remote, q)'
    BY <2>1, <2>3
  <2>5. \A q \in Run : run'[q].at = "note" => run[q].at = "note" /\ run'[q].item = run[q].item
    BY <1>5, <2>1
  <2> QED
    BY <1>1, <1>2, <1>3, <1>4, <2>2, <2>4, <2>5, TruthStays DEF TInv
<1>7. OneProfile(r)'
  BY <1>2, <1>5, <1>s DEF TInv, OnTrack, OneProfile
<1>8. run'[r].clean => Clean(r)'
  <2> SUFFICES ASSUME run[r].clean, run'[r].at = "mark" PROVE Clean(r)'
    BY <1>5
  <2>1. Clean(r)
    BY DEF TInv, OnTrack
  <2>2. PostsGo(r)'
    BY <1>1, <1>4, <1>5, <1>s, <2>1 DEF Clean, PostsGo
  <2>3. ProfileGoes(r)'
    <3>1. local[Self] = p
      BY <1>2, <1>s, <2>1 DEF Clean, ProfileGoes
    <3> QED
      BY <1>1, <1>2, <1>3, <1>5, <1>s, <2>1, <3>1 DEF Clean, ProfileGoes
  <2> QED
    BY <1>s, <2>2, <2>3 DEF Clean, PostsCome, ProfileComes
<1>9. ~overlapped => MarksAgree' /\ Replaces(r)'
  <2> SUFFICES ASSUME ~overlapped PROVE MarksAgree' /\ Replaces(r)'
    OBVIOUS
  <2>1. Replaces(r)
    BY DEF TInv, OnTrack
  <2>2. local[Self] = p \/ local[Self] \notin published
    BY <1>1, <1>2, <1>s, <2>1 DEF Replaces
  <2> QED
    BY <1>1, <1>2, <1>3, <1>5, <1>s, <2>1, <2>2 DEF MarksAgree, Replaces
<1> QED
  BY <1>1, <1>5, <1>6, <1>7, <1>8, <1>9, OnlyOne DEF TInv

\* A record of a run and a profile on a side that are the same content are the
\* same profile.
LEMMA ItemIsProfile ==
  ASSUME TInv, NEW r \in Run, Item(r) \in Content, local[Self] = Item(r) \/ remote[Self] = Item(r)
  PROVE  Holds(r, Item(r))
<1>1. Named(Self, Item(r)) /\ Named(run[r].item[1], Item(r)) /\ run[r].item[1] \in Key
  BY Items DEF TInv, IInv, Named
<1> QED
  BY <1>1, Items DEF TInv, IInv, Known

LEMMA MarkPublishedTruth ==
  ASSUME TInv, NEW r \in Run, MarkPublished(r)
  PROVE  Truthful' /\ Alone' /\ OnTrack'
<1>1. /\ run[r].at = "mark" /\ Over(r, "publish")
      /\ published' = published \cup {Item(r)} \/ published' = published
      /\ UNCHANGED <<local, remote, archived, written, removed, overlapped>>
  BY DEF MarkPublished, At, sides
<1>p. PICK p \in Content : p = Item(r)
  BY <1>1 DEF TInv, IInv, Placed
<1>2. local[Self] = p \/ remote[Self] = p => Holds(r, p)
  BY <1>p, ItemIsProfile
<1>3. /\ Others(r) /\ run'[r].at = "publish" /\ run'[r].todo = run[r].todo
      /\ run'[r].profile = run[r].profile /\ run'[r].clean = run[r].clean
      /\ \A q \in Content : ~Holds(r, q)' /\ (Lists(r, q)' <=> Lists(r, q))
      /\ \A k \in Key, q \in Content : Has(r, k, q)' => Named(k, q)
  BY <1>1, GoOn
<1>s. Sending(r) /\ Sending(r)' /\ ~Fetching(r)'
  BY <1>1, <1>3 DEF Sending, Fetching
<1>4. Truthful'
  <2>1. \A q \in Run \ {r} : run'[q] = run[q]
    BY <1>3 DEF Others
  <2>2. \A q \in written, k \in Key : Named(k, q)' => Named(k, q)
    BY <1>1, <1>3, <2>1 DEF Named, Has, TInv, IInv, TypeOK
  <2>3. \A q \in Content : Post(local, q)' = Post(local, q) /\ Post(remote, q)' = Post(remote, q)
    BY <1>1 DEF Post
  <2>4. \A q \in Run : run'[q].at \in {"mark", "note"} => run'[q].at = run[q].at /\ run'[q].item = run[q].item
    BY <1>3, <2>1
  <2> QED
    BY <1>1, <2>2, <2>3, <2>4, TruthStays DEF TInv
<1>5. OneProfile(r)'
  BY <1>3, <1>s DEF TInv, OnTrack, OneProfile
<1>6. run'[r].clean => Clean(r)'
  <2> SUFFICES ASSUME run[r].clean PROVE Clean(r)'
    BY <1>3
  <2>1. Clean(r)
    BY DEF TInv, OnTrack
  <2>2. PostsGo(r)'
    BY <1>1, <1>3, <1>s, <2>1 DEF Clean, PostsGo, Post
  <2>3. ProfileGoes(r)'
    <3>1. local[Self] # None => local[Self] \in Content
      BY Profiles
    <3> QED
      BY <1>1, <1>3, <1>s, <2>1, <3>1 DEF Clean, ProfileGoes
  <2> QED
    BY <1>s, <2>2, <2>3 DEF Clean, PostsCome, ProfileComes
<1>7. ~overlapped => MarksAgree' /\ Replaces(r)'
  <2> SUFFICES ASSUME ~overlapped PROVE MarksAgree' /\ Replaces(r)'
    OBVIOUS
  <2>1. MarksAgree /\ Replaces(r)
    BY DEF TInv, OnTrack
  <2>2. MarksAgree'
    BY <1>1, <1>2, <1>p, <2>1 DEF MarksAgree, Replaces
  <2>3. \A q \in Content : Lists(r, q) => ~Holds(r, p)
    BY DEF TInv, OnTrack, OneProfile
  <2>4. \A q \in Content : Lists(r, q) => local[Self] = q \/ local[Self] \notin published'
    BY <1>1, <1>2, <1>p, <1>s, <2>1, <2>3 DEF Replaces
  <2> QED
    BY <1>1, <1>3, <1>s, <2>2, <2>4 DEF Replaces
<1> QED
  BY <1>1, <1>3, <1>4, <1>5, <1>6, <1>7, OnlyOne DEF TInv

-----------------------------------------------------------------------------
(***************************************************************************)
(* The round trip: a run fetches.                                          *)
(***************************************************************************)
LEMMA ListRemoteTruth ==
  ASSUME TInv, NEW r \in Run, ListRemote(r)
  PROVE  Truthful' /\ Alone' /\ OnTrack'
<1>0. run[r] \in Sync /\ remote \in [Key -> Content \cup {None}]
  BY DEF TInv, IInv, TypeOK, Sync
<1>1. /\ run[r].at = "publish" /\ Contents(run[r].todo) \subseteq published
      /\ UNCHANGED <<local, remote, published, archived, written, removed, overlapped>>
  BY DEF ListRemote, At, sides, marks, ghosts
<1>2. /\ Others(r) /\ run'[r].at = "archive" /\ run'[r].item = NoItem
      /\ run'[r].todo \subseteq {x \in Records(remote) : x[1] # Self}
      /\ run'[r].profile = run[r].profile /\ (run'[r].clean => run[r].clean)
      /\ run'[r].clean => run'[r].todo = {x \in Records(remote) : x[1] # Self}
  <2>0. run[r].item = NoItem
    BY <1>1 DEF TInv, IInv, Placed
  <2>1. CASE run' = [run EXCEPT ![r] = [@ EXCEPT !.at = "archive",
                                                 !.todo = {x \in Records(remote) : x[1] # Self}]]
    <3> DEFINE y == [run[r] EXCEPT !.at = "archive", !.todo = {x \in Records(remote) : x[1] # Self}]
    <3>1. /\ y.at = "archive" /\ y.item = NoItem /\ y.todo = {x \in Records(remote) : x[1] # Self}
          /\ y.profile = run[r].profile /\ y.clean = run[r].clean
      BY <1>0, <2>0 DEF Sync
    <3>2. run' = [run EXCEPT ![r] = y]
      BY <2>1
    <3> HIDE DEF y
    <3>3. run'[r] = y /\ Others(r)
      BY <3>2, Moves DEF TInv, IInv
    <3> QED
      BY <3>1, <3>3
  <2>2. ASSUME NEW k \in Key,
               run' = [run EXCEPT ![r] = [@ EXCEPT !.at = "archive", !.clean = FALSE,
                                                   !.todo = {x \in Records(remote) : x[1] > k}]]
        PROVE  /\ Others(r) /\ run'[r].at = "archive" /\ run'[r].item = NoItem
               /\ run'[r].todo \subseteq {x \in Records(remote) : x[1] # Self}
               /\ run'[r].profile = run[r].profile /\ ~run'[r].clean
    <3> DEFINE y == [run[r] EXCEPT !.at = "archive", !.clean = FALSE,
                                   !.todo = {x \in Records(remote) : x[1] > k}]
    <3>1. /\ y.at = "archive" /\ y.item = NoItem /\ y.todo = {x \in Records(remote) : x[1] > k}
          /\ y.profile = run[r].profile /\ ~y.clean
      BY <1>0, <2>0 DEF Sync
    <3>2. run' = [run EXCEPT ![r] = y]
      BY <2>2
    <3> HIDE DEF y
    <3>3. run'[r] = y /\ Others(r)
      BY <3>2, Moves DEF TInv, IInv
    <3>4. \A x \in Records(remote) : x[1] > k => x[1] # Self
      BY <1>0, RecordsFacts, BridgeAssumption DEF Key, Self
    <3> QED
      BY <3>1, <3>3, <3>4
  <2> QED
    BY <2>1, <2>2 DEF ListRemote
<1>3. /\ \A p \in Content : ~Lists(r, p)'
      /\ \A p \in Content : ~Holds(r, p)'
      /\ ~run[r].profile
  <2>1. \A p \in Content : ~Lists(r, p)'
    BY <1>2 DEF Lists
  <2>2. \A p \in Content : ~Holds(r, p)'
    BY <1>2, NothingInHand DEF Holds
  <2> QED
    BY <1>1, <2>1, <2>2 DEF TInv, OnTrack, OneProfile, Sending
<1>s. Sending(r) /\ ~Sending(r)' /\ Fetching(r)'
  BY <1>1, <1>2 DEF Sending, Fetching
<1>4. Truthful'
  <2>1. \A k \in Key, p \in Content : Has(r, k, p)' => Named(k, p)
    BY <1>0, <1>2, RecordsFacts, NothingInHand DEF Has, Named
  <2> QED
    BY <1>1, <1>2, <2>1, TruthKept
<1>5. OneProfile(r)'
  BY <1>2, <1>3, <1>s DEF OneProfile
<1>6. run'[r].clean => Clean(r)'
  <2> SUFFICES ASSUME run[r].clean, run'[r].todo = {x \in Records(remote) : x[1] # Self} PROVE Clean(r)'
    BY <1>2
  <2>1. Clean(r)
    BY DEF TInv, OnTrack
  <2>2. PostsGo(r)'
    <3> SUFFICES ASSUME NEW p \in Content \ removed, Post(local, p) PROVE Post(remote, p)
      BY <1>1, <1>s DEF PostsGo, Post
    <3>1. CASE p \in published
      <4>1. ~NeverPost(p)
        BY DEF Post, NeverPost, Named
      <4> QED
        BY <3>1, <4>1 DEF TInv, Truthful, Arrived
    <3> QED
      BY <1>1, <1>s, <2>1, <3>1 DEF Clean, PostsGo
  <2>3. PostsCome(r)'
    <3> SUFFICES ASSUME NEW p \in Content, NEW k \in Key \ {Self}, remote[k] = p
                 PROVE  p \in Contents(run'[r].todo)
      BY <1>1, <1>s DEF PostsCome, Post
    <3>1. <<k, p>> \in Records(remote) /\ <<k, p>>[1] # Self /\ <<k, p>>[2] = p
      BY BridgeAssumption DEF Records
    <3> QED
      BY <3>1 DEF Contents
  <2>4. ProfileGoes(r)'
    <3>1. local[Self] # None => local[Self] \in Content
      BY Profiles
    <3>2. local[Self] # None => remote[Self] = local[Self] \/ local[Self] \in published
      <4>1. Lists(r, local[Self]) => local[Self] \in published
        BY <1>1 DEF Lists, Contents
      <4> QED
        BY <1>1, <1>s, <2>1, <3>1, <4>1 DEF Clean, ProfileGoes
    <3> QED
      BY <1>1, <1>s, <3>2 DEF ProfileGoes
  <2>5. ProfileComes(r)'
    BY <1>2, <1>3 DEF ProfileComes
  <2> QED
    BY <2>2, <2>3, <2>4, <2>5 DEF Clean
<1>7. ~overlapped => MarksAgree' /\ Replaces(r)'
  BY <1>1, <1>3 DEF TInv, OnTrack, MarksAgree, Replaces
<1> QED
  BY <1>1, <1>2, <1>4, <1>5, <1>6, <1>7, OnlyOne DEF TInv

LEMMA ListProfileTruth ==
  ASSUME TInv, NEW r \in Run, ListProfile(r)
  PROVE  Truthful' /\ Alone' /\ OnTrack'
<1>0. run[r] \in Sync /\ remote \in [Key -> Content \cup {None}]
  BY DEF TInv, IInv, TypeOK, Sync
<1>1. /\ run[r].at = "archive" /\ Contents(run[r].todo) \subseteq archived /\ ~run[r].profile
      /\ UNCHANGED <<local, remote, published, archived, written, removed, overlapped>>
  BY DEF ListProfile, At, sides, marks, ghosts
<1>2. /\ Others(r) /\ run'[r].at = "archive" /\ run'[r].item = NoItem /\ run'[r].profile
      /\ \/ /\ run'[r].todo = {x \in Records(remote) : x[1] = Self}
            /\ run'[r].clean = run[r].clean
         \/ run'[r].todo = run[r].todo /\ ~run'[r].clean
  <2>0. run[r].item = NoItem
    BY <1>1 DEF TInv, IInv, Placed
  <2>1. CASE run' = [run EXCEPT ![r] = [@ EXCEPT !.profile = TRUE,
                                                 !.todo = {x \in Records(remote) : x[1] = Self}]]
    <3> DEFINE y == [run[r] EXCEPT !.profile = TRUE, !.todo = {x \in Records(remote) : x[1] = Self}]
    <3>1. /\ y.at = "archive" /\ y.item = NoItem /\ y.todo = {x \in Records(remote) : x[1] = Self}
          /\ y.profile /\ y.clean = run[r].clean
      BY <1>0, <1>1, <2>0 DEF Sync
    <3>2. run' = [run EXCEPT ![r] = y]
      BY <2>1
    <3> HIDE DEF y
    <3>3. run'[r] = y /\ Others(r)
      BY <3>2, Moves DEF TInv, IInv
    <3> QED
      BY <3>1, <3>3
  <2>2. CASE run' = [run EXCEPT ![r] = [@ EXCEPT !.profile = TRUE, !.clean = FALSE]]
    <3> DEFINE y == [run[r] EXCEPT !.profile = TRUE, !.clean = FALSE]
    <3>1. y.at = "archive" /\ y.item = NoItem /\ y.todo = run[r].todo /\ y.profile /\ ~y.clean
      BY <1>0, <1>1, <2>0 DEF Sync
    <3>2. run' = [run EXCEPT ![r] = y]
      BY <2>2
    <3> HIDE DEF y
    <3>3. run'[r] = y /\ Others(r)
      BY <3>2, Moves DEF TInv, IInv
    <3> QED
      BY <3>1, <3>3
  <2> QED
    BY <2>1, <2>2 DEF ListProfile
<1>3. /\ \A p \in Content : Lists(r, p)' => remote[Self] = p \/ (Lists(r, p) /\ ~run'[r].clean)
      /\ \A p \in Content : ~Holds(r, p)'
      /\ run'[r].clean /\ remote[Self] # None => Lists(r, remote[Self])'
  <2>1. \A p \in Content : <<Self, p>> \in Records(remote) <=> remote[Self] = p
    BY Profiles, BridgeAssumption DEF Records
  <2>2. \A p \in Content : Lists(r, p)' => remote[Self] = p \/ (Lists(r, p) /\ ~run'[r].clean)
    BY <1>2, <2>1 DEF Lists
  <2>3. \A p \in Content : ~Holds(r, p)'
    BY <1>2, NothingInHand DEF Holds
  <2>4. run'[r].clean /\ remote[Self] # None => Lists(r, remote[Self])'
    <3> SUFFICES ASSUME run'[r].clean, remote[Self] # None PROVE <<Self, remote[Self]>> \in run'[r].todo
      BY <1>1 DEF Lists
    <3>1. <<Self, remote[Self]>> \in Records(remote) /\ <<Self, remote[Self]>>[1] = Self
      BY <2>1, Profiles
    <3> QED
      BY <1>2, <3>1
  <2> QED
    BY <2>2, <2>3, <2>4
<1>s. /\ ~Sending(r) /\ ~Sending(r)' /\ Fetching(r) /\ Fetching(r)'
      /\ run'[r].clean => run[r].clean
  BY <1>1, <1>2 DEF Sending, Fetching
<1>4. Truthful'
  <2>1. \A k \in Key, p \in Content : Has(r, k, p)' => Named(k, p)
    BY <1>0, <1>2, RecordsFacts, NothingInHand DEF Has, Named
  <2> QED
    BY <1>1, <1>2, <2>1, TruthKept
<1>5. OneProfile(r)'
  <2>1. \A p, q \in Content : Lists(r, p)' /\ Lists(r, q)' => p = q
    <3>1. CASE run'[r].todo = {x \in Records(remote) : x[1] = Self}
      <4>1. \A p \in Content : Lists(r, p)' => remote[Self] = p
        BY <1>0, <3>1, RecordsFacts DEF Lists
      <4> QED
        BY <4>1
    <3>2. CASE run'[r].todo = run[r].todo
      BY <3>2 DEF TInv, OnTrack, OneProfile, Lists
    <3> QED
      BY <1>2, <3>1, <3>2
  <2> QED
    BY <1>2, <1>3, <1>s, <2>1 DEF OneProfile
<1>6. run'[r].clean => Clean(r)'
  <2> SUFFICES ASSUME run'[r].clean, run[r].clean PROVE Clean(r)'
    BY <1>s
  <2>1. Clean(r)
    BY DEF TInv, OnTrack
  <2>2. PostsGo(r)'
    BY <1>1, <1>s, <2>1 DEF Clean, PostsGo, Post
  <2>3. PostsCome(r)'
    <3> SUFFICES ASSUME NEW p \in Content \ removed, Post(remote, p) PROVE Post(local, p)
      BY <1>1, <1>s DEF PostsCome, Post
    <3>1. CASE p \in archived
      <4>1. ~NeverPost(p)
        BY DEF Post, NeverPost, Named
      <4> QED
        BY <3>1, <4>1 DEF TInv, Truthful, Arrived
    <3> QED
      BY <1>1, <1>s, <2>1, <3>1 DEF Clean, PostsCome
  <2>4. ProfileGoes(r)'
    BY <1>1, <1>s, <2>1 DEF Clean, ProfileGoes
  <2>5. ProfileComes(r)'
    BY <1>1, <1>3 DEF ProfileComes
  <2> QED
    BY <2>2, <2>3, <2>4, <2>5 DEF Clean
<1>7. ~overlapped => MarksAgree' /\ Replaces(r)'
  BY <1>1, <1>2, <1>3, <1>s DEF TInv, OnTrack, MarksAgree, Replaces
<1> QED
  BY <1>1, <1>2, <1>4, <1>5, <1>6, <1>7, <1>s, OnlyOne DEF TInv

LEMMA FetchTruth ==
  ASSUME TInv, NEW r \in Run, Fetch(r)
  PROVE  Truthful' /\ Alone' /\ OnTrack'
<1>1. PICK x \in run[r].todo, y \in Sync :
        /\ run' = [run EXCEPT ![r] = y]
        /\ y.at = "fetch" /\ y.item = x /\ y.todo = run[r].todo \ {x}
        /\ y.profile = run[r].profile /\ (y.clean => run[r].clean)
  BY FetchFacts DEF TInv, IInv
<1>2. /\ run[r].at = "archive"
      /\ UNCHANGED <<local, remote, published, archived, written, removed, overlapped>>
  BY DEF Fetch, At, sides, marks, ghosts
<1>3. run'[r] = y /\ Others(r)
  BY <1>1, Moves DEF TInv, IInv
<1>4. x[1] \in Key /\ x[2] \in Content /\ x = <<x[1], x[2]>> /\ (x[1] = Self => Lists(r, x[2]))
  BY Todo DEF TInv, IInv
<1>5. /\ \A p \in Content : Lists(r, p)' <=> Lists(r, p) /\ x # <<Self, p>>
      /\ \A p \in Content : Holds(r, p)' <=> x = <<Self, p>>
      /\ \A p \in Content : Lists(r, p) <=> (Lists(r, p) \/ Holds(r, p))'
  BY <1>1, <1>3, <1>4 DEF Lists, Holds
<1>s. ~Sending(r) /\ ~Sending(r)' /\ Fetching(r) /\ Fetching(r)' /\ run'[r].at = "fetch"
  BY <1>1, <1>2, <1>3 DEF Sending, Fetching
<1>6. Truthful'
  <2>1. \A k \in Key, p \in Content : Has(r, k, p)' => Named(k, p)
    BY <1>1, <1>3 DEF Has, Named
  <2> QED
    BY <1>1, <1>2, <1>3, <2>1, TruthKept
<1>7. OneProfile(r)'
  BY <1>1, <1>3, <1>5, <1>s DEF OneProfile, TInv, OnTrack
<1>8. run'[r].clean => Clean(r)'
  <2> SUFFICES ASSUME run[r].clean PROVE Clean(r)'
    BY <1>1, <1>3
  <2>1. Clean(r)
    BY DEF TInv, OnTrack
  <2>2. PostsGo(r)'
    BY <1>2, <1>s, <2>1 DEF Clean, PostsGo, Post
  <2>3. PostsCome(r)'
    <3>1. \A p \in Content : p \in Contents(run[r].todo) => p \in Contents(run'[r].todo) \/ Item(r)' = p
      BY <1>1, <1>3 DEF Contents, Item
    <3>2. \A p \in Content \ removed : Post(remote, p) => Post(local, p) \/ p \in Contents(run[r].todo)
      BY <1>2, <1>s, <2>1 DEF Clean, PostsCome
    <3> QED
      BY <1>2, <1>s, <3>1, <3>2 DEF PostsCome, Post
  <2>4. ProfileGoes(r)'
    BY <1>2, <1>s, <2>1 DEF Clean, ProfileGoes
  <2>5. ProfileComes(r)'
    <3>1. remote[Self] # None => remote[Self] \in Content
      BY Profiles
    <3>2. /\ \A p \in Content : Lists(r, p) => remote[Self] = p
          /\ run[r].profile /\ remote[Self] # None => remote[Self] = local[Self] \/ Lists(r, remote[Self])
      BY <1>2, <1>s, <2>1 DEF Clean, ProfileComes
    <3>3. remote[Self] # None /\ Lists(r, remote[Self]) => (Lists(r, remote[Self]) \/ Holds(r, remote[Self]))'
      BY <1>2, <1>5, <3>1 DEF Lists, Holds
    <3> QED
      BY <1>1, <1>2, <1>3, <1>5, <1>s, <3>2, <3>3 DEF ProfileComes, Lists, Holds
  <2> QED
    BY <2>2, <2>3, <2>4, <2>5 DEF Clean
<1>9. ~overlapped => MarksAgree' /\ Replaces(r)'
  <2> SUFFICES ASSUME ~overlapped PROVE MarksAgree' /\ Replaces(r)'
    OBVIOUS
  <2>1. MarksAgree /\ Replaces(r)
    BY DEF TInv, OnTrack
  <2> QED
    BY <1>2, <1>5, <1>s, <2>1 DEF MarksAgree, Replaces
<1> QED
  BY <1>1, <1>2, <1>3, <1>6, <1>7, <1>8, <1>9, OnlyOne DEF TInv

LEMMA ArchiveTruth ==
  ASSUME TInv, NEW r \in Run, Archive(r)
  PROVE  Truthful' /\ Alone' /\ OnTrack'
<1>2. /\ run[r].at = "fetch" /\ local' = [local EXCEPT ![run[r].item[1]] = Item(r)] /\ Go(r, "note")
      /\ UNCHANGED <<remote, published, archived, written, removed, overlapped>>
  BY DEF Archive, At, marks, ghosts
<1>4. PICK k \in Key, p \in Content : /\ k = run[r].item[1] /\ p = Item(r) /\ run[r].item = <<k, p>>
                                       /\ Named(k, p)
  BY <1>2, Items DEF TInv, IInv, Placed
<1>k. /\ \A q \in Content : Holds(r, q) <=> k = Self /\ q = p
      /\ p # None
  BY <1>4, Items, BridgeAssumption DEF TInv, IInv
<1>5. local'[k] = p /\ \A j \in Key \ {k} : local'[j] = local[j]
  BY <1>2, <1>4 DEF TInv, IInv, TypeOK
<1>3. /\ Others(r) /\ run'[r].at = "note" /\ run'[r].item = run[r].item /\ run'[r].todo = run[r].todo
      /\ run'[r].profile = run[r].profile /\ run'[r].clean = run[r].clean
      /\ \A q \in Content : (Holds(r, q)' <=> Holds(r, q)) /\ (Lists(r, q)' <=> Lists(r, q))
      /\ \A j \in Key, q \in Content : Has(r, j, q)' => Named(j, q)
  BY <1>2, Proceed
<1>1. /\ run'[r].at = "note" /\ run'[r].todo = run[r].todo /\ run'[r].clean = run[r].clean
      /\ run'[r].item[1] = k /\ Item(r)' = p
  BY <1>3, <1>4 DEF Item
<1>6. /\ \A q \in Content : Lists(r, q)' <=> Lists(r, q)
      /\ \A q \in Content : Holds(r, q)' <=> k = Self /\ q = p
  BY <1>3, <1>k
<1>7. \A q \in Content : /\ Post(local, q) => Post(local, q)'
                         /\ Post(local, q)' => Post(local, q) \/ (q = p /\ k # Self)
                         /\ k # Self => Post(local, p)'
                         /\ Post(remote, q)' = Post(remote, q)
  <2>1. \A q \in Content : k # Self /\ local[k] = q => q = p
    BY <1>4 DEF TInv, IInv, Known, Named
  <2> QED
    BY <1>2, <1>4, <1>5, <2>1 DEF Post
<1>s. ~Sending(r) /\ ~Sending(r)' /\ Fetching(r) /\ Fetching(r)'
  BY <1>1, <1>2, <1>3 DEF Sending, Fetching
<1>8. Truthful'
  <2>1. \A q \in Run \ {r} : run'[q] = run[q]
    BY <1>3 DEF Others
  <2>2. \A q \in written, j \in Key : Named(j, q)' => Named(j, q)
    <3> SUFFICES ASSUME NEW q \in written, NEW j \in Key, Named(j, q)', ~Named(j, q) PROVE FALSE
      OBVIOUS
    <3>1. j = k /\ q = p
      BY <1>1, <1>2, <1>3, <1>4, <1>5, <2>1 DEF Named, Has
    <3> QED
      BY <1>4, <3>1
  <2>3. Safe(local, r)'
    <3> QED
      BY <1>1, <1>4, <1>5, <1>7, <1>k DEF Safe
  <2>4. \A q \in Run : run'[q].at = "mark" => run[q].at = "mark" /\ run'[q].item = run[q].item
    BY <1>1, <1>3, <2>1
  <2>5. \A q \in Run : run'[q].at = "note" => (run[q].at = "note" /\ run'[q].item = run[q].item) \/ Safe(local, q)'
    BY <2>1, <2>3
  <2>6. local[Self] # None => local'[Self] # None
    BY <1>5, <1>k, Profiles
  <2> QED
    BY <1>2, <1>7, <2>2, <2>4, <2>5, <2>6, TruthStays DEF TInv
<1>9. OneProfile(r)'
  <2>1. \A q, s \in Content : Lists(r, q)' => ~Holds(r, s)'
    BY <1>4, <1>6, <1>k DEF TInv, OnTrack, OneProfile
  <2> QED
    BY <1>1, <1>3, <1>6, <1>s, <2>1 DEF OneProfile, TInv, OnTrack
<1>10. run'[r].clean => Clean(r)'
  <2> SUFFICES ASSUME run[r].clean PROVE Clean(r)'
    BY <1>1, <1>3
  <2>1. Clean(r)
    BY DEF TInv, OnTrack
  <2>2. PostsGo(r)'
    <3>1. k # Self /\ p \notin removed => Post(remote, p)
      <4>1. Has(r, k, p)
        BY <1>4 DEF Has
      <4> QED
        BY <1>2, <1>4, <4>1 DEF TInv, IInv, Listed, Post
    <3> QED
      BY <1>2, <1>7, <1>s, <2>1, <3>1 DEF Clean, PostsGo
  <2>3. PostsCome(r)'
    <3> SUFFICES ASSUME NEW q \in Content \ removed, Post(remote, q), ~Post(local, q)'
                 PROVE  q \in Contents(run'[r].todo)
      BY <1>2, <1>7, <1>s DEF PostsCome
    <3>1. q # p
      <4>1. k = Self => ~Post(remote, p)
        BY <1>4, OneKind DEF TInv, IInv
      <4> QED
        BY <1>7, <4>1
    <3>2. q \in Contents(run[r].todo)
      BY <1>4, <1>7, <1>s, <2>1, <3>1 DEF Clean, PostsCome
    <3> QED
      BY <1>1, <3>2
  <2>4. ProfileGoes(r)'
    <3>1. CASE k = Self
      BY <1>2, <1>5, <1>k, <1>s, <2>1, <3>1 DEF Clean, ProfileGoes, ProfileComes
    <3>2. CASE k # Self
      BY <1>2, <1>5, <1>s, <2>1, <3>2, Profiles DEF Clean, ProfileGoes
    <3> QED
      BY <3>1, <3>2
  <2>5. ProfileComes(r)'
    <3>1. \A q \in Content : Lists(r, q)' => remote'[Self] = q
      BY <1>2, <1>6, <1>s, <2>1 DEF Clean, ProfileComes
    <3>2. run'[r].profile /\ remote[Self] # None => remote[Self] = local'[Self] \/ Lists(r, remote[Self])
      <4>1. CASE k = Self
        BY <1>2, <1>5, <1>k, <1>s, <2>1, <4>1 DEF Clean, ProfileComes
      <4>2. CASE k # Self
        <5>1. local'[Self] = local[Self]
          BY <1>5, <4>2, Profiles
        <5>2. remote[Self] # None => ~Holds(r, remote[Self])
          BY <1>k, <4>2, Profiles
        <5> QED
          BY <1>3, <1>s, <2>1, <5>1, <5>2 DEF Clean, ProfileComes
      <4> QED
        BY <4>1, <4>2
    <3>3. remote[Self] # None => (Lists(r, remote[Self]) <=> Lists(r, remote[Self])')
      BY <1>1, <1>2 DEF Lists
    <3> QED
      BY <1>1, <1>2, <3>1, <3>2, <3>3 DEF ProfileComes
  <2> QED
    BY <2>2, <2>3, <2>4, <2>5 DEF Clean
<1>11. ~overlapped => MarksAgree' /\ Replaces(r)'
  <2> SUFFICES ASSUME ~overlapped PROVE MarksAgree' /\ Replaces(r)'
    OBVIOUS
  <2>1. MarksAgree /\ Replaces(r)
    BY DEF TInv, OnTrack
  <2>2. MarksAgree'
    BY <1>2, <1>4, <1>5, <1>k, <1>s, <2>1, Profiles DEF MarksAgree, Replaces
  <2> QED
    BY <1>1, <1>2, <1>3, <1>5, <1>6, <1>s, <2>1, <2>2 DEF Replaces
<1> QED
  BY <1>1, <1>2, <1>3, <1>8, <1>9, <1>10, <1>11, OnlyOne DEF TInv

LEMMA ArchiveFailsTruth ==
  ASSUME TInv, NEW r \in Run, ArchiveFails(r)
  PROVE  Truthful' /\ Alone' /\ OnTrack'
<1>1. /\ run[r].at = "fetch" /\ Error(r, "archive")
      /\ UNCHANGED <<local, remote, published, archived, written, removed, overlapped>>
  BY DEF ArchiveFails, At, sides, marks, ghosts
<1>2. /\ Others(r) /\ run'[r].at = "archive" /\ run'[r].profile = run[r].profile /\ ~run'[r].clean
      /\ \A p \in Content : ~Holds(r, p)' /\ (Lists(r, p)' <=> Lists(r, p))
      /\ \A k \in Key, p \in Content : Has(r, k, p)' => Named(k, p)
  BY <1>1, GiveUp
<1>3. Truthful'
  BY <1>1, <1>2, TruthKept
<1>4. OneProfile(r)'
  BY <1>2 DEF TInv, OnTrack, OneProfile, Sending
<1>5. ~overlapped => MarksAgree' /\ Replaces(r)'
  BY <1>1, <1>2 DEF TInv, OnTrack, MarksAgree, Replaces, Sending, Fetching
<1> QED
  BY <1>1, <1>2, <1>3, <1>4, <1>5, OnlyOne DEF TInv

LEMMA MarkArchivedTruth ==
  ASSUME TInv, NEW r \in Run, MarkArchived(r)
  PROVE  Truthful' /\ Alone' /\ OnTrack'
<1>1. /\ run[r].at = "note" /\ Over(r, "archive")
      /\ archived' = archived \cup {Item(r)} \/ archived' = archived
      /\ UNCHANGED <<local, remote, published, written, removed, overlapped>>
  BY DEF MarkArchived, At, sides, ghosts
<1>p. PICK p \in Content : p = Item(r)
  BY <1>1 DEF TInv, IInv, Placed
<1>2. local[Self] = p \/ remote[Self] = p => Holds(r, p)
  BY <1>p, ItemIsProfile
<1>3. /\ Others(r) /\ run'[r].at = "archive" /\ run'[r].todo = run[r].todo
      /\ run'[r].profile = run[r].profile /\ run'[r].clean = run[r].clean
      /\ \A q \in Content : ~Holds(r, q)' /\ (Lists(r, q)' <=> Lists(r, q))
      /\ \A k \in Key, q \in Content : Has(r, k, q)' => Named(k, q)
  BY <1>1, GoOn
<1>s. ~Sending(r) /\ ~Sending(r)' /\ Fetching(r) /\ Fetching(r)'
  BY <1>1, <1>3 DEF Sending, Fetching
<1>4. Truthful'
  <2>1. \A q \in Run \ {r} : run'[q] = run[q]
    BY <1>3 DEF Others
  <2>2. \A q \in written, k \in Key : Named(k, q)' => Named(k, q)
    BY <1>1, <1>3, <2>1 DEF Named, Has, TInv, IInv, TypeOK
  <2>3. \A q \in Content : Post(local, q)' = Post(local, q) /\ Post(remote, q)' = Post(remote, q)
    BY <1>1 DEF Post
  <2>4. \A q \in Run : run'[q].at \in {"mark", "note"} => run'[q].at = run[q].at /\ run'[q].item = run[q].item
    BY <1>3, <2>1
  <2> QED
    BY <1>1, <2>2, <2>3, <2>4, TruthStays DEF TInv
<1>5. OneProfile(r)'
  BY <1>3, <1>s DEF TInv, OnTrack, OneProfile
<1>6. run'[r].clean => Clean(r)'
  <2> SUFFICES ASSUME run[r].clean PROVE Clean(r)'
    BY <1>3
  <2>1. Clean(r)
    BY DEF TInv, OnTrack
  <2>2. PostsGo(r)'
    BY <1>1, <1>s, <2>1 DEF Clean, PostsGo, Post
  <2>3. PostsCome(r)'
    BY <1>1, <1>3, <1>s, <2>1 DEF Clean, PostsCome, Post
  <2>4. ProfileGoes(r)'
    BY <1>1, <1>s, <2>1 DEF Clean, ProfileGoes
  <2>5. ProfileComes(r)'
    BY <1>1, <1>3, <1>s, <2>1, Profiles DEF Clean, ProfileComes
  <2> QED
    BY <2>2, <2>3, <2>4, <2>5 DEF Clean
<1>7. ~overlapped => MarksAgree' /\ Replaces(r)'
  <2> SUFFICES ASSUME ~overlapped PROVE MarksAgree' /\ Replaces(r)'
    OBVIOUS
  <2>1. MarksAgree /\ Replaces(r)
    BY DEF TInv, OnTrack
  <2>2. MarksAgree'
    BY <1>1, <1>2, <1>p, <2>1 DEF MarksAgree, Replaces
  <2>3. \A q \in Content : Lists(r, q) => ~Holds(r, p)
    BY DEF TInv, OnTrack, OneProfile
  <2>4. \A q \in Content : Lists(r, q) => remote[Self] = q \/ remote[Self] \notin archived'
    BY <1>1, <1>2, <1>p, <1>s, <2>1, <2>3 DEF Replaces
  <2> QED
    BY <1>1, <1>3, <1>s, <2>2, <2>4 DEF Replaces
<1> QED
  BY <1>1, <1>3, <1>4, <1>5, <1>6, <1>7, OnlyOne DEF TInv

\* The run ends, or is given up.
LEMMA IdleTruth ==
  ASSUME TInv, NEW r \in Run, EndSync(r) \/ Abort(r)
  PROVE  Truthful' /\ Alone' /\ OnTrack'
<1>1. /\ run[r].at # "idle" /\ run' = [run EXCEPT ![r] = Idle]
      /\ UNCHANGED <<local, remote, published, archived, written, removed, overlapped>>
  BY DEF EndSync, Abort, Ending, At, sides, marks, ghosts
<1>2. run'[r] = Idle /\ Others(r)
  BY <1>1, Moves DEF TInv, IInv
<1>3. run'[r].at = "idle" /\ run'[r].item = NoItem /\ run'[r].todo = {} /\ ~run'[r].clean
  BY <1>2 DEF Idle
<1>4. Truthful'
  <2>1. \A k \in Key, p \in Content : Has(r, k, p)' => Named(k, p)
    BY <1>3, NothingInHand DEF Has
  <2> QED
    BY <1>1, <1>2, <1>3, <2>1, TruthKept
<1>5. OneProfile(r)'
  BY <1>3 DEF OneProfile, Lists, Sending
<1>6. ~overlapped => MarksAgree' /\ Replaces(r)'
  BY <1>1, <1>3 DEF TInv, OnTrack, MarksAgree, Replaces, Sending, Fetching
<1> QED
  BY <1>1, <1>2, <1>3, <1>4, <1>5, <1>6, OnlyOne DEF TInv

-----------------------------------------------------------------------------
(***************************************************************************)
(* The round trip.                                                         *)
(***************************************************************************)
LEMMA InitTruth == Init => TInv
<1> SUFFICES ASSUME Init PROVE TInv
  OBVIOUS
<1>1. IInv
  BY InitInv
<1>2. Self \in Key
  BY BridgeAssumption DEF Self, Key
<1>3. \A r \in Run : run[r] = Idle
  BY DEF Init
<1>4. \A r \in Run : run[r].at = "idle" /\ ~run[r].clean /\ run[r].todo = {}
  BY <1>3, IdleFacts DEF Idle
<1>5. Truthful
  BY <1>4 DEF Init, Truthful, Arrived, Arriving
<1>6. Alone
  BY <1>4 DEF Alone
<1>7. OnTrack
  BY <1>4 DEF Init, OnTrack, OneProfile, MarksAgree, Replaces, Sending, Fetching, Lists
<1> QED
  BY <1>1, <1>5, <1>6, <1>7 DEF TInv

LEMMA NextTruth == TInv /\ [Next]_vars => TInv'
<1> SUFFICES ASSUME TInv, [Next]_vars PROVE TInv'
  OBVIOUS
<1>1. IInv'
  BY NextInv DEF TInv
<1>2. CASE UNCHANGED vars
  <2>1. UNCHANGED <<local, remote, published, archived, run, written, removed, overlapped>>
    BY <1>2 DEF vars, sides, marks, ghosts
  <2>2. Truthful'
    BY <2>1 DEF TInv, Truthful, Arrived, Arriving, Safe, Item, Post, NeverPost, Named, Has
  <2>3. Alone'
    BY <2>1 DEF TInv, Alone
  <2>4. OnTrack'
    BY <2>1 DEF TInv, OnTrack, OneProfile, Clean, PostsGo, PostsCome, ProfileGoes, ProfileComes,
                MarksAgree, Replaces, Sending, Fetching, Lists, Holds, Post, Contents, Item
  <2> QED
    BY <1>1, <2>2, <2>3, <2>4 DEF TInv
<1>3. CASE \E field \in {"handle", "password"} : SetConfig(field)
  BY <1>1, <1>3, SetConfigTruth DEF TInv
<1>4. CASE \E p \in Content : WriteLocal(p) \/ WriteRemote(p) \/ EditProfile(p)
  BY <1>1, <1>4, WriteTruth, EditProfileTruth DEF TInv
<1>5. CASE \E k \in Key : Delete(k)
  BY <1>1, <1>5, DeleteTruth DEF TInv
<1>6. CASE \E r \in Run :
             \/ BeginSync(r) \/ ListLocal(r) \/ ListLocalFails(r) \/ Choose(r) \/ ChooseAgain(r)
             \/ CreateFails(r) \/ Create(r) \/ PutSelf(r) \/ PutSelfFails(r) \/ MarkPublished(r)
             \/ ListRemote(r) \/ ListProfile(r) \/ Fetch(r) \/ Archive(r)
             \/ ArchiveFails(r) \/ MarkArchived(r) \/ EndSync(r) \/ Abort(r)
  <2>1. Truthful' /\ Alone' /\ OnTrack'
    BY <1>6, BeginSyncTruth, ListLocalTruth, ChooseTruth, CreateFailsTruth, CreateTruth,
       PutSelfTruth, PutSelfFailsTruth, MarkPublishedTruth, ListRemoteTruth, ListProfileTruth,
       FetchTruth, ArchiveTruth, ArchiveFailsTruth, MarkArchivedTruth, IdleTruth
  <2> QED
    BY <1>1, <2>1 DEF TInv
<1> QED
  BY <1>2, <1>3, <1>4, <1>5, <1>6 DEF Next

\* At the end of a clean run nothing is left to send or to fetch.
LEMMA TruthRoundTrip == TInv => RoundTrip
<1> SUFFICES ASSUME TInv, NEW r \in Run, Ending(r), run[r].clean
             PROVE  /\ \A p \in Content \ removed : Post(local, p) <=> Post(remote, p)
                    /\ overlapped \/ local[Self] = remote[Self]
  BY DEF RoundTrip, Post
<1>1. /\ Fetching(r) /\ run[r].at = "archive"
      /\ Contents(run[r].todo) \subseteq archived /\ run[r].profile
  BY DEF Ending, At, Fetching
<1>2. Clean(r)
  BY DEF TInv, OnTrack
<1>3. ASSUME NEW p \in Content \ removed PROVE Post(local, p) <=> Post(remote, p)
  <2>1. Post(local, p) => Post(remote, p)
    BY <1>1, <1>2 DEF Clean, PostsGo
  <2>2. Post(remote, p) => Post(local, p) \/ p \in archived
    BY <1>1, <1>2 DEF Clean, PostsCome
  <2>3. Post(remote, p) => ~NeverPost(p)
    BY DEF Post, NeverPost, Named
  <2> QED
    BY <2>1, <2>2, <2>3 DEF TInv, Truthful, Arrived
<1>4. ASSUME ~overlapped, local[Self] # remote[Self] PROVE FALSE
  <2>1. MarksAgree
    BY <1>4 DEF TInv, OnTrack
  <2>2. local[Self] # None => local[Self] \in published
    BY <1>1, <1>2, <1>4 DEF Clean, ProfileGoes
  <2>3. remote[Self] # None => remote[Self] \in archived
    <3>1. remote[Self] # None => Lists(r, remote[Self])
      BY <1>1, <1>2, <1>4 DEF Clean, ProfileComes
    <3> QED
      BY <1>1, <3>1 DEF Lists, Contents
  <2>4. \A p \in Content : p = local[Self] \/ p = remote[Self] => Named(Self, p)
    BY DEF Named
  <2>5. local[Self] # None => remote[Self] # None
    BY <2>2, <2>4, Profiles DEF TInv, Truthful, Arrived
  <2>6. remote[Self] # None => local[Self] # None
    BY <2>3, <2>4, Profiles DEF TInv, Truthful, Arrived
  <2> QED
    BY <1>4, <2>1, <2>2, <2>3, <2>5, <2>6 DEF MarksAgree
<1> QED
  BY <1>3, <1>4

\* After a run in which nothing but a mark failed, alone and undisturbed, a
\* post that nobody deleted is on both sides or on none, and if runs never
\* overlapped both sides have the same profile: Sync's two halves, each with the marks of
\* its own direction, are enough, whatever earlier runs left undone.
THEOREM BothSidesAlike == Spec => []RoundTrip
<1>1. Spec => []TInv
  BY InitTruth, NextTruth, PTL DEF Spec
<1> QED
  BY <1>1, TruthRoundTrip, PTL
====
