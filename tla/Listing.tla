------------------------------- MODULE Listing -------------------------------
(***************************************************************************)
(* Reading a list page by page while its rows come and go: the records of  *)
(* a collection, the repositories, the repositories with a collection      *)
(* (internal/repo/manager.go, with their handlers), an account's blobs     *)
(* (internal/blob/blob.go) and the administrator's list of all blobs       *)
(* (internal/admin/api_blobs.go).                                          *)
(*                                                                         *)
(* Each page is one query, for one row more than the page may hold, sorted *)
(* by a key: a record key, a DID, the time of an upload.  A key stands for *)
(* its rank.  The table is shared by all kinds of lists here, so that any  *)
(* of them sees rows inserted and deleted at any place.                    *)
(***************************************************************************)
EXTENDS Integers, FiniteSets

CONSTANTS MaxKey,   \* the keys are 1..MaxKey
          Limit,    \* page sizes asked for
          Reader

ASSUME ListingAssumption == MaxKey \in Nat /\ Limit \subseteq Nat \ {0}

Key == 1..MaxKey
Cursor == 0..(MaxKey + 1)
Kind == {"listRecords", "listRecordsDesc", "listRepos", "listReposByCollection",
         "listBlobs", "adminBlobs"}

VARIABLES
  listed,  \* the keys in the table
  reader   \* what each reader asks for and has got

\* A reader has the kind and the page size of its list, the place where the
\* next page starts and the rows it got.  The rest is for the properties: the
\* keys that were in the table all the time, those it was given as cursors,
\* and whether a page repeated a row.
NotReading == [kind |-> "none", at |-> "idle", limit |-> 0, cursor |-> 0, got |-> {},
               whole |-> {}, handed |-> {}, again |-> FALSE]

listVars == <<listed, reader>>

ListInit == listed \in SUBSET Key /\ reader = [r \in Reader |-> NotReading]

-----------------------------------------------------------------------------
Descending(kind) == kind \in {"listRecordsDesc", "adminBlobs"}
Before(kind, j, k) == IF Descending(kind) THEN j > k ELSE j < k

\* WHERE key > cursor ORDER BY key LIMIT n, or the other way round.
Beyond(kind, S, c) == {k \in S : Before(kind, c, k)}
Front(kind, S, n) == {k \in S : Cardinality({j \in S : Before(kind, j, k)}) < n}

\* A page and the cursor that comes with it if there is more.
Selected(kind, c, n) == Front(kind, Beyond(kind, listed, c), n + 1)
More(kind, c, n) == Selected(kind, c, n) # Front(kind, Beyond(kind, listed, c), n)
LastOf(kind, S) == CHOOSE k \in S : \A j \in S : j = k \/ Before(kind, j, k)

\* Variant: everything that was selected is on the page.
WholePage(kind, c, n) == Selected(kind, c, n)

Page(kind, c, n) == Front(kind, Beyond(kind, listed, c), n)

\* ListRecords and the lists of repositories give the last row of the page.
NextByPage(kind, c, n) == LastOf(kind, Page(kind, c, n))

\* The lists of blobs give the last row selected, the first one after the page.
NextBySelected(kind, c, n) == LastOf(kind, Selected(kind, c, n))

-----------------------------------------------------------------------------
\* The first page starts at the front of the list, or at any place the caller
\* names (cursor, since).
BeginReading(r, kind, limit, c) ==
  /\ reader[r] = NotReading
  /\ reader' = [reader EXCEPT ![r] =
       [NotReading EXCEPT !.kind = kind, !.at = "reading", !.limit = limit, !.cursor = c,
                           !.whole = Beyond(kind, listed, c)]]
  /\ UNCHANGED listed

Turn(r, kind, next(_, _, _)) ==
  /\ reader[r].kind = kind
  /\ reader[r].at = "reading"
  /\ LET x == reader[r]
         page == Page(kind, x.cursor, x.limit)
         there == [x EXCEPT !.got = @ \cup page, !.again = @ \/ page \cap x.got # {}]
         c == next(kind, x.cursor, x.limit)
     IN reader' = [reader EXCEPT ![r] =
          IF More(kind, x.cursor, x.limit)
          THEN [there EXCEPT !.cursor = c, !.handed = @ \cup {c}]
          ELSE [there EXCEPT !.at = "done"]]
  /\ UNCHANGED listed

ListRecords(r) == Turn(r, "listRecords", NextByPage)
ListRecordsDesc(r) == Turn(r, "listRecordsDesc", NextByPage)
ListRepos(r) == Turn(r, "listRepos", NextByPage)
ListReposByCollection(r) == Turn(r, "listReposByCollection", NextByPage)
ListBlobs(r) == Turn(r, "listBlobs", NextBySelected)
AdminBlobs(r) == Turn(r, "adminBlobs", NextBySelected)

\* Rows come and go between the pages.
InsertRow(k) ==
  /\ k \notin listed
  /\ listed' = listed \cup {k}
  /\ UNCHANGED reader

DeleteRow(k) ==
  /\ k \in listed
  /\ listed' = listed \ {k}
  /\ reader' = [r \in Reader |-> [reader[r] EXCEPT !.whole = @ \ {k}]]

ListNext ==
  \/ \E r \in Reader :
       \/ \E kind \in Kind, n \in Limit, c \in Cursor : BeginReading(r, kind, n, c)
       \/ ListRecords(r) \/ ListRecordsDesc(r) \/ ListRepos(r) \/ ListReposByCollection(r)
       \/ ListBlobs(r) \/ AdminBlobs(r)
  \/ \E k \in Key : InsertRow(k) \/ DeleteRow(k)

ListSpec == ListInit /\ [][ListNext]_listVars

-----------------------------------------------------------------------------
ListTypeOK ==
  /\ listed \subseteq Key
  /\ reader \in [Reader ->
       [kind : Kind \cup {"none"}, at : {"idle", "reading", "done"}, limit : Nat,
        cursor : Cursor, got : SUBSET Key, whole : SUBSET Key, handed : SUBSET Key,
        again : BOOLEAN]]

\* Who reads a list to its end has every row that was there all the time, and
\* no page repeats a row, even one that was deleted and is back; rows that
\* come and go move nobody else across a page boundary (ListRecords,
\* ListRepos, ListReposByCollection).  The lists of blobs lack rows: exactly
\* those that were handed out as cursors.
PagesComplete ==
  \A r \in Reader :
    /\ reader[r].at = "done" => reader[r].whole \subseteq reader[r].got \cup reader[r].handed
    /\ ~reader[r].again
    /\ reader[r].kind \notin {"listBlobs", "adminBlobs"} => reader[r].handed \subseteq reader[r].got
    /\ reader[r].kind \in {"listBlobs", "adminBlobs"} => reader[r].handed \cap reader[r].got = {}
====
