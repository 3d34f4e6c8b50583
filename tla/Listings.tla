------------------------------ MODULE Listings ------------------------------
(***************************************************************************)
(* The paged lists of the admin console: users, audit log and application  *)
(* logs. A page fetches through a cache of queries, one per page number    *)
(* and filter (`cache`, `fetch`, `error`); the API counts and selects in   *)
(* two statements (users, audit log) or asks Loki once and cuts the page   *)
(* from the answer (logs); meanwhile rows arrive and, in Loki, leave.      *)
(*                                                                         *)
(* A row is the number of its created_at: lists show the newest first. A   *)
(* row may become visible after a newer one, when its transaction commits  *)
(* or its file is read later.                                              *)
(*                                                                         *)
(* `walked`, `due` and `kept` are history of a walk through the pages: it  *)
(* begins with a fetch of page 1 and goes on with the button for the next  *)
(* page.  `walked` is the last page it has shown, `due` the rows the list  *)
(* had at its start that it has not shown yet, and `kept` the pages that   *)
(* were not fetched for it when it turned to them: their data in the cache *)
(* were still fresh, the fetch had begun before, or the page was left      *)
(* before the answer came.  A walk ends where the administrator goes back  *)
(* or submits another filter, the page number is corrected, or COUNT and   *)
(* SELECT of an answer have seen different rows.                           *)
(***************************************************************************)
EXTENDS Integers, FiniteSets

CONSTANTS Rows,      \* the rows are 1..Rows
          PageSize,  \* page_size of the console's requests
          MaxLines,  \* loki_max_lines
          MaxRows,   \* admin_audit_export_max_rows
          Filters,   \* what the form of a page can hold
          Matching,  \* the rows each filter selects
          Late,      \* bound: so many older rows may arrive after a newer one
          Queries    \* bound: queries the administrator's clicks keep in use

ASSUME SizesAssumption ==
  /\ Rows \in Nat
  /\ PageSize \in Nat \ {0}
  /\ MaxLines \in Nat \ {0}
  /\ MaxRows \in Nat \ {0}
ASSUME MatchingAssumption == Matching \in [Filters -> SUBSET (1..Rows)]

VARIABLES
  list,      \* which of the lists this is
  table,     \* rows that have arrived
  low,       \* rows up to this one are older than Loki's or the query's window
  page,      \* state of the page: page number,
  filter,    \*   and filter submitted last
  cache,     \* the data of each query
  fetch,     \* the run of its function, if one is under way
  error,     \* the error of its last run
  walked,    \* history, see above
  due,
  kept

server == <<list, table, low>>
view == <<page, filter>>
walk == <<walked, due, kept>>
vars == <<server, view, cache, fetch, error, walk>>

Lists == {"users", "audit", "logs"}

-----------------------------------------------------------------------------
(* What the API answers.                                                   *)

Listed(f) == {r \in table \cap Matching[f] : r > low}

\* The rows of S that come before r, newest first.
Before(S, r) == {s \in S : s > r}
Newest(S, n) == {r \in S : Cardinality(Before(S, r)) < n}

\* A Loki query is cut to its limit before it is paged.
Entries(f) == IF list = "logs" THEN Newest(Listed(f), MaxLines) ELSE Listed(f)

\* Mutant: pages counted from 0.
SliceFromZero(S, p) == {r \in S : /\ Cardinality(Before(S, r)) >= p * PageSize
                                  /\ Cardinality(Before(S, r)) < (p + 1) * PageSize}

Slice(S, p) == {r \in S : /\ Cardinality(Before(S, r)) >= (p - 1) * PageSize
                          /\ Cardinality(Before(S, r)) < p * PageSize}

\* The file an export saves: the rows of the filter, newest first, up to a limit,
\* and a note when it is reached.
ExportedRows(f) == Newest(Listed(f), MaxRows)
\* Mutant: only beyond the limit, which the rows never are.
ExportNoteBeyond(f) == Cardinality(ExportedRows(f)) > MaxRows
ExportNote(f) == Cardinality(ExportedRows(f)) >= MaxRows

\* Mutant: rounded down.
PagesDown(total) == IF total < PageSize THEN 1 ELSE total \div PageSize

Pages(total) == IF total = 0 THEN 1 ELSE (total + PageSize - 1) \div PageSize

MaxPage == Pages(Rows)
Keys == (1..MaxPage) \X Filters
Key == <<page, filter>>

NoData == [rows |-> {}, total |-> -1, page |-> 0]
Data == [rows : SUBSET (1..Rows), total : 0..Rows, page : 1..MaxPage]

Running == [at : {"asked", "counted"}, page : 1..MaxPage, total : 0..Rows,
            left : 0..1, moved : BOOLEAN]
Idle == [at |-> "idle", page |-> 0, total |-> 0, left |-> 0, moved |-> FALSE]

\* A run of the query function; `left` retries, `moved` once it corrects the page.
Run(p, n, m) == [at |-> "asked", page |-> p, total |-> 0, left |-> n, moved |-> m]
Start(k) == Run(k[1], IF list = "logs" THEN 0 ELSE 1, FALSE)

\* The fetches once the page shows k: a query that it did not show before runs,
\* unless its data are fresh.
Observed(fs, k) ==
  IF k = Key \/ fs[k] # Idle THEN {fs}
  ELSE {[fs EXCEPT ![k] = Start(k)]} \cup (IF cache[k] = NoData THEN {} ELSE {fs})

\* A query without data that runs again has no error any more.
Cleared(fs) ==
  [k \in Keys |-> IF fetch[k] = Idle /\ fs[k] # Idle /\ cache[k] = NoData
                    THEN "none" ELSE error[k]]

\* Bound on what the administrator's clicks keep in use.
InUse(fs) == Cardinality({k \in Keys : fs[k] # Idle \/ cache[k] # NoData}) <= Queries

Init ==
  /\ list \in Lists
  /\ \E n \in 0..Rows : table = 1..n
  /\ low = 0
  /\ page = 1 /\ filter \in Filters
  /\ cache = [k \in Keys |-> NoData]
  /\ fetch = [[k \in Keys |-> Idle] EXCEPT ![Key] = Start(Key)]
  /\ error = [k \in Keys |-> "none"]
  /\ walked = 0 /\ due = {} /\ kept = {}

\* History: the walk is over, or begins with answer a of page 1.
NoWalk == walked' = 0 /\ due' = {} /\ kept' = {}
FirstPage(a) == walked' = 1 /\ due' = Entries(filter) \ a.rows /\ kept' = {}

-----------------------------------------------------------------------------
(* A run of a query's function.                                            *)

\* The first statement of list_paginated.
Count(k) ==
  /\ list # "logs" /\ fetch[k].at = "asked"
  /\ fetch' = [fetch EXCEPT ![k].at = "counted",
                            ![k].total = Cardinality(Listed(k[2]))]
  /\ UNCHANGED <<server, view, cache, error, walk>>

Answered(k) ==
  fetch[k].at = IF list = "logs" THEN "asked" ELSE "counted"

Answer(k) ==
  [rows |-> Slice(Entries(k[2]), fetch[k].page),
   total |-> IF list = "logs" THEN Cardinality(Entries(k[2])) ELSE fetch[k].total,
   page |-> fetch[k].page]

TooFar(k) == ~fetch[k].moved /\ k[1] > Pages(Answer(k).total)

\* Mutant: the last page is shown under the number asked for.
CorrectQuietly(k) ==
  /\ Answered(k) /\ TooFar(k)
  /\ fetch' = [fetch EXCEPT ![k] = Run(Pages(Answer(k).total), fetch[k].left, TRUE)]
  /\ NoWalk
  /\ UNCHANGED <<server, view, cache, error>>

\* The page asked for is past the last one: the page number is set, whatever
\* the page shows by now, and the function asks again for the last page.
Correct(k) ==
  /\ Answered(k) /\ TooFar(k)
  /\ page' = Pages(Answer(k).total)
  /\ fetch' \in Observed([fetch EXCEPT ![k] = Run(page', fetch[k].left, TRUE)],
                         <<page', filter>>)
  /\ error' = Cleared(fetch')
  /\ NoWalk
  /\ UNCHANGED <<server, filter, cache>>

\* History: the page shown walks on if it is whole and the next one.
Walk(k, a) ==
  IF k # Key THEN UNCHANGED walk
  ELSE IF a.total # Cardinality(Entries(filter)) \/ a.page # page THEN NoWalk
  ELSE IF page = 1 THEN FirstPage(a)
  ELSE IF walked # 0 /\ page \in {walked, walked + 1}
    THEN walked' = page /\ due' = due \ a.rows /\ UNCHANGED kept
  ELSE NoWalk

Store(k) ==
  /\ Answered(k) /\ ~TooFar(k)
  /\ cache' = [cache EXCEPT ![k] = Answer(k)]
  /\ error' = [error EXCEPT ![k] = "none"]
  /\ fetch' = [fetch EXCEPT ![k] = Idle]
  /\ Walk(k, Answer(k))
  /\ UNCHANGED <<server, view>>

\* A run fails: if the page still shows the query it is tried again from the start,
\* else the query has an error.
Fail(k) ==
  /\ fetch[k] # Idle
  /\ \/ /\ fetch[k].left > 0 /\ k = Key
        /\ fetch' = [fetch EXCEPT ![k] = Run(k[1], fetch[k].left - 1, FALSE)]
        /\ UNCHANGED error
     \/ /\ fetch[k].left = 0 \/ k # Key
        /\ fetch' = [fetch EXCEPT ![k] = Idle]
        /\ \E e \in {"other"} \cup (IF list = "logs" THEN {"unavailable"} ELSE {}) :
              error' = [error EXCEPT ![k] = e]
  /\ UNCHANGED <<server, view, cache, walk>>

-----------------------------------------------------------------------------
(* The page.                                                               *)

Fetched == cache[Key] # NoData
\* The table and its page buttons are there.
Displayed ==
  Fetched /\ error[Key] \in (IF list = "logs" THEN {"none", "unavailable"} ELSE {"none"})
TotalPages == Pages(cache[Key].total)
Label == IF page < TotalPages THEN page ELSE TotalPages

\* History: the walk turns to the query k.  If that is fetched for it, the answer
\* counts; else what the cache has of it is what the walk is shown.
WalkTo(k) ==
  IF page = walked /\ fetch[k] = Idle /\ fetch'[k] # Idle THEN UNCHANGED walk
  ELSE walked' = k[1] /\ due' = due \ cache[k].rows /\ kept' = kept \cup {k[1]}

\* The page turns to p.
Turn(p, onward) ==
  /\ Displayed
  /\ page' = p
  /\ fetch' \in Observed(fetch, <<p, filter>>)
  /\ InUse(fetch')
  /\ error' = Cleared(fetch')
  /\ IF onward /\ walked # 0 THEN WalkTo(<<p, filter>>) ELSE NoWalk
  /\ UNCHANGED <<server, filter, cache>>

NextPage == Label < TotalPages /\ Turn(Label + 1, TRUE)
PreviousPage == Label > 1 /\ Turn(Label - 1, FALSE)

Submit(f) ==
  /\ list = "logs" => error[Key] # "unavailable"
  /\ filter' = f /\ page' = 1
  /\ fetch' \in Observed(fetch, <<1, f>>)
  /\ InUse(fetch')
  /\ error' = Cleared(fetch')
  /\ IF <<1, f>> = Key THEN UNCHANGED walk ELSE NoWalk
  /\ UNCHANGED <<server, cache>>

\* The shown query runs again if it is not running.
Again ==
  /\ fetch[Key] = Idle
  /\ fetch' = [fetch EXCEPT ![Key] = Start(Key)]
  /\ error' = Cleared(fetch')
  /\ UNCHANGED <<server, view, cache, walk>>

\* The logs are fetched again every 30 seconds, or by their button.
Poll == list = "logs" /\ error[Key] # "unavailable" /\ Again

\* The window gets the focus back, which runs a query that is not fresh.
Focus == Again

\* A user has been changed from the list: its queries are invalidated, and the
\* one that is shown starts anew.
Invalidate ==
  /\ list = "users" /\ Fetched
  /\ fetch' = [fetch EXCEPT ![Key] = Start(Key)]
  /\ UNCHANGED <<server, view, cache, error, walk>>

\* Queries that are not shown are dropped from the cache.
Collect(k) ==
  /\ k # Key /\ fetch[k] = Idle /\ (cache[k] # NoData \/ error[k] # "none")
  /\ cache' = [cache EXCEPT ![k] = NoData]
  /\ error' = [error EXCEPT ![k] = "none"]
  /\ UNCHANGED <<server, view, fetch, walk>>

-----------------------------------------------------------------------------
(* The rows.                                                               *)

Arrive(r) ==
  /\ r \notin table /\ r > low
  /\ Cardinality({s \in 1..Rows : s < r /\ s \notin table}) <= Late
  /\ table' = table \cup {r}
  /\ UNCHANGED <<list, low, view, cache, fetch, error, walk>>

\* Logs leave Loki, or the hour a query without a start covers.
Expire ==
  /\ list = "logs" /\ low < Rows
  /\ low' = low + 1
  /\ UNCHANGED <<list, table, view, cache, fetch, error, walk>>

-----------------------------------------------------------------------------
Ends(k) == Correct(k) \/ Store(k) \/ Fail(k)

Next ==
  \/ \E k \in Keys : Count(k) \/ Ends(k) \/ Collect(k)
  \/ NextPage \/ PreviousPage \/ (\E f \in Filters : Submit(f))
  \/ Poll \/ Focus \/ Invalidate
  \/ (\E r \in 1..Rows : Arrive(r)) \/ Expire

Spec == Init /\ [][Next]_vars

\* The logs are polled, and what has been asked is answered or fails.
FairSpec == Spec /\ WF_vars(Poll) /\ WF_vars(list = "logs" /\ \E k \in Keys : Ends(k))

-----------------------------------------------------------------------------
TypeOK ==
  /\ list \in Lists /\ table \subseteq 1..Rows /\ low \in 0..Rows
  /\ page \in 1..MaxPage /\ filter \in Filters
  /\ cache \in [Keys -> Data \cup {NoData}]
  /\ fetch \in [Keys -> Running \cup {Idle}]
  /\ error \in [Keys -> {"none", "unavailable", "other"}]
  /\ walked \in 0..MaxPage /\ due \subseteq 1..Rows /\ kept \subseteq 1..MaxPage

\* An administrator who turns the pages from the first to the last, each of them
\* fetched for the walk (kept = {}), has seen every row the list had at the start
\* and still has, however many arrive meanwhile.  This is not so of a page shown
\* from the cache while it is fresh: it may be older than the page before it, and
\* then rows between them are skipped.
WalkMissesNothing ==
  (walked # 0 /\ kept = {} /\ page = walked /\ TotalPages <= walked)
  => due \cap Entries(filter) = {}

\* What is still due comes after the pages walked, if these were fetched for the walk.
DueComesLater ==
  walked # 0 /\ kept = {} =>
    \A r \in due :
      /\ r \in table
      /\ r \in Entries(filter) =>
           Cardinality(Before(Listed(filter), r)) >= walked * PageSize

\* Rows of tables stay where they have been found.
DataStay == list # "logs" => low = 0 /\ \A k \in Keys : cache[k].rows \subseteq Listed(k[2])

\* A row that is due has not been passed by, and data are not taken back.
IInv == TypeOK /\ DueComesLater /\ WalkMissesNothing /\ DataStay

\* A file without the note has every row the list shows under its filter.
ExportAgrees ==
  (list = "audit" /\ ~ExportNote(filter)) => cache[Key].rows \subseteq ExportedRows(filter)

\* When the administrator clicks no more and the query shown fails no more, the logs
\* become those of the filter and of a page that exists, however many rows arrived or
\* left during the fetches.
CatchesUp ==
  (/\ list = "logs" /\ <>[](error[Key] = "none")
   /\ <>[][\E k \in Keys : Correct(k)]_view)
  => <>[](/\ page <= TotalPages
            /\ cache[Key] = [rows |-> Slice(Entries(filter), page),
                             total |-> Cardinality(Entries(filter)), page |-> page])
=============================================================================
