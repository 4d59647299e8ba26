----------------------------- MODULE Pagination -----------------------------
(***************************************************************************)
(* Paging through a list: what a query asks for becomes a page and a page  *)
(* size, and the answer says which page comes next and which came before.  *)
(* A reader follows nextPage to the end and then prevPage back to the      *)
(* beginning.  There are two versions of it: pagination.ts refuses pages   *)
(* and sizes that make no sense, the search engine replaces them.          *)
(***************************************************************************)
EXTENDS Integers

CONSTANTS
  DefaultSize,  \* DEFAULT_PER_PAGE
  MaxSize,      \* MAX_PER_PAGE
  MaxAsked,     \* bound: the pages and sizes that queries ask for
  MaxTotal,     \* bound: the length of the list
  None          \* not asked for, or no such page

ConstantsAssumption ==
  /\ DefaultSize \in 1 .. MaxSize
  /\ MaxSize \in Nat
  /\ MaxAsked \in Int
  /\ MaxTotal \in Nat
  /\ None \notin Int

Asked == (-1) .. MaxAsked

VARIABLES
  version, \* the version it reads: "pagination" or "search-engine"
  total,   \* the length of the list
  asked,   \* the page and the size the reader asks for next
  start,   \* history: the first page the reader got
  answer,  \* the last answer, None before the first
  way,     \* "forth", "back", "end", or "refused"
  visits   \* history: how often the reader got each item on the way forth

vars == <<version, total, asked, start, answer, way, visits>>

Init ==
  /\ version \in {"pagination", "search-engine"}
  /\ total \in 0 .. MaxTotal
  /\ asked \in [page : Asked \cup {None}, perPage : Asked \cup {None}]
  /\ start = None
  /\ answer = None
  /\ way = "forth"
  /\ visits = [i \in 1 .. total |-> 0]

-----------------------------------------------------------------------------

Or(x, default) == IF x = None THEN default ELSE x

Refuses(q) ==
  /\ version = "pagination"
  /\ Or(q.page, 1) < 1 \/ Or(q.perPage, DefaultSize) < 0

PerPage(q) ==
  LET size == Or(q.perPage, DefaultSize)
  IN IF size > MaxSize THEN MaxSize ELSE IF size <= 0 THEN DefaultSize ELSE size

Page(q) == IF Or(q.page, 1) <= 0 THEN 1 ELSE Or(q.page, 1)

\* Mutant: pages count from zero when items are skipped.
Skip_FromZero(page, perPage) == page * perPage

Skip(page, perPage) == (page - 1) * perPage

\* Math.ceil(total / perPage)
Ceil(n, d) == (n + d - 1) \div d

HasMore(page, perPage) == page < Ceil(total, perPage)

\* Mutant: the first page has one before it.
PrevPage_Zero(page) == IF page >= 1 THEN page - 1 ELSE None

PrevPage(page) == IF page > 1 THEN page - 1 ELSE None

getPagination(page, perPage) ==
  [page |-> page, perPage |-> perPage, lastPage |-> Ceil(total, perPage),
   nextPage |-> IF HasMore(page, perPage) THEN page + 1 ELSE None,
   prevPage |-> PrevPage(page)]

-----------------------------------------------------------------------------

\* A query, and the answer to it.
Get(q) ==
  /\ ~Refuses(q)
  /\ answer' = getPagination(Page(q), PerPage(q))
  /\ start' = IF start = None THEN Page(q) ELSE start
  /\ visits' = [i \in 1 .. total |->
                  LET skip == Skip(Page(q), PerPage(q))
                  IN IF way = "forth" /\ skip < i /\ i <= skip + PerPage(q)
                     THEN visits[i] + 1 ELSE visits[i]]

GetPage ==
  /\ way \in {"forth", "back"}
  /\ asked.page # None \/ start = None
  /\ Get(asked)
  /\ asked' = [asked EXCEPT !.page =
                 IF way = "forth" THEN answer'.nextPage ELSE answer'.prevPage]
  /\ UNCHANGED <<total, way, version>>

Refused ==
  /\ way = "forth"
  /\ start = None
  /\ Refuses(asked)
  /\ way' = "refused"
  /\ UNCHANGED <<total, asked, start, answer, visits, version>>

\* There is no next page: the reader turns round, or has come back.
TurnRound ==
  /\ way = "forth"
  /\ start # None
  /\ asked.page = None
  /\ way' = "back"
  /\ asked' = [asked EXCEPT !.page = answer.prevPage]
  /\ UNCHANGED <<total, start, answer, visits, version>>

Finish ==
  /\ way = "back"
  /\ asked.page = None
  /\ way' = "end"
  /\ UNCHANGED <<total, asked, start, answer, visits, version>>

Next == GetPage \/ Refused \/ TurnRound \/ Finish

Spec == Init /\ [][Next]_vars

\* The reader goes on.
Fairness == WF_vars(Next)

-----------------------------------------------------------------------------
(* Properties                                                              *)

\* Following nextPage, the reader gets every item from the first page on, and
\* none of them twice.
EveryItemOnce ==
  way \in {"back", "end"} =>
    \A i \in 1 .. total :
      visits[i] = IF i > (start - 1) * answer.perPage THEN 1 ELSE 0

\* The reader comes to the end and back to the first page.
ReadersComeBack == <>(way = "refused" \/ (way = "end" /\ answer.page = 1))

=============================================================================
