------------------------------ MODULE Problems ------------------------------
(***************************************************************************)
(* The problems: the list of them, the page of one, and what Judge sends   *)
(* to a compile server for a submission from that page.                    *)
(*                                                                         *)
(* The table is the database's, and whoever maintains it changes it        *)
(* between any two queries.  Every page and every submission is a query of *)
(* its own, and any of them may fail.                                      *)
(*                                                                         *)
(* Of a problem there are what it is judged by, its tests and limits, as   *)
(* one value, and the preset code.  That is a sequence of what a browser   *)
(* reads as one character: characters, and character references, such as   *)
(* &lt; or the &curren of "int &current".                                  *)
(***************************************************************************)
EXTENDS Naturals, Sequences, FiniteSets, Functions

CONSTANTS
  User,        \* the open tabs of browsers
  Ids,         \* the numbers of problems
  Char,        \* characters: ampersands that begin no reference are, and a line end
               \* of any kind is one
  Reference,   \* HTML's character references
  Means,       \* what each of them is a reference to
  Headers,     \* preset code
  Tails,       \* tests, with the limits that belong to them
  Nothing,     \* no page, no list, no submission, no problem
  Garbage,     \* no tests, and limits that were not initialized
  MaxChanges   \* bound: how often the table changes

Entry == [header : Headers, tail : Tails]

ASSUME ProblemsAssumption ==
  /\ Ids \subseteq Nat \ {0} /\ IsFiniteSet(Ids)
  /\ {"<", ">"} \subseteq Char /\ {"&lt;", "&gt;"} \subseteq Reference
  /\ Char \cap Reference = {}
  /\ Means \in [Reference -> Char] /\ Means["&lt;"] = "<" /\ Means["&gt;"] = ">"
  /\ \A h \in Headers : h \in Seq(Char \cup Reference)
  /\ MaxChanges \in Nat
  /\ Nothing \notin Entry \cup Tails /\ Garbage \notin Tails

VARIABLES
  table,      \* the problems of the database by their number
  changes,
  list,       \* the list a tab shows
  page,       \* the problem a tab shows: its number and what the editor holds
  judging,    \* the number that the last submission of a tab is for
  request,    \* what Judge sent to a compile server for it
  past,       \* history: what each number was in the table
  since       \* history: what the number of a page, or of a submission from
              \* it, was in the table since the page was made

web == <<list, page, judging, request>>
vars == <<table, changes, web, past, since>>

Row(id) == IF id \in DOMAIN table THEN table[id] ELSE Nothing

Init ==
  /\ \E known \in SUBSET Ids : table \in [known -> Entry]
  /\ changes = 0
  /\ list = [u \in User |-> Nothing]
  /\ page = [u \in User |-> Nothing]
  /\ judging = [u \in User |-> Nothing]
  /\ request = [u \in User |-> Nothing]
  /\ past = [id \in Ids |-> {Row(id)}]
  /\ since = [u \in User |-> [page |-> {}, judging |-> {}]]

-----------------------------------------------------------------------------
(* The database *)

\* Somebody adds, edits or, with Nothing, removes problem id.
Change(id, e) ==
  /\ changes < MaxChanges
  /\ changes' = changes + 1
  /\ table' = IF e = Nothing THEN [i \in DOMAIN table \ {id} |-> table[i]]
              ELSE [i \in DOMAIN table \cup {id} |-> IF i = id THEN e ELSE table[i]]
  /\ past' = [past EXCEPT ![id] = @ \cup {e}]
  /\ since' = [u \in User |->
       [page |-> IF page[u] # Nothing /\ page[u].id = id
                 THEN since[u].page \cup {e} ELSE since[u].page,
        judging |-> IF judging[u] = id
                    THEN since[u].judging \cup {e} ELSE since[u].judging]]
  /\ UNCHANGED web

\* Mutant: without the condition on id, the first of all rows.
FirstRow(id) ==
  {Nothing} \cup (IF DOMAIN table = {} THEN {}
                  ELSE {table[CHOOSE i \in DOMAIN table : \A j \in DOMAIN table : i <= j]})

\* What GetOneProblem may find: a failed query is the same as no row.
GetOneProblem(id) == {Nothing, Row(id)}

\* The orders in which "select *" may return the rows.
Rows == Bijection(1 .. Cardinality(DOMAIN table), DOMAIN table)

-----------------------------------------------------------------------------
(* The pages *)

\* Mutant: only one of the brackets.
EscapeOne(text) ==
  [i \in DOMAIN text |-> IF text[i] = ">" THEN "&gt;" ELSE text[i]]

Escaped(c) == IF c = "<" THEN "&lt;" ELSE IF c = ">" THEN "&gt;" ELSE c

\* The brackets only: a reference stays one.
EscapeHtml(text) == [i \in DOMAIN text |-> Escaped(text[i])]

\* What the browser's parser makes of the element's text: references are what they
\* mean, and from a bracket on it is no text.
Character(c) == IF c \in Reference THEN Means[c] ELSE c
TextContent(html) ==
  LET tags == {i \in DOMAIN html : html[i] = "<"}
      end == IF tags = {} THEN Len(html) ELSE (CHOOSE i \in tags : \A j \in tags : i <= j) - 1
  IN  [i \in 1 .. end |-> Character(html[i])]

\* Mutant: the rows as they come.
AllUnsorted(u) ==
  /\ list' \in {[list EXCEPT ![u] = r] : r \in Rows}
  /\ UNCHANGED <<table, changes, page, judging, request, past, since>>

\* std::sort: the rows in an order in which none is less than one before it.
sort(rows) ==
  LET order == CHOOSE p \in Bijection(DOMAIN rows, DOMAIN rows) :
                 \A i, j \in DOMAIN rows : i < j => ~(rows[p[j]] < rows[p[i]])
  IN  [i \in DOMAIN rows |-> rows[order[i]]]

\* The list, sorted by number; or a page that says that there is none.
AllProblems(u) ==
  /\ \/ \E r \in Rows : list' = [list EXCEPT ![u] = sort(r)]
     \/ list' = [list EXCEPT ![u] = Nothing]
  /\ UNCHANGED <<table, changes, page, judging, request, past, since>>

\* Mutant: the result of GetOneProblem is not looked at, the page has no number.
ProblemUnchecked(u, id) ==
  /\ Row(id) = Nothing
  /\ page' = [page EXCEPT ![u] = [id |-> 0, editor |-> <<>>]]
  /\ UNCHANGED <<table, changes, list, judging, request, past, since>>

\* The page of a problem, by a link of any age; or one that says that there is
\* no such problem, and has no editor.
Problem(u, id) ==
  /\ \E p \in GetOneProblem(id) :
       page' = [page EXCEPT ![u] =
         IF p = Nothing THEN Nothing
         ELSE [id |-> id, editor |-> TextContent(EscapeHtml(p.header))]]
  /\ since' = [since EXCEPT ![u].page = {Row(id)}]
  /\ UNCHANGED <<table, changes, list, judging, request, past>>

-----------------------------------------------------------------------------
(* A submission *)

\* The number is taken from the page, the code from its editor.
submitCode(u) ==
  /\ page[u] # Nothing
  /\ judging' = [judging EXCEPT ![u] = page[u].id]
  /\ request' = [request EXCEPT ![u] = Nothing]
  /\ since' = [since EXCEPT ![u].judging = since[u].page]
  /\ UNCHANGED <<table, changes, list, page, past>>

\* The beginning of Judge.  Whether GetOneProblem found the problem is not
\* looked at: what is sent then has no tests, and limits nobody has set.
Judge(u) ==
  /\ judging[u] # Nothing /\ request[u] = Nothing
  /\ \E p \in GetOneProblem(judging[u]) :
       request' = [request EXCEPT ![u] = IF p = Nothing THEN Garbage ELSE p.tail]
  /\ UNCHANGED <<table, changes, list, page, judging, past, since>>

-----------------------------------------------------------------------------

Next ==
  \/ \E id \in Ids : \E e \in Entry \cup {Nothing} : Change(id, e)
  \/ \E u \in User :
       \/ AllProblems(u) \/ submitCode(u) \/ Judge(u)
       \/ \E id \in Ids : Problem(u, id)

Spec == Init /\ [][Next]_vars

-----------------------------------------------------------------------------
(* Properties *)

\* The type invariant: a page has the number of a problem.
TypeOK ==
  /\ \E known \in SUBSET Ids : table \in [known -> Entry]
  /\ changes \in 0 .. MaxChanges
  /\ \A u \in User :
       /\ list[u] = Nothing \/ list[u] \in Seq(Ids)
       /\ page[u] = Nothing \/ (page[u].id \in Ids /\ page[u].editor \in Seq(Char))
       /\ judging[u] \in Ids \cup {Nothing}
       /\ request[u] \in Tails \cup {Garbage, Nothing}
  /\ past \in [Ids -> SUBSET (Entry \cup {Nothing})]
  /\ since \in [User -> [page : SUBSET (Entry \cup {Nothing}),
                         judging : SUBSET (Entry \cup {Nothing})]]

\* A list names each problem once, in the order of the numbers, whatever the
\* order of the rows: all that were in the table at all times, and no number
\* that was never a problem's.
ListInOrder ==
  \A u \in User : list[u] # Nothing =>
    /\ \A i, j \in DOMAIN list[u] : i < j => list[u][i] < list[u][j]
    /\ \A i \in DOMAIN list[u] : past[list[u][i]] # {Nothing}
    /\ \A id \in Ids : Nothing \notin past[id] => \E i \in DOMAIN list[u] : list[u][i] = id

\* Whatever happened to the table, the editor holds preset code that its own
\* problem had since the page was made: every character of it in its place, brackets
\* included.  What is read as a character reference is not held: EscapeHtml leaves
\* the ampersand, and the editor has what the reference means.
EditorHoldsHeader ==
  \A u \in User : page[u] # Nothing =>
    \E e \in since[u].page \ {Nothing} :
      /\ DOMAIN page[u].editor = DOMAIN e.header
      /\ \A i \in DOMAIN e.header :
           e.header[i] \notin Reference => page[u].editor[i] = e.header[i]

\* However the table changes between page, click and Judge, a submission is
\* judged by tests that its own problem had since the page was made, together
\* with the limits of these tests; or, when the query found nothing, by none.
JudgedByOwnTests ==
  \A u \in User :
    request[u] \in Tails => \E e \in since[u].judging \ {Nothing} : request[u] = e.tail

=============================================================================
