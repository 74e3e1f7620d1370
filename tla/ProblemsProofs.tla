--------------------------- MODULE ProblemsProofs ---------------------------
(***************************************************************************)
(* What Problems keeps for any table, any number of tabs and any preset    *)
(* code, however often the table changes.                                  *)
(***************************************************************************)
EXTENDS Problems, SequenceTheorems, FiniteSetTheorems, TLAPS

\* What the table and the tabs hold.
Typed ==
  /\ \E known \in SUBSET Ids : table \in [known -> Entry]
  /\ changes \in 0 .. MaxChanges
  /\ list \in [User -> Seq(Ids) \cup {Nothing}]
  /\ past \in [Ids -> SUBSET (Entry \cup {Nothing})]
  /\ page \in [User -> [id : Ids, editor : Seq(Char)] \cup {Nothing}]
  /\ judging \in [User -> Ids \cup {Nothing}]
  /\ request \in [User -> Tails \cup {Garbage, Nothing}]
  /\ since \in [User -> [page : SUBSET (Entry \cup {Nothing}),
                         judging : SUBSET (Entry \cup {Nothing})]]

\* The histories are up to date with the table.
Tracked ==
  /\ \A id \in Ids : Row(id) \in past[id]
  /\ \A u \in User :
       /\ page[u] # Nothing => Row(page[u].id) \in since[u].page
       /\ judging[u] # Nothing => Row(judging[u]) \in since[u].judging

\* The inductive invariant.
IInv == Typed /\ Tracked /\ ListInOrder /\ EditorHoldsHeader /\ JudgedByOwnTests

-----------------------------------------------------------------------------

\* A character that was escaped is no bracket and is read as it was written; a
\* reference stays what it was, and is read as what it means.
LEMMA EscapedCharacter ==
  /\ \A c \in Char : Escaped(c) # "<" /\ Character(Escaped(c)) = c
  /\ \A c \in Reference : Escaped(c) # "<" /\ Character(Escaped(c)) = Means[c]
  /\ \A c \in Char \cup Reference : /\ Escaped(c) \in Char \cup Reference
                                    /\ Character(Escaped(c)) \in Char
BY ProblemsAssumption DEF Escaped, Character

\* EscapeHtml leaves no bracket, so that the editor has as many characters as were
\* written: each one itself, a bracket or not, and for each reference what it means.
\* Text without references arrives as it is.
THEOREM EscapedIsShown ==
  ASSUME NEW h \in Seq(Char \cup Reference)
  PROVE  LET shown == TextContent(EscapeHtml(h))
         IN  /\ shown \in Seq(Char) /\ DOMAIN shown = DOMAIN h
             /\ \A i \in DOMAIN h :
                  shown[i] = IF h[i] \in Reference THEN Means[h[i]] ELSE h[i]
             /\ h \in Seq(Char) => shown = h
<1> DEFINE n == Len(h)
           html == EscapeHtml(h)
           shown == TextContent(html)
<1>1. n \in Nat /\ DOMAIN h = 1 .. n /\ \A i \in 1 .. n : h[i] \in Char \cup Reference
  OBVIOUS
<1>2. html = [i \in 1 .. n |-> Escaped(h[i])]
  BY <1>1 DEF EscapeHtml
<1>3. \A i \in 1 .. n : Escaped(h[i]) \in Char \cup Reference /\ Escaped(h[i]) # "<"
  BY <1>1, EscapedCharacter
<1>4. html \in Seq(Char \cup Reference) /\ Len(html) = n
  <2>1. html \in [1 .. n -> Char \cup Reference]
    BY <1>2, <1>3
  <2>2. html \in Seq(Char \cup Reference)
    BY <1>1, <2>1, SeqDef
  <2> HIDE DEF html
  <2> QED
    BY <1>1, <2>1, <2>2
<1>5. {i \in DOMAIN html : html[i] = "<"} = {}
  BY <1>2, <1>3
<1>6. shown = [i \in 1 .. n |-> Character(html[i])]
  BY <1>4, <1>5 DEF TextContent
<1>7. shown = TextContent(EscapeHtml(h))
  OBVIOUS
<1> HIDE DEF shown, html
<1>8. \A i \in 1 .. n : /\ shown[i] \in Char
                        /\ shown[i] = IF h[i] \in Reference THEN Means[h[i]] ELSE h[i]
  BY <1>1, <1>2, <1>6, EscapedCharacter
<1>9. shown \in Seq(Char) /\ DOMAIN shown = DOMAIN h
  <2>1. shown \in [1 .. n -> Char] /\ DOMAIN shown = 1 .. n
    BY <1>6, <1>8
  <2> QED
    BY <1>1, <2>1, SeqDef
<1>10. ASSUME h \in Seq(Char) PROVE shown = h
  <2>1. \A i \in 1 .. n : h[i] \notin Reference
    <3>1. \A i \in 1 .. n : h[i] \in Char
      BY <1>10
    <3> QED
      BY <3>1, ProblemsAssumption
  <2>2. \A i \in 1 .. n : shown[i] = h[i]
    BY <1>8, <2>1
  <2>3. h = [i \in 1 .. n |-> h[i]] /\ shown = [i \in 1 .. n |-> shown[i]]
    BY <1>1, <1>6
  <2> QED
    BY <2>2, <2>3
<1> QED
  BY <1>1, <1>7, <1>8, <1>9, <1>10

\* What an editor shows of preset code is it, but for the references.
Shows(text, header) ==
  /\ DOMAIN text = DOMAIN header
  /\ \A i \in DOMAIN header : header[i] \notin Reference => text[i] = header[i]

\* The page of a problem shows its preset code.
LEMMA HeaderShown ==
  ASSUME NEW h \in Headers
  PROVE  TextContent(EscapeHtml(h)) \in Seq(Char) /\ Shows(TextContent(EscapeHtml(h)), h)
<1>1. h \in Seq(Char \cup Reference)
  BY ProblemsAssumption
<1> QED
  BY <1>1, EscapedIsShown DEF Shows

\* A row is a problem or nothing.
LEMMA RowType == ASSUME Typed, NEW id PROVE Row(id) \in Entry \cup {Nothing}
BY DEF Typed, Row

\* The table has a row of a problem where it has one, and finitely many.
LEMMA TableRows ==
  ASSUME Typed
  PROVE  /\ DOMAIN table \in SUBSET Ids /\ IsFiniteSet(DOMAIN table)
         /\ Cardinality(DOMAIN table) \in Nat
         /\ \A id : id \in DOMAIN table <=> Row(id) # Nothing
<1>1. PICK known \in SUBSET Ids : table \in [known -> Entry]
  BY DEF Typed
<1>2. DOMAIN table = known /\ IsFiniteSet(known) /\ Cardinality(known) \in Nat
  BY <1>1, ProblemsAssumption, FS_Subset, FS_CardinalityType
<1>3. \A id \in known : table[id] \in Entry
  BY <1>1
<1>4. \A id : id \in DOMAIN table <=> Row(id) # Nothing
  BY <1>2, <1>3, ProblemsAssumption DEF Row
<1> QED
  BY <1>2, <1>4

\* Rows have an order without descents: each goes where as many rows are as are
\* less than it.
LEMMA OrderExists ==
  ASSUME NEW n \in Nat, NEW S \in SUBSET Nat, NEW r \in Bijection(1 .. n, S)
  PROVE  \E p \in Bijection(1 .. n, 1 .. n) :
           \A i, j \in 1 .. n : i < j => ~(r[p[j]] < r[p[i]])
<1> DEFINE N == 1 .. n
           Less(i) == {j \in N : r[j] < r[i]}
           rank == [i \in N |-> Cardinality(Less(i)) + 1]
           p == [k \in N |-> CHOOSE i \in N : rank[i] = k]
<1>1. \A i \in N : r[i] \in Nat
  BY DEF Bijection, Injection
<1>2. \A i, j \in N : r[i] = r[j] => i = j
  BY DEF Bijection, Injection, IsInjective
<1>3. IsFiniteSet(N) /\ Cardinality(N) = n
  BY FS_Interval
<1>4. \A i \in N : /\ IsFiniteSet(Less(i))
                   /\ Cardinality(Less(i)) \in Nat /\ Cardinality(Less(i)) < n
  <2> TAKE i \in N
  <2>1. Less(i) \in SUBSET N /\ i \in N \ Less(i)
    BY <1>1
  <2>2. IsFiniteSet(Less(i)) /\ Cardinality(Less(i)) <= n
    BY <1>3, <2>1, FS_Subset
  <2>3. Cardinality(Less(i)) # n
    BY <1>3, <2>1, FS_Subset
  <2>4. Cardinality(Less(i)) \in Nat
    BY <2>2, FS_CardinalityType
  <2> QED
    BY <2>2, <2>3, <2>4
<1>5. \A i, j \in N : r[i] < r[j] => Cardinality(Less(i)) < Cardinality(Less(j))
  <2> TAKE i, j \in N
  <2> HAVE r[i] < r[j]
  <2>1. Less(i) \in SUBSET Less(j)
    BY <1>1
  <2>2. i \in Less(j) \ Less(i)
    BY <1>1
  <2>3. Cardinality(Less(i)) <= Cardinality(Less(j)) /\ Cardinality(Less(i)) # Cardinality(Less(j))
    BY <1>4, <2>1, <2>2, FS_Subset
  <2> HIDE DEF Less
  <2>4. Cardinality(Less(i)) \in Nat /\ Cardinality(Less(j)) \in Nat
    BY <1>4
  <2> QED
    BY <2>3, <2>4
<1> HIDE DEF Less
<1>6. rank \in Injection(N, N)
  <2>1. rank \in [N -> N]
    BY <1>4
  <2>2. \A i, j \in N : i # j => rank[i] # rank[j]
    <3> TAKE i, j \in N
    <3> HAVE i # j
    <3>1. r[i] < r[j] \/ r[j] < r[i]
      BY <1>1, <1>2
    <3>2. Cardinality(Less(i)) # Cardinality(Less(j))
      BY <1>4, <1>5, <3>1
    <3> QED
      BY <1>4, <3>2
  <2> QED
    BY <2>1, <2>2 DEF Injection, IsInjective
<1>7. \A i \in N : rank[i] = Cardinality(Less(i)) + 1
  OBVIOUS
<1> HIDE DEF rank
<1>8. \A k \in N : \E i \in N : rank[i] = k
  <2>1. rank \in Surjection(N, N)
    BY <1>3, <1>6, FS_Injection
  <2> QED
    BY <2>1 DEF Surjection
<1>9. \A k \in N : p[k] \in N /\ rank[p[k]] = k
  BY <1>8
<1>10. p \in Bijection(N, N)
  <2>1. p \in [N -> N]
    BY <1>9
  <2> HIDE DEF p
  <2>2. \A k, l \in N : p[k] = p[l] => k = l
    BY <1>9
  <2>3. \A i \in N : p[rank[i]] = i
    BY <1>6, <1>9 DEF Injection, IsInjective
  <2>4. \A i \in N : \E k \in N : p[k] = i
    BY <1>6, <2>3 DEF Injection
  <2> QED
    BY <2>1, <2>2, <2>4 DEF Bijection, Injection, Surjection, IsInjective
<1> HIDE DEF p
<1>11. ASSUME NEW i \in N, NEW j \in N, i < j PROVE ~(r[p[j]] < r[p[i]])
  <2>1. p[i] \in N /\ p[j] \in N /\ rank[p[i]] = i /\ rank[p[j]] = j
    BY <1>9
  <2>2. /\ Cardinality(Less(p[i])) \in Nat /\ Cardinality(Less(p[j])) \in Nat
        /\ i = Cardinality(Less(p[i])) + 1 /\ j = Cardinality(Less(p[j])) + 1
    BY <1>4, <1>7, <2>1
  <2>3. ~(Cardinality(Less(p[j])) < Cardinality(Less(p[i])))
    BY <1>11, <2>2
  <2> QED
    BY <1>5, <2>1, <2>3
<1> QED
  BY <1>10, <1>11

\* std::sort of rows without duplicates.
LEMMA SortSorts ==
  ASSUME NEW n \in Nat, NEW S \in SUBSET Nat, NEW r \in Bijection(1 .. n, S)
  PROVE  /\ sort(r) \in Seq(S) /\ DOMAIN sort(r) = 1 .. n
         /\ \A i, j \in 1 .. n : i < j => sort(r)[i] < sort(r)[j]
         /\ \A x \in S : \E i \in 1 .. n : sort(r)[i] = x
<1>1. /\ r \in [1 .. n -> S] /\ DOMAIN r = 1 .. n
      /\ \A i, j \in 1 .. n : r[i] = r[j] => i = j
      /\ \A x \in S : \E i \in 1 .. n : r[i] = x
  BY DEF Bijection, Injection, Surjection, IsInjective
<1> DEFINE Sorting(p) == \A i, j \in 1 .. n : i < j => ~(r[p[j]] < r[p[i]])
           order == CHOOSE p \in Bijection(1 .. n, 1 .. n) : Sorting(p)
<1>2. order \in Bijection(1 .. n, 1 .. n) /\ Sorting(order)
  BY OrderExists
<1>3. sort(r) = [i \in 1 .. n |-> r[order[i]]]
  BY <1>1 DEF sort
<1> HIDE DEF order
<1>4. /\ \A i \in 1 .. n : order[i] \in 1 .. n
      /\ \A i, j \in 1 .. n : order[i] = order[j] => i = j
      /\ \A i \in 1 .. n : \E k \in 1 .. n : order[k] = i
  BY <1>2 DEF Bijection, Injection, Surjection, IsInjective
<1>5. sort(r) \in [1 .. n -> S]
  BY <1>1, <1>3, <1>4
<1>6. \A i, j \in 1 .. n : i < j => sort(r)[i] < sort(r)[j]
  <2> TAKE i, j \in 1 .. n
  <2> HAVE i < j
  <2>1. r[order[i]] # r[order[j]]
    <3>1. i # j
      OBVIOUS
    <3>2. order[i] \in 1 .. n /\ order[j] \in 1 .. n /\ order[i] # order[j]
      BY <1>4, <3>1
    <3> QED
      BY <1>1, <3>2
  <2>2. r[order[i]] \in Nat /\ r[order[j]] \in Nat
    BY <1>1, <1>4
  <2>3. ~(r[order[j]] < r[order[i]])
    BY <1>2
  <2> QED
    BY <1>3, <2>1, <2>2, <2>3
<1>7. \A x \in S : \E i \in 1 .. n : sort(r)[i] = x
  <2> TAKE x \in S
  <2>1. PICK k \in 1 .. n : r[k] = x
    BY <1>1
  <2>2. PICK i \in 1 .. n : order[i] = k
    BY <1>4
  <2> QED
    BY <1>3, <2>1, <2>2
<1> QED
  BY <1>5, <1>6, <1>7, SeqDef

\* At first no tab shows anything.
LEMMA InitInv == Init => IInv
<1> SUFFICES ASSUME Init PROVE IInv
  OBVIOUS
<1> USE DEF Init
<1>1. Typed
  <2>1. changes \in 0 .. MaxChanges
    <3>1. changes = 0
      OBVIOUS
    <3>2. MaxChanges \in Nat
      BY ProblemsAssumption
    <3> QED
      BY ONLY <3>1, <3>2
  <2>2. \A id \in Ids : Row(id) \in Entry \cup {Nothing}
    BY DEF Row
  <2>3. past \in [Ids -> SUBSET (Entry \cup {Nothing})]
    BY <2>2
  <2> QED
    BY <2>1, <2>3 DEF Typed
<1>2. Tracked
  BY DEF Tracked
<1>5. ListInOrder
  BY DEF ListInOrder
<1>3. EditorHoldsHeader
  BY DEF EditorHoldsHeader
<1>4. JudgedByOwnTests
  BY ProblemsAssumption DEF JudgedByOwnTests
<1> QED
  BY <1>1, <1>2, <1>3, <1>4, <1>5 DEF IInv

\* Whoever changes the table adds to the histories of those it concerns.
LEMMA ChangeInv ==
  ASSUME IInv, NEW id \in Ids, NEW e \in Entry \cup {Nothing}, Change(id, e)
  PROVE  IInv'
<1> USE DEF IInv
<1>0. /\ UNCHANGED web /\ page' = page /\ judging' = judging /\ request' = request
      /\ list' = list
  BY DEF Change, web
<1>1. \E known \in SUBSET Ids : table' \in [known -> Entry]
  <2>1. PICK known \in SUBSET Ids : table \in [known -> Entry]
    BY DEF Typed
  <2>2. CASE e = Nothing
    <3>1. table' \in [known \ {id} -> Entry]
      BY <2>1, <2>2 DEF Change
    <3> QED
      BY <3>1
  <2>3. CASE e # Nothing
    <3>1. table' \in [known \cup {id} -> Entry]
      BY <2>1, <2>3 DEF Change
    <3> QED
      BY <3>1
  <2> QED
    BY <2>2, <2>3
<1>2. since' = [u \in User |->
         [page |-> IF page[u] # Nothing /\ page[u].id = id
                   THEN since[u].page \cup {e} ELSE since[u].page,
          judging |-> IF judging[u] = id
                      THEN since[u].judging \cup {e} ELSE since[u].judging]]
  BY DEF Change
<1>3. since' \in [User -> [page : SUBSET (Entry \cup {Nothing}),
                           judging : SUBSET (Entry \cup {Nothing})]]
  BY <1>2 DEF Typed
<1>4. \A i : Row(i)' = IF i = id THEN e ELSE Row(i)
  BY DEF Change, Row
<1>5. \A u \in User : /\ since[u].page \subseteq since'[u].page
                      /\ since[u].judging \subseteq since'[u].judging
  BY <1>2
<1>10. past' = [past EXCEPT ![id] = @ \cup {e}]
  BY DEF Change
<1>11. changes' \in 0 .. MaxChanges
  <2>1. changes \in 0 .. MaxChanges
    BY DEF Typed
  <2>2. changes < MaxChanges /\ changes' = changes + 1
    BY DEF Change
  <2>3. MaxChanges \in Nat
    BY ProblemsAssumption
  <2> QED
    BY ONLY <2>1, <2>2, <2>3
<1>12. /\ past' \in [Ids -> SUBSET (Entry \cup {Nothing})]
       /\ e \in past'[id] /\ \A i \in Ids : past[i] \subseteq past'[i]
  BY <1>10 DEF Typed
<1>6. Typed'
  BY <1>0, <1>1, <1>3, <1>11, <1>12 DEF Typed
<1>7. Tracked'
  <2>1. \A i \in Ids : Row(i)' \in past'[i]
    BY <1>4, <1>12 DEF Tracked
  <2> QED
    BY <1>0, <1>2, <1>4, <2>1 DEF Tracked
<1>13. ListInOrder'
  <2> SUFFICES ASSUME NEW u \in User, list[u] # Nothing
               PROVE  /\ \A i, j \in DOMAIN list[u] : i < j => list[u][i] < list[u][j]
                      /\ \A i \in DOMAIN list[u] : past'[list[u][i]] # {Nothing}
                      /\ \A x \in Ids : Nothing \notin past'[x]
                                        => \E i \in DOMAIN list[u] : list[u][i] = x
    BY <1>0 DEF ListInOrder
  <2>1. \A i, j \in DOMAIN list[u] : i < j => list[u][i] < list[u][j]
    BY DEF ListInOrder
  <2>2. \A i \in DOMAIN list[u] : past'[list[u][i]] # {Nothing}
    <3> TAKE i \in DOMAIN list[u]
    <3>1. list[u] \in Seq(Ids)
      BY DEF Typed
    <3>2. list[u][i] \in Ids
      BY <3>1
    <3>3. past[list[u][i]] # {Nothing} /\ past[list[u][i]] # {}
      BY <3>2 DEF ListInOrder, Tracked
    <3> QED
      BY <1>12, <3>2, <3>3
  <2>3. \A x \in Ids : Nothing \notin past'[x] => \E i \in DOMAIN list[u] : list[u][i] = x
    BY <1>12 DEF ListInOrder
  <2> QED
    BY <2>1, <2>2, <2>3
<1>8. EditorHoldsHeader'
  <2> SUFFICES ASSUME NEW u \in User, page[u] # Nothing
               PROVE  \E x \in since'[u].page \ {Nothing} : Shows(page[u].editor, x.header)
    BY <1>0 DEF EditorHoldsHeader, Shows
  <2> QED
    BY <1>5 DEF EditorHoldsHeader, Shows
<1>9. JudgedByOwnTests'
  BY <1>0, <1>5 DEF JudgedByOwnTests
<1> QED
  BY <1>6, <1>7, <1>8, <1>9, <1>13

\* A list that is made has the rows of the table, in order.
LEMMA AllProblemsInv ==
  ASSUME IInv, NEW u \in User, AllProblems(u)
  PROVE  IInv'
<1> USE DEF IInv
<1>1. UNCHANGED <<table, changes, page, judging, request, past, since>>
  BY DEF AllProblems
<1>2. PICK shown : /\ list' = [list EXCEPT ![u] = shown]
                   /\ shown = Nothing \/ \E r \in Rows : shown = sort(r)
  BY DEF AllProblems
<1>3. CASE shown = Nothing
  <2>1. Typed'
    BY <1>1, <1>2, <1>3 DEF Typed
  <2>2. ListInOrder'
    BY <1>1, <1>2, <1>3 DEF ListInOrder, Typed
  <2> QED
    BY <1>1, <2>1, <2>2 DEF Tracked, Row, EditorHoldsHeader, JudgedByOwnTests
<1>4. CASE shown # Nothing
  <2> DEFINE n == Cardinality(DOMAIN table)
  <2>1. PICK r \in Bijection(1 .. n, DOMAIN table) : shown = sort(r)
    BY <1>2, <1>4 DEF Rows
  <2>2. n \in Nat /\ DOMAIN table \in SUBSET Ids
    BY TableRows
  <2>10. DOMAIN table \in SUBSET Nat
    BY <2>2, ProblemsAssumption
  <2> HIDE DEF n
  <2>3. /\ shown \in Seq(DOMAIN table) /\ DOMAIN shown = 1 .. n
        /\ \A i, j \in 1 .. n : i < j => shown[i] < shown[j]
        /\ \A x \in DOMAIN table : \E i \in 1 .. n : shown[i] = x
    BY ONLY <2>1, <2>2, <2>10, SortSorts
  <2>4. shown \in Seq(Ids) /\ \A i \in 1 .. n : shown[i] \in DOMAIN table
    BY <2>2, <2>3
  <2>5. \A x \in DOMAIN table : past[x] # {Nothing}
    BY <2>2, TableRows DEF Tracked
  <2>6. \A x \in Ids : Nothing \notin past[x] => x \in DOMAIN table
    BY TableRows DEF Tracked
  <2>7. list'[u] = shown /\ \A v \in User \ {u} : list'[v] = list[v]
    BY <1>2 DEF Typed
  <2>8. Typed'
    BY <1>1, <1>2, <2>4 DEF Typed
  <2>9. ListInOrder'
    <3> SUFFICES ASSUME NEW v \in User, list'[v] # Nothing
                 PROVE  /\ \A i, j \in DOMAIN list'[v] : i < j => list'[v][i] < list'[v][j]
                        /\ \A i \in DOMAIN list'[v] : past[list'[v][i]] # {Nothing}
                        /\ \A x \in Ids : Nothing \notin past[x]
                                          => \E i \in DOMAIN list'[v] : list'[v][i] = x
      BY <1>1 DEF ListInOrder
    <3>1. CASE v = u
      BY <2>3, <2>4, <2>5, <2>6, <2>7, <3>1
    <3>2. CASE v # u
      BY <2>7, <3>2 DEF ListInOrder
    <3> QED
      BY <3>1, <3>2
  <2> QED
    BY <1>1, <2>8, <2>9 DEF Tracked, Row, EditorHoldsHeader, JudgedByOwnTests
<1> QED
  BY <1>3, <1>4

\* The page of a problem holds what is in the table at that moment.
LEMMA ProblemInv ==
  ASSUME IInv, NEW u \in User, NEW id \in Ids, Problem(u, id)
  PROVE  IInv'
<1> USE DEF IInv
<1>0. UNCHANGED <<table, changes, list, past, judging, request>>
  BY DEF Problem
<1>1. PICK p \in GetOneProblem(id) :
        page' = [page EXCEPT ![u] =
          IF p = Nothing THEN Nothing
          ELSE [id |-> id, editor |-> TextContent(EscapeHtml(p.header))]]
  BY DEF Problem
<1>2. since' = [since EXCEPT ![u].page = {Row(id)}]
  BY DEF Problem
<1>3. p = Nothing \/ (p = Row(id) /\ p \in Entry)
  BY <1>1, RowType DEF GetOneProblem
<1>4. p # Nothing => /\ TextContent(EscapeHtml(p.header)) \in Seq(Char)
                     /\ Shows(TextContent(EscapeHtml(p.header)), p.header)
  BY <1>3, HeaderShown DEF Entry
<1>5. page' \in [User -> [id : Ids, editor : Seq(Char)] \cup {Nothing}]
  BY <1>1, <1>4 DEF Typed
<1>6. /\ since' \in [User -> [page : SUBSET (Entry \cup {Nothing}),
                              judging : SUBSET (Entry \cup {Nothing})]]
      /\ since'[u].page = {Row(id)}
      /\ \A v \in User : since'[v].judging = since[v].judging
      /\ \A v \in User \ {u} : since'[v] = since[v] /\ page'[v] = page[v]
  BY <1>1, <1>2, RowType DEF Typed
<1>7. page'[u] # Nothing =>
        /\ p # Nothing /\ p = Row(id)
        /\ page'[u].id = id /\ Shows(page'[u].editor, p.header)
  BY <1>1, <1>3, <1>4 DEF Typed
<1>8. Typed'
  BY <1>0, <1>5, <1>6 DEF Typed
<1>9. Tracked'
  <2>1. \A i : Row(i)' = Row(i)
    BY <1>0 DEF Row
  <2> QED
    BY <1>0, <1>6, <1>7, <2>1 DEF Tracked
<1>10. EditorHoldsHeader'
  BY <1>6, <1>7 DEF EditorHoldsHeader, Shows
<1>11. JudgedByOwnTests'
  BY <1>0, <1>6 DEF JudgedByOwnTests
<1>12. ListInOrder'
  BY <1>0 DEF ListInOrder
<1> QED
  BY <1>8, <1>9, <1>10, <1>11, <1>12

\* A submission takes the history of its page with it.
LEMMA SubmitInv ==
  ASSUME IInv, NEW u \in User, submitCode(u)
  PROVE  IInv'
<1> USE DEF IInv
<1>1. /\ since' = [since EXCEPT ![u].judging = since[u].page]
      /\ judging' = [judging EXCEPT ![u] = page[u].id]
      /\ request' = [request EXCEPT ![u] = Nothing]
      /\ UNCHANGED <<table, changes, list, page, past>> /\ page[u] # Nothing
  BY DEF submitCode
<1>2. /\ since'[u].judging = since[u].page
      /\ \A v \in User : since'[v].page = since[v].page
      /\ \A v \in User \ {u} : since'[v] = since[v]
  BY <1>1 DEF Typed
<1>3. Typed'
  BY <1>1 DEF Typed
<1>4. Tracked'
  <2>1. \A i : Row(i)' = Row(i)
    BY <1>1 DEF Row
  <2> QED
    BY <1>1, <1>2, <2>1 DEF Tracked, Typed
<1>5. EditorHoldsHeader'
  BY <1>1, <1>2 DEF EditorHoldsHeader
<1>6. JudgedByOwnTests'
  BY ProblemsAssumption, <1>1, <1>2 DEF JudgedByOwnTests, Typed
<1>7. ListInOrder'
  BY <1>1 DEF ListInOrder
<1> QED
  BY <1>3, <1>4, <1>5, <1>6, <1>7

\* Judge sends the tests that the table has for the number, or none.
LEMMA JudgeInv ==
  ASSUME IInv, NEW u \in User, Judge(u)
  PROVE  IInv'
<1> USE DEF IInv
<1>1. PICK p \in GetOneProblem(judging[u]) :
        request' = [request EXCEPT ![u] = IF p = Nothing THEN Garbage ELSE p.tail]
  BY DEF Judge
<1>2. /\ judging[u] # Nothing
      /\ UNCHANGED <<table, changes, list, page, judging, past, since>>
  BY DEF Judge
<1>3. p = Nothing \/ (p = Row(judging[u]) /\ p \in Entry)
  BY <1>1, RowType DEF GetOneProblem
<1>4. p # Nothing => p.tail \in Tails /\ p \in since[u].judging
  BY <1>2, <1>3 DEF Entry, Tracked
<1>5. Typed'
  BY <1>1, <1>2, <1>4 DEF Typed
<1>6. Tracked'
  BY <1>2 DEF Tracked, Row
<1>7. EditorHoldsHeader'
  BY <1>2 DEF EditorHoldsHeader
<1>8. JudgedByOwnTests'
  BY ProblemsAssumption, <1>1, <1>2, <1>4 DEF JudgedByOwnTests, Typed
<1>9. ListInOrder'
  BY <1>2 DEF ListInOrder
<1> QED
  BY <1>5, <1>6, <1>7, <1>8, <1>9

\* Every step keeps the invariant.
LEMMA NextInv == IInv /\ [Next]_vars => IInv'
<1> SUFFICES ASSUME IInv, [Next]_vars PROVE IInv'
  OBVIOUS
<1>1. ASSUME NEW id \in Ids, NEW e \in Entry \cup {Nothing}, Change(id, e) PROVE IInv'
  BY <1>1, ChangeInv
<1>2. ASSUME NEW u \in User, AllProblems(u) PROVE IInv'
  BY <1>2, AllProblemsInv
<1>3. ASSUME NEW u \in User, submitCode(u) PROVE IInv'
  BY <1>3, SubmitInv
<1>4. ASSUME NEW u \in User, Judge(u) PROVE IInv'
  BY <1>4, JudgeInv
<1>5. ASSUME NEW u \in User, NEW id \in Ids, Problem(u, id) PROVE IInv'
  BY <1>5, ProblemInv
<1>6. CASE UNCHANGED vars
  BY <1>6 DEF vars, web, IInv, Typed, Tracked, Row, ListInOrder, EditorHoldsHeader,
              JudgedByOwnTests
<1> QED
  BY <1>1, <1>2, <1>3, <1>4, <1>5, <1>6 DEF Next

-----------------------------------------------------------------------------
(* The theorems *)

\* The inductive invariant holds in every state.
THEOREM ProblemsInvariance == Spec => []IInv
<1> QED
  BY InitInv, NextInv, PTL DEF Spec

\* The types of what the table, the tabs and the histories hold; a page has the
\* number of a problem.
THEOREM ProblemsTypeCorrect == Spec => []TypeOK
<1>1. Typed => TypeOK
  BY DEF Typed, TypeOK
<1>2. IInv => TypeOK
  BY <1>1 DEF IInv
<1> QED
  BY <1>2, ProblemsInvariance, PTL

\* A list is in the order of the numbers, names a problem once, and has all that
\* were always in the table and none that never was.
THEOREM ListIsInOrder == Spec => []ListInOrder
<1>1. IInv => ListInOrder
  BY DEF IInv
<1> QED
  BY <1>1, ProblemsInvariance, PTL

\* The editor of a page holds the characters of its problem's preset code, brackets
\* included, whatever references stand among them.
THEOREM EditorHoldsTheHeader == Spec => []EditorHoldsHeader
<1>1. IInv => EditorHoldsHeader
  BY DEF IInv
<1> QED
  BY <1>1, ProblemsInvariance, PTL

\* A submission is judged by tests its problem had since its page was made.
THEOREM JudgedByItsTests == Spec => []JudgedByOwnTests
<1>1. IInv => JudgedByOwnTests
  BY DEF IInv
<1> QED
  BY <1>1, ProblemsInvariance, PTL

=============================================================================
