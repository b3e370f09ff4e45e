------------------------ MODULE AggregateStepProofs ------------------------
(***************************************************************************)
(* For every table, key and limit: the grouping loop hands the functions   *)
(* exactly the rows of each group, and makes one row per group.  The rows  *)
(* are sorted, so the rows of a group are next to each other; the loop     *)
(* closes a range exactly where the key changes.  Every key passed has its *)
(* row, so that what is returned is as much as HAVING and LIMIT allow.     *)
(***************************************************************************)
EXTENDS AggregateStep, FiniteSetTheorems, TLAPS

(* The rows from lo to hi are a whole run of the key g.                    *)
IsRun(g, lo, hi) ==
  /\ lo < hi /\ hi <= Length
  /\ \A j \in lo..(hi - 1) : KeyAt(j) = g
  /\ lo > 0 => KeyAt(lo - 1) # g
  /\ hi < Length => KeyAt(hi) # g

SortInv ==
  /\ phase = "sort" => /\ i = 0 /\ group = NoGroup /\ start = 0 /\ end = 1
                       /\ table = <<>> /\ sink = <<>> /\ read = 0
  /\ phase # "sort" => sorted \in Bijection(Row, Row) /\ Sorted(sorted)

(* The rows of the groups read so far, and the one being read.             *)
LoopInv ==
  phase = "loop" =>
    /\ end = i + 1
    /\ i = 0 => group = NoGroup /\ start = 0 /\ table = <<>>
    /\ i > 0 => /\ i < Length /\ start < i
                /\ \A j \in start..(i - 1) : KeyAt(j) = group
                /\ start > 0 => KeyAt(start - 1) # group
    /\ \A k \in DOMAIN table : table[k].group # NoGroup /\ table[k].hi <= start
    /\ sink = <<>> /\ read = 0

TableInv ==
  /\ \A k \in DOMAIN table :
       \/ table[k].group = NoGroup /\ Len(table) = 1
       \/ table[k].group # NoGroup /\ IsRun(table[k].group, table[k].lo, table[k].hi)
  /\ \A k, m \in DOMAIN table : k < m => table[k].hi <= table[m].lo

IInv == TypeOK /\ SortInv /\ LoopInv /\ TableInv

-----------------------------------------------------------------------------
LEMMA KeyAtType ==
  ASSUME keys \in Seq(Group), sorted \in Bijection(Row, Row), NEW j \in 0..(Length - 1)
  PROVE  sorted[j + 1] \in Row /\ KeyAt(j) \in Group
<1>1. j + 1 \in Row /\ Row = 1..Length
  BY DEF Row, Length
<1>2. sorted \in [Row -> Row]
  BY DEF Bijection, Injection
<1>3. sorted[j + 1] \in Row
  BY <1>1, <1>2
<1>4. \A r \in Row : keys[r] \in Group
  BY <1>1 DEF Length
<1>5. QED
  BY <1>3, <1>4 DEF KeyAt

(* No two keys precede each other.                                         *)
LEMMA PrecedesOneWay ==
  ASSUME NEW g \in Group, NEW h \in Group, Precedes(g, h), Precedes(h, g)
  PROVE  FALSE
<1>1. g \in Key /\ h \in Key
  BY DEF Precedes, Group
<1>2. g < h /\ h < g
  BY DEF Precedes
<1>3. g \in Int /\ h \in Int
  BY <1>1, AggregateAssumption
<1>4. QED
  BY <1>2, <1>3

(* Keys are totally ordered: a key between two equal keys is that key.     *)
LEMMA Between ==
  ASSUME keys \in Seq(Group), sorted \in Bijection(Row, Row), Sorted(sorted),
         NEW p \in 0..(Length - 1), NEW q \in 0..(Length - 1), NEW r \in 0..(Length - 1),
         p < q, q < r, KeyAt(p) = KeyAt(r)
  PROVE  KeyAt(q) = KeyAt(p)
<1>1. KeyAt(p) \in Group /\ KeyAt(q) \in Group /\ KeyAt(r) \in Group
  BY KeyAtType
<1>2. Row = 1..Length /\ p + 1 \in Row /\ q + 1 \in Row /\ r + 1 \in Row
  BY DEF Row, Length
<1>3. /\ Precedes(KeyAt(p), KeyAt(q)) \/ KeyAt(p) = KeyAt(q)
      /\ Precedes(KeyAt(q), KeyAt(r)) \/ KeyAt(q) = KeyAt(r)
  BY <1>2 DEF Sorted, KeyAt
<1>4. QED
  BY <1>1, <1>3, PrecedesOneWay

(* A whole run of a key is the whole group of that key.                    *)
LEMMA RunIsGroup ==
  ASSUME keys \in Seq(Group), sorted \in Bijection(Row, Row), Sorted(sorted),
         NEW g, NEW lo \in Nat, NEW hi \in Nat, IsRun(g, lo, hi)
  PROVE  RowsIn(lo, hi) = {r \in Row : keys[r] = g}
<1>1. lo < hi /\ hi <= Length /\ \A j \in lo..(hi - 1) : KeyAt(j) = g
  BY DEF IsRun
<1>2. Row = 1..Length /\ Length \in Nat
  BY DEF Row, Length
<1>3. ASSUME NEW r \in RowsIn(lo, hi) PROVE r \in Row /\ keys[r] = g
  <2>1. PICK j \in lo..(hi - 1) : r = sorted[j + 1]
    BY <1>3 DEF RowsIn
  <2>2. j \in 0..(Length - 1)
    BY <1>1, <1>2
  <2>3. QED
    BY <1>1, <2>1, <2>2, KeyAtType DEF KeyAt
<1>4. ASSUME NEW r \in Row, keys[r] = g PROVE r \in RowsIn(lo, hi)
  <2>1. PICK s \in Row : sorted[s] = r
    BY DEF Bijection, Surjection
  <2>2. PICK j \in 0..(Length - 1) : s = j + 1
    <3>1. s - 1 \in 0..(Length - 1) /\ s = (s - 1) + 1
      BY <1>2
    <3>2. QED
      BY <3>1
  <2>3. KeyAt(j) = g
    BY <1>4, <2>1, <2>2 DEF KeyAt
  <2>4. KeyAt(lo) = g /\ KeyAt(hi - 1) = g /\ lo \in 0..(Length - 1) /\ hi - 1 \in 0..(Length - 1)
    BY <1>1, <1>2
  <2>5. ~(j < lo)
    <3>1. SUFFICES ASSUME j < lo PROVE FALSE
      OBVIOUS
    <3>2. KeyAt(lo - 1) # g /\ lo - 1 \in 0..(Length - 1)
      BY <1>1, <1>2, <3>1 DEF IsRun
    <3>3. j # lo - 1
      BY <2>3, <3>2
    <3>4. j < lo - 1 /\ lo - 1 < lo
      BY <1>2, <3>1, <3>3
    <3>5. QED
      BY <2>3, <2>4, <3>2, <3>4, Between
  <2>6. ~(j >= hi)
    <3>1. SUFFICES ASSUME j >= hi PROVE FALSE
      OBVIOUS
    <3>2. KeyAt(hi) # g /\ hi \in 0..(Length - 1)
      BY <1>1, <1>2, <3>1 DEF IsRun
    <3>3. j # hi
      BY <2>3, <3>2
    <3>4. hi - 1 < hi /\ hi < j
      BY <1>2, <3>1, <3>3
    <3>5. QED
      BY <2>3, <2>4, <3>2, <3>4, Between
  <2>7. j \in lo..(hi - 1)
    BY <1>2, <2>5, <2>6
  <2>8. QED
    BY <2>1, <2>2, <2>7 DEF RowsIn
<1>5. QED
  BY <1>3, <1>4

(* What appending a row does.                                              *)
LEMMA WithRowFacts ==
  ASSUME NEW rows \in Seq(Entry), NEW g \in Group \union {NoGroup},
         NEW lo \in 0..Length, NEW hi \in 0..Length
  PROVE  /\ WithRow(rows, g, lo, hi) \in Seq(Entry)
         /\ Len(WithRow(rows, g, lo, hi)) = Len(rows) + 1
         /\ DOMAIN WithRow(rows, g, lo, hi) = 1..(Len(rows) + 1)
         /\ DOMAIN rows = 1..Len(rows) /\ Len(rows) \in Nat
         /\ \A k \in 1..Len(rows) : WithRow(rows, g, lo, hi)[k] = rows[k]
         /\ WithRow(rows, g, lo, hi)[Len(rows) + 1] = [group |-> g, lo |-> lo, hi |-> hi]
<1> DEFINE e == [group |-> g, lo |-> lo, hi |-> hi]
<1>1. e \in Entry
  BY DEF Entry
<1>2. WithRow(rows, g, lo, hi) = Append(rows, e)
  BY DEF WithRow
<1> HIDE DEF e
<1>3. /\ Append(rows, e) \in Seq(Entry) /\ Len(Append(rows, e)) = Len(rows) + 1
      /\ DOMAIN Append(rows, e) = 1..(Len(rows) + 1)
      /\ DOMAIN rows = 1..Len(rows) /\ Len(rows) \in Nat
      /\ \A k \in 1..Len(rows) : Append(rows, e)[k] = rows[k]
      /\ Append(rows, e)[Len(rows) + 1] = e
  BY <1>1
<1>4. QED
  BY <1>2, <1>3 DEF e

-----------------------------------------------------------------------------
LEMMA InitIInv == Init => IInv
<1> SUFFICES ASSUME Init PROVE IInv
  OBVIOUS
<1>1. PICK n \in 0..MaxRows : keys \in [1..n -> Group]
  BY DEF Init
<1>2. keys \in Seq(Group) /\ Length \in Nat
  BY <1>1, AggregateAssumption DEF Length
<1>3. TypeOK
  BY <1>2, AggregateAssumption DEF Init, TypeOK
<1>4. QED
  BY <1>3 DEF Init, IInv, SortInv, LoopInv, TableInv

LEMMA SortIInv ==
  ASSUME IInv, Sort
  PROVE  IInv'
<1> USE DEF IInv, inputs, loop
<1>1. sorted' \in Bijection(Row, Row) /\ Sorted(sorted)'
  BY DEF Sort, Sorted, Row
<1>2. TypeOK'
  BY DEF Sort, TypeOK, Length, Entry
<1>3. SortInv'
  BY <1>1 DEF Sort, SortInv, Row
<1>4. LoopInv'
  BY DEF Sort, SortInv, LoopInv, TypeOK
<1>5. TableInv'
  BY DEF Sort, SortInv, TableInv
<1>6. QED
  BY <1>2, <1>3, <1>4, <1>5

(* The ranges a turn of the loop can close.                                *)
LEMMA TurnRuns ==
  ASSUME IInv, phase = "loop", i < Length
  PROVE  /\ KeyAt(i) \in Group
         /\ group # NoGroup /\ KeyAt(i) # group => IsRun(group, start, i)
         /\ i = Length - 1 => IsRun(KeyAt(i), IF group # NoGroup /\ KeyAt(i) # group
                                              THEN i ELSE start, i + 1)
<1>1. /\ i \in Nat /\ Length \in Nat /\ start \in Nat /\ i \in 0..(Length - 1)
      /\ keys \in Seq(Group) /\ sorted \in Bijection(Row, Row)
  BY DEF IInv, TypeOK, SortInv, Length
<1>2. KeyAt(i) \in Group
  BY <1>1, KeyAtType
<1>3. /\ i = 0 => group = NoGroup /\ start = 0
      /\ i > 0 => /\ start < i /\ \A j \in start..(i - 1) : KeyAt(j) = group
                  /\ start > 0 => KeyAt(start - 1) # group
  BY DEF IInv, LoopInv
<1>4. ASSUME group # NoGroup, KeyAt(i) # group
      PROVE  IsRun(group, start, i) /\ KeyAt(i - 1) # KeyAt(i)
  <2>1. i > 0 /\ KeyAt(i - 1) = group
    BY <1>1, <1>3, <1>4
  <2>2. QED
    BY <1>1, <1>3, <1>4, <2>1 DEF IsRun
<1>5. ASSUME i = Length - 1, group # NoGroup /\ KeyAt(i) # group
      PROVE  IsRun(KeyAt(i), i, i + 1)
  BY <1>1, <1>4, <1>5 DEF IsRun
<1>6. ASSUME i = Length - 1, ~(group # NoGroup /\ KeyAt(i) # group)
      PROVE  IsRun(KeyAt(i), start, i + 1)
  <2>1. CASE i = 0
    BY <1>1, <1>3, <1>6, <2>1 DEF IsRun
  <2>2. CASE i > 0
    <3>1. group # NoGroup
      <4>1. KeyAt(i - 1) = group /\ i - 1 \in 0..(Length - 1)
        BY <1>1, <1>3, <2>2
      <4>2. QED
        BY <1>1, <4>1, KeyAtType, AggregateAssumption
    <3>2. KeyAt(i) = group
      BY <1>6, <3>1
    <3>3. QED
      BY <1>1, <1>3, <1>6, <2>2, <3>2 DEF IsRun
  <2>3. QED
    BY <1>1, <2>1, <2>2
<1>7. QED
  BY <1>2, <1>4, <1>5, <1>6

(* The rows made are whole runs, one after the other, that end before m.   *)
WholeRuns(rows, m) ==
  /\ rows \in Seq(Entry)
  /\ \A k \in DOMAIN rows :
       /\ rows[k].group # NoGroup
       /\ IsRun(rows[k].group, rows[k].lo, rows[k].hi)
       /\ rows[k].hi <= m
  /\ \A k, n \in DOMAIN rows : k < n => rows[k].hi <= rows[n].lo

LEMMA WholeRunsTypes ==
  ASSUME Length \in Nat, NEW rows, NEW m, WholeRuns(rows, m), NEW k \in DOMAIN rows
  PROVE  rows[k] \in Entry /\ rows[k].lo \in Nat /\ rows[k].hi \in Nat
<1>1. rows \in Seq(Entry)
  BY DEF WholeRuns
<1>2. rows[k] \in Entry
  BY <1>1
<1>3. rows[k].lo \in 0..Length /\ rows[k].hi \in 0..Length
  BY <1>2 DEF Entry
<1>4. QED
  BY <1>2, <1>3

LEMMA WholeRunsWeaken ==
  ASSUME Length \in Nat, NEW rows, NEW m \in Nat, NEW n \in Nat, m <= n, WholeRuns(rows, m)
  PROVE  WholeRuns(rows, n)
<1>1. \A k \in DOMAIN rows : rows[k].hi \in Nat
  BY WholeRunsTypes
<1>2. QED
  BY <1>1 DEF WholeRuns

LEMMA AddRun ==
  ASSUME Length \in Nat, NEW rows, NEW g \in Group, NEW lo \in Nat, NEW hi \in Nat,
         WholeRuns(rows, lo), IsRun(g, lo, hi)
  PROVE  WholeRuns(WithRow(rows, g, lo, hi), hi)
<1> DEFINE more == WithRow(rows, g, lo, hi)
<1>1. lo < hi /\ hi <= Length /\ lo \in 0..Length /\ hi \in 0..Length
  BY DEF IsRun
<1>2. /\ more \in Seq(Entry)
      /\ DOMAIN more = 1..(Len(rows) + 1)
      /\ DOMAIN rows = 1..Len(rows) /\ Len(rows) \in Nat
      /\ \A k \in 1..Len(rows) : more[k] = rows[k]
      /\ more[Len(rows) + 1] = [group |-> g, lo |-> lo, hi |-> hi]
  BY <1>1, WithRowFacts DEF WholeRuns
<1> HIDE DEF more
<1>3. g # NoGroup
  BY AggregateAssumption
<1>4. \A k \in DOMAIN rows : rows[k] \in Entry /\ rows[k].hi \in Nat
  BY WholeRunsTypes
<1>5. ASSUME NEW k \in DOMAIN more
      PROVE  /\ more[k].group # NoGroup
             /\ IsRun(more[k].group, more[k].lo, more[k].hi)
             /\ more[k].hi <= hi
  <2>1. CASE k \in DOMAIN rows
    BY <1>1, <1>2, <1>4, <2>1 DEF WholeRuns
  <2>2. CASE k = Len(rows) + 1
    BY <1>1, <1>2, <1>3, <2>2
  <2>3. QED
    BY <1>2, <2>1, <2>2
<1>6. ASSUME NEW k \in DOMAIN more, NEW n \in DOMAIN more, k < n
      PROVE  more[k].hi <= more[n].lo
  <2>1. k \in DOMAIN rows
    BY <1>2, <1>6
  <2>2. CASE n \in DOMAIN rows
    BY <1>2, <1>6, <2>1, <2>2 DEF WholeRuns
  <2>3. CASE n = Len(rows) + 1
    BY <1>2, <2>1, <2>3 DEF WholeRuns
  <2>4. QED
    BY <1>2, <2>2, <2>3
<1>7. QED
  BY <1>2, <1>5, <1>6 DEF WholeRuns, more

LEMMA TurnIInv ==
  ASSUME IInv, Turn
  PROVE  IInv'
<1> DEFINE closes == group # NoGroup /\ KeyAt(i) # group
           made == IF closes THEN WithRow(table, group, start, GroupEnd(end')) ELSE table
           from == IF closes THEN i ELSE start
<1>1. /\ phase = "loop" /\ i < Length
      /\ group' = KeyAt(i)
      /\ end' = end + 1
      /\ start' = IF closes THEN GroupEnd(end') ELSE start
      /\ \/ /\ table' = made /\ i' = i /\ phase' = "output"
         \/ /\ table' = MadeLast(made, start', end')
            /\ i' = i + 1
            /\ phase' = IF i = Length - 1 THEN "output" ELSE "loop"
      /\ UNCHANGED <<inputs, sorted, sink, read>>
  BY DEF Turn
<1>2. /\ keys \in Seq(Group) /\ Length \in Nat /\ i \in 0..Length /\ start \in 0..Length
      /\ group \in Group \union {NoGroup} /\ table \in Seq(Entry)
      /\ sorted \in Bijection(Row, Row) /\ Sorted(sorted)
      /\ end = i + 1 /\ sink = <<>> /\ read = 0
      /\ i = 0 => start = 0
      /\ i > 0 => start < i
  BY <1>1 DEF IInv, TypeOK, SortInv, LoopInv, Length
<1>3. end' = i + 2 /\ GroupEnd(end') = i /\ TableEnd(end') = i + 1
  BY <1>1, <1>2 DEF GroupEnd, TableEnd
<1>4. start' = from /\ start' \in 0..i /\ start <= start'
  BY <1>1, <1>2, <1>3
<1>5. /\ KeyAt(i) \in Group
      /\ closes => IsRun(group, start, i)
      /\ i = Length - 1 => IsRun(KeyAt(i), from, i + 1)
  BY <1>1, TurnRuns
<1>6. /\ UNCHANGED <<keys, sorted, sink, read>> /\ Row' = Row /\ Length' = Length
      /\ \A j : KeyAt(j)' = KeyAt(j)
      /\ \A g, lo, hi : IsRun(g, lo, hi)' = IsRun(g, lo, hi)
      /\ Entry' = Entry
  BY <1>1 DEF inputs, Row, Length, KeyAt, IsRun, Entry
<1>7. WholeRuns(made, start')
  <2>1. WholeRuns(table, start)
    BY <1>1, <1>2 DEF WholeRuns, IInv, TableInv, LoopInv
  <2>2. CASE closes
    <3>1. group \in Group
      BY <1>2, <2>2
    <3>2. made = WithRow(table, group, start, i) /\ start' = i
      BY <1>3, <1>4, <2>2
    <3>3. QED
      BY <1>2, <1>5, <2>1, <2>2, <3>1, <3>2, AddRun
  <2>3. CASE ~closes
    BY <1>4, <2>1, <2>3
  <2>4. QED
    BY <2>2, <2>3
<1>8. WholeRuns(table', i + 1) /\ (i # Length - 1 /\ i' = i + 1 => WholeRuns(table', start'))
  <2>1. \A rows : WholeRuns(rows, start') => WholeRuns(rows, i + 1)
    <3>1. start' \in Nat /\ i + 1 \in Nat /\ start' <= i + 1
      BY <1>2, <1>4
    <3>2. QED
      BY <1>2, <3>1, WholeRunsWeaken
  <2>2. CASE table' = made
    BY <1>7, <2>1, <2>2
  <2>3. CASE i = Length - 1 /\ table' = WithRow(made, KeyAt(i), start', TableEnd(end'))
    BY <1>2, <1>3, <1>4, <1>5, <1>7, <2>3, AddRun
  <2>4. QED
    BY <1>1, <1>2, <2>2, <2>3 DEF MadeLast
<1> HIDE DEF made, closes
<1>9. /\ i' \in 0..Length /\ i' <= i + 1 /\ phase' \in {"loop", "output"}
      /\ phase' = "loop" => i' = i + 1 /\ i # Length - 1 /\ i' < Length
  BY <1>1, <1>2
<1>10. TypeOK'
  <2>1. table' \in Seq(Entry)
    BY <1>8 DEF WholeRuns
  <2>2. Len(table') \in Nat
    BY <2>1
  <2>3. end' \in 1..(Length + 1) /\ start' \in 0..Length
    BY <1>1, <1>2, <1>3, <1>4
  <2>4. QED
    BY <1>1, <1>2, <1>5, <1>6, <1>9, <2>1, <2>2, <2>3 DEF IInv, TypeOK
<1>11. SortInv'
  BY <1>2, <1>6, <1>9 DEF SortInv, Sorted
<1>12. LoopInv'
  <2>1. SUFFICES ASSUME phase' = "loop" PROVE LoopInv'
    BY DEF LoopInv
  <2>2. i' = i + 1 /\ i + 1 < Length /\ i' > 0 /\ start' < i'
    BY <1>2, <1>4, <1>9, <2>1
  <2>3. WholeRuns(table', start')
    BY <1>8, <1>9, <2>1
  <2>4. \A j \in start'..i : KeyAt(j) = KeyAt(i)
    <3>1. SUFFICES ASSUME NEW j \in start'..i, j # i PROVE KeyAt(j) = KeyAt(i)
      OBVIOUS
    <3>2. ~closes /\ start' = start /\ j \in start..(i - 1) /\ i > 0
      BY <1>2, <1>4, <3>1 DEF closes
    <3>3. group = KeyAt(i - 1) /\ KeyAt(j) = group
      BY <1>1, <1>2, <3>2 DEF IInv, LoopInv
    <3>4. group # NoGroup
      <4>1. i - 1 \in 0..(Length - 1)
        BY <1>1, <1>2, <3>2
      <4>2. QED
        BY <1>2, <3>3, <4>1, KeyAtType, AggregateAssumption
    <3>5. QED
      BY <3>2, <3>3, <3>4 DEF closes
  <2>5. start' > 0 => KeyAt(start' - 1) # KeyAt(i)
    <3>1. CASE closes
      BY <1>1, <1>2, <1>4, <3>1 DEF closes, IInv, LoopInv
    <3>2. CASE ~closes /\ start > 0
      <4>1. i > 0 /\ KeyAt(start - 1) # group /\ KeyAt(i - 1) = group
        BY <1>1, <1>2, <3>2 DEF IInv, LoopInv
      <4>2. group # NoGroup
        <5>1. i - 1 \in 0..(Length - 1)
          BY <1>1, <1>2, <4>1
        <5>2. QED
          BY <1>2, <4>1, <5>1, KeyAtType, AggregateAssumption
      <4>3. QED
        BY <1>4, <3>2, <4>1, <4>2 DEF closes
    <3>3. QED
      BY <1>4, <3>1, <3>2
  <2>6. QED
    BY <1>1, <1>2, <1>3, <1>6, <2>2, <2>3, <2>4, <2>5 DEF LoopInv, WholeRuns
<1>13. TableInv'
  BY <1>6, <1>8 DEF TableInv, WholeRuns
<1>14. QED
  BY <1>10, <1>11, <1>12, <1>13 DEF IInv

LEMMA EmptyIInv ==
  ASSUME IInv, Empty
  PROVE  IInv'
<1> USE DEF IInv
<1>1. /\ phase = "loop" /\ Length = 0 /\ phase' = "output"
      /\ table' = table \/ table' = WithRow(table, NoGroup, 0, 0)
      /\ UNCHANGED <<inputs, sorted, i, group, start, end, sink, read>>
  BY DEF Empty, TypeOK
<1>2. i = 0 /\ table = <<>> /\ sink = <<>> /\ read = 0
  <2>1. i = 0
    BY <1>1 DEF TypeOK
  <2>2. QED
    BY <1>1, <2>1 DEF LoopInv
<1>3. /\ table' \in Seq(Entry) /\ Len(table') \in {0, 1} /\ DOMAIN table' = 1..Len(table')
      /\ \A k \in DOMAIN table' : k = 1 /\ table'[k] = [group |-> NoGroup, lo |-> 0, hi |-> 0]
  <2>1. CASE table' = table
    BY <1>2, <2>1
  <2>2. CASE table' = WithRow(table, NoGroup, 0, 0)
    <3> DEFINE zero == 0
    <3>1. /\ table \in Seq(Entry) /\ zero \in 0..Length
          /\ NoGroup \in Group \union {NoGroup}
          /\ table' = WithRow(table, NoGroup, zero, zero)
      BY <1>1, <1>2, <2>2 DEF TypeOK
    <3> HIDE DEF zero
    <3>2. /\ table' \in Seq(Entry)
          /\ Len(table') = Len(table) + 1
          /\ DOMAIN table' = 1..(Len(table) + 1)
          /\ table'[Len(table) + 1] = [group |-> NoGroup, lo |-> zero, hi |-> zero]
      BY <3>1, WithRowFacts
    <3>3. Len(table) + 1 = 1 /\ \A k \in 1..1 : k = 1
      BY <1>2
    <3>4. QED
      BY <3>2, <3>3 DEF zero
  <2>3. QED
    BY <1>1, <2>1, <2>2
<1>4. UNCHANGED <<keys, limit>> /\ Length' = Length /\ Entry' = Entry /\ Row' = Row
  BY <1>1 DEF inputs, Length, Entry, Row
<1>5. TypeOK'
  BY <1>1, <1>2, <1>3, <1>4 DEF TypeOK
<1>6. SortInv' /\ LoopInv'
  BY <1>1, <1>4 DEF SortInv, LoopInv, Sorted
<1>7. TableInv'
  BY <1>3 DEF TableInv
<1>8. QED
  BY <1>5, <1>6, <1>7

(* Handing over and projecting leave the rows made alone.                  *)
LEMMA OutputIInv ==
  ASSUME IInv, HandOver \/ Output
  PROVE  IInv'
<1> USE DEF IInv
<1>1. /\ phase = "output" /\ phase' \in {"output", "done"}
      /\ UNCHANGED <<inputs, sorted, loop>>
      /\ \/ UNCHANGED <<sink, read>>
         \/ sink' = table /\ UNCHANGED read
         \/ /\ read < Len(table) /\ read' = read + 1
            /\ sink' = sink \/ sink' = Append(sink, table[read + 1])
  BY DEF HandOver, Output
<1>2. /\ UNCHANGED <<keys, i, group, start, end, table, sorted>>
      /\ Length' = Length /\ Entry' = Entry /\ Row' = Row
      /\ \A j : KeyAt(j)' = KeyAt(j)
      /\ \A g, lo, hi : IsRun(g, lo, hi)' = IsRun(g, lo, hi)
  BY <1>1 DEF inputs, loop, Length, Entry, Row, KeyAt, IsRun
<1>3. table \in Seq(Entry) /\ sink \in Seq(Entry) /\ read \in 0..Len(table) /\ Len(table) \in Nat
  BY DEF TypeOK
<1>4. sink' \in Seq(Entry) /\ read' \in 0..Len(table)
  <2>1. CASE UNCHANGED <<sink, read>> \/ (sink' = table /\ UNCHANGED read)
    BY <1>3, <2>1
  <2>2. CASE /\ read < Len(table) /\ read' = read + 1
             /\ sink' = sink \/ sink' = Append(sink, table[read + 1])
    <3>1. read + 1 \in 1..Len(table)
      BY <1>3, <2>2
    <3>2. table[read + 1] \in Entry
      BY <1>3, <3>1
    <3>3. QED
      BY <1>3, <2>2, <3>1, <3>2
  <2>3. QED
    BY <1>1, <2>1, <2>2
<1>5. TypeOK'
  BY <1>1, <1>2, <1>4 DEF TypeOK, inputs
<1>6. SortInv' /\ LoopInv'
  BY <1>1, <1>2 DEF SortInv, LoopInv, Sorted
<1>7. TableInv'
  BY <1>2 DEF TableInv
<1>8. QED
  BY <1>5, <1>6, <1>7

LEMMA NextIInv == IInv /\ [Next]_vars => IInv'
<1> SUFFICES ASSUME IInv, [Next]_vars PROVE IInv'
  OBVIOUS
<1>1. CASE UNCHANGED vars
  BY <1>1 DEF vars, inputs, loop, IInv, TypeOK, SortInv, LoopInv, TableInv, Sorted, IsRun,
              KeyAt, Length, Row, Entry
<1>2. QED
  BY <1>1, SortIInv, TurnIInv, EmptyIInv, OutputIInv DEF Next, Done

-----------------------------------------------------------------------------
(* The inductive invariant holds throughout every execution.               *)
THEOREM Invariance == Spec => []IInv
<1>1. QED
  BY InitIInv, NextIInv, PTL DEF Spec

(* The variables keep their types: no range leaves the table.              *)
THEOREM TypeCorrect == Spec => []TypeOK
<1>1. IInv => TypeOK
  BY DEF IInv
<1>2. QED
  BY <1>1, Invariance, PTL

(* An aggregation function is handed exactly the rows of its group.        *)
THEOREM GroupsAreExact == Spec => []GroupsExact
<1>1. IInv => GroupsExact
  <2>1. SUFFICES ASSUME IInv, NEW k \in DOMAIN table, table[k].group # NoGroup
                 PROVE  RowsIn(table[k].lo, table[k].hi)
                          = {r \in Row : keys[r] = table[k].group}
    BY DEF GroupsExact
  <2>2. Len(table) > 0 /\ table \in Seq(Entry) /\ keys \in Seq(Group) /\ phase # "sort"
    BY <2>1 DEF IInv, TypeOK, SortInv
  <2>3. table[k] \in Entry /\ Length \in Nat
    BY <2>1, <2>2 DEF Length
  <2>4. table[k].lo \in Nat /\ table[k].hi \in Nat
    BY <2>3 DEF Entry
  <2>5. IsRun(table[k].group, table[k].lo, table[k].hi)
    BY <2>1 DEF IInv, TableInv
  <2>6. QED
    BY <2>1, <2>2, <2>4, <2>5, RunIsGroup DEF IInv, SortInv
<1>2. QED
  BY <1>1, Invariance, PTL

(* No group is returned twice: two runs of one key would have that key in  *)
(* between.                                                                *)
THEOREM GroupsAreDistinct == Spec => []OneRowPerGroup
<1>1. ASSUME IInv, NEW k \in DOMAIN table, NEW m \in DOMAIN table, k < m
      PROVE  table[k].group # table[m].group
  <2>1. Len(table) > 1 /\ table \in Seq(Entry) /\ keys \in Seq(Group) /\ phase # "sort"
    BY <1>1 DEF IInv, TypeOK, SortInv
  <2>2. sorted \in Bijection(Row, Row) /\ Sorted(sorted)
    BY <1>1, <2>1 DEF IInv, SortInv
  <2>3. table[k] \in Entry /\ table[m] \in Entry /\ Length \in Nat
    BY <2>1 DEF Length
  <2>4. /\ table[k].lo \in Nat /\ table[k].hi \in Nat
        /\ table[m].lo \in Nat /\ table[m].hi \in Nat
    BY <2>3 DEF Entry
  <2>5. /\ IsRun(table[k].group, table[k].lo, table[k].hi)
        /\ IsRun(table[m].group, table[m].lo, table[m].hi)
        /\ table[k].hi <= table[m].lo
    BY <1>1, <2>1 DEF IInv, TableInv
  <2>6. /\ KeyAt(table[k].lo) = table[k].group /\ KeyAt(table[m].lo) = table[m].group
        /\ KeyAt(table[k].hi) # table[k].group
        /\ table[k].lo < table[k].hi /\ table[m].lo < Length
    BY <2>3, <2>4, <2>5 DEF IsRun
  <2>7. SUFFICES ASSUME table[k].group = table[m].group PROVE FALSE
    OBVIOUS
  <2>8. table[k].hi < table[m].lo
    BY <2>4, <2>5, <2>6, <2>7
  <2>9. KeyAt(table[k].hi) = KeyAt(table[k].lo)
    BY <2>1, <2>2, <2>3, <2>4, <2>6, <2>7, <2>8, Between
  <2>10. QED
    BY <2>6, <2>9
<1>2. IInv => OneRowPerGroup
  <2>1. SUFFICES ASSUME IInv, NEW k \in DOMAIN table, NEW m \in DOMAIN table, k # m
                 PROVE  table[k].group # table[m].group
    BY DEF OneRowPerGroup
  <2>2. k \in Int /\ m \in Int
    BY <2>1 DEF IInv, TypeOK
  <2>3. k < m \/ m < k
    BY <2>1, <2>2
  <2>4. QED
    BY <1>1, <2>1, <2>3
<1>3. QED
  BY <1>2, Invariance, PTL

-----------------------------------------------------------------------------
(* The answer is complete: every group the loop has passed has its row,    *)
(* and the rows returned are counted.                                      *)

MadeGroups(rows) == {rows[k].group : k \in DOMAIN rows}

(* The rows made that HAVING accepts, among the first n.                   *)
Accepted(n) == {k \in 1..n : table[k].group \in accepts}

MadeInv ==
  /\ MadeGroups(table) \subseteq Groups
  /\ limit # Infinity => Len(table) <= limit
  /\ phase = "loop" /\ i > 0 =>
       ~Reached(Len(table)) /\ \A j \in 0..(start - 1) : KeyAt(j) \in MadeGroups(table)
  /\ phase \in {"output", "done"} => Reached(Len(table)) \/ Groups \subseteq MadeGroups(table)

SinkInv ==
  /\ limit \in Limits /\ (bare => accepts = Group \union {NoGroup})
  /\ phase \in {"sort", "loop"} => sink = <<>> /\ read = 0
  /\ IF phase = "done" /\ bare THEN sink = table
     ELSE /\ Len(sink) = Cardinality(Accepted(read))
          /\ \A k \in DOMAIN sink : sink[k].group \in accepts
          /\ limit # Infinity => Len(sink) <= limit
  /\ phase = "done" /\ ~bare => read = Len(table) \/ Reached(Len(sink))

CInv == IInv /\ MadeInv /\ SinkInv

LEMMA LimitType == limit \in Limits => limit = Infinity \/ limit \in Nat
BY AggregateAssumption

(* Every key is read at some index of the sorted table.                    *)
LEMMA KeysAreRead ==
  ASSUME keys \in Seq(Group), sorted \in Bijection(Row, Row)
  PROVE  {keys[r] : r \in Row} = {KeyAt(j) : j \in 0..(Length - 1)}
<1>1. Row = 1..Length /\ Length \in Nat
  BY DEF Row, Length
<1>2. ASSUME NEW r \in Row PROVE \E j \in 0..(Length - 1) : KeyAt(j) = keys[r]
  <2>1. PICK s \in Row : sorted[s] = r
    BY DEF Bijection, Surjection
  <2>2. s - 1 \in 0..(Length - 1) /\ (s - 1) + 1 = s
    BY <1>1
  <2> QED BY <2>1, <2>2 DEF KeyAt
<1>3. ASSUME NEW j \in 0..(Length - 1) PROVE \E r \in Row : keys[r] = KeyAt(j)
  BY KeyAtType DEF KeyAt
<1> QED BY <1>2, <1>3

LEMMA WithRowLength ==
  ASSUME NEW rows \in Seq(Entry), NEW g \in Group \union {NoGroup},
         NEW lo \in 0..Length, NEW hi \in 0..Length
  PROVE  Len(WithRow(rows, g, lo, hi)) = Len(rows) + 1
BY WithRowFacts

LEMMA MadeGroupsOfMore ==
  ASSUME NEW rows \in Seq(Entry), NEW g \in Group \union {NoGroup},
         NEW lo \in 0..Length, NEW hi \in 0..Length
  PROVE  MadeGroups(WithRow(rows, g, lo, hi)) = MadeGroups(rows) \union {g}
<1> DEFINE more == WithRow(rows, g, lo, hi)
<1>1. /\ DOMAIN more = 1..(Len(rows) + 1) /\ DOMAIN rows = 1..Len(rows) /\ Len(rows) \in Nat
      /\ \A k \in 1..Len(rows) : more[k] = rows[k]
      /\ more[Len(rows) + 1] = [group |-> g, lo |-> lo, hi |-> hi]
  BY WithRowFacts
<1> HIDE DEF more
<1>2. ASSUME NEW h PROVE h \in MadeGroups(more) <=> h \in MadeGroups(rows) \/ h = g
  <2>1. h \in MadeGroups(more) <=> \E k \in 1..(Len(rows) + 1) : more[k].group = h
    BY <1>1 DEF MadeGroups
  <2>2. h \in MadeGroups(rows) <=> \E k \in 1..Len(rows) : rows[k].group = h
    BY <1>1 DEF MadeGroups
  <2>3. more[Len(rows) + 1].group = g
    BY <1>1
  <2> QED BY <1>1, <2>1, <2>2, <2>3
<1> QED BY <1>2 DEF more

-----------------------------------------------------------------------------
LEMMA InitCInv == Init => CInv
<1> SUFFICES ASSUME Init PROVE CInv
  OBVIOUS
<1>1. IInv
  BY InitIInv
<1>2. table = <<>> /\ sink = <<>> /\ read = 0 /\ phase = "sort" /\ limit \in Limits
      /\ (bare => accepts = Group \union {NoGroup})
  BY DEF Init
<1>3. MadeInv
  BY <1>2, LimitType DEF MadeInv, MadeGroups
<1>4. SinkInv
  <2>1. Accepted(0) = {}
    BY DEF Accepted
  <2>2. Cardinality(Accepted(0)) = 0
    BY <2>1, FS_EmptySet
  <2> QED BY <1>2, <2>2, LimitType DEF SinkInv
<1> QED BY <1>1, <1>3, <1>4 DEF CInv

(* While nothing is output SinkInv says little.                            *)
LEMMA NothingIsOutput ==
  ASSUME SinkInv, phase \in {"sort", "loop"}, UNCHANGED <<inputs, sink, read>>, phase' \in {"loop", "output"}
  PROVE  SinkInv'
<1>1. sink' = <<>> /\ read' = 0 /\ limit' = limit /\ bare' = bare /\ accepts' = accepts /\ phase' # "done"
  BY DEF SinkInv, inputs
<1>2. limit' \in Limits /\ (bare' => accepts' = Group \union {NoGroup})
  BY <1>1 DEF SinkInv
<1>3. Accepted(read)' = {}
  BY <1>1 DEF Accepted
<1>4. Cardinality(Accepted(read)') = 0
  BY <1>3, FS_EmptySet
<1>5. Cardinality(Accepted(read))' = 0
  BY <1>4
<1> QED BY <1>1, <1>2, <1>5, LimitType DEF SinkInv

LEMMA SortCInv ==
  ASSUME CInv, Sort
  PROVE  CInv'
<1>1. IInv'
  BY SortIInv DEF CInv
<1>2. phase = "sort" /\ phase' = "loop" /\ UNCHANGED <<inputs, loop, sink, read>>
  BY DEF Sort
<1>3. i = 0 /\ table = <<>> /\ UNCHANGED <<keys, grouped, limit, i, table>>
  BY <1>2 DEF CInv, IInv, SortInv, inputs, loop
<1>4. MadeInv'
  BY <1>2, <1>3 DEF CInv, MadeInv, MadeGroups, Groups, Length, Row
<1>5. SinkInv'
  BY <1>2, NothingIsOutput DEF CInv
<1> QED BY <1>1, <1>4, <1>5 DEF CInv

LEMMA TurnCInv ==
  ASSUME CInv, Turn
  PROVE  CInv'
<1> DEFINE closes == group # NoGroup /\ KeyAt(i) # group
           made == IF closes THEN WithRow(table, group, start, GroupEnd(end')) ELSE table
           from == IF closes THEN i ELSE start
<1>1. /\ phase = "loop" /\ i < Length
      /\ end' = end + 1
      /\ start' = IF closes THEN GroupEnd(end') ELSE start
      /\ \/ /\ Reached(Len(made)) /\ table' = made /\ i' = i /\ phase' = "output"
         \/ /\ ~Reached(Len(made))
            /\ table' = MadeLast(made, start', end')
            /\ i' = i + 1
            /\ phase' = IF i = Length - 1 THEN "output" ELSE "loop"
      /\ UNCHANGED <<inputs, sorted, sink, read>>
  BY DEF Turn
<1>2. /\ IInv /\ keys \in Seq(Group) /\ Length \in Nat /\ i \in 0..Length /\ start \in 0..Length
      /\ group \in Group \union {NoGroup} /\ table \in Seq(Entry)
      /\ sorted \in Bijection(Row, Row)
      /\ end = i + 1
      /\ i = 0 => group = NoGroup /\ start = 0 /\ table = <<>>
      /\ i > 0 => start < i
  BY <1>1 DEF CInv, IInv, TypeOK, SortInv, LoopInv, Length
<1>3. GroupEnd(end') = i /\ TableEnd(end') = i + 1 /\ start' = from /\ from \in 0..i
  BY <1>1, <1>2 DEF GroupEnd, TableEnd
<1>4. /\ KeyAt(i) \in Group
      /\ closes => IsRun(group, start, i)
      /\ i = Length - 1 => IsRun(KeyAt(i), from, i + 1)
  BY <1>1, <1>2, TurnRuns
<1>5. /\ UNCHANGED <<keys, sorted, limit, grouped>> /\ Row' = Row /\ Length' = Length
      /\ \A j : KeyAt(j)' = KeyAt(j)
      /\ \A n : Reached(n)' = Reached(n)
      /\ Groups' = Groups
  BY <1>1 DEF inputs, Row, Length, KeyAt, Reached, Groups
<1>6. Groups = {KeyAt(j) : j \in 0..(Length - 1)} /\ Length > 0
  <2>1. Length > 0 /\ Groups = {keys[r] : r \in Row}
    BY <1>1, <1>2 DEF Groups
  <2> QED BY <1>2, <2>1, KeysAreRead
<1>7. /\ made \in Seq(Entry)
      /\ MadeGroups(made) = MadeGroups(table) \union IF closes THEN {group} ELSE {}
      /\ Len(made) = Len(table) + IF closes THEN 1 ELSE 0
      /\ Len(made) \in Nat /\ Len(table) \in Nat
  <2>1. CASE closes
    <3>1. made = WithRow(table, group, start, i) /\ i \in 0..Length
      BY <1>2, <1>3, <2>1
    <3> HIDE DEF made
    <3> QED BY <1>2, <2>1, <3>1, WithRowFacts, MadeGroupsOfMore
  <2>2. CASE ~closes
    BY <1>2, <2>2
  <2> QED BY <2>1, <2>2
<1>8. closes => i > 0 /\ group = KeyAt(i - 1) /\ group \in Groups
  <2>1. SUFFICES ASSUME closes PROVE i > 0 /\ group = KeyAt(i - 1) /\ group \in Groups
    OBVIOUS
  <2>2. i > 0
    BY <1>2, <2>1
  <2>3. group = KeyAt(i - 1) /\ i - 1 \in 0..(Length - 1)
    BY <1>1, <1>2, <1>4, <2>1, <2>2 DEF IsRun
  <2> QED BY <1>6, <2>2, <2>3
<1>9. \A j \in 0..(from - 1) : KeyAt(j) \in MadeGroups(made)
  <2> SUFFICES ASSUME NEW j \in 0..(from - 1) PROVE KeyAt(j) \in MadeGroups(made)
    OBVIOUS
  <2>1. i > 0
    BY <1>2, <1>3
  <2>2. CASE j \in 0..(start - 1)
    BY <1>1, <1>7, <2>1, <2>2 DEF CInv, MadeInv
  <2>3. CASE closes /\ j \in start..(i - 1)
    <3>1. KeyAt(j) = group
      BY <1>4, <2>3 DEF IsRun
    <3> QED BY <1>7, <2>3, <3>1
  <2>4. j \in 0..(start - 1) \/ (closes /\ j \in start..(i - 1))
    BY <1>2, <1>3
  <2> QED BY <2>2, <2>3, <2>4
<1>10. MadeGroups(made) \subseteq Groups
  BY <1>7, <1>8 DEF CInv, MadeInv
<1>11. limit = Infinity \/ limit \in Nat
  BY LimitType DEF CInv, SinkInv
(* The limit was not reached before.                                       *)
<1>12. limit # Infinity => Len(made) <= limit
  <2>1. CASE ~closes
    BY <1>7, <2>1 DEF CInv, MadeInv
  <2>2. CASE closes
    <3>1. ~Reached(Len(table))
      BY <1>1, <1>8, <2>2 DEF CInv, MadeInv
    <3> QED BY <1>7, <1>11, <2>2, <3>1 DEF Reached
  <2> QED BY <2>1, <2>2
<1> HIDE DEF made, closes, from
<1>13. ASSUME Reached(Len(made)) /\ table' = made /\ phase' = "output"
       PROVE  MadeInv'
  <2>1. MadeGroups(table') \subseteq Groups'
    BY <1>5, <1>10, <1>13
  <2>2. limit' # Infinity => Len(table') <= limit'
    BY <1>5, <1>12, <1>13
  <2>3. Reached(Len(table))'
    BY <1>5, <1>13 DEF Reached
  <2> QED BY <1>13, <2>1, <2>2, <2>3 DEF MadeInv
<1>14. ASSUME ~Reached(Len(made)) /\ i # Length - 1 /\ table' = made /\ phase' = "loop"
       PROVE  MadeInv'
  <2>1. MadeGroups(table') \subseteq Groups'
    BY <1>5, <1>10, <1>14
  <2>2. limit' # Infinity => Len(table') <= limit'
    BY <1>5, <1>12, <1>14
  <2>3. ~Reached(Len(table))'
    BY <1>5, <1>14 DEF Reached
  <2>4. \A j \in 0..(start' - 1) : KeyAt(j)' \in MadeGroups(table')
    BY <1>3, <1>5, <1>9, <1>14
  <2> QED BY <1>14, <2>1, <2>2, <2>3, <2>4 DEF MadeInv
<1>15. ASSUME /\ ~Reached(Len(made)) /\ i = Length - 1 /\ phase' = "output"
              /\ table' = WithRow(made, KeyAt(i), from, i + 1)
       PROVE  MadeInv'
  <2>1. from \in 0..Length /\ i + 1 \in 0..Length
    BY <1>2, <1>3, <1>15
  <2>2. MadeGroups(table') = MadeGroups(made) \union {KeyAt(i)} /\ Len(table') = Len(made) + 1
    <3>1. KeyAt(i) \in Group \union {NoGroup}
      BY <1>4
    <3>2. MadeGroups(WithRow(made, KeyAt(i), from, i + 1)) = MadeGroups(made) \union {KeyAt(i)}
      <4>1. made \in Seq(Entry)
        BY <1>7
      <4> QED BY <2>1, <3>1, <4>1, MadeGroupsOfMore
    <3>3. Len(WithRow(made, KeyAt(i), from, i + 1)) = Len(made) + 1
      <4>1. made \in Seq(Entry)
        BY <1>7
      <4> QED BY <2>1, <3>1, <4>1, WithRowLength
    <3> QED BY <1>15, <3>2, <3>3
  <2>3. limit # Infinity => Len(table') <= limit
    BY <1>7, <1>11, <1>15, <2>2 DEF Reached
  <2>4. ASSUME NEW j \in 0..(Length - 1) PROVE KeyAt(j) \in MadeGroups(table')
    <3>1. j \in 0..(from - 1) \/ j \in from..i
      BY <1>2, <1>3, <1>15
    <3>2. \A l \in from..i : KeyAt(l) = KeyAt(i)
      BY <1>2, <1>4, <1>15 DEF IsRun
    <3> QED BY <1>9, <2>2, <3>1, <3>2
  <2>5. Groups \subseteq MadeGroups(table')
    BY <1>6, <2>4
  <2>6. KeyAt(i) \in Groups
    BY <1>2, <1>6, <1>15
  <2>7. MadeGroups(table') \subseteq Groups' /\ Groups' \subseteq MadeGroups(table')
    BY <1>5, <1>10, <2>2, <2>5, <2>6
  <2>8. limit' # Infinity => Len(table') <= limit'
    BY <1>5, <2>3
  <2> QED BY <1>15, <2>7, <2>8 DEF MadeInv
<1>16. MadeInv'
  <2>1. MadeLast(made, start', end') = IF i = Length - 1 THEN WithRow(made, KeyAt(i), from, i + 1) ELSE made
    BY <1>3 DEF MadeLast
  <2>2. \/ Reached(Len(made)) /\ table' = made /\ phase' = "output"
        \/ /\ ~Reached(Len(made))
           /\ table' = MadeLast(made, start', end')
           /\ phase' = IF i = Length - 1 THEN "output" ELSE "loop"
    BY <1>1 DEF made, closes
  <2> QED BY <1>13, <1>14, <1>15, <2>1, <2>2
<1>17. SinkInv'
  <2>1. phase' \in {"loop", "output"} /\ UNCHANGED <<inputs, sink, read>>
    BY <1>1
  <2> QED BY <1>1, <2>1, NothingIsOutput DEF CInv
<1>18. IInv'
  BY TurnIInv DEF CInv
<1> QED BY <1>16, <1>17, <1>18 DEF CInv

LEMMA EmptyCInv ==
  ASSUME CInv, Empty
  PROVE  CInv'
<1>1. IInv'
  BY EmptyIInv DEF CInv
<1>2. /\ phase = "loop" /\ Length = 0 /\ phase' = "output"
      /\ table' = IF ~Reached(0) /\ ~grouped THEN WithRow(table, NoGroup, 0, 0) ELSE table
      /\ UNCHANGED <<inputs, sink, read>>
  BY DEF Empty
<1>3. i = 0 /\ table = <<>> /\ table \in Seq(Entry) /\ Row = {}
  <2>1. i = 0
    BY <1>2 DEF CInv, IInv, TypeOK
  <2>2. Row = {}
    BY <1>2 DEF CInv, IInv, TypeOK, Length, Row
  <2> QED BY <1>2, <2>1, <2>2 DEF CInv, IInv, LoopInv, TypeOK
<1>4. UNCHANGED <<keys, limit, grouped>> /\ Groups' = Groups /\ (\A n : Reached(n)' = Reached(n))
  BY <1>2 DEF inputs, Length, Row, Groups, Reached
<1>5. MadeGroups(table) = {} /\ Len(table) = 0
  BY <1>3 DEF MadeGroups
<1>6. limit = Infinity \/ limit \in Nat
  BY LimitType DEF CInv, SinkInv
<1>7. MadeInv'
  <2>1. CASE ~Reached(0) /\ ~grouped
    <3> DEFINE zero == 0
    <3>1. zero \in 0..Length /\ table' = WithRow(table, NoGroup, zero, zero)
      BY <1>2, <2>1
    <3> HIDE DEF zero
    <3>2. MadeGroups(table') = {NoGroup} /\ Len(table') = 1
      <4>1. NoGroup \in Group \union {NoGroup}
        OBVIOUS
      <4>2. MadeGroups(table') = MadeGroups(table) \union {NoGroup} /\ Len(table') = Len(table) + 1
        <5>1. MadeGroups(WithRow(table, NoGroup, zero, zero)) = MadeGroups(table) \union {NoGroup}
          <6>1. table \in Seq(Entry) /\ zero \in 0..Length
            BY <1>3, <3>1
          <6> QED BY <4>1, <6>1, MadeGroupsOfMore
        <5>2. Len(WithRow(table, NoGroup, zero, zero)) = Len(table) + 1
          <6>1. table \in Seq(Entry) /\ zero \in 0..Length
            BY <1>3, <3>1
          <6> QED BY <4>1, <6>1, WithRowLength
        <5> QED BY <3>1, <5>1, <5>2
      <4> QED BY <1>5, <4>2
    <3>3. Groups = {NoGroup}
      BY <1>2, <2>1 DEF Groups
    <3>4. limit # Infinity => 1 <= limit
      BY <1>6, <2>1 DEF Reached
    <3> QED BY <1>2, <1>4, <3>2, <3>3, <3>4 DEF MadeInv
  <2>2. CASE Reached(0)
    <3>1. table' = table
      BY <1>2, <2>2
    <3> QED BY <1>2, <1>4, <1>5, <1>6, <2>2, <3>1 DEF MadeInv
  <2>3. CASE grouped
    <3>1. table' = table /\ Groups = {}
      BY <1>2, <1>3, <2>3 DEF Groups
    <3> QED BY <1>2, <1>4, <1>5, <1>6, <3>1 DEF MadeInv
  <2> QED BY <2>1, <2>2, <2>3
<1>8. SinkInv'
  BY <1>2, NothingIsOutput DEF CInv
<1> QED BY <1>1, <1>7, <1>8 DEF CInv

LEMMA CountTo ==
  ASSUME NEW n \in Nat
  PROVE  Cardinality(1..n) = n
BY FS_Interval

LEMMA AcceptedNext ==
  ASSUME NEW n \in Nat
  PROVE  /\ IsFiniteSet(Accepted(n)) /\ Cardinality(Accepted(n)) \in Nat
         /\ Cardinality(Accepted(n + 1)) =
              Cardinality(Accepted(n)) + IF table[n + 1].group \in accepts THEN 1 ELSE 0
<1>1. IsFiniteSet(1..n) /\ Accepted(n) \in SUBSET (1..n)
  BY FS_Interval DEF Accepted
<1>2. IsFiniteSet(Accepted(n)) /\ Cardinality(Accepted(n)) \in Nat
  BY <1>1, FS_Subset, FS_CardinalityType
<1>3. 1..(n + 1) = (1..n) \union {n + 1} /\ n + 1 \notin 1..n
  OBVIOUS
<1>4. CASE table[n + 1].group \in accepts
  <2>1. Accepted(n + 1) = Accepted(n) \union {n + 1} /\ n + 1 \notin Accepted(n)
    BY <1>3, <1>4 DEF Accepted
  <2>2. Cardinality(Accepted(n) \union {n + 1}) = Cardinality(Accepted(n)) + 1
    BY <1>2, <2>1, FS_AddElement
  <2> QED BY <1>2, <1>4, <2>1, <2>2
<1>5. CASE table[n + 1].group \notin accepts
  <2>1. Accepted(n + 1) = Accepted(n)
    BY <1>3, <1>5 DEF Accepted
  <2> QED BY <1>2, <1>5, <2>1
<1> QED BY <1>4, <1>5

LEMMA OutputCInv ==
  ASSUME CInv, HandOver \/ Output
  PROVE  CInv'
<1>1. IInv'
  BY OutputIInv DEF CInv
<1>2. phase = "output" /\ phase' \in {"output", "done"} /\ UNCHANGED <<inputs, loop>>
  BY DEF HandOver, Output
<1>3. /\ UNCHANGED <<keys, limit, grouped, table, accepts, bare>> /\ Groups' = Groups
      /\ (\A n : Reached(n)' = Reached(n)) /\ (\A n : Accepted(n)' = Accepted(n))
  BY <1>2 DEF inputs, loop, Length, Row, Groups, Reached, Accepted
<1>4. MadeInv'
  <2>1. MadeGroups(table)' = MadeGroups(table) /\ Reached(Len(table))' = Reached(Len(table))
    BY <1>3 DEF Reached
  <2> QED BY <1>2, <1>3, <2>1 DEF CInv, MadeInv
<1>5. /\ limit = Infinity \/ limit \in Nat
      /\ limit \in Limits /\ (bare => accepts = Group \union {NoGroup})
      /\ Len(sink) = Cardinality(Accepted(read))
      /\ \A k \in DOMAIN sink : sink[k].group \in accepts
      /\ limit # Infinity => Len(sink) <= limit
  BY <1>2, LimitType DEF CInv, SinkInv
<1>6. sink \in Seq(Entry) /\ table \in Seq(Entry) /\ read \in 0..Len(table) /\ Len(table) \in Nat
  BY DEF CInv, IInv, TypeOK
<1>7. ASSUME HandOver PROVE SinkInv'
  BY <1>2, <1>3, <1>5, <1>7 DEF HandOver, SinkInv
<1>8. ASSUME Output, phase' = "done" PROVE SinkInv'
  <2>1. ~bare /\ UNCHANGED <<sink, read>> /\ (read = Len(table) \/ Reached(Len(sink)))
    BY <1>2, <1>8 DEF Output
  <2>2. Accepted(read)' = Accepted(read) /\ Reached(Len(sink))' = Reached(Len(sink))
    BY <1>3, <2>1 DEF Accepted, Reached
  <2>3. Cardinality(Accepted(read))' = Cardinality(Accepted(read))
    BY <2>2
  <2> QED BY <1>3, <1>5, <1>8, <2>1, <2>2, <2>3 DEF SinkInv
<1>9. ASSUME Output, phase' # "done" PROVE SinkInv'
  <2>1. /\ ~bare /\ read < Len(table) /\ ~Reached(Len(sink)) /\ read' = read + 1
        /\ sink' = IF table[read + 1].group \in accepts THEN Append(sink, table[read + 1]) ELSE sink
    BY <1>9 DEF Output
  <2>2. read \in Nat /\ read + 1 \in 1..Len(table)
    BY <1>6, <2>1
  <2>3. table[read + 1] \in Entry
    BY <1>6, <2>2
  <2>4. Cardinality(Accepted(read + 1)) =
          Cardinality(Accepted(read)) + IF table[read + 1].group \in accepts THEN 1 ELSE 0
    BY <2>2, AcceptedNext
  <2>5. /\ Len(sink') = Len(sink) + IF table[read + 1].group \in accepts THEN 1 ELSE 0
        /\ \A k \in DOMAIN sink' : sink'[k].group \in accepts
    BY <1>5, <1>6, <2>1, <2>3
  <2>6. limit # Infinity => Len(sink') <= limit
    <3>1. Len(sink) \in Nat
      BY <1>6
    <3> QED BY <1>5, <2>1, <2>5, <3>1 DEF Reached
  <2>7. Accepted(read)' = Accepted(read + 1)
    BY <1>3, <2>1 DEF Accepted
  <2>8. Cardinality(Accepted(read))' = Cardinality(Accepted(read + 1))
    BY <2>7
  <2>9. Len(sink') = Cardinality(Accepted(read))'
    BY <1>5, <2>4, <2>5, <2>8
  <2> QED BY <1>2, <1>3, <1>5, <1>9, <2>5, <2>6, <2>9 DEF SinkInv
<1> QED BY <1>1, <1>4, <1>7, <1>8, <1>9 DEF CInv

LEMMA NextCInv == CInv /\ [Next]_vars => CInv'
<1> SUFFICES ASSUME CInv, [Next]_vars PROVE CInv'
  OBVIOUS
<1>1. CASE UNCHANGED vars
  <2>1. IInv'
    BY <1>1, NextIInv DEF CInv
  <2>2. /\ UNCHANGED <<phase, i, start, table, limit, accepts, bare, sink, read>> /\ Groups' = Groups
        /\ (\A n : Reached(n)' = Reached(n)) /\ (\A j : KeyAt(j)' = KeyAt(j))
        /\ Cardinality(Accepted(read))' = Cardinality(Accepted(read))
    BY <1>1 DEF vars, inputs, loop, Groups, Reached, KeyAt, Length, Row, Accepted
  <2>3. /\ MadeGroups(table)' = MadeGroups(table)
        /\ Reached(Len(table))' = Reached(Len(table)) /\ Reached(Len(sink))' = Reached(Len(sink))
    BY <2>2 DEF Reached
  <2>4. MadeInv'
    BY <2>2, <2>3 DEF CInv, MadeInv
  <2>5. SinkInv'
    BY <2>2, <2>3 DEF CInv, SinkInv
  <2> QED BY <2>1, <2>4, <2>5 DEF CInv
<1> QED BY <1>1, SortCInv, TurnCInv, EmptyCInv, OutputCInv DEF Next, Done

-----------------------------------------------------------------------------
(* One accepted row for each accepted group that was made.                 *)
LEMMA AcceptedIsCount ==
  ASSUME IInv, OneRowPerGroup
  PROVE  /\ IsFiniteSet(MadeGroups(table) \intersect accepts)
         /\ Cardinality(MadeGroups(table) \intersect accepts) = Cardinality(Accepted(Len(table)))
<1> DEFINE A == Accepted(Len(table))
           M == MadeGroups(table) \intersect accepts
           f == [k \in A |-> table[k].group]
<1>1. DOMAIN table = 1..Len(table) /\ Len(table) \in Nat
  BY DEF IInv, TypeOK
<1>2. A \subseteq DOMAIN table /\ IsFiniteSet(A)
  BY <1>1, AcceptedNext DEF Accepted
<1>3. \A g : g \in M <=> \E k \in A : table[k].group = g
  BY <1>1 DEF MadeGroups, Accepted
<1> HIDE DEF A, M
<1>4. f \in [A -> M] /\ \A g \in M : \E k \in A : f[k] = g
  BY <1>3
<1>5. \A k, m \in A : f[k] = f[m] => k = m
  BY <1>2 DEF OneRowPerGroup
<1> HIDE DEF f
<1>6. f \in Bijection(A, M)
  BY <1>4, <1>5 DEF Bijection, Injection, Surjection, IsInjective
<1>7. ExistsBijection(A, M)
  BY <1>6 DEF ExistsBijection
<1>8. IsFiniteSet(M) /\ Cardinality(M) = Cardinality(A)
  BY <1>2, <1>7, FS_Bijection
<1> QED BY <1>8 DEF A, M

LEMMA GroupsFinite ==
  ASSUME IInv
  PROVE  IsFiniteSet(Groups)
<1>1. keys \in Seq(Group) /\ Length \in Nat /\ Row = 1..Length
  BY DEF IInv, TypeOK, Length, Row
<1>2. IsFiniteSet(Row)
  BY <1>1, FS_Interval
<1> DEFINE G == {keys[r] : r \in Row}
           f == [r \in Row |-> keys[r]]
<1>3. f \in [Row -> G] /\ \A g \in G : \E r \in Row : f[r] = g
  OBVIOUS
<1> HIDE DEF f
<1>4. f \in Surjection(Row, G)
  BY <1>3 DEF Surjection
<1>5. IsFiniteSet(G)
  BY <1>2, <1>4, FS_Surjection
<1> QED BY <1>5, FS_Singleton DEF Groups

LEMMA CInvComplete ==
  ASSUME CInv, OneRowPerGroup
  PROVE  AnswerComplete
<1> SUFFICES ASSUME phase = "done", limit = Infinity \/ Groups \subseteq accepts
             PROVE  /\ Len(sink) = Least(Cardinality(Groups \intersect accepts), limit)
                    /\ \A k \in DOMAIN sink : sink[k].group \in accepts
  BY DEF AnswerComplete
<1> DEFINE made == MadeGroups(table)
           n == Cardinality(Groups \intersect accepts)
           m == Cardinality(made \intersect accepts)
<1>1. /\ IInv /\ limit \in Limits /\ (limit = Infinity \/ limit \in Nat)
      /\ made \subseteq Groups /\ (limit # Infinity => Len(table) <= limit)
      /\ Reached(Len(table)) \/ Groups \subseteq made
  BY LimitType DEF CInv, MadeInv, SinkInv
<1>2. /\ table \in Seq(Entry) /\ sink \in Seq(Entry) /\ DOMAIN table = 1..Len(table) /\ Len(table) \in Nat
      /\ Len(sink) \in Nat /\ read \in 0..Len(table) /\ read \in Nat
  BY <1>1 DEF IInv, TypeOK
<1>3. IsFiniteSet(Groups) /\ IsFiniteSet(Groups \intersect accepts) /\ n \in Nat
  BY <1>1, GroupsFinite, FS_Subset, FS_CardinalityType
<1>4. m = Cardinality(Accepted(Len(table))) /\ m \in Nat /\ m <= n
  <2>1. made \intersect accepts \in SUBSET (Groups \intersect accepts)
    BY <1>1
  <2> QED BY <1>1, <1>3, <2>1, AcceptedIsCount, FS_Subset, FS_CardinalityType
<1>5. Groups \subseteq made => m = n
  <2>1. Groups \subseteq made => made \intersect accepts = Groups \intersect accepts
    BY <1>1
  <2> QED BY <2>1
(* With everything accepted the rows are counted as they are.              *)
<1>6. ASSUME Groups \subseteq accepts, NEW r \in 0..Len(table) PROVE Cardinality(Accepted(r)) = r
  <2>1. \A k \in 1..r : k \in DOMAIN table /\ table[k].group \in made
    BY <1>2 DEF MadeGroups
  <2>2. Accepted(r) = 1..r
    BY <1>1, <1>6, <2>1 DEF Accepted
  <2>3. Cardinality(1..r) = r
    BY <1>2, CountTo
  <2> QED BY <2>2, <2>3
<1>7. CASE bare
  <2>1. sink = table /\ accepts = Group \union {NoGroup}
    BY <1>7 DEF CInv, SinkInv
  <2>2. ASSUME NEW k \in DOMAIN table PROVE table[k].group \in accepts
    <3>1. table[k] \in Entry
      BY <1>2
    <3> QED BY <2>1, <3>1 DEF Entry
  <2>3. Accepted(Len(table)) = 1..Len(table)
    BY <1>2, <2>2 DEF Accepted
  <2>4. m = Len(table)
    <3>1. Cardinality(1..Len(table)) = Len(table)
      BY <1>2, CountTo
    <3> QED BY <1>4, <2>3, <3>1
  <2>5. Len(table) = Least(n, limit)
    BY <1>1, <1>2, <1>3, <1>4, <1>5, <2>4 DEF Least, Reached
  <2> QED BY <2>1, <2>2, <2>5
<1>8. CASE ~bare
  <2>1. /\ Len(sink) = Cardinality(Accepted(read))
        /\ \A k \in DOMAIN sink : sink[k].group \in accepts
        /\ limit # Infinity => Len(sink) <= limit
        /\ read = Len(table) \/ Reached(Len(sink))
    BY <1>8 DEF CInv, SinkInv
  <2>2. CASE limit = Infinity
    <3>1. read = Len(table) /\ m = n
      BY <1>1, <1>5, <2>1, <2>2 DEF Reached
    <3> QED BY <1>3, <1>4, <2>1, <2>2, <3>1 DEF Least
  <2>3. CASE limit # Infinity /\ Groups \subseteq accepts
    <3>1. Len(sink) = read /\ m = Len(table)
      <4>1. Len(table) \in 0..Len(table)
        BY <1>2
      <4>2. Cardinality(Accepted(read)) = read /\ Cardinality(Accepted(Len(table))) = Len(table)
        BY <1>2, <1>6, <2>3, <4>1
      <4> QED BY <1>4, <2>1, <4>2
    <3>2. Len(sink) = Least(n, limit)
      <4>1. limit \in Nat /\ (Len(table) >= limit \/ m = n) /\ (read = Len(table) \/ read >= limit)
        BY <1>1, <1>5, <2>1, <2>3, <3>1 DEF Reached
      <4>2. Len(table) <= limit /\ read <= limit /\ read <= Len(table) /\ Len(table) <= n
        <5>1. Len(table) <= limit /\ read <= limit
          BY <1>1, <2>1, <2>3, <3>1
        <5>2. read <= Len(table)
          BY <1>2
        <5>3. Len(table) <= n
          BY <1>4, <3>1
        <5> QED BY <5>1, <5>2, <5>3
      <4>3. n \in Nat /\ Len(table) \in Nat /\ read \in Nat
        BY <1>2, <1>3
      <4> HIDE DEF n, m
      <4>4. read = IF limit < n THEN limit ELSE n
        BY <3>1, <4>1, <4>2, <4>3
      <4> QED BY <2>3, <3>1, <4>4 DEF Least
    <3> QED BY <2>1, <3>2
  <2> QED BY <2>2, <2>3
<1> QED BY <1>7, <1>8

(* Without HAVING a query returns as many groups as there are and LIMIT    *)
(* allows; without LIMIT it returns every group that HAVING accepts, and   *)
(* no other: for every table, limit and choice of accepted groups.         *)
THEOREM AnswersAreComplete == Spec => []AnswerComplete
<1>1. Init => CInv
  BY InitCInv
<1>2. CInv /\ [Next]_vars => CInv'
  BY NextCInv
<1>3. CInv /\ OneRowPerGroup => AnswerComplete
  BY CInvComplete
<1> QED BY <1>1, <1>2, <1>3, GroupsAreDistinct, PTL DEF Spec
=============================================================================
