------------------------ MODULE MappingSchemaProofs ------------------------
(***************************************************************************)
(* For every set of tables, files and schemas: the nesting level a         *)
(* MappingSchema remembers is the one it has; where names are normalised,  *)
(* its trie and its dictionary hold the same tables, so that find gives    *)
(* the only match, and copies are apart.                                   *)
(***************************************************************************)
EXTENDS MappingSchema, FiniteSetTheorems, TLAPS

(* The tables under the first key are at level d, and so is every table    *)
(* that is in a database.                                                  *)
Levelled(o, d) ==
  /\ \E k \in DOMAIN o.mapping : Top(k) = o.first
  /\ \A k \in DOMAIN o.mapping : Top(k) = o.first \/ Len(k) > 1 => Len(k) = d

OneLevel(o) == DOMAIN o.mapping = {} \/ \E d \in 1..3 : Levelled(o, d)

(* No file has the name of a top level dictionary.                         *)
NoFileAbove(o) ==
  \A k \in DOMAIN o.mapping, f \in Files : Len(k) > 1 => Lower[Top(k)] # Lower[f[1].name]

Fresh(o) ==
  /\ o.depth # 0 => o.depth = DictDepth(o.mapping, o.first)
  /\ o.args # 0 => o.args = o.depth

(* Below a key that both objects hold they have the same tables.           *)
Alike(o, p, top) ==
  /\ \A k : Top(k) = top => (k \in DOMAIN o.mapping <=> k \in DOMAIN p.mapping)
  /\ \E k \in DOMAIN o.mapping : Top(k) = top /\ Len(k) > 1

IsObject(o) ==
  /\ o = [mapping |-> o.mapping, first |-> o.first, depth |-> o.depth, args |-> o.args, trie |-> o.trie]
  /\ IsMapping(o.mapping)
  /\ o.first \in Names /\ o.depth \in 0..3 /\ o.args \in 0..3
  /\ o.trie \subseteq Seq(Names)

ObjectInv(o) == IsObject(o) /\ OneLevel(o) /\ NoFileAbove(o) /\ Fresh(o)

SharedAlike ==
  \A top \in shared : Objects = {"orig", "copy"} /\ Alike(obj["orig"], obj["copy"], top)

IInv == TypeOK /\ (\A s \in Objects : ObjectInv(obj[s])) /\ SharedAlike

-----------------------------------------------------------------------------
(* Keys and dictionaries                                                   *)

IsKey(k) == k \in Seq(Names) /\ Len(k) \in 1..3

IsFileKey(k) == Len(k) = 1 /\ \E f \in Files : Lower[k[1]] = Lower[f[1].name]

NotAbove(k) == \A f \in Files : Len(k) > 1 => Lower[Top(k)] # Lower[f[1].name]

(* A key that another one ends in has the same name on top.                *)
LEMMA SuffixHasTop ==
  ASSUME NEW short, NEW k, IsKey(short), IsKey(k), IsSuffixOf(short, k)
  PROVE  Top(short) = Top(k)
<1>1. SubSeq(k, Len(k) - Len(short) + 1, Len(k)) = short
  BY DEF IsSuffixOf
<1>2. Len(short) <= Len(k) /\ Len(short) \in 1..3 /\ Len(k) \in 1..3
  BY DEF IsSuffixOf, IsKey
<1> DEFINE n == Len(k) - Len(short) + 1
<1>3. n \in 1..Len(k) /\ Len(short) \in 1..(Len(k) - n + 1) /\ n + Len(short) - 1 = Len(k) /\ Len(k) \in Nat
  BY <1>2
<1>4. SubSeq(k, n, Len(k)) = [i \in 1..(Len(k) - n + 1) |-> k[n + i - 1]]
  <2>1. k \in Seq(Names)
    BY DEF IsKey
  <2> HIDE DEF n
  <2> QED BY <1>3, <2>1, SMTT(30)
<1>5. SubSeq(k, n, Len(k))[Len(short)] = k[n + Len(short) - 1]
  <2> HIDE DEF n
  <2> QED BY <1>3, <1>4
<1> QED BY <1>1, <1>3, <1>5 DEF Top

LEMMA TopIsName ==
  ASSUME NEW k, IsKey(k)
  PROVE  Top(k) \in Names
<1>1. k \in Seq(Names) /\ Len(k) \in 1..Len(k)
  BY DEF IsKey
<1> QED BY <1>1 DEF Top

(* The depth is the level of any table under the first key.                *)
LEMMA DepthIsLevel ==
  ASSUME NEW o, NEW d, Levelled(o, d)
  PROVE  DictDepth(o.mapping, o.first) = d /\ DOMAIN o.mapping # {}
<1>1. DOMAIN o.mapping # {}
  BY DEF Levelled
<1>2. PICK k \in DOMAIN o.mapping : Top(k) = o.first
  BY DEF Levelled
<1>3. LET c == CHOOSE k2 \in DOMAIN o.mapping : Top(k2) = o.first IN c \in DOMAIN o.mapping /\ Top(c) = o.first
  BY <1>2
<1> QED BY <1>1, <1>3 DEF Levelled, DictDepth

(* nested_set makes a dictionary.                                          *)
LEMMA NestedSetIsMapping ==
  ASSUME NEW mapping, NEW key, NEW columns, IsMapping(mapping), IsKey(key), columns \subseteq Names
  PROVE  IsMapping(NestedSet(mapping, key, columns))
<1>1. DOMAIN NestedSet(mapping, key, columns) = {k \in DOMAIN mapping : ~IsSuffixOf(key, k)} \union {key}
  BY DEF NestedSet
<1>2. ASSUME NEW k \in DOMAIN NestedSet(mapping, key, columns)
      PROVE  k \in Seq(Names) /\ Len(k) \in 1..3 /\ NestedSet(mapping, key, columns)[k] \subseteq Names
  BY <1>1, <1>2 DEF NestedSet, IsMapping, IsKey
<1>3. NestedSet(mapping, key, columns) = [k \in DOMAIN NestedSet(mapping, key, columns) |-> NestedSet(mapping, key, columns)[k]]
  BY <1>1 DEF NestedSet
<1> QED BY <1>1, <1>2, <1>3 DEF IsMapping

(* A table at the level of the others, or a file, leaves the level.        *)
LEMMA LevelKept ==
  ASSUME NEW o, NEW p, NEW d \in 1..3, NEW key, NEW columns,
         IsMapping(o.mapping), Levelled(o, d), NoFileAbove(o),
         IsKey(key), columns \subseteq Names, Len(key) = d \/ IsFileKey(key),
         p.mapping = NestedSet(o.mapping, key, columns), p.first = o.first
  PROVE  Levelled(p, d)
<1>1. DOMAIN p.mapping = {k \in DOMAIN o.mapping : ~IsSuffixOf(key, k)} \union {key}
  BY DEF NestedSet
<1>2. ASSUME NEW k \in DOMAIN o.mapping PROVE IsKey(k)
  BY <1>2 DEF IsMapping, IsKey
<1>3. PICK k0 \in DOMAIN o.mapping : Top(k0) = o.first /\ Len(k0) = d
  BY DEF Levelled
<1>4. \E k \in DOMAIN p.mapping : Top(k) = p.first
  <2>1. CASE Top(key) = o.first
    BY <2>1, <1>1
  <2>2. CASE Top(key) # o.first
    BY <2>2, <1>1, <1>2, <1>3, SuffixHasTop
  <2> QED BY <2>1, <2>2
<1>5. ASSUME Top(key) = p.first \/ Len(key) > 1 PROVE Len(key) = d
  <2>1. CASE Len(key) = d
    BY <2>1
  <2>2. CASE IsFileKey(key)
    <3>1. Top(key) = key[1] /\ Top(key) = o.first
      BY <2>2, <1>5 DEF IsFileKey, Top
    <3>2. ~(Len(k0) > 1)
      BY <2>2, <3>1, <1>3 DEF IsFileKey, NoFileAbove
    <3>3. Len(k0) = 1
      BY <3>2, <1>2, <1>3 DEF IsKey
    <3> QED BY <3>3, <1>3, <2>2 DEF IsFileKey
  <2> QED BY <2>1, <2>2
<1>6. ASSUME NEW k \in DOMAIN p.mapping, Top(k) = p.first \/ Len(k) > 1 PROVE Len(k) = d
  BY <1>1, <1>5, <1>6 DEF Levelled
<1> QED BY <1>4, <1>6 DEF Levelled

(* No file has the name of a dictionary after it either.                   *)
LEMMA NoFileAboveKept ==
  ASSUME NEW o, NEW p, NEW key, NEW columns,
         IsMapping(o.mapping), NoFileAbove(o), IsKey(key), columns \subseteq Names, NotAbove(key),
         p.mapping = NestedSet(o.mapping, key, columns)
  PROVE  NoFileAbove(p)
<1>1. DOMAIN p.mapping = {k \in DOMAIN o.mapping : ~IsSuffixOf(key, k)} \union {key}
  BY DEF NestedSet
<1> QED BY <1>1 DEF NoFileAbove, NotAbove

-----------------------------------------------------------------------------
(* The keys of references                                                  *)

LEMMA NormalNameIsName ==
  ASSUME NEW id \in Identifiers
  PROVE  NormalName(id) \in Names /\ Lower[NormalName(id)] = Lower[id.name]
BY NamesAssumption DEF NormalName, Identifiers

LEMMA PartsAreKey ==
  ASSUME NEW ref \in Tables \union Files
  PROVE  IsKey(Parts(ref)) /\ Len(Parts(ref)) = Len(ref)
<1>1. ref \in Seq(Identifiers) /\ Len(ref) \in 1..3
  BY ReferencesAssumption
<1>2. \A i \in 1..Len(ref) : ref[i] \in Identifiers
  BY <1>1
<1>3. \A i \in 1..Len(ref) : NormalName(ref[i]) \in Names
  BY <1>2, NormalNameIsName
<1>4. Parts(ref) \in Seq(Names) /\ Len(Parts(ref)) = Len(ref)
  BY <1>1, <1>3 DEF Parts
<1> QED BY <1>1, <1>4 DEF IsKey

(* A file has the key of one, and no reference puts a dictionary there.    *)
LEMMA PartsAreApart ==
  ASSUME NEW ref \in Tables \union Files
  PROVE  NotAbove(Parts(ref)) /\ (ref \in Files => IsFileKey(Parts(ref)))
<1>1. ref \in Seq(Identifiers) /\ Len(ref) \in 1..3 /\ Len(Parts(ref)) = Len(ref)
  BY ReferencesAssumption, PartsAreKey
<1>2. \A i \in 1..Len(ref) : Lower[Parts(ref)[i]] = Lower[ref[i].name]
  <2>1. \A i \in 1..Len(ref) : ref[i] \in Identifiers
    BY <1>1
  <2> QED BY <1>1, <2>1, NormalNameIsName DEF Parts
<1>3. CASE ref \in Files
  <2>1. Len(ref) = 1
    BY <1>3, FilesAssumption
  <2> QED BY <1>1, <1>2, <1>3, <2>1 DEF NotAbove, IsFileKey
<1>4. CASE ref \in Tables /\ ref \notin Files
  <2>1. ASSUME NEW f \in Files, Len(ref) > 1
        PROVE  Lower[ref[Len(ref)].name] # Lower[f[1].name]
    <3>1. Len(ref) \in 2..3
      BY <2>1, <1>1
    <3> QED BY <3>1, <1>4, FilesAssumption
  <2>2. Lower[Top(Parts(ref))] = Lower[ref[Len(ref)].name]
    BY <1>1, <1>2 DEF Top
  <2> QED BY <1>1, <1>4, <2>1, <2>2 DEF NotAbove
<1> QED BY <1>3, <1>4

LEMMA ColumnsAreNames ==
  ASSUME NEW columns \in ColumnSets
  PROVE  NormalColumns(columns) \subseteq Names
BY NamesAssumption DEF NormalColumns, LowerColumns

-----------------------------------------------------------------------------
(* The caches                                                              *)

(* The depth kept is that of the tables; without tables none is.           *)
LEMMA DepthKept ==
  ASSUME NEW o, ObjectInv(o)
  PROVE  /\ DOMAIN o.mapping = {} => o.depth = 0 /\ o.args = 0
         /\ \A d \in 1..3 : Levelled(o, d) => DictDepth(o.mapping, o.first) = d /\ o.depth \in {0, d}
<1>1. IsObject(o) /\ Fresh(o)
  BY DEF ObjectInv
<1>2. DOMAIN o.mapping = {} => o.depth = 0 /\ o.args = 0
  BY <1>1 DEF Fresh, DictDepth
<1>3. ASSUME NEW d \in 1..3, Levelled(o, d)
      PROVE  DictDepth(o.mapping, o.first) = d /\ o.depth \in {0, d}
  BY <1>1, <1>3, DepthIsLevel DEF Fresh
<1> QED BY <1>2, <1>3

(* Asking for the depth changes the depth kept only.                       *)
LEMMA WithDepthKeeps ==
  ASSUME NEW o, ObjectInv(o)
  PROVE  /\ ObjectInv(WithDepth(o))
         /\ WithDepth(o).mapping = o.mapping /\ WithDepth(o).first = o.first
         /\ WithDepth(o).trie = o.trie
         /\ \A d \in 1..3 : Levelled(o, d) => WithDepth(o).depth = d
<1>1. IsObject(o) /\ OneLevel(o) /\ NoFileAbove(o) /\ Fresh(o)
  BY DEF ObjectInv
<1>2. CASE DOMAIN o.mapping # {} /\ o.depth = 0
  <2>1. PICK d \in 1..3 : Levelled(o, d)
    BY <1>1, <1>2 DEF OneLevel
  <2>2. DictDepth(o.mapping, o.first) = d
    BY <2>1, DepthIsLevel
  <2> DEFINE p == [o EXCEPT !.depth = d]
  <2>3. WithDepth(o) = p
    BY <1>2, <2>2 DEF WithDepth
  <2>4. /\ p.mapping = o.mapping /\ p.first = o.first /\ p.depth = d
        /\ p.args = o.args /\ p.trie = o.trie
        /\ p = [mapping |-> p.mapping, first |-> p.first, depth |-> p.depth, args |-> p.args, trie |-> p.trie]
    BY <1>1 DEF IsObject
  <2> HIDE DEF p
  <2>5. o.args = 0
    BY <1>1, <1>2 DEF Fresh
  <2>6. IsObject(p)
    BY <1>1, <2>4 DEF IsObject
  <2>7. OneLevel(p) /\ NoFileAbove(p)
    BY <1>1, <2>4 DEF OneLevel, NoFileAbove, Levelled
  <2>8. Fresh(p)
    BY <2>2, <2>4, <2>5 DEF Fresh
  <2>9. \A d2 \in 1..3 : Levelled(o, d2) => d2 = d
    BY <2>1 DEF Levelled
  <2> QED BY <2>3, <2>4, <2>6, <2>7, <2>8, <2>9 DEF ObjectInv
<1>3. CASE ~(DOMAIN o.mapping # {} /\ o.depth = 0)
  <2>1. WithDepth(o) = o
    BY <1>3 DEF WithDepth
  <2>2. ASSUME NEW d \in 1..3, Levelled(o, d) PROVE o.depth = d
    <3>1. DOMAIN o.mapping # {}
      BY <2>2, DepthIsLevel
    <3> QED BY <3>1, <1>3, <2>2, DepthKept
  <2> QED BY <2>1, <2>2
<1> QED BY <1>2, <1>3

(* So does asking for the arguments supported.                             *)
LEMMA WithArgsKeeps ==
  ASSUME NEW o, ObjectInv(o)
  PROVE  /\ ObjectInv(WithArgs(o))
         /\ WithArgs(o).mapping = o.mapping /\ WithArgs(o).first = o.first
<1> DEFINE q == WithDepth(o)
<1>1. /\ ObjectInv(q) /\ q.mapping = o.mapping /\ q.first = o.first
  BY WithDepthKeeps
<1> HIDE DEF q
<1>2. CASE o.args = 0 /\ DOMAIN o.mapping # {}
  <2> DEFINE p == [q EXCEPT !.args = q.depth]
  <2>1. WithArgs(o) = p
    BY <1>2 DEF WithArgs, q
  <2>2. IsObject(q) /\ OneLevel(q) /\ NoFileAbove(q) /\ Fresh(q)
    BY <1>1 DEF ObjectInv
  <2>3. /\ p.mapping = q.mapping /\ p.first = q.first /\ p.depth = q.depth
        /\ p.args = q.depth /\ p.trie = q.trie
        /\ p = [mapping |-> p.mapping, first |-> p.first, depth |-> p.depth, args |-> p.args, trie |-> p.trie]
    BY <2>2 DEF IsObject
  <2> HIDE DEF p
  <2>4. IsObject(p)
    BY <2>2, <2>3 DEF IsObject
  <2>5. OneLevel(p) /\ NoFileAbove(p)
    BY <2>2, <2>3 DEF OneLevel, NoFileAbove, Levelled
  <2>6. Fresh(p)
    BY <2>2, <2>3 DEF Fresh
  <2> QED BY <1>1, <2>1, <2>3, <2>4, <2>5, <2>6 DEF ObjectInv
<1>3. CASE ~(o.args = 0 /\ DOMAIN o.mapping # {})
  BY <1>3 DEF WithArgs
<1> QED BY <1>2, <1>3

-----------------------------------------------------------------------------
(* Adding tables                                                           *)

(* The fields of an object of which some are replaced.                     *)
LEMMA FieldsChanged ==
  ASSUME NEW o, IsObject(o), NEW mapping, NEW trie, NEW first
  PROVE  /\ [o EXCEPT !.mapping = mapping, !.trie = trie]
              = [mapping |-> mapping, first |-> o.first, depth |-> o.depth, args |-> o.args, trie |-> trie]
         /\ [o EXCEPT !.mapping = mapping, !.trie = trie, !.first = first]
              = [mapping |-> mapping, first |-> first, depth |-> o.depth, args |-> o.args, trie |-> trie]
<1> DEFINE p == [o EXCEPT !.mapping = mapping]
           q == [p EXCEPT !.trie = trie]
           r == [q EXCEPT !.first = first]
<1>1. o = [mapping |-> o.mapping, first |-> o.first, depth |-> o.depth, args |-> o.args, trie |-> o.trie]
  BY DEF IsObject
<1>2. p = [mapping |-> mapping, first |-> o.first, depth |-> o.depth, args |-> o.args, trie |-> o.trie]
  BY <1>1
<1>3. q = [mapping |-> mapping, first |-> o.first, depth |-> o.depth, args |-> o.args, trie |-> trie]
  <2> HIDE DEF p
  <2> QED BY <1>2
<1>4. r = [mapping |-> mapping, first |-> first, depth |-> o.depth, args |-> o.args, trie |-> trie]
  <2> HIDE DEF p, q
  <2> QED BY <1>3
<1>5. [o EXCEPT !.mapping = mapping, !.trie = trie] = q
  OBVIOUS
<1>6. [o EXCEPT !.mapping = mapping, !.trie = trie, !.first = first] = r
  OBVIOUS
<1> QED BY <1>3, <1>4, <1>5, <1>6

LEMMA TableChanged ==
  ASSUME NEW o, IsObject(o), NEW key, NEW columns
  PROVE  WithTable(o, key, columns)
           = [mapping |-> NestedSet(o.mapping, key, columns),
              first |-> IF DOMAIN o.mapping = {} THEN Top(key) ELSE o.first,
              depth |-> o.depth, args |-> o.args, trie |-> o.trie \union {key}]
<1> DEFINE m == NestedSet(o.mapping, key, columns)
           t == o.trie \union {key}
           first == IF DOMAIN o.mapping = {} THEN Top(key) ELSE o.first
           p == [o EXCEPT !.mapping = m, !.trie = t, !.first = first]
<1>1. WithTable(o, key, columns) = p
  BY DEF WithTable
<1>2. p = [mapping |-> m, first |-> first, depth |-> o.depth, args |-> o.args, trie |-> t]
  <2> HIDE DEF m, t, first
  <2> DEFINE q == [o EXCEPT !.mapping = m]
             r == [q EXCEPT !.trie = t]
  <2>1. o = [mapping |-> o.mapping, first |-> o.first, depth |-> o.depth, args |-> o.args, trie |-> o.trie]
    BY DEF IsObject
  <2>2. q = [mapping |-> m, first |-> o.first, depth |-> o.depth, args |-> o.args, trie |-> o.trie]
    BY <2>1
  <2>3. r = [mapping |-> m, first |-> o.first, depth |-> o.depth, args |-> o.args, trie |-> t]
    <3> HIDE DEF q
    <3> QED BY <2>2
  <2>4. [r EXCEPT !.first = first]
          = [mapping |-> m, first |-> first, depth |-> o.depth, args |-> o.args, trie |-> t]
    <3> HIDE DEF q, r
    <3> QED BY <2>3
  <2>5. p = [r EXCEPT !.first = first]
    OBVIOUS
  <2> QED BY <2>4, <2>5
<1> QED BY <1>1, <1>2

LEMMA MappingChanged ==
  ASSUME NEW o, IsObject(o), NEW mapping
  PROVE  [o EXCEPT !.mapping = mapping] = [o EXCEPT !.mapping = mapping, !.trie = o.trie]
<1>1. o = [mapping |-> o.mapping, first |-> o.first, depth |-> o.depth, args |-> o.args, trie |-> o.trie]
  BY DEF IsObject
<1>2. [o EXCEPT !.mapping = mapping]
        = [mapping |-> mapping, first |-> o.first, depth |-> o.depth, args |-> o.args, trie |-> o.trie]
  BY <1>1
<1> QED BY <1>2, FieldsChanged

(* A table of the level of the others, or a file, put where there are      *)
(* tables already.                                                         *)
LEMMA InsertKeeps ==
  ASSUME NEW o, NEW d \in 1..3, NEW key, NEW columns, NEW names, ObjectInv(o), Levelled(o, d),
         IsKey(key), columns \subseteq Names, NotAbove(key), Len(key) = d \/ IsFileKey(key),
         names \subseteq Seq(Names)
  PROVE  ObjectInv([o EXCEPT !.mapping = NestedSet(o.mapping, key, columns), !.trie = names])
<1> DEFINE p == [o EXCEPT !.mapping = NestedSet(o.mapping, key, columns), !.trie = names]
<1>1. IsObject(o) /\ NoFileAbove(o) /\ Fresh(o)
  BY DEF ObjectInv
<1>2. /\ p.mapping = NestedSet(o.mapping, key, columns) /\ p.first = o.first
      /\ p.depth = o.depth /\ p.args = o.args /\ p.trie = names
      /\ p = [mapping |-> p.mapping, first |-> p.first, depth |-> p.depth, args |-> p.args, trie |-> p.trie]
  <2>1. p = [mapping |-> NestedSet(o.mapping, key, columns), first |-> o.first, depth |-> o.depth,
             args |-> o.args, trie |-> names]
    BY <1>1, FieldsChanged
  <2> HIDE DEF p
  <2> QED BY <2>1
<1> HIDE DEF p
<1>3. IsMapping(o.mapping)
  BY <1>1 DEF IsObject
<1>4. IsMapping(p.mapping)
  <2>1. IsMapping(NestedSet(o.mapping, key, columns))
    BY <1>3, NestedSetIsMapping
  <2> QED BY <1>2, <2>1
<1>5. IsObject(p)
  BY <1>1, <1>2, <1>4 DEF IsObject
<1>6. Levelled(p, d)
  BY <1>1, <1>2, <1>3, LevelKept
<1>7. NoFileAbove(p)
  BY <1>1, <1>2, <1>3, NoFileAboveKept
<1>8. DictDepth(p.mapping, p.first) = d /\ DictDepth(o.mapping, o.first) = d
  BY <1>6, DepthIsLevel
<1>9. Fresh(p)
  BY <1>1, <1>2, <1>8 DEF Fresh
<1>10. OneLevel(p)
  BY <1>6 DEF OneLevel
<1> QED BY <1>5, <1>7, <1>9, <1>10 DEF ObjectInv, p

(* add_table puts a table at the level of the others, or any table where   *)
(* there is none yet.                                                      *)
LEMMA WithTableKeeps ==
  ASSUME NEW o, NEW key, NEW columns, ObjectInv(o), IsKey(key), columns \subseteq Names, NotAbove(key),
         DOMAIN o.mapping = {} \/ IsFileKey(key) \/ Levelled(o, Len(key))
  PROVE  /\ ObjectInv(WithTable(o, key, columns))
         /\ WithTable(o, key, columns).mapping = NestedSet(o.mapping, key, columns)
<1>1. IsObject(o) /\ OneLevel(o) /\ Fresh(o)
  BY DEF ObjectInv
<1>2. o.trie \union {key} \subseteq Seq(Names) /\ Len(key) \in 1..3
  BY <1>1 DEF IsObject, IsKey
<1> DEFINE m == NestedSet(o.mapping, key, columns)
           t == o.trie \union {key}
           first == IF DOMAIN o.mapping = {} THEN Top(key) ELSE o.first
           p == WithTable(o, key, columns)
<1>3. p = [mapping |-> m, first |-> first, depth |-> o.depth, args |-> o.args, trie |-> t]
  BY <1>1, TableChanged
<1>4. CASE DOMAIN o.mapping # {}
  <2>1. PICK d \in 1..3 : Levelled(o, d) /\ (Len(key) = d \/ IsFileKey(key))
    BY <1>1, <1>2, <1>4 DEF OneLevel
  <2>2. p = [o EXCEPT !.mapping = m, !.trie = t]
    <3>1. first = o.first
      BY <1>4
    <3> HIDE DEF m, t, first, p
    <3> QED BY <1>1, <1>3, <3>1, FieldsChanged
  <2>3. p.mapping = m
    <3> HIDE DEF m, t, first, p
    <3> QED BY <1>3
  <2>4. ObjectInv([o EXCEPT !.mapping = m, !.trie = t])
    BY <1>2, <2>1, InsertKeeps
  <2> QED BY <2>2, <2>3, <2>4
<1>5. CASE DOMAIN o.mapping = {}
  <2>1. /\ p.mapping = NestedSet(o.mapping, key, columns) /\ p.first = Top(key)
        /\ p.depth = o.depth /\ p.args = o.args /\ p.trie = o.trie \union {key}
        /\ p = [mapping |-> p.mapping, first |-> p.first, depth |-> p.depth, args |-> p.args, trie |-> p.trie]
    <3>1. first = Top(key)
      BY <1>5
    <3> HIDE DEF m, t, first, p
    <3>2. /\ p.mapping = m /\ p.first = Top(key) /\ p.depth = o.depth /\ p.args = o.args /\ p.trie = t
          /\ p = [mapping |-> p.mapping, first |-> p.first, depth |-> p.depth, args |-> p.args, trie |-> p.trie]
      BY <1>3, <3>1
    <3> QED BY <3>2 DEF m, t
  <2> HIDE DEF p
  <2>2. o.depth = 0 /\ o.args = 0
    BY <1>5, DepthKept
  <2>3. Top(key) \in Names
    BY <1>2 DEF IsKey, Top
  <2>4. IsMapping(p.mapping) /\ DOMAIN p.mapping = {key}
    <3>1. IsMapping(o.mapping)
      BY <1>1 DEF IsObject
    <3>2. DOMAIN p.mapping = {key}
      BY <2>1, <1>5 DEF NestedSet
    <3>3. IsMapping(NestedSet(o.mapping, key, columns))
      BY <3>1, NestedSetIsMapping
    <3> QED BY <2>1, <3>2, <3>3
  <2>5. IsObject(p)
    BY <1>2, <2>1, <2>2, <2>3, <2>4 DEF IsObject
  <2>6. Levelled(p, Len(key))
    BY <2>1, <2>4 DEF Levelled
  <2>7. OneLevel(p) /\ NoFileAbove(p) /\ Fresh(p)
    BY <1>2, <2>1, <2>2, <2>4, <2>6 DEF OneLevel, NoFileAbove, NotAbove, Fresh
  <2>8. ObjectInv(p) /\ p.mapping = NestedSet(o.mapping, key, columns)
    BY <2>1, <2>5, <2>7 DEF ObjectInv
  <2> QED BY <2>8 DEF p
<1> QED BY <1>4, <1>5

-----------------------------------------------------------------------------
(* Making and copying                                                      *)

(* A new object remembers the level of its tables.                         *)
LEMMA MadeIsObject ==
  ASSUME NEW mapping, NEW first \in Names, IsMapping(mapping),
         OneLevel([mapping |-> mapping, first |-> first]),
         NoFileAbove([mapping |-> mapping, first |-> first])
  PROVE  ObjectInv(Made(mapping, first)) /\ Made(mapping, first).mapping = mapping
<1> DEFINE m == [mapping |-> mapping, first |-> first]
           names == Flatten(mapping, DictDepth(mapping, first))
           o == [mapping |-> mapping, first |-> first, depth |-> 0, args |-> 0, trie |-> names]
<1>1. Flatten(mapping, DictDepth(mapping, first)) \subseteq Seq(Names)
  <2>1. ASSUME NEW key \in DOMAIN mapping PROVE key \in Seq(Names)
    BY DEF IsMapping
  <2>2. \A key \in DOMAIN mapping : \A c \in mapping[key] : <<c>> \o key \in Seq(Names)
    <3> TAKE key \in DOMAIN mapping
    <3> TAKE c \in mapping[key]
    <3>1. c \in Names /\ key \in Seq(Names)
      BY DEF IsMapping
    <3> QED BY <3>1
  <2>3. ASSUME NEW k \in Flatten(mapping, DictDepth(mapping, first)) PROVE k \in Seq(Names)
    <3>1. CASE k \in DOMAIN mapping
      BY <2>1, <3>1
    <3>2. CASE k \notin DOMAIN mapping
      <4>1. PICK key \in DOMAIN mapping : \E c \in mapping[key] : k = <<c>> \o key
        BY <3>2 DEF Flatten
      <4> QED BY <2>2, <4>1
    <3> QED BY <3>1, <3>2
  <2> QED BY <2>3
<1> HIDE DEF names
<1>2. IsObject(o)
  <2>1. names \subseteq Seq(Names)
    BY <1>1 DEF names
  <2>2. /\ o.mapping = mapping /\ o.first = first /\ o.depth = 0 /\ o.args = 0 /\ o.trie = names
        /\ o = [mapping |-> o.mapping, first |-> o.first, depth |-> o.depth, args |-> o.args, trie |-> o.trie]
    OBVIOUS
  <2> HIDE DEF o
  <2> QED BY <2>1, <2>2 DEF IsObject
<1>3. OneLevel(o) /\ NoFileAbove(o)
  <2>1. OneLevel(m) /\ NoFileAbove(m)
    OBVIOUS
  <2>2. m.mapping = o.mapping /\ m.first = o.first
    OBVIOUS
  <2> HIDE DEF m, o
  <2> QED BY <2>1, <2>2 DEF OneLevel, NoFileAbove, Levelled
<1>4. Fresh(o)
  BY DEF Fresh
<1>5. ObjectInv(o)
  BY <1>2, <1>3, <1>4 DEF ObjectInv
<1>6. Made(mapping, first) = WithDepth(o)
  BY DEF Made, names
<1>7. o.mapping = mapping
  OBVIOUS
<1> HIDE DEF o
<1> QED BY <1>5, <1>6, <1>7, WithDepthKeeps

(* The keys that are rebuilt are tables, and all of one level.             *)
LEMMA FlatIsLevel ==
  ASSUME NEW o, NEW d \in 1..3, IsMapping(o.mapping), Levelled(o, d), CanRebuild(o.mapping, o.first)
  PROVE  /\ Flatten(o.mapping, DictDepth(o.mapping, o.first)) \subseteq {k \in DOMAIN o.mapping : Len(k) = d}
         /\ \E k \in Flatten(o.mapping, DictDepth(o.mapping, o.first)) : Top(k) = o.first
<1> DEFINE flat == Flatten(o.mapping, d)
<1>1. DictDepth(o.mapping, o.first) = d
  BY DepthIsLevel
<1>2. flat \subseteq DOMAIN o.mapping
  BY <1>1 DEF CanRebuild
<1>3. ASSUME NEW k \in flat PROVE Len(k) = d
  <2>1. CASE k \in {key \in DOMAIN o.mapping : Len(key) = d}
    BY <2>1
  <2>2. CASE k \notin {key \in DOMAIN o.mapping : Len(key) = d}
    <3>1. PICK key \in DOMAIN o.mapping : \E c \in o.mapping[key] : k = <<c>> \o key
      BY <2>2 DEF Flatten
    <3> PICK c \in o.mapping[key] : k = <<c>> \o key
      BY <3>1
    <3>2. key \in Seq(Names) /\ Len(key) \in 1..3 /\ c \in Names
      BY DEF IsMapping
    <3>3. Len(k) > 1
      BY <3>2
    <3> QED BY <1>2, <3>3 DEF Levelled
  <2> QED BY <2>1, <2>2
<1>4. PICK k \in DOMAIN o.mapping : Top(k) = o.first /\ Len(k) = d
  BY DEF Levelled
<1>5. k \in flat
  BY <1>4 DEF Flatten
<1> QED BY <1>1, <1>2, <1>3, <1>4, <1>5

(* The names of tables and of columns are in lower case.                   *)
InLower(mapping) ==
  \A k \in DOMAIN mapping :
    (\A i \in 1..Len(k) : Lower[k[i]] = k[i]) /\ LowerColumns(mapping[k]) = mapping[k]

LEMMA LowerIsLower ==
  ASSUME NEW columns, columns \subseteq Names
  PROVE  LowerColumns(columns) \subseteq Names /\ LowerColumns(LowerColumns(columns)) = LowerColumns(columns)
BY NamesAssumption DEF LowerColumns

(* A dictionary without tables is rebuilt as one.                          *)
LEMMA RebuiltEmpty ==
  ASSUME NEW mapping, NEW first, DOMAIN mapping = {}
  PROVE  DOMAIN Rebuilt(mapping, first) = {}
<1>1. Flatten(mapping, DictDepth(mapping, first)) = {}
  BY DEF Flatten
<1> QED BY <1>1 DEF Rebuilt

(* Rebuilding in lower case keeps the level, and no file is above.         *)
LEMMA RebuiltKeeps ==
  ASSUME NEW o, NEW d \in 1..3, IsMapping(o.mapping), Levelled(o, d), NoFileAbove(o),
         CanRebuild(o.mapping, o.first)
  PROVE  /\ IsMapping(Rebuilt(o.mapping, o.first))
         /\ Levelled([mapping |-> Rebuilt(o.mapping, o.first), first |-> Lower[o.first]], d)
         /\ \A k \in DOMAIN Rebuilt(o.mapping, o.first) : Len(k) = d
         /\ InLower(Rebuilt(o.mapping, o.first))
         /\ NoFileAbove([mapping |-> Rebuilt(o.mapping, o.first), first |-> Lower[o.first]])
<1> DEFINE flat == Flatten(o.mapping, DictDepth(o.mapping, o.first))
           lower(key) == [i \in DOMAIN key |-> Lower[key[i]]]
           rebuilt == Rebuilt(o.mapping, o.first)
           r == [mapping |-> rebuilt, first |-> Lower[o.first]]
<1>1. /\ flat \subseteq {k \in DOMAIN o.mapping : Len(k) = d}
      /\ \E k \in flat : Top(k) = o.first
  BY FlatIsLevel
<1> HIDE DEF flat
<1>2. /\ rebuilt = [key \in {lower(k) : k \in flat} |->
                      LowerColumns(UNION {o.mapping[k] : k \in {k \in flat : lower(k) = key}})]
      /\ DOMAIN rebuilt = {lower(k) : k \in flat}
  BY DEF Rebuilt, flat
<1> HIDE DEF rebuilt
<1>3. ASSUME NEW k \in flat
      PROVE  /\ lower(k) \in Seq(Names) /\ Len(lower(k)) = d /\ Top(lower(k)) = Lower[Top(k)]
             /\ Top(k) \in Names /\ \A i \in 1..d : Lower[lower(k)[i]] = lower(k)[i]
  <2>1. k \in Seq(Names) /\ Len(k) = d
    BY <1>1 DEF IsMapping
  <2>2. \A i \in 1..d : k[i] \in Names /\ Lower[k[i]] \in Names
    BY <2>1, NamesAssumption
  <2>3. DOMAIN k = 1..d
    BY <2>1
  <2>4. lower(k) = [i \in 1..d |-> Lower[k[i]]]
    BY <2>3
  <2>5. lower(k) \in Seq(Names) /\ Len(lower(k)) = d
    BY <2>2, <2>4
  <2>6. \A i \in 1..d : lower(k)[i] = Lower[k[i]]
    BY <2>4
  <2> HIDE DEF lower
  <2>7. \A i \in 1..d : Lower[lower(k)[i]] = lower(k)[i]
    BY <2>2, <2>6, NamesAssumption
  <2> QED BY <2>1, <2>2, <2>5, <2>6, <2>7 DEF Top
<1>4. ASSUME NEW key \in DOMAIN rebuilt
      PROVE  rebuilt[key] \subseteq Names /\ LowerColumns(rebuilt[key]) = rebuilt[key]
  <2> DEFINE all == UNION {o.mapping[k] : k \in {k \in flat : lower(k) = key}}
  <2>1. all \subseteq Names
    BY <1>1 DEF IsMapping
  <2>2. LowerColumns(all) \subseteq Names /\ LowerColumns(LowerColumns(all)) = LowerColumns(all)
    <3> HIDE DEF all
    <3> QED BY <2>1, LowerIsLower
  <2>3. rebuilt[key] = LowerColumns(all)
    BY <1>2
  <2> QED BY <2>2, <2>3
<1> HIDE DEF lower
<1>5. IsMapping(rebuilt)
  <2>1. rebuilt = [key \in DOMAIN rebuilt |-> rebuilt[key]]
    BY <1>2
  <2>2. ASSUME NEW key \in DOMAIN rebuilt PROVE key \in Seq(Names) /\ Len(key) \in 1..3
    BY <1>2, <1>3
  <2> QED BY <1>4, <2>1, <2>2 DEF IsMapping
<1>6. r.mapping = rebuilt /\ r.first = Lower[o.first]
  OBVIOUS
<1> HIDE DEF r
<1>7. InLower(rebuilt) /\ \A k \in DOMAIN rebuilt : Len(k) = d
  <2>1. ASSUME NEW key \in DOMAIN rebuilt PROVE Len(key) = d /\ \A i \in 1..d : Lower[key[i]] = key[i]
    BY <1>2, <1>3
  <2> QED BY <1>4, <2>1 DEF InLower
<1>8. Levelled(r, d)
  <2>1. \E k \in DOMAIN r.mapping : Top(k) = r.first
    BY <1>1, <1>2, <1>3, <1>6
  <2>2. \A k \in DOMAIN r.mapping : Len(k) = d
    BY <1>2, <1>3, <1>6
  <2> QED BY <2>1, <2>2 DEF Levelled
<1>9. NoFileAbove(r)
  <2>1. ASSUME NEW k \in flat, NEW f \in Files, Len(lower(k)) > 1
        PROVE  Lower[Top(lower(k))] # Lower[f[1].name]
    <3>1. k \in DOMAIN o.mapping /\ Len(k) > 1
      BY <1>1, <1>3, <2>1
    <3>2. Lower[Top(lower(k))] = Lower[Top(k)]
      BY <1>3, NamesAssumption
    <3> QED BY <3>1, <3>2 DEF NoFileAbove
  <2> QED BY <1>2, <1>6, <2>1 DEF NoFileAbove
<1> QED BY <1>5, <1>7, <1>8, <1>9 DEF r, rebuilt

(* What copy and __init__ make of a dictionary they rebuild.               *)
LEMMA MadeOfRebuilt ==
  ASSUME NEW o, IsMapping(o.mapping), o.first \in Names, OneLevel(o), NoFileAbove(o),
         CanRebuild(o.mapping, o.first)
  PROVE  ObjectInv(Made(Rebuilt(o.mapping, o.first), Lower[o.first]))
<1> DEFINE m == Rebuilt(o.mapping, o.first)
           f == Lower[o.first]
           r == [mapping |-> m, first |-> f]
<1>1. f \in Names /\ r.mapping = m
  BY NamesAssumption
<1>2. CASE DOMAIN o.mapping = {}
  <2>1. DOMAIN m = {}
    BY <1>2, RebuiltEmpty
  <2>2. m = [key \in DOMAIN m |-> m[key]]
    BY DEF Rebuilt
  <2> HIDE DEF m, f
  <2>3. IsMapping(m)
    BY <2>1, <2>2 DEF IsMapping
  <2>4. OneLevel(r) /\ NoFileAbove(r)
    BY <1>1, <2>1 DEF OneLevel, NoFileAbove
  <2>5. ObjectInv(Made(m, f))
    BY <1>1, <2>3, <2>4, MadeIsObject
  <2> QED BY <2>5 DEF m, f
<1>3. CASE DOMAIN o.mapping # {}
  <2>1. PICK d \in 1..3 : Levelled(o, d)
    BY <1>3 DEF OneLevel
  <2>2. IsMapping(m) /\ Levelled(r, d) /\ NoFileAbove(r)
    BY <2>1, RebuiltKeeps
  <2> HIDE DEF m, f
  <2>3. OneLevel(r)
    BY <2>2 DEF OneLevel
  <2>4. ObjectInv(Made(m, f))
    BY <1>1, <2>2, <2>3, MadeIsObject
  <2> QED BY <2>4 DEF m, f
<1> QED BY <1>2, <1>3

(* And of one they take as it is.                                          *)
LEMMA MadeAsItIs ==
  ASSUME NEW o, IsMapping(o.mapping), o.first \in Names, OneLevel(o), NoFileAbove(o)
  PROVE  ObjectInv(Made(o.mapping, o.first)) /\ Made(o.mapping, o.first).mapping = o.mapping
<1> DEFINE r == [mapping |-> o.mapping, first |-> o.first]
<1>1. r.mapping = o.mapping /\ r.first = o.first
  OBVIOUS
<1>2. OneLevel(r) /\ NoFileAbove(r)
  <2> HIDE DEF r
  <2> QED BY <1>1 DEF OneLevel, NoFileAbove, Levelled
<1> QED BY <1>2, MadeIsObject

LEMMA CopiedIsObject ==
  ASSUME NEW o, ObjectInv(o), Normalize => CanRebuild(o.mapping, o.first)
  PROVE  ObjectInv(Copied(o)) /\ (~Normalize => Copied(o).mapping = o.mapping)
<1>1. IsMapping(o.mapping) /\ o.first \in Names /\ OneLevel(o) /\ NoFileAbove(o)
  BY DEF ObjectInv, IsObject
<1> QED BY <1>1, MadeOfRebuilt, MadeAsItIs DEF Copied

-----------------------------------------------------------------------------
(* What both objects hold                                                  *)

(* Two objects with the same tables below a key still have them when a     *)
(* table is put below another key, or below this one in both.              *)
LEMMA AlikeKept ==
  ASSUME NEW o, NEW p, NEW o2, NEW p2, NEW top, NEW key, NEW columns,
         IsMapping(o.mapping), IsMapping(p.mapping), IsKey(key), Alike(o, p, top),
         \/ /\ Top(key) # top
            /\ o2.mapping = o.mapping \/ o2.mapping = NestedSet(o.mapping, key, columns)
            /\ p2.mapping = p.mapping \/ p2.mapping = NestedSet(p.mapping, key, columns)
         \/ /\ Len(key) > 1
            /\ o2.mapping = NestedSet(o.mapping, key, columns)
            /\ p2.mapping = NestedSet(p.mapping, key, columns)
  PROVE  Alike(o2, p2, top)
<1> DEFINE After(mapping) == {k \in DOMAIN mapping : ~IsSuffixOf(key, k)} \union {key}
<1>1. ASSUME NEW m, IsMapping(m), NEW k \in DOMAIN m, IsSuffixOf(key, k) PROVE Top(k) = Top(key)
  <2>1. IsKey(k)
    BY <1>1 DEF IsMapping, IsKey
  <2> QED BY <1>1, <2>1, SuffixHasTop
<1>2. \A m : DOMAIN NestedSet(m, key, columns) = After(m)
  BY DEF NestedSet
<1>3. CASE /\ Top(key) # top
           /\ o2.mapping = o.mapping \/ o2.mapping = NestedSet(o.mapping, key, columns)
           /\ p2.mapping = p.mapping \/ p2.mapping = NestedSet(p.mapping, key, columns)
  <2>1. ASSUME NEW k, Top(k) = top
        PROVE  /\ k \in DOMAIN o2.mapping <=> k \in DOMAIN o.mapping
               /\ k \in DOMAIN p2.mapping <=> k \in DOMAIN p.mapping
    <3>1. k # key
      BY <1>3, <2>1
    <3>2. \A m : IsMapping(m) => (k \in After(m) <=> k \in DOMAIN m)
      BY <1>1, <1>3, <2>1, <3>1
    <3>3. (k \in After(o.mapping) <=> k \in DOMAIN o.mapping) /\ (k \in After(p.mapping) <=> k \in DOMAIN p.mapping)
      BY <3>2
    <3> HIDE DEF After
    <3> QED BY <1>2, <1>3, <3>3
  <2> QED BY <2>1 DEF Alike
<1>4. CASE /\ Len(key) > 1
           /\ o2.mapping = NestedSet(o.mapping, key, columns)
           /\ p2.mapping = NestedSet(p.mapping, key, columns)
  <2>1. DOMAIN o2.mapping = After(o.mapping) /\ DOMAIN p2.mapping = After(p.mapping)
    BY <1>2, <1>4
  <2>2. CASE Top(key) = top
    BY <1>4, <2>1, <2>2 DEF Alike
  <2>3. CASE Top(key) # top
    BY <1>3, <1>4, <2>3
  <2> QED BY <2>2, <2>3
<1> QED BY <1>3, <1>4

(* A table fits into both objects when it fits into one.                   *)
LEMMA LevelShared ==
  ASSUME NEW o, NEW p, NEW d \in 1..3, NEW d2 \in 1..3, NEW top,
         Levelled(o, d), Levelled(p, d2), Alike(o, p, top)
  PROVE  d = d2
BY DEF Alike, Levelled

-----------------------------------------------------------------------------
(* The invariant                                                           *)

(* A dictionary the object is made from has its tables at one level.       *)
LEMMA SchemaIsLevelled ==
  ASSUME NEW schema \in Schemas, NEW first, DOMAIN schema = {} \/ first \in {Top(key) : key \in DOMAIN schema},
         NEW o, o.mapping = schema, o.first = first
  PROVE  IsMapping(schema) /\ OneLevel(o) /\ NoFileAbove(o)
<1>1. IsMapping(schema) /\ (\A k, l \in DOMAIN schema : Len(k) = Len(l))
  BY SchemasAssumption
<1>2. OneLevel(o)
  <2>1. CASE DOMAIN schema # {}
    <3>1. PICK key \in DOMAIN schema : Top(key) = first
      BY <2>1
    <3>2. Len(key) \in 1..3
      BY <1>1 DEF IsMapping
    <3>3. Levelled(o, Len(key))
      BY <1>1, <3>1 DEF Levelled
    <3> QED BY <3>2, <3>3 DEF OneLevel
  <2>2. CASE DOMAIN schema = {}
    BY <2>2 DEF OneLevel
  <2> QED BY <2>1, <2>2
<1>3. NoFileAbove(o)
  BY FilesAssumption DEF NoFileAbove, Top
<1> QED BY <1>1, <1>2, <1>3

LEMMA InitInv == Init => IInv
<1> SUFFICES ASSUME Init PROVE IInv
  OBVIOUS
<1>1. PICK schema \in Schemas, first \in Names :
        /\ DOMAIN schema = {} \/ first \in {Top(key) : key \in DOMAIN schema}
        /\ Normalize => CanRebuild(schema, first)
        /\ obj = [s \in {"orig"} |-> IF Normalize THEN Made(Rebuilt(schema, first), Lower[first])
                                  ELSE Made(schema, first)]
  BY DEF Init
<1> DEFINE o == [mapping |-> schema, first |-> first]
<1>2. o.mapping = schema /\ o.first = first
  OBVIOUS
<1> HIDE DEF o
<1>3. IsMapping(schema) /\ OneLevel(o) /\ NoFileAbove(o)
  BY <1>1, <1>2, SchemaIsLevelled
<1>4. ObjectInv(obj["orig"]) /\ DOMAIN obj = {"orig"} /\ obj = [s \in DOMAIN obj |-> obj[s]]
  <2>1. Normalize => ObjectInv(Made(Rebuilt(schema, first), Lower[first]))
    BY <1>1, <1>2, <1>3, MadeOfRebuilt
  <2>2. ObjectInv(Made(schema, first))
    BY <1>1, <1>2, <1>3, MadeAsItIs
  <2> QED BY <1>1, <2>1, <2>2
<1>5. shared = {}
  BY DEF Init
<1>6. TypeOK
  BY <1>4, <1>5 DEF TypeOK, Objects, ObjectInv, IsObject
<1>7. SharedAlike
  BY <1>5 DEF SharedAlike
<1> QED BY <1>4, <1>6, <1>7 DEF IInv, Objects

(* Once the invariant holds of the objects, only the keys shared are left. *)
LEMMA ObjectsAreTyped ==
  ASSUME obj = [s \in DOMAIN obj |-> obj[s]],
         DOMAIN obj = {"orig"} \/ DOMAIN obj = {"orig", "copy"},
         \A s \in DOMAIN obj : ObjectInv(obj[s]), shared \subseteq Names, SharedAlike
  PROVE  IInv
<1>1. TypeOK
  BY DEF TypeOK, Objects, ObjectInv, IsObject
<1> QED BY <1>1 DEF IInv, Objects

(* An object whose tables stay does not change what is shared.             *)
LEMMA SharedWhereTablesStay ==
  ASSUME IInv, DOMAIN obj' = DOMAIN obj, shared' = shared,
         \A s \in Objects : obj'[s].mapping = obj[s].mapping
  PROVE  SharedAlike'
BY DEF IInv, SharedAlike, Alike, Objects

(* One object is replaced by one that has the same tables.                 *)
LEMMA CacheChangeKeeps ==
  ASSUME IInv, NEW s \in Objects, NEW o, ObjectInv(o), o.mapping = obj[s].mapping,
         obj' = [obj EXCEPT ![s] = o], shared' = shared
  PROVE  IInv'
<1>1. obj = [t \in DOMAIN obj |-> obj[t]] /\ (DOMAIN obj = {"orig"} \/ DOMAIN obj = {"orig", "copy"})
  BY DEF IInv, TypeOK, Objects
<1>2. DOMAIN obj' = DOMAIN obj /\ obj' = [t \in DOMAIN obj |-> IF t = s THEN o ELSE obj[t]]
  BY <1>1 DEF Objects
<1>3. \A t \in DOMAIN obj' : ObjectInv(obj'[t]) /\ obj'[t].mapping = obj[t].mapping
  BY <1>2 DEF IInv, Objects
<1>4. SharedAlike'
  BY <1>2, <1>3, SharedWhereTablesStay DEF Objects
<1>5. TypeOK'
  <2>1. shared' \subseteq Names
    BY DEF IInv, TypeOK
  <2>2. \A t \in DOMAIN obj' : IsObject(obj'[t])
    BY <1>3 DEF ObjectInv
  <2>3. obj' = [t \in DOMAIN obj' |-> obj'[t]]
    BY <1>2
  <2> QED BY <1>1, <1>2, <2>1, <2>2, <2>3 DEF TypeOK, Objects, IsObject
<1> QED BY <1>3, <1>4, <1>5 DEF IInv, Objects

(* find and its callers                                                    *)
LEMMA LookKeeps ==
  ASSUME IInv, NEW s \in Objects, Look(s)
  PROVE  IInv'
<1>1. ObjectInv(obj[s])
  BY DEF IInv
<1> QED BY <1>1, WithArgsKeeps, CacheChangeKeeps DEF Look

LEMMA CopyKeeps ==
  ASSUME IInv, Copy
  PROVE  IInv'
<1> DEFINE o == obj["orig"]
<1>1. ObjectInv(o)
  BY DEF IInv, TypeOK, Objects
<1>2. ObjectInv(Copied(o)) /\ (~Normalize => Copied(o).mapping = o.mapping)
  BY <1>1, CopiedIsObject DEF Copy
<1>3. /\ obj' = [s \in {"orig", "copy"} |-> IF s = "orig" THEN o ELSE Copied(o)]
      /\ shared' = SharedByCopy(o)
  BY DEF Copy
<1> HIDE DEF o
<1>4. DOMAIN obj' = {"orig", "copy"} /\ obj'["orig"] = o /\ obj'["copy"] = Copied(o)
  BY <1>3
<1>5. shared' \subseteq Names
  <2>1. IsMapping(o.mapping)
    BY <1>1 DEF ObjectInv, IsObject
  <2>2. ASSUME NEW k \in DOMAIN o.mapping PROVE Top(k) \in Names
    <3>1. IsKey(k)
      BY <2>1 DEF IsMapping, IsKey
    <3> QED BY <3>1, TopIsName
  <2> QED BY <1>3, <2>2 DEF SharedByCopy
<1>6. SharedAlike'
  <2>1. ASSUME NEW top \in shared' PROVE Alike(o, Copied(o), top)
    <3>1. ~Normalize /\ \E k \in DOMAIN o.mapping : Len(k) > 1 /\ Top(k) = top
      BY <1>3, <2>1 DEF SharedByCopy
    <3> QED BY <1>2, <3>1 DEF Alike
  <2> QED BY <1>4, <2>1 DEF SharedAlike, Objects
<1>7. TypeOK'
  <2>1. \A t \in DOMAIN obj' : IsObject(obj'[t])
    BY <1>1, <1>2, <1>4 DEF ObjectInv
  <2>2. obj' = [t \in DOMAIN obj' |-> obj'[t]]
    BY <1>3
  <2> QED BY <1>4, <1>5, <2>1, <2>2 DEF TypeOK, Objects, IsObject
<1>8. \A t \in DOMAIN obj' : ObjectInv(obj'[t])
  BY <1>1, <1>2, <1>4
<1> QED BY <1>6, <1>7, <1>8 DEF IInv, Objects

(* What the guard of add_table lets in is a table of the level there is.   *)
LEMMA AdmittedFits ==
  ASSUME NEW o, ObjectInv(o), NEW ref \in Tables \union Files, NEW match_depth \in BOOLEAN,
         match_depth \/ ref \in Files, ~Refused(o, Parts(ref), match_depth)
  PROVE  DOMAIN o.mapping = {} \/ IsFileKey(Parts(ref)) \/ Levelled(o, Len(Parts(ref)))
<1>1. SUFFICES ASSUME DOMAIN o.mapping # {}, ref \notin Files
               PROVE  Levelled(o, Len(Parts(ref)))
  BY PartsAreApart
<1>2. PICK d \in 1..3 : Levelled(o, d)
  BY <1>1 DEF ObjectInv, OneLevel
<1>3. Len(Parts(ref)) = WithDepth(o).depth
  BY <1>1 DEF Refused
<1> QED BY <1>2, <1>3, WithDepthKeeps

LEMMA AddTableKeeps ==
  ASSUME IInv, NEW s \in Objects, NEW ref \in Tables \union Files, NEW columns \in ColumnSets,
         NEW match_depth \in BOOLEAN, match_depth \/ ref \in Files,
         AddTable(s, ref, columns, match_depth)
  PROVE  IInv'
<1> DEFINE key == Parts(ref)
           o == Seen(obj[s], match_depth)
           w == WithArgs(o)
           cols == NormalColumns(columns)
           inShared(t) == t # s /\ Len(key) > 1 /\ Top(key) \in shared
<1>1. ObjectInv(obj[s]) /\ ObjectInv(o) /\ o.mapping = obj[s].mapping
  BY WithDepthKeeps DEF IInv, Seen
<1>2. ObjectInv(w) /\ w.mapping = obj[s].mapping /\ w.first = o.first
  BY <1>1, WithArgsKeeps
<1>3. IsKey(key) /\ NotAbove(key) /\ cols \subseteq Names
  BY PartsAreKey, PartsAreApart, ColumnsAreNames
<1>4. CASE obj' = [obj EXCEPT ![s] = o] /\ UNCHANGED shared
  BY <1>1, <1>4, CacheChangeKeeps
<1>5. CASE obj' = [obj EXCEPT ![s] = w] /\ UNCHANGED shared
  BY <1>2, <1>5, CacheChangeKeeps
<1>6. CASE /\ ~Refused(obj[s], key, match_depth)
           /\ obj' = [t \in Objects |->
                        IF t = s THEN WithTable(w, key, cols)
                        ELSE IF inShared(t) THEN [obj[t] EXCEPT !.mapping = NestedSet(@, key, cols)]
                        ELSE obj[t]]
           /\ shared' = IF Len(key) = 1 THEN shared \ {Top(key)} ELSE shared
  <2>1. DOMAIN obj[s].mapping = {} \/ IsFileKey(key) \/ Levelled(obj[s], Len(key))
    BY <1>1, <1>6, AdmittedFits
  <2>2. w.first = obj[s].first
    BY <1>1, <1>2, WithDepthKeeps DEF Seen
  <2> HIDE DEF w, cols, key
  <2>3. DOMAIN w.mapping = {} \/ IsFileKey(key) \/ Levelled(w, Len(key))
    BY <1>2, <2>1, <2>2 DEF Levelled
  <2>4. ObjectInv(obj'[s]) /\ obj'[s].mapping = NestedSet(obj[s].mapping, key, cols)
    <3>1. obj'[s] = WithTable(w, key, cols)
      BY <1>6
    <3> QED BY <1>2, <1>3, <2>3, <3>1, WithTableKeeps
  <2>5. ASSUME NEW t \in Objects, inShared(t)
        PROVE  ObjectInv(obj'[t]) /\ obj'[t].mapping = NestedSet(obj[t].mapping, key, cols)
    <3> DEFINE m == NestedSet(obj[t].mapping, key, cols)
    <3>1. Objects = {"orig", "copy"} /\ Alike(obj["orig"], obj["copy"], Top(key))
      BY <2>5 DEF IInv, SharedAlike
    <3>2. {s, t} = {"orig", "copy"}
      BY <2>5, <3>1
    <3>3. \E k \in DOMAIN obj[s].mapping : k \in DOMAIN obj[t].mapping /\ Top(k) = Top(key) /\ Len(k) > 1
      BY <3>1, <3>2 DEF Alike
    <3>4. Levelled(obj[s], Len(key)) /\ Len(key) \in 1..3
      BY <1>3, <2>1, <2>5, <3>3 DEF IsFileKey, IsKey
    <3>5. ObjectInv(obj[t])
      BY DEF IInv
    <3>6. PICK d \in 1..3 : Levelled(obj[t], d)
      BY <3>3, <3>5 DEF ObjectInv, OneLevel
    <3>7. Len(key) = d
      BY <3>3, <3>4, <3>6 DEF Levelled
    <3>8. obj'[t] = [obj[t] EXCEPT !.mapping = m]
      BY <1>6, <2>5
    <3> HIDE DEF m
    <3>9. IsObject(obj[t]) /\ obj[t].trie \subseteq Seq(Names)
      BY <3>5 DEF ObjectInv, IsObject
    <3>10. obj'[t] = [obj[t] EXCEPT !.mapping = m, !.trie = obj[t].trie]
      BY <3>8, <3>9, MappingChanged
    <3>11. ObjectInv([obj[t] EXCEPT !.mapping = m, !.trie = obj[t].trie])
      BY <1>3, <3>5, <3>6, <3>7, <3>9, InsertKeeps DEF m
    <3>12. [obj[t] EXCEPT !.mapping = m].mapping = m
      BY <3>9 DEF IsObject
    <3> QED BY <3>8, <3>10, <3>11, <3>12 DEF m
  <2>6. ASSUME NEW t \in Objects, t # s, ~inShared(t) PROVE obj'[t] = obj[t]
    BY <1>6, <2>6
  <2>7. \A t \in Objects : ObjectInv(obj'[t])
    BY <2>4, <2>5, <2>6 DEF IInv
  <2>8. DOMAIN obj' = Objects /\ obj' = [t \in DOMAIN obj' |-> obj'[t]]
    BY <1>6
  <2>9. shared' \subseteq shared /\ shared' \subseteq Names /\ (Objects = {"orig"} \/ Objects = {"orig", "copy"})
    BY <1>6 DEF IInv, TypeOK
  <2>10. ASSUME NEW top \in shared' PROVE Objects = {"orig", "copy"} /\ Alike(obj'["orig"], obj'["copy"], top)
    <3>1. Objects = {"orig", "copy"} /\ Alike(obj["orig"], obj["copy"], top)
      BY <2>9, <2>10 DEF IInv, SharedAlike
    <3>2. IsMapping(obj["orig"].mapping) /\ IsMapping(obj["copy"].mapping)
      BY <3>1 DEF IInv, ObjectInv, IsObject
    <3>3. CASE Top(key) # top
      <4>1. \A t \in Objects : \/ obj'[t].mapping = obj[t].mapping
                               \/ obj'[t].mapping = NestedSet(obj[t].mapping, key, cols)
        BY <2>4, <2>5, <2>6
      <4> QED BY <1>3, <3>1, <3>2, <3>3, <4>1, AlikeKept
    <3>4. CASE Top(key) = top
      <4>1. Len(key) > 1
        <5>1. Len(key) \in 1..3 /\ Top(key) \in shared'
          BY <1>3, <2>10, <3>4 DEF IsKey
        <5>2. Len(key) # 1
          BY <1>6, <5>1
        <5> QED BY <5>1, <5>2
      <4>2. \A t \in Objects : obj'[t].mapping = NestedSet(obj[t].mapping, key, cols)
        BY <2>4, <2>5, <2>9, <2>10, <3>4, <4>1
      <4> QED BY <1>3, <3>1, <3>2, <4>1, <4>2, AlikeKept
    <3> QED BY <3>1, <3>3, <3>4
  <2>11. SharedAlike'
    BY <2>8, <2>10 DEF SharedAlike, Objects
  <2>12. TypeOK'
    <3>1. \A t \in DOMAIN obj' : IsObject(obj'[t])
      BY <2>7, <2>8 DEF ObjectInv
    <3> QED BY <2>8, <2>9, <3>1 DEF TypeOK, Objects, IsObject
  <2> QED BY <2>7, <2>8, <2>11, <2>12 DEF IInv, Objects
<1> QED BY <1>4, <1>5, <1>6 DEF AddTable

LEMMA NextInv == IInv /\ [Next]_vars => IInv'
<1> SUFFICES ASSUME IInv, [Next]_vars PROVE IInv'
  OBVIOUS
<1>1. CASE UNCHANGED vars
  <2>1. obj' = obj /\ shared' = shared
    BY <1>1 DEF vars
  <2> QED BY <2>1 DEF IInv, TypeOK, SharedAlike, Objects
<1>2. ASSUME NEW s \in Objects, NEW ref \in Tables, NEW columns \in ColumnSets, AddTable(s, ref, columns, TRUE)
      PROVE  IInv'
  BY <1>2, AddTableKeeps
<1>3. ASSUME NEW s \in Objects, NEW ref \in Files, NEW columns \in ColumnSets \ {{}}, AddTable(s, ref, columns, FALSE)
      PROVE  IInv'
  BY <1>3, AddTableKeeps
<1>4. ASSUME NEW s \in Objects, Look(s) PROVE IInv'
  BY <1>4, LookKeeps
<1>5. CASE Copy
  BY <1>5, CopyKeeps
<1> QED BY <1>1, <1>2, <1>3, <1>4, <1>5 DEF Next

LEMMA InvAlways == Spec => []IInv
BY InitInv, NextInv, PTL DEF Spec

-----------------------------------------------------------------------------
(* Normalised schemas.  An object that normalises names shares nothing     *)
(* with its copy, and its trie has the tables of its dictionary: this is   *)
(* what find relies on.                                                    *)

Indexed(o) == o.trie = DOMAIN o.mapping

NormalInv == shared = {} /\ \A s \in Objects : Indexed(obj[s])

SameTables(o, p) == p.mapping = o.mapping /\ p.trie = o.trie /\ p.first = o.first

(* A table of the level of the others, or a file, or the first table.      *)
Fits(o, key) == DOMAIN o.mapping = {} \/ IsFileKey(key) \/ Levelled(o, Len(key))

(* Where a table may be put there is no dictionary to be lost.             *)
LEMMA OnlyItself ==
  ASSUME NEW o, ObjectInv(o), NEW key, IsKey(key), Fits(o, key),
         NEW k \in DOMAIN o.mapping, IsSuffixOf(key, k)
  PROVE  k = key
<1>1. PICK d \in 1..3 : Levelled(o, d) /\ (IsFileKey(key) \/ Len(key) = d)
  <2>1. Len(key) \in 1..3
    BY DEF IsKey
  <2>2. OneLevel(o) /\ DOMAIN o.mapping # {}
    BY DEF ObjectInv
  <2> QED BY <2>1, <2>2 DEF OneLevel, Fits
<1>2. IsKey(k) /\ NoFileAbove(o)
  BY DEF ObjectInv, IsObject, IsMapping, IsKey
<1>3. Top(k) = Top(key)
  BY <1>2, SuffixHasTop
<1>4. Len(key) <= Len(k) /\ Len(key) \in 1..3 /\ Len(k) \in 1..3
  BY <1>2 DEF IsSuffixOf, IsKey
<1>5. CASE Len(k) = Len(key)
  <2>1. SubSeq(k, 1, Len(k)) = key
    BY <1>4, <1>5 DEF IsSuffixOf
  <2>2. k \in Seq(Names)
    BY <1>2 DEF IsKey
  <2> QED BY <2>1, <2>2
<1>6. CASE Len(k) # Len(key)
  <2>1. Len(k) > 1 /\ Len(k) = d
    <3>1. \A a, b \in 1..3 : a <= b /\ b # a => b > 1
      OBVIOUS
    <3>2. Len(k) > 1
      BY <1>4, <1>6, <3>1
    <3> QED BY <1>1, <3>2 DEF Levelled
  <2>2. IsFileKey(key)
    BY <1>1, <1>6, <2>1
  <2>3. PICK f \in Files : Lower[key[1]] = Lower[f[1].name] /\ Len(key) = 1
    BY <2>2 DEF IsFileKey
  <2>4. Top(k) = key[1]
    BY <1>3, <2>3 DEF Top
  <2> QED BY <1>2, <2>1, <2>3, <2>4 DEF NoFileAbove
<1> QED BY <1>5, <1>6

(* So a table is added, or its columns are replaced, and that is all.      *)
LEMMA TableIsAdded ==
  ASSUME NEW o, ObjectInv(o), NEW key, IsKey(key), Fits(o, key), NEW columns, NotAbove(key),
         columns \subseteq Names
  PROVE  LET p == WithTable(o, key, columns) IN
         /\ DOMAIN p.mapping = DOMAIN o.mapping \union {key}
         /\ p.mapping[key] = columns
         /\ \A k \in DOMAIN o.mapping : k # key => p.mapping[k] = o.mapping[k]
         /\ p.trie = o.trie \union {key}
         /\ p.first = IF DOMAIN o.mapping = {} THEN Top(key) ELSE o.first
<1> DEFINE p == WithTable(o, key, columns)
<1>1. p.mapping = NestedSet(o.mapping, key, columns)
  BY WithTableKeeps DEF Fits
<1>2. DOMAIN p.mapping = {k \in DOMAIN o.mapping : ~IsSuffixOf(key, k)} \union {key}
  BY <1>1 DEF NestedSet
<1>3. DOMAIN p.mapping = DOMAIN o.mapping \union {key}
  BY <1>2, OnlyItself
<1>4. \A k \in DOMAIN p.mapping : p.mapping[k] = IF k = key THEN columns ELSE o.mapping[k]
  BY <1>1, <1>2 DEF NestedSet
<1>5. /\ p.trie = o.trie \union {key}
      /\ p.first = IF DOMAIN o.mapping = {} THEN Top(key) ELSE o.first
  <2> DEFINE m == NestedSet(o.mapping, key, columns)
             t == o.trie \union {key}
             first == IF DOMAIN o.mapping = {} THEN Top(key) ELSE o.first
  <2>2. IsObject(o)
    BY DEF ObjectInv
  <2>3. p = [mapping |-> m, first |-> first, depth |-> o.depth, args |-> o.args, trie |-> t]
    BY <2>2, TableChanged
  <2> HIDE DEF p, m, t, first
  <2>4. p.trie = t /\ p.first = first
    BY <2>3
  <2> QED BY <2>4 DEF t, first
<1> QED BY <1>3, <1>4, <1>5

(* The arguments supported are the level of the tables.                    *)
LEMMA ArgsAreLevel ==
  ASSUME NEW o, ObjectInv(o)
  PROVE  /\ SameTables(o, WithArgs(o)) /\ ObjectInv(WithArgs(o))
         /\ \A d \in 1..3 : Levelled(o, d) => WithArgs(o).args = d
<1> DEFINE q == WithDepth(o)
<1>1. /\ ObjectInv(q) /\ SameTables(o, q)
      /\ \A d \in 1..3 : Levelled(o, d) => q.depth = d
  BY WithDepthKeeps DEF SameTables
<1> HIDE DEF q
<1>2. CASE o.args = 0 /\ DOMAIN o.mapping # {}
  <2>1. WithArgs(o) = [q EXCEPT !.args = q.depth]
    BY <1>2 DEF WithArgs, q
  <2>2. WithArgs(o).trie = q.trie /\ WithArgs(o).args = q.depth
    BY <1>1, <2>1 DEF ObjectInv, IsObject
  <2> QED BY <1>1, <2>2, WithArgsKeeps DEF SameTables
<1>3. CASE ~(o.args = 0 /\ DOMAIN o.mapping # {})
  <2>1. WithArgs(o) = o
    BY <1>3 DEF WithArgs
  <2>2. ASSUME NEW d \in 1..3, Levelled(o, d) PROVE o.args = d
    <3>1. DictDepth(o.mapping, o.first) = d /\ DOMAIN o.mapping # {}
      BY <2>2, DepthIsLevel
    <3>2. o.args # 0
      BY <1>3, <3>1
    <3> QED BY <3>1, <3>2 DEF ObjectInv, Fresh, IsObject
  <2> QED BY <2>1, <2>2 DEF SameTables
<1> QED BY <1>2, <1>3

(* The answer find should give.                                            *)
Answer(mapping, depth, q) ==
  LET name == SubSeq(q, 1, IF Len(q) < depth THEN Len(q) ELSE depth)
      fits == {key \in DOMAIN mapping : IsPrefixOf(name, key)}
  IN CASE fits = {} \/ depth = 0  -> None
       [] name \in fits           -> mapping[name]
       [] Cardinality(fits) = 1 /\ name \notin fits -> mapping[CHOOSE key \in fits : TRUE]
       [] OTHER                   -> Ambiguous

(* A key no longer than the levels there are is looked up as it is.        *)
LEMMA WholeKeyIsFound ==
  ASSUME NEW o, NEW key \in Seq(Names), Len(key) \in 1..o.args, key \in DOMAIN o.mapping, o.args \in 0..3
  PROVE  NestedGet(o, key) = o.mapping[key]
<1> DEFINE n == IF Len(key) < o.args THEN Len(key) ELSE o.args
<1>1. n = Len(key)
  OBVIOUS
<1>2. SubSeq(key, Len(key) - n + 1, Len(key)) = key
  <2>1. SubSeq(key, 1, Len(key)) = key
    OBVIOUS
  <2>2. Len(key) - n + 1 = 1
    BY <1>1
  <2> QED BY <2>1, <2>2
<1> QED BY <1>2 DEF NestedGet

LEMMA AnswerIsFound ==
  ASSUME NEW o, ObjectInv(o), Indexed(o), NEW q \in Seq(Names), Len(q) > 0
  PROVE  LET w == WithArgs(o) IN Found(w, q) = Answer(w.mapping, DictDepth(w.mapping, w.first), q)
<1> DEFINE w == WithArgs(o)
<1>1. ObjectInv(w) /\ SameTables(o, w) /\ w.trie = DOMAIN w.mapping
  BY ArgsAreLevel DEF Indexed, SameTables
<1>2. CASE DOMAIN w.mapping = {}
  <2>1. DictDepth(w.mapping, w.first) = 0
    BY <1>2 DEF DictDepth
  <2>2. Answer(w.mapping, 0, q) = None
    <3> DEFINE name == SubSeq(q, 1, IF Len(q) < 0 THEN Len(q) ELSE 0)
               fits == {key \in DOMAIN w.mapping : IsPrefixOf(name, key)}
    <3>1. fits = {}
      BY <1>2
    <3> HIDE DEF name
    <3>2. name \notin fits /\ Cardinality(fits) # 1
      BY <3>1, FS_EmptySet
    <3> HIDE DEF fits
    <3> QED BY <3>1, <3>2 DEF Answer, name, fits
  <2>3. Found(w, q) = None
    BY <1>1, <1>2 DEF Found
  <2> QED BY <2>1, <2>2, <2>3
<1>3. CASE DOMAIN w.mapping # {}
  <2>1. PICK d \in 1..3 : Levelled(w, d)
    BY <1>1, <1>3 DEF ObjectInv, OneLevel
  <2>2. DictDepth(w.mapping, w.first) = d
    BY <2>1, DepthIsLevel
  <2>3. w.args = d
    BY <1>1, <2>1, ArgsAreLevel DEF SameTables, Levelled
  <2> HIDE DEF w
  <2> DEFINE n == IF Len(q) < d THEN Len(q) ELSE d
             name == SubSeq(q, 1, n)
             below == {k \in DOMAIN w.mapping : IsPrefixOf(name, k)}
  <2>4. n \in 1..d /\ n <= Len(q) /\ name \in Seq(Names) /\ Len(name) = n
    <3>1. n \in 1..d /\ n <= Len(q)
      OBVIOUS
    <3> HIDE DEF n
    <3> QED BY <3>1
  <2>5. ASSUME NEW k \in DOMAIN w.mapping PROVE NestedGet(w, k) = w.mapping[k]
    <3>1. k \in Seq(Names) /\ Len(k) \in 1..3 /\ w.args \in 0..3
      BY <1>1 DEF ObjectInv, IsObject, IsMapping
    <3>2. Len(k) > 1 => Len(k) = d
      BY <2>1 DEF Levelled
    <3>3. \A a \in 1..3 : (a > 1 => a = d) => a \in 1..d
      OBVIOUS
    <3>4. Len(k) \in 1..d
      BY <3>1, <3>2, <3>3
    <3> QED BY <2>3, <3>1, <3>4, WholeKeyIsFound
  <2> HIDE DEF name
  <2>6. name \in DOMAIN w.mapping => name \in below
    <3>1. SubSeq(name, 1, Len(name)) = name
      BY <2>4
    <3> QED BY <3>1 DEF IsPrefixOf
  <2>7. name # <<>>
    BY <2>4
  <2>8. Found(w, q) = IF below = {} THEN None
                      ELSE IF name \in DOMAIN w.mapping THEN NestedGet(w, name)
                      ELSE IF Cardinality(below) = 1 THEN NestedGet(w, CHOOSE k \in below : TRUE)
                      ELSE Ambiguous
    BY <1>1, <2>3, <2>7 DEF Found, name
  <2>9. Answer(w.mapping, d, q) =
          CASE below = {} \/ d = 0  -> None
            [] name \in below       -> w.mapping[name]
            [] Cardinality(below) = 1 /\ name \notin below -> w.mapping[CHOOSE key \in below : TRUE]
            [] OTHER                -> Ambiguous
    BY DEF Answer, name
  <2>10. below # {} => NestedGet(w, CHOOSE k \in below : TRUE) = w.mapping[CHOOSE k \in below : TRUE]
    BY <2>5
  <2>11. name \in below => name \in DOMAIN w.mapping
    OBVIOUS
  <2> HIDE DEF below
  <2>12. Found(w, q) = Answer(w.mapping, d, q)
    <3>1. CASE below = {}
      <4>1. Found(w, q) = None /\ name \notin below
        BY <2>8, <3>1
      <4>2. Answer(w.mapping, d, q) = None
        BY <2>9, <3>1, <4>1, FS_EmptySet
      <4> QED BY <4>1, <4>2
    <3>2. CASE below # {} /\ name \in below
      BY <2>5, <2>8, <2>9, <2>6, <2>11, <3>2
    <3>3. CASE below # {} /\ name \notin below /\ Cardinality(below) = 1
      BY <2>8, <2>9, <2>6, <2>10, <3>3
    <3>4. CASE below # {} /\ name \notin below /\ Cardinality(below) # 1
      BY <2>8, <2>9, <2>6, <3>4
    <3> QED BY <3>1, <3>2, <3>3, <3>4
  <2> QED BY <2>2, <2>12 DEF w
<1> QED BY <1>2, <1>3

(* A dictionary that was rebuilt has no tables but those of its level, and *)
(* all of them are in the trie made from it.                               *)
LEMMA RebuiltIsIndexed ==
  ASSUME NEW o, IsMapping(o.mapping), o.first \in Names, OneLevel(o), NoFileAbove(o),
         CanRebuild(o.mapping, o.first)
  PROVE  Indexed(Made(Rebuilt(o.mapping, o.first), Lower[o.first]))
<1> DEFINE m == Rebuilt(o.mapping, o.first)
           f == Lower[o.first]
           r == [mapping |-> m, first |-> f]
           names == Flatten(m, DictDepth(m, f))
           p == [mapping |-> m, first |-> f, depth |-> 0, args |-> 0, trie |-> names]
<1>1. names = DOMAIN m
  <2>1. CASE DOMAIN o.mapping = {}
    BY <2>1, RebuiltEmpty DEF Flatten
  <2>2. CASE DOMAIN o.mapping # {}
    <3>1. PICK d \in 1..3 : Levelled(o, d)
      BY <2>2 DEF OneLevel
    <3>2. Levelled(r, d) /\ IsMapping(m) /\ (\A k \in DOMAIN m : Len(k) = d)
      BY <3>1, RebuiltKeeps
    <3>3. r.mapping = m /\ r.first = f
      OBVIOUS
    <3>4. \A k \in DOMAIN m : Len(k) = d
      BY <3>2
    <3> HIDE DEF m, f, r
    <3>5. DictDepth(m, f) = d
      BY <3>2, <3>3, DepthIsLevel
    <3>6. {k \in DOMAIN m : Len(k) < d} = {}
      BY <3>4
    <3> QED BY <3>4, <3>5, <3>6 DEF Flatten
  <2> QED BY <2>1, <2>2
<1>2. Made(m, f) = WithDepth(p)
  BY DEF Made
<1> HIDE DEF m, f, names
<1>3. WithDepth(p).mapping = m /\ WithDepth(p).trie = names
  BY DEF WithDepth
<1> QED BY <1>1, <1>2, <1>3 DEF Indexed, m, f

AtLevel(o, key) == DOMAIN o.mapping = {} \/ Levelled(o, Len(key))

LEMMA AdmittedIsLevel ==
  ASSUME NEW o, ObjectInv(o), NEW key, ~Refused(o, key, TRUE)
  PROVE  AtLevel(o, key)
<1>1. SUFFICES ASSUME DOMAIN o.mapping # {} PROVE Levelled(o, Len(key))
  BY DEF AtLevel
<1>2. PICK d \in 1..3 : Levelled(o, d)
  BY <1>1 DEF ObjectInv, OneLevel
<1>3. Len(key) = WithDepth(o).depth
  BY <1>1 DEF Refused
<1> QED BY <1>2, <1>3, WithDepthKeeps

(* What add_table does, when nothing is shared, it does to one object: it  *)
(* adds a table that fits, or it fills the caches.                         *)
LEMMA OneObjectChanges ==
  ASSUME IInv, shared = {}, NEW s \in Objects, NEW ref \in Tables \union Files, NEW columns \in ColumnSets,
         NEW match_depth \in BOOLEAN, match_depth \/ ref \in Files,
         AddTable(s, ref, columns, match_depth)
  PROVE  /\ shared' = {}
         /\ \E w : /\ ObjectInv(w) /\ SameTables(obj[s], w)
                   /\ \/ obj' = [t \in Objects |-> IF t = s THEN w ELSE obj[t]]
                      \/ /\ Fits(w, Parts(ref)) /\ (match_depth => AtLevel(w, Parts(ref)))
                         /\ obj' = [t \in Objects |-> IF t = s THEN WithTable(w, Parts(ref), NormalColumns(columns))
                                                      ELSE obj[t]]
<1> DEFINE key == Parts(ref)
           o == Seen(obj[s], match_depth)
           w == WithArgs(o)
           cols == NormalColumns(columns)
           inShared(t) == t # s /\ Len(key) > 1 /\ Top(key) \in shared
<1>1. ObjectInv(obj[s]) /\ ObjectInv(o) /\ SameTables(obj[s], o)
  BY WithDepthKeeps DEF IInv, Seen, SameTables
<1>2. ObjectInv(w) /\ SameTables(obj[s], w)
  BY <1>1, ArgsAreLevel DEF SameTables
<1>3. obj = [t \in Objects |-> obj[t]]
  BY DEF IInv, TypeOK
<1>4. CASE obj' = [obj EXCEPT ![s] = o] /\ UNCHANGED shared
  <2> HIDE DEF o
  <2>1. obj' = [t \in Objects |-> IF t = s THEN o ELSE obj[t]]
    BY <1>3, <1>4
  <2> QED BY <1>1, <1>4, <2>1
<1>5. CASE obj' = [obj EXCEPT ![s] = w] /\ UNCHANGED shared
  <2> HIDE DEF w
  <2>1. obj' = [t \in Objects |-> IF t = s THEN w ELSE obj[t]]
    BY <1>3, <1>5
  <2> QED BY <1>2, <1>5, <2>1
<1>6. CASE /\ ~Refused(obj[s], key, match_depth)
           /\ obj' = [t \in Objects |->
                        IF t = s THEN WithTable(w, key, cols)
                        ELSE IF inShared(t) THEN [obj[t] EXCEPT !.mapping = NestedSet(@, key, cols)]
                        ELSE obj[t]]
           /\ shared' = IF Len(key) = 1 THEN shared \ {Top(key)} ELSE shared
  <2>1. Fits(obj[s], key) /\ (match_depth => AtLevel(obj[s], key))
    BY <1>1, <1>6, AdmittedFits, AdmittedIsLevel DEF Fits
  <2>2. Fits(w, key) /\ (match_depth => AtLevel(w, key))
    BY <1>2, <2>1 DEF Fits, AtLevel, SameTables, Levelled
  <2>3. obj' = [t \in Objects |-> IF t = s THEN WithTable(w, key, cols) ELSE obj[t]]
    BY <1>6
  <2>4. shared' = {}
    BY <1>6
  <2> HIDE DEF w, key, cols
  <2>5. ObjectInv(w) /\ SameTables(obj[s], w)
    BY <1>2
  <2> QED BY <2>2, <2>3, <2>4, <2>5 DEF key, cols
<1> QED BY <1>4, <1>5, <1>6 DEF AddTable

LEMMA InitNormal ==
  ASSUME Normalize, Init
  PROVE  NormalInv
<1>1. PICK schema \in Schemas, first \in Names :
        /\ DOMAIN schema = {} \/ first \in {Top(key) : key \in DOMAIN schema}
        /\ CanRebuild(schema, first)
        /\ obj = [s \in {"orig"} |-> Made(Rebuilt(schema, first), Lower[first])]
  BY DEF Init
<1> DEFINE o == [mapping |-> schema, first |-> first]
<1>2. o.mapping = schema /\ o.first = first
  OBVIOUS
<1> HIDE DEF o
<1>3. IsMapping(o.mapping) /\ OneLevel(o) /\ NoFileAbove(o)
  BY <1>1, <1>2, SchemaIsLevelled
<1>4. Indexed(Made(Rebuilt(o.mapping, o.first), Lower[o.first]))
  BY <1>1, <1>2, <1>3, RebuiltIsIndexed
<1> QED BY <1>1, <1>2, <1>4 DEF NormalInv, Objects, Init

LEMMA CopyIsIndexed ==
  ASSUME Normalize, NEW o, ObjectInv(o), CanRebuild(o.mapping, o.first)
  PROVE  Indexed(Copied(o))
<1>1. IsMapping(o.mapping) /\ o.first \in Names /\ OneLevel(o) /\ NoFileAbove(o)
  BY DEF ObjectInv, IsObject
<1>2. CASE DOMAIN o.mapping # {}
  BY <1>1, <1>2, RebuiltIsIndexed DEF Copied
<1>3. CASE DOMAIN o.mapping = {}
  <2> DEFINE names == Flatten(o.mapping, DictDepth(o.mapping, o.first))
             p == [mapping |-> o.mapping, first |-> o.first, depth |-> 0, args |-> 0, trie |-> names]
  <2>1. names = {}
    BY <1>3 DEF Flatten
  <2>2. Copied(o) = WithDepth(p)
    BY <1>3 DEF Copied, Made
  <2> HIDE DEF names
  <2>3. WithDepth(p).mapping = o.mapping /\ WithDepth(p).trie = names
    BY DEF WithDepth
  <2> QED BY <1>3, <2>1, <2>2, <2>3 DEF Indexed
<1> QED BY <1>2, <1>3

LEMMA NextNormal ==
  ASSUME Normalize, IInv, NormalInv, [Next]_vars
  PROVE  NormalInv'
<1>1. CASE UNCHANGED vars
  BY <1>1 DEF vars, NormalInv, Objects
<1>2. ASSUME NEW s \in Objects, NEW ref \in Tables \union Files, NEW columns \in ColumnSets,
             NEW match_depth \in BOOLEAN, match_depth \/ ref \in Files, AddTable(s, ref, columns, match_depth)
      PROVE  NormalInv'
  <2> DEFINE key == Parts(ref)
             cols == NormalColumns(columns)
  <2>1. shared' = {} /\ (\A t \in Objects : Indexed(obj[t]))
    BY <1>2, OneObjectChanges DEF NormalInv
  <2>2. PICK w : /\ ObjectInv(w) /\ SameTables(obj[s], w)
                 /\ \/ obj' = [t \in Objects |-> IF t = s THEN w ELSE obj[t]]
                    \/ /\ Fits(w, key)
                       /\ obj' = [t \in Objects |-> IF t = s THEN WithTable(w, key, cols) ELSE obj[t]]
    BY <1>2, OneObjectChanges DEF NormalInv
  <2>3. Indexed(w)
    BY <2>1, <2>2 DEF Indexed, SameTables
  <2>4. Fits(w, key) => Indexed(WithTable(w, key, cols))
    <3>1. IsKey(key) /\ NotAbove(key) /\ cols \subseteq Names
      BY PartsAreKey, PartsAreApart, ColumnsAreNames
    <3> HIDE DEF key, cols
    <3>2. SUFFICES ASSUME Fits(w, key) PROVE Indexed(WithTable(w, key, cols))
      OBVIOUS
    <3>3. /\ DOMAIN WithTable(w, key, cols).mapping = DOMAIN w.mapping \union {key}
          /\ WithTable(w, key, cols).trie = w.trie \union {key}
      BY <2>2, <3>1, <3>2, TableIsAdded
    <3> QED BY <2>3, <3>3 DEF Indexed
  <2> HIDE DEF key, cols
  <2> QED BY <2>1, <2>2, <2>3, <2>4 DEF NormalInv, Objects
<1>3. ASSUME NEW s \in Objects, Look(s) PROVE NormalInv'
  <2>1. ObjectInv(obj[s]) /\ (\A t \in Objects : Indexed(obj[t])) /\ obj = [t \in Objects |-> obj[t]]
    BY DEF IInv, TypeOK, NormalInv
  <2>2. Indexed(WithArgs(obj[s]))
    BY <2>1, ArgsAreLevel DEF Indexed, SameTables
  <2>3. obj' = [obj EXCEPT ![s] = WithArgs(obj[s])] /\ shared' = {}
    BY <1>3 DEF Look, NormalInv
  <2> QED BY <2>1, <2>2, <2>3 DEF NormalInv, Objects
<1>4. CASE Copy
  <2>1. ObjectInv(obj["orig"]) /\ Indexed(obj["orig"])
    BY DEF IInv, TypeOK, NormalInv, Objects
  <2>2. Indexed(Copied(obj["orig"]))
    BY <1>4, <2>1, CopyIsIndexed DEF Copy
  <2>3. /\ obj' = [s \in {"orig", "copy"} |-> IF s = "orig" THEN obj["orig"] ELSE Copied(obj["orig"])]
        /\ shared' = {}
    BY <1>4 DEF Copy, SharedByCopy
  <2> QED BY <2>1, <2>2, <2>3 DEF NormalInv, Objects
<1> QED BY <1>1, <1>2, <1>3, <1>4 DEF Next

LEMMA NormalAlways == ASSUME Normalize PROVE Spec => [](IInv /\ NormalInv)
<1>1. Init => IInv /\ NormalInv
  BY InitInv, InitNormal
<1>2. IInv /\ NormalInv /\ [Next]_vars => (IInv /\ NormalInv)'
  BY NextInv, NextNormal
<1> QED BY <1>1, <1>2, PTL DEF Spec

LEMMA QuestionsAreNames ==
  ASSUME NEW q \in Questions
  PROVE  q \in Seq(Names) /\ Len(q) > 0
<1>1. PICK key \in Keys : q \in {SubSeq(key, 1, n) : n \in 1..Len(key)} \union {Append(key, n) : n \in Names}
  BY DEF Questions
<1>2. key \in Seq(Names) /\ Len(key) \in 1..3
  BY PartsAreKey DEF Keys, IsKey
<1>3. CASE \E n \in 1..Len(key) : q = SubSeq(key, 1, n)
  BY <1>2, <1>3
<1>4. CASE \E n \in Names : q = Append(key, n)
  BY <1>2, <1>4
<1> QED BY <1>1, <1>3, <1>4

-----------------------------------------------------------------------------
(* Copies.  Where no name is quoted, what a normalised schema holds is in  *)
(* lower case, and what is not at the level of the tables is a file that   *)
(* has columns: rebuilding the dictionary gives it back.                   *)

Unquoted == \A r \in Tables \union Files : \A i \in 1..Len(r) : ~r[i].quoted

FilesBeside(o) ==
  \A d \in 1..3 : Levelled(o, d) =>
    \A k \in DOMAIN o.mapping : Len(k) = d \/ (IsFileKey(k) /\ o.mapping[k] # {})

InOneCase(o) == InLower(o.mapping) /\ Lower[o.first] = o.first /\ FilesBeside(o)

CaseInv == \A s \in Objects : InOneCase(obj[s])

(* A file that has columns stands in the way of a copy, unless it is at    *)
(* the level of the tables.                                                *)
LEMMA FlatIsAll ==
  ASSUME NEW o, ObjectInv(o), InOneCase(o), CanRebuild(o.mapping, o.first)
  PROVE  Flatten(o.mapping, DictDepth(o.mapping, o.first)) = DOMAIN o.mapping
<1>1. CASE DOMAIN o.mapping = {}
  BY <1>1 DEF Flatten
<1>2. CASE DOMAIN o.mapping # {}
  <2>1. PICK d \in 1..3 : Levelled(o, d)
    BY <1>2 DEF ObjectInv, OneLevel
  <2>2. DictDepth(o.mapping, o.first) = d
    BY <2>1, DepthIsLevel
  <2>3. Flatten(o.mapping, d) \subseteq DOMAIN o.mapping
    BY <2>2 DEF CanRebuild
  <2>4. ASSUME NEW k \in DOMAIN o.mapping PROVE Len(k) = d
    <3>1. SUFFICES ASSUME Len(k) # d, IsFileKey(k), o.mapping[k] # {} PROVE FALSE
      BY <2>1 DEF InOneCase, FilesBeside
    <3>2. PICK c \in o.mapping[k] : TRUE
      BY <3>1
    <3>3. k \in Seq(Names) /\ Len(k) = 1 /\ c \in Names
      BY <3>1 DEF IsFileKey, ObjectInv, IsObject, IsMapping
    <3> DEFINE l == <<c>> \o k
    <3>4. Len(l) = 2 /\ l[2] = k[1]
      BY <3>3
    <3>5. l \in Flatten(o.mapping, d)
      <4>1. Len(k) < d
        BY <3>1, <3>3
      <4> QED BY <4>1 DEF Flatten
    <3> HIDE DEF l
    <3>6. l \in DOMAIN o.mapping /\ Len(l) > 1 /\ Top(l) = k[1]
      BY <2>3, <3>4, <3>5 DEF Top
    <3> QED BY <3>1, <3>6 DEF ObjectInv, NoFileAbove, IsFileKey
  <2> QED BY <2>2, <2>3, <2>4 DEF Flatten
<1> QED BY <1>1, <1>2

LEMMA RebuiltIsSame ==
  ASSUME NEW o, ObjectInv(o), InOneCase(o), CanRebuild(o.mapping, o.first)
  PROVE  Rebuilt(o.mapping, o.first) = o.mapping
<1> DEFINE flat == Flatten(o.mapping, DictDepth(o.mapping, o.first))
           lower(key) == [i \in DOMAIN key |-> Lower[key[i]]]
           columns(key) == LowerColumns(UNION {o.mapping[k] : k \in {k \in flat : lower(k) = key}})
<1>1. flat = DOMAIN o.mapping
  BY FlatIsAll
<1>2. Rebuilt(o.mapping, o.first) = [key \in {lower(k) : k \in flat} |-> columns(key)]
  BY DEF Rebuilt
<1> HIDE DEF flat
<1>3. ASSUME NEW k \in DOMAIN o.mapping PROVE lower(k) = k
  <2>1. k \in Seq(Names) /\ \A i \in 1..Len(k) : Lower[k[i]] = k[i]
    BY DEF ObjectInv, IsObject, IsMapping, InOneCase, InLower
  <2> QED BY <2>1
<1> HIDE DEF lower
<1>4. {lower(k) : k \in flat} = DOMAIN o.mapping
  BY <1>1, <1>3
<1>5. ASSUME NEW key \in DOMAIN o.mapping PROVE columns(key) = o.mapping[key]
  <2>1. {k \in flat : lower(k) = key} = {key}
    BY <1>1, <1>3
  <2>2. UNION {o.mapping[k] : k \in {key}} = o.mapping[key]
    OBVIOUS
  <2>3. LowerColumns(o.mapping[key]) = o.mapping[key]
    BY DEF InOneCase, InLower
  <2> QED BY <2>1, <2>2, <2>3
<1>6. o.mapping = [key \in DOMAIN o.mapping |-> o.mapping[key]]
  BY DEF ObjectInv, IsObject, IsMapping
<1> HIDE DEF columns
<1> QED BY <1>2, <1>4, <1>5, <1>6

(* What copy makes of such an object.                                      *)
LEMMA CopyIsSame ==
  ASSUME Normalize, NEW o, ObjectInv(o), InOneCase(o), CanRebuild(o.mapping, o.first)
  PROVE  Copied(o).mapping = o.mapping /\ Copied(o).first = o.first
<1>1. Copied(o) = Made(o.mapping, o.first)
  BY RebuiltIsSame DEF Copied, InOneCase
<1> DEFINE names == Flatten(o.mapping, DictDepth(o.mapping, o.first))
           p == [mapping |-> o.mapping, first |-> o.first, depth |-> 0, args |-> 0, trie |-> names]
<1>2. Copied(o) = WithDepth(p)
  BY <1>1 DEF Made
<1> HIDE DEF names
<1>3. WithDepth(p).mapping = o.mapping /\ WithDepth(p).first = o.first
  BY DEF WithDepth
<1> QED BY <1>2, <1>3

(* The keys and columns that are added are in lower case.                  *)
LEMMA PartsAreLower ==
  ASSUME Normalize, Unquoted, NEW ref \in Tables \union Files, NEW i \in 1..Len(Parts(ref))
  PROVE  Lower[Parts(ref)[i]] = Parts(ref)[i]
<1>1. ref \in Seq(Identifiers) /\ Len(Parts(ref)) = Len(ref)
  BY ReferencesAssumption, PartsAreKey
<1>2. ref[i] \in Identifiers /\ ~ref[i].quoted
  BY <1>1 DEF Unquoted
<1>3. Parts(ref)[i] = Lower[ref[i].name]
  BY <1>1, <1>2 DEF Parts, NormalName
<1> QED BY <1>2, <1>3, NamesAssumption DEF Identifiers

(* A table that is added leaves the object in lower case.                  *)
LEMMA AddedInCase ==
  ASSUME Normalize, Unquoted, NEW o, ObjectInv(o), InOneCase(o), NEW ref \in Tables \union Files,
         NEW columns \in ColumnSets, Fits(o, Parts(ref)), columns # {} \/ AtLevel(o, Parts(ref))
  PROVE  InOneCase(WithTable(o, Parts(ref), NormalColumns(columns)))
<1> DEFINE key == Parts(ref)
           cols == NormalColumns(columns)
           p == WithTable(o, key, cols)
<1>1. IsKey(key) /\ NotAbove(key) /\ cols \subseteq Names /\ \A i \in 1..Len(key) : Lower[key[i]] = key[i]
  BY PartsAreKey, PartsAreApart, ColumnsAreNames, PartsAreLower
<1>2. LowerColumns(cols) = cols /\ (columns # {} => cols # {})
  <2>1. cols = LowerColumns(columns) /\ columns \subseteq Names
    BY NamesAssumption DEF NormalColumns
  <2>2. ASSUME NEW c \in columns PROVE Lower[c] \in cols
    BY <2>1 DEF LowerColumns
  <2> QED BY <2>1, <2>2, LowerIsLower
<1> HIDE DEF key, cols
<1>3. /\ DOMAIN p.mapping = DOMAIN o.mapping \union {key}
      /\ p.mapping[key] = cols
      /\ \A k \in DOMAIN o.mapping : k # key => p.mapping[k] = o.mapping[k]
      /\ p.first = IF DOMAIN o.mapping = {} THEN Top(key) ELSE o.first
  BY <1>1, TableIsAdded DEF key
<1> HIDE DEF p
<1>4. InLower(p.mapping)
  BY <1>1, <1>2, <1>3 DEF InLower, InOneCase
<1>5. Lower[p.first] = p.first
  <2>1. Lower[Top(key)] = Top(key)
    BY <1>1 DEF Top, IsKey
  <2> QED BY <1>3, <2>1 DEF InOneCase
<1>6. FilesBeside(p)
  <2> SUFFICES ASSUME NEW d \in 1..3, Levelled(p, d), NEW k \in DOMAIN p.mapping, Len(k) # d
               PROVE  IsFileKey(k) /\ p.mapping[k] # {}
    BY DEF FilesBeside
  <2>1. CASE DOMAIN o.mapping = {}
    <3>1. k = key /\ p.first = Top(key)
      BY <1>3, <2>1
    <3> QED BY <3>1 DEF Levelled
  <2>2. CASE DOMAIN o.mapping # {}
    <3>1. PICK e \in 1..3 : Levelled(o, e)
      BY <2>2 DEF ObjectInv, OneLevel
    <3>2. e = d
      BY <1>3, <2>2, <3>1 DEF Levelled
    <3>3. CASE k # key
      BY <1>3, <3>1, <3>2, <3>3 DEF InOneCase, FilesBeside
    <3>4. CASE k = key
      <4>1. ~Levelled(o, Len(key))
        BY <3>1, <3>2, <3>4 DEF Levelled
      <4> QED BY <1>2, <1>3, <2>2, <3>4, <4>1 DEF Fits, AtLevel, key
    <3> QED BY <3>3, <3>4
  <2> QED BY <2>1, <2>2
<1> QED BY <1>4, <1>5, <1>6 DEF InOneCase, p, key, cols

LEMMA RebuiltInCase ==
  ASSUME NEW o, IsMapping(o.mapping), o.first \in Names, OneLevel(o), NoFileAbove(o),
         CanRebuild(o.mapping, o.first)
  PROVE  InOneCase(Made(Rebuilt(o.mapping, o.first), Lower[o.first]))
<1> DEFINE m == Rebuilt(o.mapping, o.first)
           f == Lower[o.first]
           r == [mapping |-> m, first |-> f]
           p == Made(m, f)
<1>1. p.mapping = m /\ p.first = f
  BY DEF Made, WithDepth
<1>2. Lower[f] = f
  BY NamesAssumption
<1>3. CASE DOMAIN o.mapping = {}
  <2>1. DOMAIN m = {}
    BY <1>3, RebuiltEmpty
  <2> HIDE DEF m, f, p
  <2>2. InOneCase(p)
    BY <1>1, <1>2, <2>1 DEF InOneCase, InLower, FilesBeside
  <2> QED BY <2>2 DEF m, f, p
<1>4. CASE DOMAIN o.mapping # {}
  <2>1. PICK d \in 1..3 : Levelled(o, d)
    BY <1>4 DEF OneLevel
  <2>2. Levelled(r, d) /\ InLower(m) /\ (\A k \in DOMAIN m : Len(k) = d)
    BY <2>1, RebuiltKeeps
  <2>3. \A e \in 1..3 : Levelled(p, e) => e = d
    <3> HIDE DEF m, f, p
    <3> QED BY <1>1, <2>2 DEF Levelled
  <2> HIDE DEF m, f, p
  <2>4. InOneCase(p)
    BY <1>1, <1>2, <2>2, <2>3 DEF InOneCase, FilesBeside
  <2> QED BY <2>4 DEF m, f, p
<1> QED BY <1>3, <1>4

LEMMA InitCase ==
  ASSUME Normalize, Init
  PROVE  CaseInv
<1>1. PICK schema \in Schemas, first \in Names :
        /\ DOMAIN schema = {} \/ first \in {Top(key) : key \in DOMAIN schema}
        /\ CanRebuild(schema, first)
        /\ obj = [s \in {"orig"} |-> Made(Rebuilt(schema, first), Lower[first])]
  BY DEF Init
<1> DEFINE o == [mapping |-> schema, first |-> first]
<1>2. o.mapping = schema /\ o.first = first
  OBVIOUS
<1> HIDE DEF o
<1>3. IsMapping(o.mapping) /\ OneLevel(o) /\ NoFileAbove(o)
  BY <1>1, <1>2, SchemaIsLevelled
<1>4. InOneCase(Made(Rebuilt(o.mapping, o.first), Lower[o.first]))
  BY <1>1, <1>2, <1>3, RebuiltInCase
<1> QED BY <1>1, <1>2, <1>4 DEF CaseInv, Objects

(* Objects with the same tables are in the same case.                      *)
LEMMA CaseOfTables ==
  ASSUME NEW o, NEW p, InOneCase(o), p.mapping = o.mapping, p.first = o.first
  PROVE  InOneCase(p)
BY DEF InOneCase, FilesBeside, Levelled

LEMMA NextCase ==
  ASSUME Normalize, Unquoted, IInv, NormalInv, CaseInv, [Next]_vars
  PROVE  CaseInv'
<1>1. CASE UNCHANGED vars
  BY <1>1 DEF vars, CaseInv, Objects
<1>2. ASSUME NEW s \in Objects, NEW ref \in Tables \union Files, NEW columns \in ColumnSets,
             NEW match_depth \in BOOLEAN, match_depth \/ (ref \in Files /\ columns # {}),
             AddTable(s, ref, columns, match_depth)
      PROVE  CaseInv'
  <2> DEFINE key == Parts(ref)
             cols == NormalColumns(columns)
  <2>1. PICK w : /\ ObjectInv(w) /\ SameTables(obj[s], w)
                 /\ \/ obj' = [t \in Objects |-> IF t = s THEN w ELSE obj[t]]
                    \/ /\ Fits(w, key) /\ (match_depth => AtLevel(w, key))
                       /\ obj' = [t \in Objects |-> IF t = s THEN WithTable(w, key, cols) ELSE obj[t]]
    BY <1>2, OneObjectChanges DEF NormalInv
  <2>2. InOneCase(w)
    BY <2>1, CaseOfTables DEF CaseInv, SameTables
  <2>3. Fits(w, key) /\ (match_depth => AtLevel(w, key)) => InOneCase(WithTable(w, key, cols))
    BY <1>2, <2>1, <2>2, AddedInCase
  <2> HIDE DEF key, cols
  <2> QED BY <2>1, <2>2, <2>3 DEF CaseInv, Objects
<1>3. ASSUME NEW s \in Objects, Look(s) PROVE CaseInv'
  <2>1. ObjectInv(obj[s]) /\ (\A t \in Objects : InOneCase(obj[t])) /\ obj = [t \in Objects |-> obj[t]]
    BY DEF IInv, TypeOK, CaseInv
  <2>2. InOneCase(WithArgs(obj[s]))
    BY <2>1, ArgsAreLevel, CaseOfTables DEF SameTables
  <2>3. obj' = [obj EXCEPT ![s] = WithArgs(obj[s])]
    BY <1>3 DEF Look
  <2> QED BY <2>1, <2>2, <2>3 DEF CaseInv, Objects
<1>4. CASE Copy
  <2>1. ObjectInv(obj["orig"]) /\ InOneCase(obj["orig"])
    BY DEF IInv, TypeOK, CaseInv, Objects
  <2>2. InOneCase(Copied(obj["orig"]))
    BY <1>4, <2>1, CopyIsSame, CaseOfTables DEF Copy
  <2>3. obj' = [s \in {"orig", "copy"} |-> IF s = "orig" THEN obj["orig"] ELSE Copied(obj["orig"])]
    BY <1>4 DEF Copy
  <2> QED BY <2>1, <2>2, <2>3 DEF CaseInv, Objects
<1> QED BY <1>1, <1>2, <1>3, <1>4 DEF Next

(* A copy answers as the original does.                                    *)
LEMMA CopyAnswers ==
  ASSUME Normalize, IInv, NormalInv, CaseInv, Copy, NEW q \in Questions
  PROVE  Found(WithArgs(obj'["copy"]), q) = Found(WithArgs(obj["orig"]), q)
<1> DEFINE o == obj["orig"]
           p == Copied(o)
<1>1. obj'["copy"] = p /\ CanRebuild(o.mapping, o.first)
  BY DEF Copy
<1>2. ObjectInv(o) /\ Indexed(o) /\ InOneCase(o)
  BY DEF IInv, TypeOK, NormalInv, CaseInv, Objects
<1>3. ObjectInv(p) /\ Indexed(p) /\ p.mapping = o.mapping /\ p.first = o.first
  BY <1>1, <1>2, CopiedIsObject, CopyIsIndexed, CopyIsSame
<1> HIDE DEF o, p
<1>4. /\ WithArgs(o).mapping = o.mapping /\ WithArgs(o).first = o.first
      /\ WithArgs(p).mapping = p.mapping /\ WithArgs(p).first = p.first
  BY <1>2, <1>3, WithArgsKeeps
<1>5. q \in Seq(Names) /\ Len(q) > 0
  BY QuestionsAreNames
<1>6. /\ Found(WithArgs(o), q) = Answer(WithArgs(o).mapping, DictDepth(WithArgs(o).mapping, WithArgs(o).first), q)
      /\ Found(WithArgs(p), q) = Answer(WithArgs(p).mapping, DictDepth(WithArgs(p).mapping, WithArgs(p).first), q)
  BY <1>2, <1>3, <1>5, AnswerIsFound
<1> QED BY <1>1, <1>3, <1>4, <1>6 DEF o

(* A step that is not a copy changes one table of one object at most.      *)
LEMMA OneTableChanges ==
  ASSUME IInv, NormalInv, [Next]_vars
  PROVE  ChangeIsLocal
<1> DEFINE kept == IF Copy THEN {"orig"} ELSE Objects
           columns(o, key) == IF key \in DOMAIN o.mapping THEN o.mapping[key] ELSE None
           changed == {x \in kept \X Keys : columns(obj'[x[1]], x[2]) # columns(obj[x[1]], x[2])}
<1>1. ASSUME \A s \in kept : obj'[s].mapping = obj[s].mapping
      PROVE  ChangeIsLocal
  <2>1. changed = {}
    BY <1>1
  <2>2. Cardinality(changed) = 0
    BY <2>1, FS_EmptySet
  <2> HIDE DEF changed
  <2>3. \A s \in kept : DOMAIN obj[s].mapping \subseteq DOMAIN obj'[s].mapping
    BY <1>1
  <2> HIDE DEF kept
  <2>4. Cardinality(changed) <= IF Copy THEN 0 ELSE 1
    BY <2>2
  <2> QED BY <2>3, <2>4 DEF ChangeIsLocal, kept, changed
<1>2. CASE Copy
  <2>1. \A s \in kept : obj'[s].mapping = obj[s].mapping
    BY <1>2 DEF Copy
  <2> QED BY <1>1, <2>1
<1>3. ASSUME ~Copy, \A s \in Objects : obj'[s].mapping = obj[s].mapping PROVE ChangeIsLocal
  <2>1. \A s \in kept : obj'[s].mapping = obj[s].mapping
    BY <1>3
  <2> QED BY <1>1, <2>1
<1>4. CASE ~Copy /\ UNCHANGED vars
  BY <1>3, <1>4 DEF vars
<1>5. ASSUME ~Copy, NEW s \in Objects, Look(s) PROVE ChangeIsLocal
  <2>1. ObjectInv(obj[s]) /\ obj = [t \in Objects |-> obj[t]]
    BY DEF IInv, TypeOK
  <2>2. obj' = [obj EXCEPT ![s] = WithArgs(obj[s])]
    BY <1>5 DEF Look
  <2>3. \A t \in Objects : obj'[t].mapping = obj[t].mapping
    BY <2>1, <2>2, WithArgsKeeps
  <2> QED BY <1>3, <1>5, <2>3
<1>6. ASSUME ~Copy, NEW s \in Objects, NEW ref \in Tables \union Files, NEW cs \in ColumnSets,
             NEW match_depth \in BOOLEAN, match_depth \/ ref \in Files, AddTable(s, ref, cs, match_depth)
      PROVE  ChangeIsLocal
  <2> DEFINE added == Parts(ref)
             cols == NormalColumns(cs)
  <2>1. PICK w : /\ ObjectInv(w) /\ SameTables(obj[s], w)
                 /\ \/ obj' = [t \in Objects |-> IF t = s THEN w ELSE obj[t]]
                    \/ /\ Fits(w, added)
                       /\ obj' = [t \in Objects |-> IF t = s THEN WithTable(w, added, cols) ELSE obj[t]]
    BY <1>6, OneObjectChanges DEF NormalInv
  <2>2. CASE obj' = [t \in Objects |-> IF t = s THEN w ELSE obj[t]]
    <3>1. \A t \in Objects : obj'[t].mapping = obj[t].mapping
      BY <2>1, <2>2 DEF SameTables
    <3> QED BY <1>3, <1>6, <3>1
  <2>3. CASE /\ Fits(w, added)
             /\ obj' = [t \in Objects |-> IF t = s THEN WithTable(w, added, cols) ELSE obj[t]]
    <3> DEFINE p == WithTable(w, added, cols)
    <3>1. IsKey(added) /\ NotAbove(added) /\ cols \subseteq Names
      BY PartsAreKey, PartsAreApart, ColumnsAreNames
    <3> HIDE DEF added, cols
    <3>2. /\ DOMAIN p.mapping = DOMAIN w.mapping \union {added}
          /\ \A k \in DOMAIN w.mapping : k # added => p.mapping[k] = w.mapping[k]
      BY <2>1, <2>3, <3>1, TableIsAdded
    <3> HIDE DEF p
    <3>3. /\ obj'[s] = p /\ w.mapping = obj[s].mapping
          /\ \A t \in Objects : t # s => obj'[t] = obj[t]
      BY <2>1, <2>3 DEF SameTables, p
    <3>4. ASSUME NEW x \in changed PROVE x = <<s, added>>
      <4>1. /\ x \in Objects \X Keys
            /\ columns(obj'[x[1]], x[2]) # columns(obj[x[1]], x[2])
        BY <1>6
      <4>2. x[1] = s
        BY <3>3, <4>1
      <4>3. x[2] = added
        <5> HIDE DEF changed
        <5>1. columns(p, x[2]) # columns(w, x[2])
          BY <3>3, <4>1, <4>2
        <5> QED BY <3>2, <5>1
      <4> QED BY <4>1, <4>2, <4>3
    <3>5. Cardinality(changed) <= 1
      <4> HIDE DEF changed
      <4>1. changed = {} \/ changed = {<<s, added>>}
        BY <3>4
      <4>2. Cardinality({}) = 0 /\ Cardinality({<<s, added>>}) = 1
        BY FS_EmptySet, FS_Singleton
      <4>3. CASE changed = {}
        BY <4>2, <4>3
      <4>4. CASE changed = {<<s, added>>}
        BY <4>2, <4>4
      <4> QED BY <4>1, <4>3, <4>4
    <3>6. \A t \in kept : DOMAIN obj[t].mapping \subseteq DOMAIN obj'[t].mapping
      BY <1>6, <3>2, <3>3
    <3> HIDE DEF kept, changed
    <3>7. Cardinality(changed) <= IF Copy THEN 0 ELSE 1
      BY <1>6, <3>5
    <3> QED BY <3>6, <3>7 DEF ChangeIsLocal, kept, changed
  <2> QED BY <2>1, <2>2, <2>3
<1> QED BY <1>2, <1>4, <1>5, <1>6 DEF Next

-----------------------------------------------------------------------------
(* The objects keep their form: their dictionaries are dictionaries of     *)
(* sets of columns, at most three deep, and their caches are levels.       *)
THEOREM TypeCorrect == Spec => []TypeOK
<1>1. IInv => TypeOK
  BY DEF IInv
<1> QED BY <1>1, InvAlways, PTL

(* The depth and the supported arguments that MappingSchema remembers are  *)
(* those of its tables, whatever was added to it, or to a copy that holds  *)
(* the same dictionaries: the checks of add_table keep one level.          *)
THEOREM LevelIsRemembered == Spec => []CachesFresh
<1>1. IInv => CachesFresh
  BY DEF IInv, ObjectInv, Fresh, CachesFresh
<1> QED BY <1>1, InvAlways, PTL

(* Where names are normalised, find gives the columns of exactly the table *)
(* named, or of the only one whose name continues it, or says that there   *)
(* is none or several, after any additions and copies and questions: the   *)
(* trie and the dictionary never differ.                                   *)
THEOREM FindGivesTheOnlyMatch == ASSUME Normalize PROVE Spec => []FindIsUniqueMatch
<1>1. IInv /\ NormalInv => FindIsUniqueMatch
  <2> SUFFICES ASSUME IInv, NormalInv, NEW s \in Objects, NEW q \in Questions
               PROVE  LET w == WithArgs(obj[s]) IN Found(w, q) = Answer(w.mapping, DictDepth(w.mapping, w.first), q)
    BY DEF FindIsUniqueMatch, Answer
  <2>1. ObjectInv(obj[s]) /\ Indexed(obj[s])
    BY DEF IInv, NormalInv
  <2> QED BY <2>1, QuestionsAreNames, AnswerIsFound
<1> QED BY <1>1, NormalAlways, PTL

(* Where names are normalised and none is quoted, a copy answers every     *)
(* question as the original did, a call changes one table of one of the    *)
(* two at most, and no table is lost.  A quoted name may have upper case   *)
(* letters, which copy does not keep.                                      *)
THEOREM CopiesStayApart == ASSUME Normalize, Unquoted PROVE Spec => CopiesAreApart
<1>1. Init => IInv /\ NormalInv /\ CaseInv
  BY InitInv, InitNormal, InitCase
<1>2. IInv /\ NormalInv /\ CaseInv /\ [Next]_vars => (IInv /\ NormalInv /\ CaseInv)'
  BY NextInv, NextNormal, NextCase
<1>3. IInv /\ NormalInv /\ CaseInv /\ [Next]_vars =>
        [/\ ChangeIsLocal
         /\ Copy => \A q \in Questions :
              Found(WithArgs(obj'["copy"]), q) = Found(WithArgs(obj["orig"]), q)]_vars
  BY OneTableChanges, CopyAnswers
<1> QED BY <1>1, <1>2, <1>3, PTL DEF Spec, CopiesAreApart
=============================================================================
