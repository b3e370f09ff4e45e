--------------------------- MODULE MappingSchema ---------------------------
(***************************************************************************)
(* The schema that the optimizer asks for tables and columns: tables in    *)
(* nested dictionaries, a trie of their names read from the table up, and  *)
(* two caches of the nesting level.  The object may be copied, and tables  *)
(* may be added to it and to the copy.                                     *)
(*                                                                         *)
(* A key is the name of a table from the table up: <<table, db, catalog>>. *)
(* A dictionary of dictionaries is the function from the keys of its       *)
(* tables to their sets of columns; which tables share a dictionary follows*)
(* from their keys.  The types of columns are left out.                    *)
(*                                                                         *)
(* sqlglot/schema.py; sqlglot/trie.py; dict_depth of sqlglot/helper.py;    *)
(* qualify_tables.py adds the tables that are files.                       *)
(***************************************************************************)
EXTENDS Naturals, Sequences, FiniteSets

CONSTANTS
  Names,       \* names of tables, databases, catalogs and columns
  Lower,       \* the lower case of each name
  Tables,      \* references to tables, as sequences of identifiers, table first
  Files,       \* references to files, which are added at any nesting level
  ColumnSets,  \* the columns a caller may give
  Schemas,     \* the dictionaries the object may be made from
  Normalize,   \* self.normalize
  None,        \* no such table
  Ambiguous,   \* SchemaError: several tables fit
  Unknown      \* ValueError of nested_get

Identifiers == [name : Names, quoted : BOOLEAN]

(* A dictionary of dictionaries of sets of columns, at most three deep     *)
IsMapping(mapping) ==
  /\ mapping = [key \in DOMAIN mapping |-> mapping[key]]
  /\ \A key \in DOMAIN mapping :
       key \in Seq(Names) /\ Len(key) \in 1..3 /\ mapping[key] \subseteq Names

ASSUME NamesAssumption ==
  /\ Normalize \in BOOLEAN
  /\ Lower \in [Names -> Names] /\ \A n \in Names : Lower[Lower[n]] = Lower[n]
  /\ {} \in ColumnSets /\ \A c \in ColumnSets : c \subseteq Names

ASSUME ReferencesAssumption ==
  \A r \in Tables \union Files : r \in Seq(Identifiers) /\ Len(r) \in 1..3

(* A file has one part.  It is not named like the database or the catalog  *)
(* of a table: nested_set would put its columns where that one's tables    *)
(* are.                                                                    *)
ASSUME FilesAssumption ==
  \A f \in Files : Len(f) = 1 /\
    /\ \A r \in Tables, i \in 2..3 : i <= Len(r) => Lower[r[i].name] # Lower[f[1].name]
    /\ \A schema \in Schemas : \A key \in DOMAIN schema :
         Len(key) > 1 => Lower[key[Len(key)]] # Lower[f[1].name]

(* A dictionary the object is made from has its tables at one level.       *)
ASSUME SchemasAssumption ==
  \A schema \in Schemas :
    /\ IsMapping(schema)
    /\ \A k, l \in DOMAIN schema : Len(k) = Len(l)

VARIABLES
  obj,     \* the schema objects that exist: "orig", and "copy" once it is made
  shared   \* the top level keys whose dictionary both objects hold

vars == <<obj, shared>>

-----------------------------------------------------------------------------
(* Names                                                                   *)

(* normalize_name                                                          *)
NormalName(id) == IF Normalize /\ ~id.quoted THEN Lower[id.name] ELSE id.name

(* _normalize_table and table_parts                                        *)
Parts(ref) == [i \in 1..Len(ref) |-> NormalName(ref[i])]

LowerColumns(columns) == {Lower[c] : c \in columns}

(* The keys of the column mapping given to add_table are strings.          *)
NormalColumns(columns) == IF Normalize THEN LowerColumns(columns) ELSE columns

(* The top level key under which a table is found.                         *)
Top(key) == key[Len(key)]

IsPrefixOf(short, key) == Len(short) <= Len(key) /\ SubSeq(key, 1, Len(short)) = short

IsSuffixOf(short, key) ==
  Len(short) <= Len(key) /\ SubSeq(key, Len(key) - Len(short) + 1, Len(key)) = short

(* flatten_schema: what lies above the given level is taken with the keys  *)
(* of its own dictionary, which are columns.                               *)
Flatten(mapping, depth) ==
  {key \in DOMAIN mapping : Len(key) = depth}
  \union UNION {{<<c>> \o key : c \in mapping[key]} : key \in {k \in DOMAIN mapping : Len(k) < depth}}

-----------------------------------------------------------------------------
(* One object                                                              *)

(* dict_depth, less the level of the columns, follows the first key.       *)
DictDepth(mapping, first) ==
  IF DOMAIN mapping = {} THEN 0 ELSE Len(CHOOSE key \in DOMAIN mapping : Top(key) = first)

(* Mutant: the nesting level is settled when it is first asked for, also   *)
(* while there are no tables.                                              *)
WithDepthKeptEarly(o) ==
  IF o.depth = 0 THEN [o EXCEPT !.depth = IF DOMAIN o.mapping = {} THEN 1 ELSE DictDepth(o.mapping, o.first)]
  ELSE o

(* depth: computed when first asked for a schema that is not empty.        *)
WithDepth(o) ==
  IF DOMAIN o.mapping # {} /\ o.depth = 0
  THEN [o EXCEPT !.depth = DictDepth(o.mapping, o.first)] ELSE o

(* supported_table_args, as their number                                   *)
WithArgs(o) ==
  IF o.args = 0 /\ DOMAIN o.mapping # {}
  THEN [WithDepth(o) EXCEPT !.args = WithDepth(o).depth] ELSE o

(* nested_get with the names zipped to the arguments supported: what is    *)
(* left over is on the side of the table.                                  *)
NestedGet(o, key) ==
  LET n == IF Len(key) < o.args THEN Len(key) ELSE o.args
      path == SubSeq(key, Len(key) - n + 1, Len(key))
  IN IF path \in DOMAIN o.mapping THEN o.mapping[path] ELSE Unknown

(* find, raising; the caller has called WithArgs.                          *)
Found(o, key) ==
  LET parts == SubSeq(key, 1, IF Len(key) < o.args THEN Len(key) ELSE o.args)
      below == {k \in o.trie : IsPrefixOf(parts, k)}
  IN IF parts = <<>> \/ below = {} THEN None
     ELSE IF parts \in o.trie THEN NestedGet(o, parts)
     ELSE IF Cardinality(below) = 1 THEN NestedGet(o, CHOOSE k \in below : TRUE)
     ELSE Ambiguous

HasColumns(found) == found \notin {None, Ambiguous, Unknown, {}}

(* nested_set: a dictionary at this place, with all that is in it, goes.   *)
NestedSet(mapping, key, columns) ==
  [k \in {k \in DOMAIN mapping : ~IsSuffixOf(key, k)} \union {key} |->
     IF k = key THEN columns ELSE mapping[k]]

(* __init__ of AbstractMappingSchema: the depth is asked for at once.      *)
Made(mapping, first) ==
  WithDepth([mapping |-> mapping, first |-> first, depth |-> 0, args |-> 0,
             trie |-> Flatten(mapping, DictDepth(mapping, first))])

(* _normalize: tables whose names become one get the columns of both.      *)
Rebuilt(mapping, first) ==
  LET flat == Flatten(mapping, DictDepth(mapping, first))
      lower(key) == [i \in DOMAIN key |-> Lower[key[i]]]
  IN [key \in {lower(k) : k \in flat} |->
        LowerColumns(UNION {mapping[k] : k \in {k \in flat : lower(k) = key}})]

(* ... and it raises for a table without columns or of another level.      *)
CanRebuild(mapping, first) ==
  \A key \in Flatten(mapping, DictDepth(mapping, first)) :
    key \in DOMAIN mapping /\ mapping[key] # {}

-----------------------------------------------------------------------------
(* The operations                                                          *)

Objects == DOMAIN obj

Init ==
  /\ \E schema \in Schemas, first \in Names :
       /\ DOMAIN schema = {} \/ first \in {Top(key) : key \in DOMAIN schema}
       /\ DOMAIN schema = {} => first = CHOOSE n \in Names : TRUE
       /\ Normalize => CanRebuild(schema, first)
       /\ obj = [s \in {"orig"} |-> IF Normalize THEN Made(Rebuilt(schema, first), Lower[first])
                                 ELSE Made(schema, first)]
  /\ shared = {}

(* What add_table sees of the object: match_depth asks for its depth, and  *)
(* find for the arguments it supports.                                     *)
Seen(o, match_depth) == IF match_depth THEN WithDepth(o) ELSE o

Refused(o, key, match_depth) ==
  match_depth /\ DOMAIN o.mapping # {} /\ Len(key) # WithDepth(o).depth

(* Mutant: a table that is known already is not put into the trie, and     *)
(* one of which find says that it is known may be another one.             *)
WithTableIfFound(o, key, columns) ==
  [o EXCEPT !.mapping = NestedSet(o.mapping, key, columns),
            !.trie = IF Found(o, key) = None THEN @ \union {key} ELSE @,
            !.first = IF DOMAIN o.mapping = {} THEN Top(key) ELSE @]

(* The object after nested_set and new_trie.                               *)
WithTable(o, key, columns) ==
  [o EXCEPT !.mapping = NestedSet(o.mapping, key, columns),
            !.trie = @ \union {key},
            !.first = IF DOMAIN o.mapping = {} THEN Top(key) ELSE @]

(* The dictionary below a key both objects hold is changed for both.       *)
AddTable(s, ref, columns, match_depth) ==
  LET key == Parts(ref)
      o == Seen(obj[s], match_depth)
      known == HasColumns(Found(WithArgs(o), key)) /\ columns = {}
      inShared(t) == t # s /\ Len(key) > 1 /\ Top(key) \in shared
  IN IF Refused(obj[s], key, match_depth)
     THEN obj' = [obj EXCEPT ![s] = o] /\ UNCHANGED shared
     ELSE IF known
     THEN obj' = [obj EXCEPT ![s] = WithArgs(o)] /\ UNCHANGED shared
     ELSE /\ obj' = [t \in Objects |->
                IF t = s THEN WithTable(WithArgs(o), key, NormalColumns(columns))
                ELSE IF inShared(t)
                THEN [obj[t] EXCEPT !.mapping = NestedSet(@, key, NormalColumns(columns))]
                ELSE obj[t]]
          /\ shared' = IF Len(key) = 1 THEN shared \ {Top(key)} ELSE shared

(* The object copy returns: the dictionary is rebuilt, or only its top     *)
(* level is new.                                                           *)
Copied(o) ==
  IF Normalize /\ DOMAIN o.mapping # {} THEN Made(Rebuilt(o.mapping, o.first), Lower[o.first])
  ELSE Made(o.mapping, o.first)

(* Mutant: the copy is made of the dictionaries of the original.           *)
SharedByAnyCopy(o) == {Top(key) : key \in {k \in DOMAIN o.mapping : Len(k) > 1}}

SharedByCopy(o) ==
  IF Normalize THEN {} ELSE {Top(key) : key \in {k \in DOMAIN o.mapping : Len(k) > 1}}

(* copy; an earlier copy is dropped.                                       *)
Copy ==
  /\ Normalize => CanRebuild(obj["orig"].mapping, obj["orig"].first)
  /\ obj' = [s \in {"orig", "copy"} |-> IF s = "orig" THEN obj["orig"] ELSE Copied(obj["orig"])]
  /\ shared' = SharedByCopy(obj["orig"])

(* find, column_names, has_column and get_column_type change the caches    *)
(* only.                                                                   *)
Look(s) ==
  /\ obj' = [obj EXCEPT ![s] = WithArgs(@)]
  /\ UNCHANGED shared

Next ==
  \/ \E s \in Objects :
       \/ \E ref \in Tables, columns \in ColumnSets : AddTable(s, ref, columns, TRUE)
       \/ \E ref \in Files, columns \in ColumnSets \ {{}} : AddTable(s, ref, columns, FALSE)
       \/ Look(s)
  \/ Copy

Spec == Init /\ [][Next]_vars

-----------------------------------------------------------------------------
(* Properties                                                              *)

Keys == {Parts(ref) : ref \in Tables \union Files}

(* What callers may ask for: each name of a table, cut on the side of the  *)
(* database or qualified once more.                                        *)
Questions ==
  UNION {{SubSeq(key, 1, n) : n \in 1..Len(key)} \union {Append(key, n) : n \in Names} : key \in Keys}

(* The objects, their dictionaries and caches.                             *)
TypeOK ==
  /\ obj = [s \in Objects |-> obj[s]]
  /\ Objects = {"orig"} \/ Objects = {"orig", "copy"}
  /\ shared \subseteq Names
  /\ \A s \in Objects : LET o == obj[s] IN
       /\ o = [mapping |-> o.mapping, first |-> o.first, depth |-> o.depth, args |-> o.args, trie |-> o.trie]
       /\ IsMapping(o.mapping)
       /\ o.first \in Names /\ o.depth \in 0..3 /\ o.args \in 0..3
       /\ o.trie \subseteq Seq(Names)

(* After any additions and copies, find returns the table of exactly the   *)
(* name given, cut to the levels the schema has; else the only table whose *)
(* name continues it; else it says that there is none, or several.         *)
FindIsUniqueMatch ==
  \A s \in Objects, q \in Questions :
    LET o == WithArgs(obj[s])
        depth == DictDepth(o.mapping, o.first)
        name == SubSeq(q, 1, IF Len(q) < depth THEN Len(q) ELSE depth)
        fits == {key \in DOMAIN o.mapping : IsPrefixOf(name, key)}
    IN Found(o, q) = CASE fits = {} \/ depth = 0  -> None
                       [] name \in fits           -> o.mapping[name]
                       [] Cardinality(fits) = 1 /\ name \notin fits -> o.mapping[CHOOSE key \in fits : TRUE]
                       [] OTHER                   -> Ambiguous

(* The nesting level the object remembers is the one it has, however       *)
(* tables were added: the arguments supported and the check of add_table   *)
(* go by it.                                                               *)
CachesFresh ==
  \A s \in Objects : LET o == obj[s] IN
    /\ o.depth # 0 => o.depth = DictDepth(o.mapping, o.first)
    /\ o.args # 0 => o.args = o.depth

(* A call changes the columns of one table of one object at most, and no   *)
(* table is lost; copying changes nothing of the original.                 *)
ChangeIsLocal ==
  LET kept == IF Copy THEN {"orig"} ELSE Objects
      columns(o, key) == IF key \in DOMAIN o.mapping THEN o.mapping[key] ELSE None
      changed == {x \in kept \X Keys : columns(obj'[x[1]], x[2]) # columns(obj[x[1]], x[2])}
  IN /\ Cardinality(changed) <= IF Copy THEN 0 ELSE 1
     /\ \A s \in kept : DOMAIN obj[s].mapping \subseteq DOMAIN obj'[s].mapping

(* A copy answers every question as the original does, and neither sees    *)
(* what is added to the other.  copy, _normalize, add_table                *)
CopiesAreApart ==
  [][/\ ChangeIsLocal
     /\ Copy => \A q \in Questions :
          Found(WithArgs(obj'["copy"]), q) = Found(WithArgs(obj["orig"]), q)]_vars
=============================================================================
