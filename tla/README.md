# Specifications of sqlglot

TLA+ models of this repository: the sqlglot library (a SQL parser, optimizer, transpiler and a
small query engine in Python), and the services built on it (a converter API and the guardrail).
Each module translates code under `src/`; `PROJECT.json` maps every definition to its lines.

## The system

| part | state it keeps | operations | interacts with |
|---|---|---|---|
| tokenizer (`tokens.py`, `sqlglotrs`) | cursor, line and column, tokens | `tokenize` | parser; two implementations, Python and Rust, must agree |
| parser (`parser.py`) | token cursor, errors | `parse`, `_match*`, `_advance`, `_retreat`, `raise_error` | tokenizer, syntax tree, dialects |
| syntax tree (`expressions.py`) | `args`, `parent`, `arg_key`, `index`, cached `_hash`, `_type` | `set`, `append`, `replace`, `pop`, `copy`, `transform` | everything |
| generator (`generator.py`) | `unsupported_messages` | `generate` | dialects |
| dialect registry (`dialects/__init__.py`, `dialect.py`) | `_classes`, imported modules | `get_or_raise`, `_try_load` | imports, threads |
| schema (`schema.py`) | nested mapping, trie, depth | `add_table`, `find`, `copy`, `column_names` | optimizer, engine |
| optimizer (`optimizer/*`) | the tree being rewritten, scopes | one rewriting per rule | schema, syntax tree |
| planner (`planner.py`) | steps with `dependencies` and `dependents` | `Step.from_expression`, `Plan.dag`, `Plan.leaves` | engine |
| engine (`executor/*`) | queue, finished, contexts, tables, readers | `execute`, `scan`, `join`, `aggregate`, `sort`, `set_operation` | planner |
| tree diff (`diff.py`), lineage, serde, time, JSON paths | none across calls | pure functions | syntax tree |
| guardrail (`guardrail/main.py`, `extract.py`, `rules_validator.py`) | Thrift transport, `storage` client | `ensure_connection`, `get_table_info`, `validate` | storage service (external) |
| converter service (`converter_api.py`, `apis/`) | log records | HTTP handlers | library, guardrail |

What is hard: the engine empties Python sets whose order changes between processes; contexts are
merged by name, and the planner renames steps after others were built on them; tables and their row
readers are shared by reference; groups are found by index arithmetic over a sorted table; tree
rewriting keeps references back in step; a dozen rewriting rules run until none changes anything;
the tokenizer gives characters back and attaches comments to tokens it has not met yet; the
generator writes no parentheses, so that every builder must have put them where they are needed;
the schema keeps the same tables in a dictionary, a trie and two caches; dialects are imported
lazily by whichever thread asks first; the guardrail client retries over a connection that other
requests share.

## Modules

Each `MC` module gives one component its instance for TLC. Definitions that a comment calls
"Mutant" are plausible mistakes in the definition they stand before; they are used by the mutants
of `PROJECT.json` only.

### The planner and its scheduler: `PlanBuilder`, `PlanEvaluation`, `PlanExecutor`, `PlanExecutorProofs`

`PlanBuilder` is `Step.from_expression` with `Scan`, `Join.from_joins` and `SetOperation`: from a
query (its clauses reduced to whether they hold columns, aggregations or aggregations of an operand)
to the numbered steps, what each depends on, and the names they go by. `Named` and `NamedOr` are the
places where the planner renames a step that others may already have copied the name of; `Defined`
is the loop over common table expressions, with the ones of an inner query hiding those of the outer
one. `FromExpression` is a recursive function. Subqueries in FROM are left out: the optimizer turns
them into common table expressions before the planner sees them.

`PlanExecutor` is `Plan.dag`, `Plan.leaves` and `PythonExecutor.execute`. It takes a plan as
constants (`Step`, `Deps`, `Node`), so that it can be proved about for every acyclic plan;
`MCPlanExecutor` composes the two: the plan it runs is the one `PlanBuilder` makes of a query.
Rows are left out: a table is the pair of the step that made it and a name, so that two names with
the same pair are the same Python object. `Collect` and `Start` build the dag and the queue, `Run`
is one turn of the `while queue` loop that succeeds, `Raise` one that does not, `Return` the lookup
of the root's table. A `Run` takes any step of the queue, and merges the contexts of its
dependencies in any order, as sets of Python objects allow. `NamesFound` ties planner and engine:
the name under which a step looks a table up is one under which a dependency hands one on.

`PlanEvaluation` is what this promises: each step evaluated once, after what it depends on; a
result only after the root. `ImplementsEvaluation` checks the refinement and theorem `Refinement`
proves it for every acyclic plan.

Inductive invariant (`IInv`): the dag is closed under dependencies up to the steps still to visit;
what has run was built on steps that have run; a queued step has not run and its inputs are kept;
tables are held exactly while some dependent has not run; and a step of the dag all of whose
inputs are kept is in the queue (`NoStepForgotten`). The last part is what makes the empty queue
mean that the root has run: among the steps that have not run, acyclicity gives one whose
dependencies all have, their tables are held because it has not run, so it would be queued.
Assumptions: the plan is acyclic (a step gets its dependencies from steps made before it), nothing
is built on the root, and a join without projections kept its source's name (the planner renames
only the last step of a select, and that one has projections).

The properties about names need invariants of their own, which stay inductive beside `IInv`:
`NamesInv`, that a step returns tables of the names `returned` says it may, and `MadeInv`, that each
of them was made by the step itself or, for a scan that only hands a table on, by its one
dependency. What they need of a plan is `NamesApart(returned)` and `TablesApart`, two statements about
the constants alone: the names a step reads are names of its dependencies, the one of each is returned by no
other dependency, and two inputs of a join are not made by one step. `MCPlanExecutor` assumes
both, so that TLC finds them true of the plan the planner makes. A common table expression joined to
itself does not meet `TablesApart`, and for it the conclusion is false (below).

### Grouping: `AggregateStep`, `AggregateStepProofs`

`AggregateStep` is `PythonExecutor.aggregate`: the stable sort by group key with `None` last, the
loop that closes a range where the key changes, the branch for an empty table, HAVING, projections
and LIMIT in `scan`. A row is its number; a made row is its group and the range of rows that the
aggregation functions see. Indices are those of the code (from 0, ends excluded, `end` one ahead).
Computing the operands of aggregations row by row does not move rows and is left out. A HAVING
condition is the set of groups it accepts.

The proofs: `IsRun` says that a range is a whole run of one key; every made row is a run
(`TableInv`), the open group is a run up to the row being read (`LoopInv`), and since the table is
sorted a whole run of a key is the whole group of that key (`RunIsGroup`, from `Between`). That the answer
is complete needs two more: every key passed has its row unless the limit was reached (`MadeInv`),
and the rows returned are as many as those HAVING has accepted so far (`SinkInv`); then the number of
rows is the number of groups, since no group has two.

### Joins: `JoinStep`, `JoinStepProofs`

`JoinStep` is `PythonExecutor.join` with `hash_join`, `nested_loop_join` and `_project_and_filter`.
A table has one column and a row is the tuple of the columns joined so far, so a second join reads
rows of two columns. `Begin` is the choice between the two joins, `HashSource` and `HashJoined` the
loops that fill the dictionary (a sequence of entries, since its order decides the order of the
rows), `Emit` the product of the two groups of a key with the rows of nulls an outer join adds for an
empty group, `Filter` what is left of ON, `Project` WHERE and LIMIT. How `join_condition`
(`optimizer/eliminate_joins.py`) splits ON into keys and a rest is left out: `JoinType` is the entry
`Join.from_joins` makes of its result. The reference
is `Pairs`: the pairs of rows SQL joins, counted as a bag.

What the engine does not do as SQL does is left out of the run by its constants, one line each in
`SafeJoins` and `MCValue`: joins on columns with nulls (`hash_join` joins rows whose keys are NULL),
outer joins with a rest of ON (the rest drops the rows the join has completed with nulls), outer
joins without a key (the nested loop ignores the side). `SafeQueries` says the same of the constants;
the theorem has it as its hypothesis and `MCJoinStep` assumes it. FULL joins are not among them.

The proof of `JoinIsSQL` is about pairs of rows, not about rows: `Lists(rows, S, F)` says that a
sequence of rows lists a set of pairs `S`, each once, by way of the row `F` makes of a pair, so that equal
rows of different pairs are counted as often as they should be. `JoinInv` follows the pairs
through the phases: the two lists of each entry of the dictionary are the rows of its key read so far,
and every row read is in an entry (`DictInv`); `Emit` lists the pairs of the entries passed (`Emitted`);
together they are the pairs that have equal keys (`WithKey`); what the rest of ON leaves are `Pairs`. The
lemmas they rest on say what appending, joining and filtering lists does to the sets they list.

### The schema: `MappingSchema`, `MappingSchemaProofs`

`MappingSchema` is the class of that name with the nested dictionary, the trie over reversed names,
the cached nesting level (`depth`) and the cached table arguments (`args`). A dictionary of
dictionaries is a function from the keys of its tables to their columns. There are up to two
objects, the original and a copy. `AddTable` is `add_table` with its check of the level, its early
return for a table that is known already, `nested_set` and `new_trie`; files are added with
`match_depth=False`, as `qualify_tables` does. `Copy` is `copy`: when names are normalised the
dictionary is rebuilt, otherwise only its top level is new, and `shared` holds the top level keys
below which both objects hold one dictionary: what is added there to one is added to the other. The
trie is not shared. `FindIsUniqueMatch` compares `find`, which walks the trie, with the tables whose
name continues the one asked for. `CopiesAreApart` holds for schemas that normalise, which is the
run; without normalising, a table added to the copy appears in the dictionary of the original.
The theorem also needs that no name is quoted: `copy` lower-cases quoted names too.

Inductive invariant of the proofs (`IInv`): either there are no tables and nothing is cached, or
the tables under the first key, and all tables that are in a database, are at one level
(`Levelled`), and what is cached is that level; no file has the name of a database or a catalog
(`NoFileAbove`), since `nested_set` would otherwise put its columns where tables are; and below a
shared key both objects have the same tables (`SharedAlike`). The last part is needed because
`add_table` checks the level of one object and changes the dictionary of both: that the table
fits the other one follows from a table below the shared key, which both have. `CachesFresh` does
not speak of sharing and is not inductive without it. Where names are normalised nothing is shared
and trie and dictionary hold the same tables (`NormalInv`), from which `FindIsUniqueMatch` follows:
at one level, the tables whose name continues the one asked for are one, none or several exactly as
the trie answers. For the copies, every name in a dictionary is in lower case (`CaseInv`), so that
normalising it again changes nothing.

### The syntax tree: `ExprTree`, `ExprTransform`, `ExprTransformProofs`

`ExprTree` is the heap of nodes with `args`, `parent`, `arg_key` and `index`, and the operations that
edit it: `set` in its forms (a node, None, a list, a position overwritten, spliced, inserted before,
removed), `append`, `replace` with a node or a list, `pop`, and the wrapping that `transform` makes
possible. A node has one argument that is a node and one that is a list. `IsTree` is the property
everything else in the library relies on: nothing hangs at two places, and each node's reference
back names the place it hangs at. Callers give `set` and `replace` a node that is `Alone` or one
from below the node replaced; they edit nodes of the tree, not nodes that were displaced from it.

`ExprTransform` composes it with the traversal: a tree is edited in any way, and then, at any time,
transformed. `dfs` keeps a stack of nodes pushed before their siblings were replaced, removed or
spliced, while the function given to `transform` returns, for every node, one of: the node, a new
node, a child of it, a new node around it, nothing, a list. `VisitsOnce` says that new nodes are
never visited and no old one twice, `ImageOfTree` that the result is the tree of images.

All of it is proved, for every finite set of nodes, in four arguments:

- *The tree stays a tree.* `IsTree` speaks of what is reached from the root in as many steps as there
  are nodes. `Below` is shown to be the least set that holds a node and the children of its
  nodes; then a tree is the same as a set of nodes, none of whose children is the root, and all of
  whose children refer back (`Sound`). An edit is judged on such a set: what is below a node is cut off from the
  rest of the tree (`CutOff`), so what an edit takes out or puts in is a set of its own
  (`Grafting`), and one node has changed children. The invariant is `Whole(heap)`: the tree, and that its
  root hangs nowhere, by `parent` and `arg_key`. The second part is needed because `replace` by a list
  climbs as long as `arg_key` says `this`.
- *The traversal.* `TraversalInv`: the nodes on the stack are nodes of the old tree, none above another,
  whose old parents were kept; below them nothing was visited (`VisitedInv`) and nothing
  has changed, and they still hang where they did, whatever happened to their siblings (`HeapInv`).
  So the place that is read before the function is called is the right one.
- *The image.* `Now` is what stands for an old node at the moment: what was returned for it, or itself if
  it was not visited yet. `HeldInv`: the arguments of every kept node are what stands for its old
  arguments. A visit changes `Now` at one node, and the parent's list by that node being
  exchanged for a list; that this is what happens to the flattened list is
  `FlattenWithOneReplaced`. When the stack is empty `Now` is the image.
- *Replacing.* `Paths` is the least set of paths that goes on wherever the tree does (`PathsAreLeast`,
  `PathsLead`); in a tree one path leads to a node (`OnePath`). `replace` exchanges what one step of one
  node leads to (`ReplacedSwaps`), and both inclusions follow from leastness.

Assumptions: the nodes are finitely many and the two Python values that are not nodes differ from
them (`TreeAssumption`, `NoneAssumption`).

### The tokenizer: `Tokenizer`

`Tokenizer` is the Python tokenizer. A step is one turn of `_scan`; a turn of a hundred lines of
Python is one action because nothing can come between, but the scan that a command starts from
within `_add` is a frame on a stack, so that its turns are steps too. The state is the one of the
class: the cursor, line and column, comments waiting, tokens. A text is the interval of the source
it was read from, so that "nothing is lost and nothing read twice" can be said (`TokensCoverInput`);
what escapes are turned into is left out, but for the tag of a heredoc, which is as long as it is
without them (`TagText`). Everything a dialect may set is a constant (keywords, quotes, comments,
radixes, suffixes) or a flag of the case: digits and underscores in numbers and identifiers, nested
comments, tags that must be identifiers, and whether escapes count in raw strings and tags
(`STRING_ESCAPES_ALLOWED_IN_RAW_STRINGS`, in `Escaped`). `ScanKeywords` follows the trie;
`BackToTag` and `GiveBack` are the places where the cursor is moved back. For the texts of quotes,
escapes and heredoc tags the module was compared with the program: 18 370 texts, the same tokens at
the same places, or the same error.

`CommentsAttachedOnce` speaks of comments outside the text of a command, and `PlacesTrueOnLines` of
texts where no keyword stands on two lines and no heredoc gives a line break back: there the code
counts lines wrongly (see below). `LinesBefore`, `LineStart` and `Column` say what a place is without
the cursor: `\r\n` is one break, and one character of the line it ends, since `_advance` leaves the
column alone at a `\r` that a `\n` follows.

`TokenizerProofs` proves all three invariants for every dialect and every text. The inductive invariant
`IInv` speaks of a tokenizer that has dealt with the text up to its cursor (`ScanInv`):

- *The text.* Texts of tokens are in order (`Ordered`), what is in none of them is white space or a
  comment (`Covered`), comments are apart from each other (`SpansApart`) and from tokens, but for
  the text of a command and for hints (`OffTexts`).
- *Comments.* Each comment outside the commands waits, and hangs nowhere, or hangs at one
  neighbouring token, once, and does not wait (`PlacedInv`); what waits was read after the last token
  and within the innermost command (`WaitingInv`). Hence flushing it to the token before a semicolon,
  to the last token, or to the next one makes no pair twice.
- *Commands.* A frame remembers a token of a command and the cursor then; what has been read since
  lies behind it, comments and tokens, and outer frames lie before inner ones (`FramesInv`). So when a command
  ends, the tokens dropped are those of its text, which becomes one token (`CutKeeps`).

Each turn reads up to some place, and the proof says of each scan what: a
character that is no space and what belongs to it, one token for all that is read, a comment, or a
number, a cast of no text and its suffix. A turn that gives characters back ends at a place it has passed.
What is read behind a keyword, as far as the trie was followed, is white space, because no keyword
is the beginning of a dead end of the trie (`KeywordsMeetNoDeadEnd`); a dialect with the keywords
`A B` and `A B.C D` would lose the `.C` of `A B.C`. The assumption was evaluated for the tables of every
dialect of the repository, and none has such keywords.

`StringEnds` and `BlockEnds` are loops of the code as recursive functions. That they define numbers
at all is `Fixpoint`: what is defined from values at later places, which are finitely many, is
defined. `CharsRead` and its blanks are treated the same way.

For lines and columns the invariant is `PlacesInv`: unless a break is passed unseen, the cursor has
the line and the column of the place it is at (`Good`), and so has each token of its end (`InPlace`).
It needs `IInv` for what the tokens and frames are. `LinesGrow` and `ColumnGrows` say what lies
between two places, and then each way of moving the cursor is followed. `_advance` for one character
at a time counts right (`WalkPlaces`); for several at once it looks at the first only, so none of the
others but the last may be a break (`AdvancePlaces`); for characters given back it takes from the
column what it must not take from a line, so none of them may be a break (`AdvanceBack`). The rest is
why that is so at every call: delimiters have no breaks, what stands at the cursor when a delimiter
has been found is the delimiter (`Closes`), what opens a string was met in the trie and has no
blank, so nothing was left out when it was read (`WordStands`), a number ends with a character of it
(`NumberEndsInLine`), and what is given back after a number is a run without white space
(`RunOnOneLine`). Keywords and heredocs are the calls for which nothing of the kind holds:
`BreakPassed` is just these two.

Assumptions: no character is the empty string (`TextAssumption`), words are not empty (`WordsAssumption`),
the types the scanner itself gives to numbers, casts, strings and hints begin no command
(`CommandsAssumption`), what opens a string or a comment has no blank and what closes it no line break
(`DelimitersAssumption`), white space is no letter and no digit (`AlnumAssumption`), and
`KeywordsMeetNoDeadEnd`. The last three are of the tables, and hold of every dialect of the repository.

### Conditions and the optimizer: `Condition`, `NormalForm`, `Simplify`

`Condition` has conditions over three-valued columns and comparisons of one column with numbers, and
the helpers the rules share: `flatten`, `uniq_sort`, `combine`, parentheses. A condition is the
sequence of its nodes in the order of a walk; nodes have no identity, since Python compares them by
hash, so what depends on two equal nodes being one object is left out. `NormalForm` is
`optimizer/normalize.py`: the estimate of the length (`Lengths`), the distributive law one site at a
time, and giving up. `Simplify` is the loop of `optimizer/simplify.py` with the rules for
connectors, negations, constants, comparisons, absorption, elimination and parentheses, one rule
group on one node per step, top down and then bottom up, until a pass changes nothing.

The reference is the truth table (`Value`: three values; rows for every value of the columns, with
`x` NULL, at, below and above each number). Where the given condition is NULL the simplified one may
be TRUE or FALSE, as `A OR NOT A` becomes TRUE. `PlainMeaningKept` has two preconditions that the code
needs, both found by checking without them: no literal NULL (below), and no negated comparison (run
`negated_ranges`).

### Reading and writing: `ExprParser`, `ExprGenerator`, `ConditionText`

`ExprParser` is how the parser reads a condition: `_parse_assignment` down to the operands, one
level per set of operators (a recursive function of the level and the cursor), with the ranges (IS,
IN, BETWEEN, ISNULL, NOTNULL, NOT before them), the places where the cursor goes back, unary operators,
parentheses, tuples and aliases in them. `ExprGenerator` is how the generator writes such a tree
(`connector_sql`, `binary`, `not_sql`, ... ) and how the operators and builders of `expressions.py`
put trees together (`_binop`, `_combine`, `not_`, `_wrap`), where the only parentheses come from.
`ConditionText` composes them: a text is read, perhaps built into a larger tree, written and read
again.

`TreesFit` is a grammar: every subtree binds at least as tightly as its place asks for, and an operand
does not take in what follows it. `RoundTrip` says that nothing is lost in reading and that exactly
the trees that fit are read back as they were; that makes `Fits` the condition under which the
generator is "the reverse operation of the parser", as `posts/onboarding.md:205` calls it. The
operators used are those whose operands are given parentheses by the builders; where they are
not, `safe` is FALSE. It is FALSE too where reading itself makes a tree that does not fit: a NOT read
after its operand (`NotAfterOperand`), and an ISNULL after a whole range, which takes the NOT before the
range for its operand (`IsNullAfterRange`). `RoundTrip` then still says which trees come back; these do not.

### The dialect registry: `DialectRegistry`, `DialectRegistryProofs`

Threads that ask for dialects through `Dialect.get`, through the attributes of the package
`sqlglot.dialects`, through `Dialect.classes`, or define their own, interleaved at each step of the
imports they start. `stack` holds the imports of a thread, `status` the import system's locks (a
module that is loading makes other importers wait), `importLock` the reentrant `_import_lock`;
`Register` and `Complete` are the two parts of `_Dialect.__new__`: the class is in the registry
before it has its tokenizer, parser and generator. Calls are `Begin` (the first lookup) and
`Return` (the second one). Imports are not circular (an ASSUME, checked on the instance).

Inductive invariant of the proofs (`IInv`): the types; a module that is loaded has a finished class
(`LoadedIsComplete`); an import that is about to be left has been made, and a class about to be finished
is registered (`Frames`); and what a call needs is loaded, or is the module its thread's outermost
import is of (`Wanted`). From `Wanted` the second lookup cannot miss, and what an import returns is
finished (`Answered`).

### The guardrail's storage client: `GuardDecision`, `StorageClient`, `StorageClientProofs`

`StorageClient` composes `StorageServiceClient` (connect, reconnect, close, `ensure_connection`, the
second attempt), `get_table_infos`, `validate_queries` and the handler `gaurd`, with the service and
the connection as an environment: it refuses, stops and starts, answers late, with an error or not
at all. `Ask` is a request that gets as far as the service, with the tables of its query and those among
them that are read without a LIMIT (`unlimited`, the first rule of `validate_queries`). `Fail` is the
status 500: there is no client because the guardrail is not enabled, or reading the query raises.
The handlers are coroutines without an `await`, so one request runs at a time and the
program counter `pc` belongs to it; what remains from one request to the next is the client they
share. Thrift is external: the reply to a call is whatever comes next on the connection, because
the generated `recv_` methods do not compare sequence numbers. That is the hazard: a reply that
comes after its timeout would be taken for the reply to the next call. It never is, because each
failure is followed by a new connection (`ReconnectKeeps` is the mutant).

`GuardDecision` is the promise: a query is allowed only when the service has answered for each of
its tables in this request, no table breaks a rule and each is read with a LIMIT; otherwise it is
denied, or there is an error. `ImplementsDecision` checks it, and theorem
`Refinement` proves it. `NothingLeftOver` leaves out one connection: the one made at the start waits
open for the first request that asks the service.

Inductive invariant (`IInv`): the types; `Counts`, which ties the attempt to the failures seen;
`Binding`, what `self.storage` is bound to in each state of the socket; `Wire`, that the connection
holds at most the call being made or its reply, and nothing outside a call; `ColumnsKept`, that the
columns remembered while the partitions are fetched are the table's; `Progress`, how far the loop
has come. `Wire` is what makes `InfosAreOfTheTable` inductive.

## Runs

| run | instance | what it shows |
|---|---|---|
| `cte_plan` | the 22 steps the planner makes of one query, 17 628 states | every order of the queue and of merging contexts: steps find their tables, run once, with their inputs there and apart; tables held exactly while needed; the refinement; `execute` ends |
| `grouping` | all tables of up to 4 rows over 2 keys and None, all limits 0 to 3 and none, all HAVING sets; 80 439 states | groups exact, one row per group, the answer complete |
| `joins` | one join over two tables of up to 2 rows, chains of two joins with a third of one row; 1.09 million states | each join is SQL's, as a bag; WHERE before LIMIT |
| `trees` | 4 nodes of a tree and 2 new ones, exchanged by symmetry; 37 976 states | any sequence of edits keeps the tree a tree, replace is local; `transform` after any of them visits each old node at most once and returns the tree of images |
| `tokens` | 33 001 texts of a dialect small enough to have each kind of token once; 147 213 states | every character in one token or one comment, every comment at one neighbouring token, lines and columns, the scan ends |
| `conditions` | 2900 conditions in four families, with `MaxDistance` 4; 95 127 states | meaning kept, the passes end and leave nothing to do, normal forms are normal, mean the same and stay within the bound |
| `round_trip` | 72 063 texts, all of up to 4 tokens of a small alphabet, some with ISNULL, and the combinations of 3 and 4 operands with all pairs of operators; 189 079 states | trees are nested as the operators bind, nothing is lost, exactly the trees that fit read back |
| `schema` | 7 tables of one to three levels, a file, names in both cases, from an empty and a filled dictionary, with a copy; 20 348 states | `find` answers with the table that fits; level and arguments are fresh; a call changes one table of one object |
| `dialect_registry` | 2 threads, up to 3 calls, 4 dialects and one of the user's; 139 551 states | dialects found, imported classes finished, every call returns |
| `guard_requests` | 2 requests over 3 tables, one breaking each rule of the metadata, with and without LIMIT, with and without a client; 72 363 states | calls go to the open connection, replies to their call, one failure is masked, nothing is left between requests, the decision, every request is answered |
| `import_deadlock`, `negated_ranges` | as above | violations, see below |

Why the bounds are enough. `cte_plan` has each kind of step, a step shared by five others and one by
three, an unused common table expression, one that hides another of the same name, and each way in
which a table changes its name. Four rows over two keys and None have a group of several rows
before, between and after others, and each limit lies below, at or above the number of groups. Two
rows per table give equal rows, rows without a partner and groups of two on both sides. Four nodes
allow a list of three, a chain of three, and lists under arguments and arguments under lists; two
new nodes a replacement and one inside of it. The texts of `tokens` are built from the pieces that
meet in one hazard, up to six of them: a comment before, after and inside of what it can hang at,
each lookahead followed by each thing that ends it. `MaxDistance` is 128 in the code; with 4 the
conditions of two columns already go beyond it, before the first step, in the middle and not at all. Comparisons
with two numbers have every order of the two. Three operands suffice for whether an operator takes
in its neighbour, four for a NOT or a range between two others. The schema's tables have two that
differ in the database only, two that differ in the catalog only and a file named like a table.
Two threads suffice for each race of the registry: it has two locks, and a class has one maker. The
second request of `guard_requests` meets what the first left behind, and no state lives longer than
that.

The instance of `round_trip` was also compared with the program: for its 72 063 texts the module and
the library accept the same ones and build the same trees, and write the same texts of them.

The runs fire every action. The mutants in `PROJECT.json` break each property by a plausible change
of the code; they stand beside the definitions they replace. Deadlock is checked except in
`conditions`, `negated_ranges` and `round_trip`, which stop when the condition is done, and in
`import_deadlock`.

### Fairness

`WF_vars(Next)` in the scheduler and in `Simplify`, `WF_vars` of the scanning actions in `Tokenizer`,
`WF_vars(Client)` in the storage client: each is one thread in a loop that nothing else holds up;
what it waits for is bounded, in the client by the socket's timeout (`CallFails` is possible in every
wait; `CallFailsNoTimeout` is the mutant without it, and requests hang). No fairness is assumed of
the storage service. In the registry `WF_vars(Step(t))` for each thread: the interpreter schedules
each thread that can run; a thread that waits for a lock cannot. Modules without a liveness property
state none.

## Disagreements found

Shown by runs (`findings` in `PROJECT.json`):

- `import_deadlock`: `Dialect.get("athena")` and `sqlglot.dialects.Athena` in two threads block for
  ever: athena's module lock and `_import_lock` are taken in opposite orders.
- `negated_ranges`: `x < 1 AND NOT x > 1` is simplified to `x <= 1`: of two comparisons with one number the
  left one is kept, which is the narrower one only while the operands stand in sorted order, and
  the negation is resolved after sorting.

Met on the way; the passing runs leave them out by their constants, by the callers' preconditions or
by a precondition of the property, and `hazards` has most of them:

- Engine: `hash_join` joins rows whose keys are NULL; the rest of ON drops rows an outer join has
  completed; an outer join without a key loses rows; LIMIT counts groups before HAVING; both sides
  of `t AS l CROSS JOIN t AS r` over one common table expression are one table object with one
  reader; both sides of a UNION that scan one table under one name are one table; `aggregate` widens
  and sorts the rows of a shared table in place (`python.py:253-272`), so that a LIMIT in another
  reader of the same common table expression returns other rows from one call to the next. The
  last is in no module: `PlanExecutor` knows tables by who made them.
- Tree: `replace` with a list directly below the root clears the node's place in a tree it is still
  in; `pop` of a node that `set` has displaced removes the node there now; `transform` that returns
  a child as the new root leaves that child's `parent` set.
- Registry: `get` can return a class that another thread has registered and not finished;
  `Dialect.classes` omits the last dialect when all others are loaded, because `Dialect` itself is
  counted.
- Schema: a copy that does not normalise shares dictionaries with the original but not the trie, so
  what is added to one is half there in the other; types are cached by their text, whatever the
  dialect.
- Tokenizer: the line break within a keyword written over two lines is not counted, and a text that
  turns out to be no heredoc is given back with its line breaks still counted, and one character
  short where the text ends or the tag has an escape, so that `$ab$` where tags are identifiers begins
  with the parameter `$a`; an escape at the very end of the text is an error even where a tag
  without an end is none.
- Optimizer: `simplify` makes TRUE of `A OR NOT A` and NULL of `NULL AND FALSE`, which differ under
  three-valued logic.
- Reading and writing: `x NOT IN (1) IS NULL` and `NOT x IN (1) ISNULL` are read as `(NOT x IN (1)) IS NULL` and
  written `NOT x IN (1) IS NULL`, which reads as the negation of the whole, although the generator is
  "the reverse operation of the parser" (`posts/onboarding.md:205`); `1 NOT = 2` is accepted; `(1,)` is written `(1)`; `(1 NOT IS)` loses its NOT. The
  operators of `Condition` leave an operand without parentheses when it is of the class they make:
  `a - (b - c)` built with `-` is written `a - b - c`, and `(a * b) * (c + d)` loses its parentheses; the
  operands of NOT, IN and BETWEEN never get any from the builders.

## What is proved

TLAPS proves, for all values of the constants that meet the modules' assumptions:

- `PlanExecutorProofs`: type correctness, `QueuedCanRun`, `HeldExactlyWhileNeeded`,
  `ResultNeverLost`, and the refinement of `PlanEvaluation`, for every acyclic plan of any size;
  `NamesFound` and `InputsIntact` for every plan whose names are apart, `JoinInputsDistinct` for
  every plan whose tables are, too.
- `AggregateStepProofs`: type correctness, `GroupsExact`, `OneRowPerGroup`, `AnswerComplete`, for every
  table, key set, limit and HAVING.
- `JoinStepProofs`: type correctness and `WhereThenLimit` for every query, and `JoinIsSQL` for those
  that are safe (`SafeQueries`), with tables of any size and any number of joins.
- `ExprTransformProofs`: `EditsKeepTree`, `VisitsOnce`, `ImageOfTree` and the action property
  `ReplaceIsLocal`, for trees of any size, any edits, and any function given to `transform`.
- `StorageClientProofs`: type correctness, `CallsOnOpenConnection`, `InfosAreOfTheTable`,
  `OneFailureIsMasked`, `NothingLeftOver`, and the refinement of `GuardDecision`, for every set of
  tables and any number of requests.
- `DialectRegistryProofs`: type correctness, `KnownIsFound`, `ImportedIsComplete`, for any threads,
  dialects, imports and programs.
- `TokenizerProofs`: type correctness, `TokensCoverInput`, `CommentsAttachedOnce` and
  `PlacesTrueOnLines`, for any tables of a dialect whose keywords meet no dead end of the trie and
  whose delimiters stand on one line, and any text.
- `MappingSchemaProofs`: type correctness and `CachesFresh`, for any names, tables, files and given
  dictionaries, with and without normalising; `FindIsUniqueMatch` where names are normalised; the
  action property `CopiesAreApart` where they are and none is quoted. The assumptions are those
  of the module: references have one to three parts, a dictionary that is given has one level, and
  a file is not named like a database or a catalog.

The hypotheses of the theorems about names, joins and copies are what the code needs, not what the
proofs happen to need: each excluded case is one in which the program does something else, listed
under the disagreements. The runs show that the hypotheses hold on their instances.

Recursive definitions are LET functions on an interval (`Below`, `Paths`, `FlattenSeq` through its fold)
and are reasoned about by hand: every set of numbers has a least one, hence
what holds at 0 and passes from n - 1 to n holds up to any number (`UpTo`), hence recursion up to a
number defines a function (`Recursion`). The induction theorems of the library, which take the
statement as a parameter, cannot be used. `SelectSeq` is replaced by `Kept`, a function of the
same meaning, where it had to be reasoned about.

Only model-checked:

- liveness under fairness (`Terminates`, `Answered`, `EveryCallReturns`), which the prover does not reach;
- `TreesFit` and `RoundTrip`, and what the planner makes of a query: `ExprParser`, `ExprGenerator` and
  `PlanBuilder` are recursive operators, for which the prover has no SMT backend, and induction over syntax trees
  is what their correctness is;
- the properties of `Simplify`: a condition is a sequence of its nodes in the order of a walk, and each
  rule replaces an interval of it, so that every one of them needs induction over such
  sequences before the truth tables can be compared.

## What is not modelled

`PROJECT.json` lists each part with its reason. Declarations without control (node classes, dialect
tables, most of the grammar, generated Thrift code), formatting, and pure conversions of data (serde, time
formats, JSON paths) are left out on purpose: they are most of the lines of the repository, and a
model of a table is the table. Of the parts that are modelled the notes say what is left out:
subqueries in FROM in the planner, the types of columns in the schema, the identity of nodes in
conditions, statements, functions, types, casts, intervals and LIKE in the parser, the Rust tokenizer, copies
and cached hashes of the tree.

## Plan

What comes next; each item names the module, what it is checked against and what is worth proving.

1. `ColumnRanges`: `Table.add_columns` and the readers of joined tables, which share column ranges.
2. `JoinOrder`: `tsort` and `reorder_joins`: every name is joined after those its condition uses.
3. `ParserCursor`: `_advance`, `_retreat`, `_try_parse` and error levels: a failed alternative leaves
   cursor and errors as they were; `_parse` over statements.
4. `TreeDiff`: the matching of Change Distiller: a matching is one to one, and the edits make one tree
   of the other.
5. `ConverterRequests`: the error paths of the converter's handlers and their log records.
