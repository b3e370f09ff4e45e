--------------------------- MODULE GuardDecision ---------------------------
(***************************************************************************)
(* What the guardrail promises about a query: it is allowed only when the  *)
(* storage service has answered for every table of the query, in this      *)
(* request, and no table breaks a rule or is read without a LIMIT; in      *)
(* every other case it is denied, or gets no decision but an error.        *)
(* converter_api.py, gaurd, with guardrail/main.py, get_table_infos and    *)
(* guardrail/rules_validator.py, validate_queries.                         *)
(***************************************************************************)
EXTENDS Naturals

CONSTANTS
  Table,       \* the tables queries name
  Breaking,    \* the tables whose metadata make the query break a rule
  MaxRequests  \* bound: how many requests are made

VARIABLES
  request,  \* the number of the request
  tables,   \* the tables of its query
  unlimited,  \* those that are read without a LIMIT
  known,    \* the tables the service has answered for
  verdict   \* "none" before the first request, "asked" during one

vars == <<request, tables, unlimited, known, verdict>>

Init == request = 0 /\ tables = {} /\ unlimited = {} /\ known = {} /\ verdict = "none"

Ask ==
  /\ verdict # "asked"
  /\ request < MaxRequests
  /\ request' = request + 1
  /\ tables' \in SUBSET Table
  /\ unlimited' \in SUBSET tables'
  /\ known' = {}
  /\ verdict' = "asked"

(* A request without an answer: the service is not asked.                  *)
Fail ==
  /\ verdict # "asked"
  /\ request < MaxRequests
  /\ request' = request + 1
  /\ tables' = {} /\ unlimited' = {} /\ known' = {}
  /\ verdict' = "error"

Learn ==
  /\ verdict = "asked"
  /\ \E t \in tables \ known : known' = known \union {t}
  /\ UNCHANGED <<request, tables, unlimited, verdict>>

Allowed == known = tables /\ tables \intersect Breaking = {} /\ unlimited = {}

Answer ==
  /\ verdict = "asked"
  /\ verdict' = IF Allowed THEN "allow" ELSE "deny"
  /\ UNCHANGED <<request, tables, unlimited, known>>

Next == Ask \/ Fail \/ Learn \/ Answer

Spec == Init /\ [][Next]_vars
=============================================================================
