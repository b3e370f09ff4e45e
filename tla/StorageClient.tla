--------------------------- MODULE StorageClient ---------------------------
(***************************************************************************)
(* The guardrail's client of the storage service and the requests that use *)
(* it.  One StorageServiceClient is made when the service starts and every *)
(* request uses it; the handlers are coroutines that never await, so one   *)
(* request runs at a time.  The service answers late, or not at all, or    *)
(* with an error, stops and starts; calls time out and are made once more  *)
(* over a new connection.                                                  *)
(*                                                                         *)
(* guardrail/main.py, StorageServiceClient and get_table_infos;            *)
(* guardrail/rules_validator.py, validate_queries; converter_api.py, gaurd.*)
(* The socket and the server are external (Thrift): a reply is whatever    *)
(* comes next on the connection, the generated recv_ methods do not        *)
(* compare its sequence number with that of the call.                      *)
(***************************************************************************)
EXTENDS Naturals, Sequences

CONSTANTS
  Table,       \* the tables queries name
  Wide,        \* those whose columns make the query break a rule
  Loose,       \* those whose partitions make the query break a rule
  MaxRequests  \* bound: how many requests are made

ASSUME ClientAssumption ==
  Wide \subseteq Table /\ Loose \subseteq Table /\ MaxRequests \in Nat

Method == {"getColumns", "getTablePartitions"}

Call == [request : Nat, table : Table, method : Method]
Reply == [call : Call, error : BOOLEAN]

VARIABLES
  storage_service_client,  \* whether there is a client: the guardrail is enabled
  up,          \* the service accepts connections
  alive,       \* the service's end of the connection is there
  unanswered,  \* the calls the service has read on this connection
  replies,     \* the replies on the way on this connection
  socket,      \* self.socket: None, not opened or open
  storage,     \* self.storage: None, bound to self.socket or to an older one
  pc,          \* what the request does next
  request,     \* the number of the request
  tables,      \* the tables of its query
  unlimited,   \* those of its tables that are read without a LIMIT
  todo,        \* those get_table_infos has not come to
  table,       \* table_name
  method,      \* the method called
  attempt,     \* 1, or 2 in the except branch
  faults,      \* history: failures of the call being made
  refused,     \* history: a connection was refused during the request
  columns,     \* the reply that get_columns returned
  infos,       \* table_infos
  verdict      \* what the last request was told

server == <<up, alive, unanswered, replies>>
client == <<socket, storage>>
call == <<table, method, attempt>>
history == <<faults, refused>>
query == <<storage_service_client, request, tables, unlimited, todo>>
answers == <<columns, infos, verdict>>
vars == <<server, client, pc, query, call, history, answers>>

CurrentCall == [request |-> request, table |-> table, method |-> method]
NoInfos == [t \in {} |-> <<>>]

-----------------------------------------------------------------------------
(* The service and the network.                                            *)

(* The service goes away, or drops the connection; what it had sent may    *)
(* still be read.                                                          *)
ConnectionLost ==
  /\ up' \in BOOLEAN
  /\ alive' = FALSE
  /\ unanswered' = <<>>
  /\ replies' \in {replies, <<>>}
  /\ UNCHANGED <<client, pc, query, call, history, answers>>

ServerStarts ==
  /\ ~up
  /\ up' = TRUE
  /\ UNCHANGED <<alive, unanswered, replies, client, pc, query, call, history, answers>>

ServerReplies ==
  /\ alive
  /\ unanswered # <<>>
  /\ \E error \in BOOLEAN :
       replies' = Append(replies, [call |-> Head(unanswered), error |-> error])
  /\ unanswered' = Tail(unanswered)
  /\ UNCHANGED <<up, alive, client, pc, query, call, history, answers>>

Environment == ConnectionLost \/ ServerStarts \/ ServerReplies

-----------------------------------------------------------------------------
(* StorageServiceClient                                                    *)

NoConnection == alive' = FALSE /\ unanswered' = <<>> /\ replies' = <<>>

(* connect: both outcomes.  A refused connection leaves a new TSocket that *)
(* is not open, and self.storage as it was.                                *)
Connected ==
  /\ up
  /\ socket' = "open"
  /\ storage' = "current"
  /\ alive' = TRUE
  /\ unanswered' = <<>>
  /\ replies' = <<>>
  /\ UNCHANGED refused

Refused(bound) ==
  /\ socket' = "unopened"
  /\ storage' = IF bound = "None" THEN "None" ELSE "old"
  /\ NoConnection
  /\ refused' = TRUE

(* close                                                                   *)
Close ==
  /\ socket' = "None"
  /\ storage' = IF socket = "None" THEN storage ELSE "None"
  /\ NoConnection

(* ensure_connection, the connection open.  isOpen may miss that the other *)
(* end has gone.                                                           *)
EnsureOpen ==
  /\ pc = "ensure"
  /\ socket = "open"
  /\ pc' = "send"
  /\ UNCHANGED <<server, client, query, call, history, answers>>

(* Mutant: a refused connection is not an exception.                       *)
EnsureIgnoresRefused ==
  /\ pc = "ensure"
  /\ socket # "open" \/ ~alive
  /\ Connected \/ Refused(storage)
  /\ pc' = "send"
  /\ UNCHANGED <<up, query, call, faults, answers>>

(* ensure_connection, the connection not open.  It is called outside the   *)
(* try, so a refused connection ends the call.                             *)
EnsureConnect ==
  /\ pc = "ensure"
  /\ socket # "open" \/ ~alive
  /\ \/ Connected /\ pc' = "send"
     \/ Refused(storage) /\ pc' = "close"
  /\ UNCHANGED <<up, query, call, faults, answers>>

(* send_getColumns, send_getTablePartitions                                *)
Send ==
  /\ pc = "send"
  /\ unanswered' = IF alive THEN Append(unanswered, CurrentCall) ELSE unanswered
  /\ pc' = "receive"
  /\ UNCHANGED <<up, alive, replies, client, query, call, history, answers>>

(* Mutant: there is no second attempt.                                     *)
ExceptGivesUp ==
  /\ faults' = faults + 1
  /\ pc' = "close"
  /\ UNCHANGED <<client, query, call, refused, answers>>

(* An exception in the call: except once, then out of get_table_infos'     *)
(* loop.                                                                   *)
Except ==
  /\ faults' = faults + 1
  /\ pc' = IF attempt = 1 THEN "reconnect" ELSE "close"
  /\ UNCHANGED <<client, query, call, refused, answers>>

(* Mutant: the socket has no timeout.                                      *)
CallFailsNoTimeout ==
  /\ pc \in {"send", "receive"}
  /\ ~alive
  /\ Except
  /\ UNCHANGED server

(* The call fails: it could not be written, no reply came within the       *)
(* timeout, or the connection ended.                                       *)
CallFails ==
  /\ \/ pc = "send" /\ ~alive
     \/ pc = "receive"
  /\ Except
  /\ UNCHANGED server

(* Mutant: the second attempt is made over the connection of the first.    *)
ReconnectKeeps ==
  /\ pc = "reconnect"
  /\ attempt' = 2
  /\ IF socket = "open"
     THEN pc' = "send" /\ UNCHANGED <<server, client, refused>>
     ELSE /\ \/ Connected /\ pc' = "send"
             \/ Refused("None") /\ pc' = "close"
          /\ UNCHANGED up
  /\ UNCHANGED <<query, table, method, faults, answers>>

(* reconnect, in the except branch: close, which sets self.storage to      *)
(* None, and connect.                                                      *)
Reconnect ==
  /\ pc = "reconnect"
  /\ attempt' = 2
  /\ \/ Connected /\ pc' = "send"
     \/ Refused("None") /\ pc' = "close"
  /\ UNCHANGED <<up, query, table, method, faults, answers>>

-----------------------------------------------------------------------------
(* get_table_infos                                                         *)

(* recv_getColumns, recv_getTablePartitions: the next reply of the         *)
(* connection.                                                             *)
ReplyIsError ==
  /\ pc = "receive"
  /\ replies # <<>>
  /\ Head(replies).error
  /\ replies' = Tail(replies)
  /\ Except
  /\ UNCHANGED <<up, alive, unanswered>>

Columns ==
  /\ pc = "receive"
  /\ method = "getColumns"
  /\ replies # <<>>
  /\ ~Head(replies).error
  /\ replies' = Tail(replies)
  /\ columns' = Head(replies).call
  /\ method' = "getTablePartitions"
  /\ attempt' = 1
  /\ faults' = 0
  /\ pc' = "ensure"
  /\ UNCHANGED <<up, alive, unanswered, client, query, table, refused, infos, verdict>>

Partitions ==
  /\ pc = "receive"
  /\ method = "getTablePartitions"
  /\ replies # <<>>
  /\ ~Head(replies).error
  /\ replies' = Tail(replies)
  /\ infos' = [t \in DOMAIN infos \union {table} |->
                 IF t = table THEN [columns |-> columns, partitions |-> Head(replies).call]
                 ELSE infos[t]]
  /\ pc' = "next"
  /\ UNCHANGED <<up, alive, unanswered, client, query, call, history, columns, verdict>>

(* `for table_name in tables`                                              *)
NextTable ==
  /\ pc = "next"
  /\ \E t \in todo :
       /\ table' = t
       /\ todo' = todo \ {t}
  /\ method' = "getColumns"
  /\ attempt' = 1
  /\ faults' = 0
  /\ pc' = "ensure"
  /\ UNCHANGED <<server, client, storage_service_client, request, tables, unlimited, refused, answers>>

LastTable ==
  /\ pc = "next"
  /\ todo = {}
  /\ pc' = "close"
  /\ UNCHANGED <<server, client, query, call, history, answers>>

(* Mutant: the connection stays open between requests.                     *)
FinallyNothing ==
  /\ pc = "close"
  /\ pc' = "judge"
  /\ UNCHANGED <<server, client, query, call, history, answers>>

(* `finally: client.close()`: the client that all requests use.            *)
Finally ==
  /\ pc = "close"
  /\ Close
  /\ pc' = "judge"
  /\ UNCHANGED <<up, query, call, history, answers>>

-----------------------------------------------------------------------------
(* The handler                                                             *)

(* A request with a query that parses.                                     *)
Ask ==
  /\ pc = "idle"
  /\ storage_service_client
  /\ request < MaxRequests
  /\ request' = request + 1
  /\ tables' \in SUBSET Table
  /\ unlimited' \in SUBSET tables'
  /\ todo' = tables'
  /\ infos' = NoInfos
  /\ refused' = FALSE
  /\ verdict' = "asked"
  /\ pc' = "next"
  /\ UNCHANGED <<storage_service_client, server, client, call, faults, columns>>

(* The status 500: there is no client, or parsing the query or extracting  *)
(* its tables raises.  The service is not asked.                           *)
Fail ==
  /\ pc = "idle"
  /\ request < MaxRequests
  /\ request' = request + 1
  /\ tables' = {}
  /\ unlimited' = {}
  /\ todo' = {}
  /\ infos' = NoInfos
  /\ verdict' = "error"
  /\ UNCHANGED <<storage_service_client, server, client, pc, call, history, columns>>

(* Mutant: a table without an entry in table_map is passed over.           *)
ViolationsOfKnown ==
  {t \in tables \intersect DOMAIN infos :
     t \in unlimited \/ infos[t].columns.table \in Wide \/ infos[t].partitions.table \in Loose}

(* validate_queries: the tables with a violation.                          *)
Violations ==
  {t \in tables :
     \/ t \notin DOMAIN infos
     \/ t \in unlimited
     \/ infos[t].columns.table \in Wide
     \/ infos[t].partitions.table \in Loose}

Judge ==
  /\ pc = "judge"
  /\ verdict' = IF Violations = {} THEN "allow" ELSE "deny"
  /\ pc' = "idle"
  /\ UNCHANGED <<server, client, query, call, history, columns, infos>>

-----------------------------------------------------------------------------
(* A guardrail that is enabled has a client; StorageServiceClient.__init__ *)
(* connects, and the process does not start when it cannot.                *)
Init ==
  /\ storage_service_client \in BOOLEAN
  /\ up = TRUE
  /\ alive = storage_service_client
  /\ unanswered = <<>>
  /\ replies = <<>>
  /\ socket = IF storage_service_client THEN "open" ELSE "None"
  /\ storage = IF storage_service_client THEN "current" ELSE "None"
  /\ pc = "idle"
  /\ request = 0
  /\ tables = {}
  /\ unlimited = {}
  /\ todo = {}
  /\ table \in Table
  /\ method = "getColumns"
  /\ attempt = 1
  /\ faults = 0
  /\ refused = FALSE
  /\ columns = [request |-> 0, table |-> table, method |-> method]
  /\ infos = NoInfos
  /\ verdict = "none"

Client ==
  \/ EnsureOpen \/ EnsureConnect \/ Send \/ CallFails \/ Reconnect
  \/ ReplyIsError \/ Columns \/ Partitions \/ NextTable \/ LastTable \/ Finally \/ Judge

Next == Environment \/ Client \/ Ask \/ Fail

Spec == Init /\ [][Next]_vars

(* The service answers or not as it likes; the process runs on, and a call *)
(* that waits ends at the latest with the socket's timeout.                *)
FairSpec == Spec /\ WF_vars(Client)

-----------------------------------------------------------------------------
(* A call is made on the connection the client holds: self.storage is      *)
(* never None or left over from an earlier socket when it is used.         *)
CallsOnOpenConnection ==
  pc \in {"send", "receive"} => socket = "open" /\ storage = "current"

(* The metadata of a table are the replies to the two calls that this      *)
(* request made for it, whatever was late, lost or repeated before.        *)
InfosAreOfTheTable ==
  \A t \in DOMAIN infos :
    /\ infos[t].columns = [request |-> request, table |-> t, method |-> "getColumns"]
    /\ infos[t].partitions = [request |-> request, table |-> t, method |-> "getTablePartitions"]

(* One failure of a call is made good by the second attempt: a request     *)
(* misses a table only after two failures of one call or a refused         *)
(* connection.                                                             *)
OneFailureIsMasked ==
  pc = "judge" /\ DOMAIN infos # tables => refused \/ faults = 2

(* Between two requests nothing is on the way, and once a request has been *)
(* decided nothing is open: only the connection made at the start may wait *)
(* for the first one.                                                      *)
NothingLeftOver ==
  /\ pc \in {"judge", "idle"} => unanswered = <<>> /\ replies = <<>>
  /\ pc = "judge" \/ verdict \in {"allow", "deny"} => socket = "None" /\ storage = "None"

TypeOK ==
  /\ up \in BOOLEAN
  /\ alive \in BOOLEAN
  /\ unanswered \in Seq(Call)
  /\ replies \in Seq(Reply)
  /\ socket \in {"None", "unopened", "open"}
  /\ storage \in {"None", "old", "current"}
  /\ pc \in {"idle", "next", "ensure", "send", "receive", "reconnect", "close", "judge"}
  /\ request \in 0..MaxRequests
  /\ tables \subseteq Table
  /\ storage_service_client \in BOOLEAN
  /\ unlimited \subseteq tables
  /\ todo \subseteq tables
  /\ table \in Table
  /\ method \in Method
  /\ attempt \in 1..2
  /\ faults \in 0..2
  /\ refused \in BOOLEAN
  /\ columns \in Call
  /\ DOMAIN infos \subseteq Table
  /\ \A t \in DOMAIN infos : infos[t] \in [columns : Call, partitions : Call]
  /\ verdict \in {"none", "asked", "allow", "deny", "error"}

Decision == INSTANCE GuardDecision WITH Breaking <- Wide \union Loose, known <- DOMAIN infos

(* The guardrail fails closed: a request is allowed only on the service's  *)
(* own answers about every table of its query, each read with a LIMIT.     *)
ImplementsDecision == Decision!Spec

(* Every request is answered, also when the service never is.              *)
Answered == pc # "idle" ~> pc = "idle"
=============================================================================
