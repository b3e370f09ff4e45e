------------------------ MODULE StorageClientProofs ------------------------
(***************************************************************************)
(* For every set of tables and every number of requests: the metadata a    *)
(* request works with are the service's answers to its own calls, one      *)
(* failure of a call is masked, nothing is left over between requests, and *)
(* the client and its handler implement GuardDecision.                     *)
(***************************************************************************)
EXTENDS StorageClient, TLAPS

Calling == {"ensure", "send", "receive", "reconnect"}

(* How many attempts have failed.                                          *)
Counts ==
  /\ pc \in {"ensure", "send", "receive"} => faults = attempt - 1
  /\ pc = "reconnect" => attempt = 1 /\ faults = 1

(* What self.storage is bound to, and when a connection is open.           *)
Binding ==
  /\ socket = "open" => storage = "current"
  /\ socket = "None" => storage = "None"
  /\ pc \in {"send", "receive", "reconnect"} => socket = "open"
  /\ pc = "judge" \/ verdict \in {"allow", "deny"} => socket = "None"
  /\ alive => socket = "open"

EmptyWire == unanswered = <<>> /\ replies = <<>>

(* Nothing is on the way but, while a reply is waited for, the call itself *)
(* or its reply; what a failed call left is there until the connection is  *)
(* closed.                                                                 *)
Wire ==
  /\ pc \in {"idle", "next", "ensure", "send", "judge"} => EmptyWire
  /\ pc = "receive" =>
       \/ EmptyWire
       \/ unanswered = <<CurrentCall>> /\ replies = <<>>
       \/ /\ unanswered = <<>>
          /\ \E error \in BOOLEAN : replies = <<[call |-> CurrentCall, error |-> error]>>

(* The columns kept while the partitions are asked for are the table's.    *)
ColumnsKept ==
  pc \in Calling /\ method = "getTablePartitions" =>
    columns = [request |-> request, table |-> table, method |-> "getColumns"]

(* How far the loop over the tables has come.                              *)
Progress ==
  /\ DOMAIN infos \subseteq tables
  /\ pc = "next" => DOMAIN infos = tables \ todo
  /\ pc \in Calling => /\ table \in tables \ todo
                       /\ DOMAIN infos = (tables \ todo) \ {table}
  /\ pc \in {"close", "judge"} => DOMAIN infos = tables \/ refused \/ faults = 2
  /\ verdict = "asked" <=> pc # "idle"

IInv == TypeOK /\ Counts /\ Binding /\ Wire /\ ColumnsKept /\ InfosAreOfTheTable /\ Progress

-----------------------------------------------------------------------------
(* An empty wire is a sequence of calls and of replies.                    *)
LEMMA EmptyWireType == <<>> \in Seq(Call) /\ <<>> \in Seq(Reply)
<1> QED
  OBVIOUS

(* The first state of the client meets the invariant.                      *)
LEMMA InitIInv == Init => IInv
<1> SUFFICES ASSUME Init PROVE IInv
  OBVIOUS
<1> USE ClientAssumption
<1>1. TypeOK
  <2>1. columns \in Call
    BY DEF Init, Call, Method
  <2>2. DOMAIN infos = {}
    BY DEF Init, NoInfos
  <2>3. request \in 0..MaxRequests /\ attempt \in 1..2 /\ faults \in 0..2
    BY DEF Init
  <2>4. unanswered \in Seq(Call) /\ replies \in Seq(Reply)
    BY EmptyWireType DEF Init
  <2> QED
    BY <2>1, <2>2, <2>3, <2>4 DEF Init, TypeOK, Method
<1>2. Counts /\ Binding /\ Wire /\ ColumnsKept
  BY DEF Init, Counts, Binding, Wire, EmptyWire, ColumnsKept, Calling
<1>3. InfosAreOfTheTable /\ Progress
  BY DEF Init, InfosAreOfTheTable, Progress, NoInfos, Calling
<1> QED
  BY <1>1, <1>2, <1>3 DEF IInv

(* A call that fails leaves the rest of the invariant as it was.           *)
LEMMA ExceptKeeps ==
  ASSUME IInv, pc \in {"send", "receive"}, Except, UNCHANGED <<up, alive>>,
         unanswered' \in Seq(Call), replies' \in Seq(Reply)
  PROVE  IInv'
<1> USE ClientAssumption
<1> USE DEF Except, client, query, call, answers
<1>1. TypeOK'
  BY DEF IInv, TypeOK, Counts
<1>2. Counts' /\ Binding' /\ Wire'
  BY DEF IInv, TypeOK, Counts, Binding, Wire
<1>3. ColumnsKept' /\ InfosAreOfTheTable' /\ Progress'
  BY DEF IInv, TypeOK, Counts, ColumnsKept, InfosAreOfTheTable, Progress, Calling
<1> QED
  BY <1>1, <1>2, <1>3 DEF IInv

(* Every step of the service, of the client and of the handler keeps it.   *)
LEMMA NextIInv == IInv /\ [Next]_vars => IInv'
<1> SUFFICES ASSUME IInv, [Next]_vars PROVE IInv'
  OBVIOUS
<1> USE ClientAssumption
<1> USE DEF server, client, call, history, query, answers
<1>1. CASE ConnectionLost
  <2>1. TypeOK'
    <3>1. up' \in BOOLEAN /\ alive' \in BOOLEAN
      BY <1>1 DEF ConnectionLost
    <3>2. unanswered' \in Seq(Call) /\ replies' \in Seq(Reply)
      BY <1>1, EmptyWireType DEF ConnectionLost, IInv, TypeOK
    <3> QED BY <1>1, <3>1, <3>2 DEF ConnectionLost, IInv, TypeOK
  <2>2. Counts' /\ Binding' /\ ColumnsKept' /\ InfosAreOfTheTable' /\ Progress'
    BY <1>1 DEF ConnectionLost, IInv, Counts, Binding, ColumnsKept, InfosAreOfTheTable, Progress
  <2>3. Wire'
    BY <1>1 DEF ConnectionLost, IInv, Wire, EmptyWire, CurrentCall
  <2> QED
    BY <2>1, <2>2, <2>3 DEF IInv
<1>2. CASE ServerStarts
  BY <1>2 DEF ServerStarts, IInv, TypeOK, Counts, Binding, Wire, EmptyWire, CurrentCall,
     ColumnsKept, InfosAreOfTheTable, Progress
<1>3. CASE ServerReplies
  <2>1. PICK error \in BOOLEAN :
          replies' = Append(replies, [call |-> Head(unanswered), error |-> error])
    BY <1>3 DEF ServerReplies
  <2>2. Head(unanswered) \in Call /\ Tail(unanswered) \in Seq(Call)
    BY <1>3 DEF ServerReplies, IInv, TypeOK
  <2>3. replies' \in Seq(Reply)
    BY <2>1, <2>2 DEF IInv, TypeOK, Reply
  <2>4. TypeOK'
    BY <1>3, <2>2, <2>3 DEF ServerReplies, IInv, TypeOK
  <2>5. Counts' /\ Binding' /\ ColumnsKept' /\ InfosAreOfTheTable' /\ Progress'
    BY <1>3 DEF ServerReplies, IInv, Counts, Binding, ColumnsKept, InfosAreOfTheTable, Progress
  <2>6. Wire'
    <3>1. pc \notin {"idle", "next", "ensure", "send", "judge"}
      BY <1>3 DEF ServerReplies, IInv, Wire, EmptyWire
    <3>2. ASSUME pc = "receive"
          PROVE  unanswered' = <<>> /\ replies' = <<[call |-> CurrentCall, error |-> error]>>
      <4>1. unanswered = <<CurrentCall>> /\ replies = <<>>
        BY <1>3, <3>2 DEF ServerReplies, IInv, Wire, EmptyWire
      <4> QED
        BY <1>3, <2>1, <4>1 DEF ServerReplies
    <3>3. pc' = pc /\ CurrentCall' = CurrentCall
      BY <1>3 DEF ServerReplies, CurrentCall
    <3> QED
      BY <3>1, <3>2, <3>3 DEF Wire
  <2> QED
    BY <2>4, <2>5, <2>6 DEF IInv
<1>4. CASE EnsureOpen
  BY <1>4 DEF EnsureOpen, IInv, TypeOK, Counts, Binding, Wire, EmptyWire, CurrentCall,
     ColumnsKept, Calling, InfosAreOfTheTable, Progress
<1>5. CASE EnsureConnect
  <2>1. TypeOK'
    BY <1>5, EmptyWireType DEF EnsureConnect, Connected, Refused, NoConnection, IInv, TypeOK
  <2>2. Counts' /\ Wire'
    BY <1>5 DEF EnsureConnect, Connected, Refused, NoConnection, IInv, TypeOK, Counts,
       Wire, EmptyWire
  <2>3. Binding'
    <3>1. verdict' = "asked" /\ pc' # "judge"
      BY <1>5 DEF EnsureConnect, IInv, Progress
    <3> QED
      BY <1>5, <3>1 DEF EnsureConnect, Connected, Refused, NoConnection, IInv, TypeOK, Binding
  <2>4. ColumnsKept' /\ InfosAreOfTheTable' /\ Progress'
    BY <1>5 DEF EnsureConnect, Connected, Refused, NoConnection, IInv, ColumnsKept, Calling,
       InfosAreOfTheTable, Progress
  <2> QED
    BY <2>1, <2>2, <2>3, <2>4 DEF IInv
<1>6. CASE Send
  <2>1. CurrentCall \in Call
    BY DEF IInv, TypeOK, CurrentCall, Call
  <2>2. TypeOK'
    BY <1>6, <2>1 DEF Send, IInv, TypeOK
  <2>3. Counts' /\ Binding' /\ ColumnsKept' /\ InfosAreOfTheTable' /\ Progress'
    BY <1>6 DEF Send, IInv, Counts, Binding, ColumnsKept, Calling, InfosAreOfTheTable, Progress
  <2>4. Wire'
    BY <1>6 DEF Send, IInv, Wire, EmptyWire, CurrentCall
  <2> QED
    BY <2>2, <2>3, <2>4 DEF IInv
<1>7. CASE CallFails
  <2>1. unanswered \in Seq(Call) /\ replies \in Seq(Reply)
    BY DEF IInv, TypeOK
  <2> QED
    BY <1>7, <2>1, ExceptKeeps DEF CallFails
<1>8. CASE Reconnect
  <2>1. TypeOK'
    <3>1. CASE Connected
      BY <1>8, <3>1, EmptyWireType DEF Reconnect, Connected, IInv, TypeOK
    <3>2. CASE Refused("None")
      <4>1. socket' = "unopened" /\ storage' = "None" /\ refused' = TRUE /\ alive' = FALSE
        BY <3>2 DEF Refused, NoConnection
      <4>2. unanswered' \in Seq(Call) /\ replies' \in Seq(Reply)
        BY <3>2, EmptyWireType DEF Refused, NoConnection
      <4>3. attempt' \in 1..2 /\ pc' \in {"send", "close"}
        BY <1>8 DEF Reconnect
      <4> QED
        BY <1>8, <4>1, <4>2, <4>3 DEF Reconnect, IInv, TypeOK
    <3> QED
      BY <1>8, <3>1, <3>2 DEF Reconnect
  <2>2. Counts' /\ Binding' /\ Wire'
    BY <1>8 DEF Reconnect, Connected, Refused, NoConnection, IInv, TypeOK, Counts, Binding, Wire,
       EmptyWire
  <2>3. ColumnsKept' /\ InfosAreOfTheTable' /\ Progress'
    BY <1>8 DEF Reconnect, Connected, Refused, NoConnection, IInv, ColumnsKept, Calling,
       InfosAreOfTheTable, Progress
  <2> QED
    BY <2>1, <2>2, <2>3 DEF IInv
<1>9. CASE ReplyIsError
  <2>1. unanswered \in Seq(Call) /\ Tail(replies) \in Seq(Reply)
    BY <1>9 DEF ReplyIsError, IInv, TypeOK
  <2> QED
    BY <1>9, <2>1, ExceptKeeps DEF ReplyIsError
<1>10. ASSUME pc = "receive", replies # <<>>
       PROVE  Head(replies).call = CurrentCall /\ Tail(replies) = <<>> /\ unanswered = <<>>
  <2>1. PICK error \in BOOLEAN :
          unanswered = <<>> /\ replies = <<[call |-> CurrentCall, error |-> error]>>
    BY <1>10 DEF IInv, Wire, EmptyWire
  <2> QED
    BY <2>1
<1>11. CurrentCall \in Call
  BY DEF IInv, TypeOK, CurrentCall, Call
<1>12. CASE Columns
  <2>1. columns' = CurrentCall /\ replies' = <<>> /\ unanswered' = <<>>
    BY <1>12, <1>10 DEF Columns
  <2>2. TypeOK'
    BY <1>12, <2>1, <1>11, EmptyWireType DEF Columns, IInv, TypeOK, Method
  <2>3. Counts' /\ Binding' /\ Wire'
    BY <1>12, <2>1 DEF Columns, IInv, Counts, Binding, Wire, EmptyWire
  <2>4. ColumnsKept' /\ InfosAreOfTheTable' /\ Progress'
    BY <1>12, <2>1 DEF Columns, IInv, ColumnsKept, Calling, InfosAreOfTheTable, Progress,
       CurrentCall
  <2> QED
    BY <2>2, <2>3, <2>4 DEF IInv
<1>13. CASE Partitions
  <2> DEFINE info == [columns |-> columns, partitions |-> CurrentCall]
  <2>1. infos' = [t \in DOMAIN infos \union {table} |-> IF t = table THEN info ELSE infos[t]]
    BY <1>13, <1>10 DEF Partitions
  <2>2. /\ DOMAIN infos' = DOMAIN infos \union {table}
        /\ \A t \in DOMAIN infos' : infos'[t] = IF t = table THEN info ELSE infos[t]
    BY <2>1
  <2>3. info \in [columns : Call, partitions : Call]
    BY <1>11 DEF IInv, TypeOK
  <2>4. replies' = <<>> /\ unanswered' = <<>>
    BY <1>13, <1>10 DEF Partitions
  <2>5. TypeOK'
    <3>1. /\ DOMAIN infos' \subseteq Table
          /\ \A t \in DOMAIN infos' : infos'[t] \in [columns : Call, partitions : Call]
      BY <2>2, <2>3 DEF IInv, TypeOK
    <3>2. /\ unanswered' \in Seq(Call) /\ replies' \in Seq(Reply)
          /\ pc' = "next"
          /\ UNCHANGED <<up, alive, client, query, call, history, columns, verdict>>
      BY <1>13, <2>4, EmptyWireType DEF Partitions
    <3> QED
      BY <3>1, <3>2 DEF IInv, TypeOK, client, query, call, history
  <2>6. Counts' /\ Binding' /\ Wire' /\ ColumnsKept'
    BY <1>13, <2>4 DEF Partitions, IInv, Counts, Binding, Wire, EmptyWire, ColumnsKept, Calling
  <2>7. InfosAreOfTheTable'
    <3>1. /\ info.columns = [request |-> request, table |-> table, method |-> "getColumns"]
          /\ info.partitions = [request |-> request, table |-> table, method |-> "getTablePartitions"]
      BY <1>13 DEF Partitions, IInv, ColumnsKept, Calling, CurrentCall
    <3>2. request' = request
      BY <1>13 DEF Partitions
    <3> QED
      BY <2>2, <3>1, <3>2 DEF IInv, InfosAreOfTheTable
  <2>8. Progress'
    BY <1>13, <2>2 DEF Partitions, IInv, TypeOK, Progress, Calling
  <2> QED
    BY <2>5, <2>6, <2>7, <2>8 DEF IInv
<1>14. CASE NextTable
  <2>1. TypeOK'
    BY <1>14 DEF NextTable, IInv, TypeOK, Method
  <2>2. Counts' /\ Binding' /\ Wire'
    BY <1>14 DEF NextTable, IInv, Counts, Binding, Wire, EmptyWire
  <2>3. ColumnsKept' /\ InfosAreOfTheTable' /\ Progress'
    BY <1>14 DEF NextTable, IInv, TypeOK, ColumnsKept, Calling, InfosAreOfTheTable, Progress
  <2> QED
    BY <2>1, <2>2, <2>3 DEF IInv
<1>15. CASE LastTable
  BY <1>15 DEF LastTable, IInv, TypeOK, Counts, Binding, Wire, ColumnsKept, Calling,
     InfosAreOfTheTable, Progress
<1>16. CASE Finally
  <2>1. TypeOK'
    BY <1>16, EmptyWireType DEF Finally, Close, NoConnection, IInv, TypeOK
  <2>2. Counts' /\ Binding' /\ Wire' /\ ColumnsKept' /\ InfosAreOfTheTable' /\ Progress'
    BY <1>16 DEF Finally, Close, NoConnection, IInv, Counts, Binding, Wire, EmptyWire,
       ColumnsKept, Calling, InfosAreOfTheTable, Progress
  <2> QED
    BY <2>1, <2>2 DEF IInv
<1>17. CASE Judge
  BY <1>17 DEF Judge, IInv, TypeOK, Counts, Binding, Wire, EmptyWire, ColumnsKept, Calling,
     InfosAreOfTheTable, Progress
<1>18. CASE Ask
  <2>1. DOMAIN infos' = {}
    BY <1>18 DEF Ask, NoInfos
  <2>2. TypeOK'
    <3>1. request' \in 0..MaxRequests
      BY <1>18 DEF Ask, IInv, TypeOK
    <3>2. tables' \subseteq Table /\ unlimited' \subseteq tables' /\ todo' \subseteq tables'
      BY <1>18 DEF Ask
    <3> QED
      BY <1>18, <2>1, <3>1, <3>2 DEF Ask, IInv, TypeOK
  <2>3. Counts' /\ Binding' /\ Wire' /\ ColumnsKept'
    BY <1>18 DEF Ask, IInv, TypeOK, Counts, Binding, Wire, EmptyWire, ColumnsKept, Calling
  <2>4. InfosAreOfTheTable' /\ Progress'
    BY <1>18, <2>1 DEF Ask, IInv, TypeOK, InfosAreOfTheTable, Progress, Calling
  <2> QED
    BY <2>2, <2>3, <2>4 DEF IInv
<1>19. CASE Fail
  <2>1. DOMAIN infos' = {}
    BY <1>19 DEF Fail, NoInfos
  <2>2. TypeOK'
    <3>1. request' \in 0..MaxRequests
      BY <1>19 DEF Fail, IInv, TypeOK
    <3> QED
      BY <1>19, <2>1, <3>1 DEF Fail, IInv, TypeOK
  <2>3. Counts' /\ Binding' /\ Wire' /\ ColumnsKept'
    BY <1>19 DEF Fail, IInv, TypeOK, Counts, Binding, Wire, EmptyWire, ColumnsKept, Calling
  <2>4. InfosAreOfTheTable' /\ Progress'
    BY <1>19, <2>1 DEF Fail, IInv, TypeOK, InfosAreOfTheTable, Progress, Calling
  <2> QED
    BY <2>2, <2>3, <2>4 DEF IInv
<1>20. CASE UNCHANGED vars
  BY <1>20 DEF vars, IInv, TypeOK, Counts, Binding, Wire, EmptyWire, CurrentCall, ColumnsKept,
     InfosAreOfTheTable, Progress
<1> QED
  BY <1>1, <1>2, <1>3, <1>4, <1>5, <1>6, <1>7, <1>8, <1>9, <1>12, <1>13, <1>14, <1>15, <1>16,
     <1>17, <1>18, <1>19, <1>20 DEF Next, Environment, Client

(* The invariant holds in every state.                                     *)
THEOREM Invariance == Spec => []IInv
<1> QED
  BY InitIInv, NextIInv, PTL DEF Spec

-----------------------------------------------------------------------------
(* The client's variables keep their types (guardrail/main.py).            *)
THEOREM TypeCorrect == Spec => []TypeOK
<1>1. IInv => TypeOK
  BY DEF IInv
<1> QED
  BY <1>1, Invariance, PTL

(* A call is always made through the client's open connection              *)
(* (ensure_connection and reconnect).                                      *)
THEOREM CallsReachTheConnection == Spec => []CallsOnOpenConnection
<1>1. IInv => CallsOnOpenConnection
  BY DEF IInv, Binding, CallsOnOpenConnection
<1> QED
  BY <1>1, Invariance, PTL

(* Whatever is late, lost or repeated, get_table_infos stores for a table  *)
(* the replies to the calls of this request for this table.                *)
THEOREM InfosAreTrue == Spec => []InfosAreOfTheTable
<1>1. IInv => InfosAreOfTheTable
  BY DEF IInv
<1> QED
  BY <1>1, Invariance, PTL

(* The second attempt of a call masks its first failure.                   *)
THEOREM FailuresMasked == Spec => []OneFailureIsMasked
<1>1. IInv => OneFailureIsMasked
  BY DEF IInv, Progress, OneFailureIsMasked
<1> QED
  BY <1>1, Invariance, PTL

(* A request leaves no connection and no reply to the next one.            *)
THEOREM RequestsApart == Spec => []NothingLeftOver
<1>1. IInv => NothingLeftOver
  BY DEF IInv, Binding, Wire, EmptyWire, NothingLeftOver
<1> QED
  BY <1>1, Invariance, PTL

-----------------------------------------------------------------------------
(* The handler's answer follows from what the service said of each table.  *)
LEMMA JudgeIsAnswer == IInv /\ Judge => Decision!Answer
<1> SUFFICES ASSUME IInv, Judge PROVE Decision!Answer
  OBVIOUS
<1>1. Violations = {} <=>
        DOMAIN infos = tables /\ tables \intersect (Wide \union Loose) = {} /\ unlimited = {}
  <2>1. \A t \in DOMAIN infos : infos[t].columns.table = t /\ infos[t].partitions.table = t
    <3> SUFFICES ASSUME NEW t \in DOMAIN infos
                 PROVE  infos[t].columns.table = t /\ infos[t].partitions.table = t
      OBVIOUS
    <3>1. /\ infos[t].columns = [request |-> request, table |-> t, method |-> "getColumns"]
          /\ infos[t].partitions = [request |-> request, table |-> t, method |-> "getTablePartitions"]
      BY DEF IInv, InfosAreOfTheTable
    <3> QED
      BY <3>1
  <2>2. DOMAIN infos \subseteq tables
    BY DEF IInv, Progress
  <2>3. unlimited \subseteq tables
    BY DEF IInv, TypeOK
  <2>4. Violations = (tables \ DOMAIN infos) \union unlimited \union
                     {t \in DOMAIN infos : t \in Wide \union Loose}
    BY <2>1, <2>2, <2>3 DEF Violations
  <2> QED
    BY <2>2, <2>4
<1>2. verdict = "asked"
  BY DEF Judge, IInv, Progress
<1> QED
  BY <1>1, <1>2 DEF Judge, Decision!Answer, Decision!Allowed, server, client, query, call, history

(* The guardrail implements GuardDecision: an answer for every table, from *)
(* this request, or no permission (gaurd, get_table_infos,                 *)
(* validate_queries).                                                      *)
THEOREM Refinement == Spec => ImplementsDecision
<1>1. Init => Decision!Init
  BY DEF Init, Decision!Init, NoInfos
<1>2. IInv /\ [Next]_vars => [Decision!Next]_Decision!vars
  <2> SUFFICES ASSUME IInv, [Next]_vars PROVE [Decision!Next]_Decision!vars
    OBVIOUS
  <2> USE DEF server, client, call, history, query, answers
  <2>1. CASE Ask
    <3>1. DOMAIN infos' = {}
      BY <2>1 DEF Ask, NoInfos
    <3>2. verdict # "asked"
      BY <2>1 DEF Ask, IInv, Progress
    <3> QED
      BY <2>1, <3>1, <3>2 DEF Ask, Decision!Next, Decision!Ask
  <2>2. CASE Partitions
    <3>1. DOMAIN infos' = DOMAIN infos \union {table}
      BY <2>2 DEF Partitions
    <3>2. table \in tables \ DOMAIN infos /\ verdict = "asked"
      BY <2>2 DEF Partitions, IInv, Progress, Calling
    <3> QED
      BY <2>2, <3>1, <3>2 DEF Partitions, Decision!Next, Decision!Learn
  <2>3. CASE Judge
    BY <2>3, JudgeIsAnswer DEF Decision!Next
  <2>4. CASE Environment
    BY <2>4 DEF Environment, ConnectionLost, ServerStarts, ServerReplies, Decision!vars
  <2>5. CASE EnsureOpen \/ EnsureConnect \/ Send \/ CallFails \/ Reconnect \/ ReplyIsError
    BY <2>5 DEF EnsureOpen, EnsureConnect, Send, CallFails, Reconnect, ReplyIsError, Except,
       Decision!vars
  <2>6. CASE Columns \/ NextTable \/ LastTable \/ Finally
    BY <2>6 DEF Columns, NextTable, LastTable, Finally, Decision!vars
  <2>7. CASE Fail
    <3>1. DOMAIN infos' = {}
      BY <2>7 DEF Fail, NoInfos
    <3>2. verdict # "asked"
      BY <2>7 DEF Fail, IInv, Progress
    <3> QED
      BY <2>7, <3>1, <3>2 DEF Fail, Decision!Next, Decision!Fail
  <2>8. CASE UNCHANGED vars
    BY <2>8 DEF vars, Decision!vars
  <2> QED
    BY <2>1, <2>2, <2>3, <2>4, <2>5, <2>6, <2>7, <2>8 DEF Next, Client
<1> QED
  BY <1>1, <1>2, Invariance, PTL DEF Spec, ImplementsDecision, Decision!Spec
=============================================================================
