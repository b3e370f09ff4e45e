------------------------- MODULE MCDialectRegistry -------------------------
(***************************************************************************)
(* Four of the dialects: athena imports hive and trino as attributes of    *)
(* the package, trino imports hive (through presto, left out) by the name  *)
(* of its module, e6 imports none.  Two threads call in all orders, one of *)
(* them twice.                                                             *)
(***************************************************************************)
EXTENDS DialectRegistry

CONSTANTS athena, hive, trino, e6, mine, t1, t2

MCDialects == <<athena, hive, trino, e6>>

MCImports ==
  LET by(m, attribute) == [module |-> m, attribute |-> attribute]
  IN [m \in Module |->
        CASE m = athena -> <<by(hive, TRUE), by(trino, TRUE)>>
          [] m = trino -> <<by(hive, FALSE)>>
          [] OTHER -> <<>>]

Make(kind, name) == [kind |-> kind, name |-> name]

MCCalls ==
  {Make("get", m) : m \in {athena, hive, trino, mine}}
    \union {Make("attribute", m) : m \in {athena, hive, trino}}
    \union {Make("classes", mine), Make("define", mine)}

AllPrograms ==
  {[t \in Thread |-> IF t = t1 THEN first ELSE <<second>>] :
     first \in {<<c>> : c \in MCCalls} \union {<<c, d>> : c, d \in MCCalls}, second \in MCCalls}

(* Whether athena is imported as an attribute, and by the name of its      *)
(* module.                                                                 *)
AsAttribute(calls) == Make("attribute", athena) \in ToSet(calls)
ByName(calls) == {Make("get", athena), Make("classes", mine)} \intersect ToSet(calls) # {}

(* The programs that finish: no thread imports athena as an attribute      *)
(* while another one may be importing it by name.                          *)
SafePrograms ==
  {p \in AllPrograms : \A t, u \in Thread : t # u => ~(AsAttribute(p[t]) /\ ByName(p[u]))}

RacePrograms == AllPrograms \ SafePrograms
=============================================================================
