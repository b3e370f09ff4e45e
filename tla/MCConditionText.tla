--------------------------- MODULE MCConditionText ---------------------------
(***************************************************************************)
(* All texts of up to four tokens of a small alphabet, right or wrong, and *)
(* those of one with ISNULL; the texts of three operands, each with NOT,   *)
(* minus or plus before it or nothing, every pair of operators between     *)
(* them, and a parenthesis around two or none; the texts of four operands  *)
(* with three operators.                                                   *)
(***************************************************************************)
EXTENDS ConditionText

Words == {"1", "IS", "NOT", "(", ")", ",", "IN", "BETWEEN", "AND", "=", "-"}

AnyTexts == UNION {[1..n -> Words] : n \in 0..4}

(* ISNULL is no function here: no parenthesis comes after it. *)
IsNullTexts ==
  {s \in UNION {[1..n -> (Words \ {",", "BETWEEN"}) \union {"ISNULL"}] : n \in 1..4} :
     /\ \E i \in 1..Len(s) : s[i] = "ISNULL"
     /\ \A i \in 2..Len(s) : s[i - 1] = "ISNULL" => s[i] # "("}

Between2 == {<<"OR">>, <<"AND">>, <<"=">>, <<"<">>, <<"&">>, <<"-">>, <<"*">>, <<"IN">>, <<"NOT", "IN">>,
             <<"IS">>, <<"IS", "NOT">>, <<"NOTNULL", "=">>, <<"ISNULL", "=">>,
             <<"BETWEEN", "4", "AND">>, <<"NOT", "BETWEEN", "4", "AND">>}

Signs == {<<>>, <<"NOT">>, <<"-">>, <<"+">>}

(* n operands, op[i] between the i-th and the next, sign[i] before the      *)
(* i-th, a parenthesis from operand p[1] to operand p[2]                    *)
Operand(n, sign, p) ==
  (IF p[1] = n THEN <<"(">> ELSE <<>>) \o sign \o <<ToString(n)>> \o (IF p[2] = n THEN <<")">> ELSE <<>>)

Places == {<<0, 0>>, <<1, 2>>, <<2, 3>>, <<2, 2>>, <<3, 3>>}

ThreeOperands ==
  {Operand(1, s1, p) \o o1 \o Operand(2, s2, p) \o o2 \o Operand(3, s3, p) :
     s1 \in Signs, s2 \in Signs, s3 \in {<<>>, <<"-">>}, o1 \in Between2, o2 \in Between2, p \in Places}

FourOperands ==
  {Operand(1, <<>>, p) \o o1 \o Operand(2, <<>>, p) \o o2 \o Operand(3, <<>>, p) \o o3 \o <<"4">> :
     o1 \in Between2, o2 \in Between2, o3 \in Between2, p \in Places}

Lists == {<<"1", "IN">> \o l \o o : l \in {<<"(", "2", ",", "3", ")">>, <<"(", "2", ",", ")">>, <<"(", ")">>,
                                         <<"(", "2", "OR", "3", ")">>, <<"(", "(", "2", ",", "3", ")", ")">>},
                                  o \in {<<>>, <<"IS", "4">>, <<"=", "4">>, <<"NOT">>}}

Named == {<<"(", "1">> \o o \o <<")">> : o \in {<<"(", "IS", ")">>, <<"(", "IS", ",", "IS", ")">>, <<"(", ")">>,
                                              <<"IN", "(", ")", "IS">>, <<"NOT", "IS">>, <<"IS", "2", "IS">>}}

MCTexts == AnyTexts \union IsNullTexts \union ThreeOperands \union FourOperands \union Lists \union Named

(* One condition of each kind *)
MCBases == {<<"1", "OR", "2">>, <<"1", "AND", "2">>, <<"1", "=", "2">>, <<"1", "<", "2">>, <<"1", "-", "2">>,
            <<"1", "*", "2">>, <<"1", "IS", "2">>, <<"1", "IS", "NOT", "2">>, <<"1", "IN", "2">>,
            <<"1", "NOT", "IN", "2">>, <<"NOT", "1", "=", "2">>, <<"-", "1">>, <<"(", "1", ")">>, <<"1">>,
            <<"NOT", "1">>, <<"-", "NOT", "1">>}

BaseTexts == MCBases \intersect MCTexts

MCOperands == {<<"3">>, <<"3", "OR", "4">>, <<"3", "AND", "4">>, <<"3", "=", "4">>, <<"3", "-", "4">>,
               <<"3", "*", "4">>, <<"NOT", "3">>, <<"3", "IN", "4">>, <<"3", "BETWEEN", "4", "AND", "4">>, <<"-", "3">>}

MCClasses == {"AND", "OR", "=", "<", "IS", "-", "*"}

AllTexts == MCTexts \union MCBases
=============================================================================
