---------------------------- MODULE MCTokenizer ----------------------------
(***************************************************************************)
(* A small dialect, and texts put together of the pieces that meet in one  *)
(* hazard: comments and lines, commands, strings and their escapes,        *)
(* heredocs, keywords of several words, numbers and what may follow them.  *)
(***************************************************************************)
EXTENDS Tokenizer, TLC

C(string) == <<string>>

Show == <<"S", "H">>
Begin == <<"B", "G">>
Group == <<"G", "P">>
By == <<"B", "Y">>
LineComment == <<"-", "-">>
Open == <<"/", "*">>
Close == <<"*", "/">>
Hint == <<"/", "*", "+">>
Select == <<"S", "L">>

MCLetters == {"A", "B", "E", "G", "H", "L", "P", "R", "S", "X", "Y"}

MCSingles ==
  "-" :> "DASH" @@ "/" :> "SLASH" @@ "*" :> "STAR" @@ "+" :> "PLUS" @@ ";" :> "SEMICOLON" @@ ")" :> "R_PAREN"
  @@ "@" :> "PARAMETER" @@ "\\" :> "BACKSLASH" @@ "." :> "DOT" @@ "'" :> "UNKNOWN" @@ "\"" :> "UNKNOWN" @@ "$" :> "HEREDOC_STRING"

MCKeywords ==
  Show :> "SHOW" @@ Begin :> "BEGIN" @@ Select :> "SELECT" @@ Hint :> "HINT"
  @@ (Group \o <<" ">> \o By) :> "GROUP_BY" @@ <<"-", "*">> :> "ARROW" @@ <<"-", "*", "*">> :> "LONG_ARROW"

MCComments == LineComment :> <<>> @@ Open :> Close @@ Hint :> Close

HexDigits == {"0", "1", "A", "B", "E"}

Plain(close, type, digits) == [close |-> close, type |-> type, digits |-> digits]

MCStrings ==
  C("'") :> Plain(C("'"), "STRING", {}) @@ <<"R", "'">> :> Plain(C("'"), "RAW_STRING", {})
  @@ <<"X", "'">> :> Plain(C("'"), "HEX_STRING", HexDigits)

MCIdentifierQuotes == {"\""}

MCEscapes == {"'", "\\"}

MCUnescaped == {<<"\\", "A">>}

MCSuffixes == <<"L">> :> "BIGINT"

MCRadixes == "X" :> [digits |-> HexDigits, type |-> "HEX_STRING"]

(* Up to n of the pieces.                                                  *)
Of(pieces, n) ==
  LET of[k \in 0..n] == IF k = 0 THEN {<<>>} ELSE of[k - 1] \union {s \o p : s \in of[k - 1], p \in pieces}
  IN of[n]

In(texts, settings) == [sql : texts, flags : settings]

Nested == {"NESTED_COMMENTS"}
RawEscapes == {"STRING_ESCAPES_ALLOWED_IN_RAW_STRINGS"}
Tagged == RawEscapes \union {"HEREDOC_TAG_IS_IDENTIFIER"}
Underscored == {"NUMBERS_CAN_BE_UNDERSCORE_SEPARATED"}
DigitNames == {"IDENTIFIERS_CAN_START_WITH_DIGIT"}

MCCases ==
  In(Of({C("A"), C("\n"), LineComment, Open, Close, C(";")}, 4), {Nested})
  \union In(Of({C("A"), Open, Close}, 6), {Nested, {}})
  \union In(Of({Show, C("\n"), Open \o Close, C(";")}, 5), {{}})
  \union In(Of({Show, Begin, C(" "), LineComment, C(";")}, 4), {{}})
  \union In(Of({C("'"), C("A"), C("\""), C("\n"), C("\\")}, 5), {{}})
  \union In(Of({C("'"), C("0"), C("X"), C("R"), C("\\")}, 5), {RawEscapes, {}})
  \union In(Of({C("$"), C("A"), C("1"), C("\n")}, 5), {Tagged, RawEscapes})
  \union In(Of({C("$"), C("A"), C("\\"), C("'")}, 5), {Tagged, RawEscapes})
  \union In(Of({Group, By, C(" "), C("\n"), C(")")}, 4), {{}})
  \union In(Of({Show, Group, By, C(" "), C("\n")}, 4), {{}})
  \union In(Of({C("A"), C("\n"), C("\r"), C("'")}, 5), {{}})
  \union In(Of({Show, C("\r"), C("\n"), C("A"), C(";")}, 4), {{}})
  \union In(Of({Select, Hint, Close, C("\n")}, 5), {{}})
  \union In(Of({C("-"), C("*"), C("A")}, 5), {{}})
  \union In(Of({C("1"), C("."), C("E"), C("-"), C("@")}, 5), {{}})
  \union In(Of({C("1"), C("_"), C("A"), C("L")}, 4), {Underscored, DigitNames, {}})
  \union In(Of({C("1"), C("L"), C("\n"), Open \o Close}, 4), {{}})
  \union In(Of({C("0"), C("X"), C("L"), C("B"), C(" ")}, 4), {{}})
=============================================================================
