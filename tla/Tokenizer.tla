----------------------------- MODULE Tokenizer -----------------------------
(***************************************************************************)
(* The tokenizer in Python: one turn of _scan per step, with everything    *)
(* the turn scans; the scan that a command starts within _add is a frame   *)
(* on a stack.                                                             *)
(*                                                                         *)
(* Characters are strings of length one, letters have one case.  current   *)
(* counts the characters read, so _char is sql[current] and _peek the one  *)
(* after it.  A text is the interval of the source it is read from: what   *)
(* escapes become is left out.  A current beyond the size stands for the   *)
(* IndexError of _advance, which tokenize turns into a TokenError.         *)
(*                                                                         *)
(* sqlglot/tokens.py: Tokenizer.                                           *)
(***************************************************************************)
EXTENDS Naturals, Integers, Sequences, FiniteSets, SequencesExt

CONSTANTS
  Cases,         \* the texts, sequences of characters, with the flags of their dialect
  Letters, Digits,
  Singles,       \* SINGLE_TOKENS: from characters to token types
  VarSingles,    \* VAR_SINGLE_TOKENS
  Keywords,      \* KEYWORDS: from sequences of characters to token types
  Strings,       \* _QUOTES and _FORMAT_STRINGS: from what opens a string to what closes it,
                 \* its type and the digits it is made of, {} for any character
  IdentifierQuotes,  \* _IDENTIFIERS, opened and closed by the same character
  Heredoc,       \* the delimiter of HEREDOC_STRINGS
  Escapes,       \* STRING_ESCAPES
  UnescapedSequences,  \* UNESCAPED_SEQUENCES, pairs of characters
  Comments,      \* _COMMENTS: from the opening to the closing, <<>> for the end of the line
  HintStart,     \* HINT_START
  HintAfter,     \* TOKENS_PRECEDING_HINT
  Commands,      \* COMMANDS
  CommandPrefixes,   \* COMMAND_PREFIX_TOKENS
  NumericSuffixes,   \* NUMERIC_LITERALS: from letters to token types
  Radixes        \* by letter, the digits and the type of BIT_STRINGS and HEX_STRINGS

(* No character is the empty string.                                       *)
ASSUME TextAssumption ==
  \A case \in Cases : case.sql \in Seq(STRING) /\ "" \notin ToSet(case.sql)

(* Words are sequences of characters.                                      *)
ASSUME WordsAssumption ==
  /\ \A word \in DOMAIN Keywords : word \in Seq(STRING) \ {<<>>}
  /\ \A open \in DOMAIN Strings : open \in Seq(STRING) /\ Strings[open].close \in Seq(STRING) \ {<<>>}
  /\ \A open \in DOMAIN Comments : open \in Seq(STRING) \ {<<>>} /\ Comments[open] \in Seq(STRING)

(* A command is a keyword.                                                 *)
ASSUME CommandsAssumption == Commands \intersect {"NUMBER", "DCOLON", "STRING", "HINT"} = {}

(* No delimiter is made of white space.                                    *)
ASSUME DelimitersAssumption ==
  /\ \A open \in DOMAIN Strings : " " \notin ToSet(open) /\ {"\n", "\r"} \intersect ToSet(Strings[open].close) = {}
  /\ \A open \in DOMAIN Comments : " " \notin ToSet(open) /\ {"\n", "\r"} \intersect ToSet(Comments[open]) = {}

(* White space is neither a letter nor a digit.                            *)
ASSUME AlnumAssumption == {" ", "\t", "\n", "\r"} \intersect (Letters \union Digits) = {}

VARIABLES
  sql,    \* the text
  flags,  \* those of NESTED_COMMENTS and the like that the dialect sets
  self    \* the fields of the tokenizer

vars == <<sql, flags, self>>

Blanks == {" ", "\t"}
Breaks == {"\n", "\r"}
Spaces == Blanks \union Breaks
Alnum == Letters \union Digits

Size == Len(sql)

At(p) == IF p \in 1..Size THEN sql[p] ELSE ""

(* _chars: characters from p on, none if there are too few.                *)
Chars(p, n) == IF p + n - 1 <= Size THEN SubSeq(sql, p, p + n - 1) ELSE <<>>

First(positions, otherwise) == IF positions = {} THEN otherwise ELSE Min(positions)

-----------------------------------------------------------------------------
(* The cursor                                                              *)

(* _advance.  A line break is counted when it is left; of \r\n the second. *)
Advance(t, i) ==
  LET char == At(t.current)
      break == char \in Breaks /\ ~(char = "\r" /\ At(t.current + 1) = "\n")
  IN [t EXCEPT !.current = @ + i,
               !.line = IF break THEN @ + 1 ELSE @,
               !.col = IF break THEN i ELSE IF char \in Breaks THEN @ ELSE @ + i]

(* Mutant: both characters of \r\n count as a line break.                  *)
WalkCountingBoth(t, p) ==
  LET ends == {q \in t.current..(p - 1) : At(q) \in Breaks}
      from == IF ends = {} THEN t.current - t.col ELSE Max(ends)
  IN IF p <= t.current THEN t
     ELSE [t EXCEPT !.current = p, !.line = @ + Cardinality(ends), !.col = p - from]

(* Calls of _advance for one character each, up to p.                      *)
Walk(t, p) ==
  LET ends == {q \in t.current..(p - 1) : At(q) \in Breaks}
      first == {q \in ends : At(q) = "\r" /\ At(q + 1) = "\n"}
      lines == ends \ first
      from == IF lines = {} THEN t.current - t.col ELSE Max(lines)
  IN IF p <= t.current THEN t
     ELSE [t EXCEPT !.current = p,
                    !.line = @ + Cardinality(lines),
                    !.col = (p - from) - Cardinality({q \in first : q > from})]

(* _advance(alnum=True) from p: the end of the letters and digits there.   *)
AfterAlnum(p) ==
  IF At(p + 1) \notin Alnum THEN p + 1
  ELSE First({q \in (p + 1)..Size : At(q + 1) \notin Alnum}, Size)

Ended(t) == t.current >= Size

LastType == IF self.tokens = <<>> THEN "" ELSE Last(self.tokens).type

(* The comments of the last token are extended.                            *)
Extended(tokens, comments) ==
  [tokens EXCEPT ![Len(tokens)].comments = @ \o comments]

(* Mutant: comments before a semicolon go to the semicolon.                *)
AddedKeepingComments(t, type, from, to) ==
  [t EXCEPT !.prev_token_line = t.line,
            !.tokens = Append(@, [type |-> type, line |-> t.line, col |-> t.col, start |-> t.start,
                                  end |-> t.current, from |-> from, to |-> to, comments |-> <<>>])]

(* _add, its command part as a frame for the scan it starts.  from and to  *)
(* bound the text of the token.                                            *)
Added(t, type, from, to) ==
  LET flush == t.comments # <<>> /\ type = "SEMICOLON" /\ t.tokens # <<>>
      before == IF flush THEN Extended(t.tokens, t.comments) ELSE t.tokens
      token == [type |-> type, line |-> t.line, col |-> t.col, start |-> t.start, end |-> t.current,
                from |-> from, to |-> to, comments |-> IF flush THEN <<>> ELSE t.comments]
      command == /\ type \in Commands /\ At(t.current + 1) # ";"
                 /\ before = <<>> \/ Last(before).type \in CommandPrefixes
      frame == [start |-> t.current, tokens |-> Len(before) + 1]
  IN [t EXCEPT !.prev_token_line = t.line, !.tokens = Append(before, token), !.comments = <<>>,
               !.frames = IF command THEN Append(@, frame) ELSE @]

Add(read, type) == \E t \in {read} : self' = Added(t, type, t.start, t.current)

(* A TokenError, or an IndexError that becomes one.                        *)
Raise == self' = [self EXCEPT !.status = "error"]

-----------------------------------------------------------------------------
(* Strings and quoted identifiers                                          *)

(* An escape before the delimiter or before an escape.                     *)
Escaped(q, delimiter, raw, escapes) ==
  /\ raw => "STRING_ESCAPES_ALLOWED_IN_RAW_STRINGS" \in flags
  /\ At(q) \in escapes
  /\ <<At(q + 1)>> = delimiter \/ At(q + 1) \in escapes
  /\ <<At(q)>> \notin DOMAIN Strings \/ At(q) = At(q + 1)

(* The loop of _extract_string, by where it is: where the delimiter ends,   *)
(* Size + 1 if the text ends before it, Size + 2 if it ends on an escape.  *)
StringEnds(delimiter, raw, escapes) ==
  LET Sequence(q) == ~raw /\ At(q) \in Escapes /\ <<At(q), At(q + 1)>> \in UnescapedSequences
      end[q \in 1..Size] ==
        IF Sequence(q) \/ Escaped(q, delimiter, raw, escapes)
        THEN IF q + 1 < Size THEN end[q + 2] ELSE Size + 2
        ELSE IF Chars(q, Len(delimiter)) = delimiter THEN q + Len(delimiter) - 1
        ELSE IF q = Size THEN Size + 1
        ELSE end[AfterAlnum(q)]
  IN end

StringEnd(p, delimiter, raw, escapes) ==
  IF p > Size THEN Size + 1 ELSE StringEnds(delimiter, raw, escapes)[p]

(* The delimiter is passed in one call of _advance.                        *)
ThroughDelimiter(t, end, size) ==
  LET last == Walk(t, end - size + 1) IN IF size > 1 THEN Advance(last, size - 1) ELSE last

(* _scan_string and _scan_identifier from the character they extract a     *)
(* string from, to the token.                                              *)
ExtractString(t, string, raw, escapes) ==
  \E end \in {StringEnd(t.current, string.close, raw, escapes)} :
    LET size == Len(string.close)
        text == SubSeq(sql, t.current, end - size)
        number == string.digits # {} => text # <<>> /\ ToSet(text) \subseteq string.digits
    IN IF end <= Size /\ number
       THEN Add(ThroughDelimiter(t, end, size), string.type)
       ELSE Raise

ScanString(t, open) ==
  \E first \in {Advance(t, Len(open))} :
    ExtractString(first, Strings[open], Strings[open].type = "RAW_STRING", Escapes)

ScanIdentifier(t) ==
  \E first \in {Advance(t, 1)}, char \in {At(t.current)} :
    ExtractString(first, [close |-> <<char>>, type |-> "IDENTIFIER", digits |-> {}], FALSE, {char})

IsIdentifier(tag) == tag # <<>> /\ tag[1] \notin Digits /\ ToSet(tag) \subseteq Alnum \union {"_"}

(* The tag read from p up to end.  An escape before the delimiter is not   *)
(* part of it, so it may be shorter than what was read.  Escapes are       *)
(* neither letters nor digits: one is passed over only as the second of an *)
(* escaped pair.                                                           *)
TagText(p, end) ==
  LET Begins(q) == Escaped(q, <<Heredoc>>, TRUE, Escapes)
      second[q \in p..(end - 1)] == q > p /\ Begins(q - 1) /\ ~second[q - 1]
      kept == {q \in p..(end - 1) : second[q] \/ ~Begins(q) \/ At(q + 1) # Heredoc}
  IN [i \in 1..Cardinality(kept) |-> At(CHOOSE q \in kept : Cardinality({r \in kept : r <= q}) = i)]

(* As many characters as the tag has are given back, and the one the tag   *)
(* was ended by unless it is the last of the text.                         *)
BackToTag(t, end, tag) ==
  LET after == Walk(t, IF end > Size THEN Size ELSE end)
  IN Advance(IF end >= Size THEN after ELSE Advance(after, -1), -Len(tag))

(* _scan_string for a heredoc: its tag is read up to the next delimiter    *)
(* that is not escaped; what is no heredoc gives its tag back.             *)
ScanHeredoc(t) ==
  \E open \in {Advance(t, 1)} : \E end \in {StringEnd(open.current, <<Heredoc>>, TRUE, Escapes)} :
    LET tag == TagText(open.current, end)
        tagged == "HEREDOC_TAG_IS_IDENTIFIER" \in flags
        close == <<Heredoc>> \o tag \o <<Heredoc>>
    IN \/ /\ open.current > Size \/ end > Size + 1 \/ (end > Size /\ ~tagged)
          /\ Raise
       \/ /\ open.current <= Size /\ end <= Size + 1 /\ tagged
          /\ tag # <<>> /\ (end >= Size \/ ~IsIdentifier(tag))
          /\ Add(BackToTag(open, end, tag), "PARAMETER")
       \/ /\ end <= Size
          /\ tagged => tag = <<>> \/ (end < Size /\ IsIdentifier(tag))
          /\ \E first \in {Advance(Walk(open, end), 1)} :
               ExtractString(first, [close |-> close, type |-> "HEREDOC", digits |-> {}], FALSE, Escapes)

-----------------------------------------------------------------------------
(* Comments                                                                *)

(* The loop of _scan_comment, by where it is and how deep: where the       *)
(* comment ends.  A comment opened within is looked for after each step    *)
(* only.                                                                   *)
BlockEnds(open, close) ==
  LET end[place \in (1..(Size + Len(open))) \X Int] ==
        LET next == AfterAlnum(place[1])
            left == IF Chars(place[1], Len(close)) = close THEN place[2] - 1 ELSE place[2]
            nested == "NESTED_COMMENTS" \in flags /\ next < Size /\ Chars(next, Len(close)) = open
        IN IF place[1] >= Size THEN Size + 1
           ELSE IF left = 0 THEN place[1] + Len(close) - 1
           ELSE IF nested THEN end[<<next + Len(open), left + 1>>]
           ELSE end[<<next, left>>]
  IN end

BlockEnd(p, open, close) == BlockEnds(open, close)[<<p, 1>>]

LineEnd(p) == First({q \in p..Size : At(q + 1) \in Breaks}, Size)

(* A comment on the line of the last token belongs to it, as all those     *)
(* read since; others wait for the next token.                             *)
Attached(t, line) ==
  IF line # t.prev_token_line THEN t
  ELSE [t EXCEPT !.tokens = Extended(@, t.comments), !.comments = <<>>, !.prev_token_line = t.line]

(* A comment has been read; a hint is a token too.                         *)
WithComment(t, line, open) ==
  \E read \in {[t EXCEPT !.comments = Append(@, <<t.start, t.current>>),
                         !.scanned = @ \union {<<t.start, t.current>>}]} :
    \E after \in {IF open = HintStart /\ LastType \in HintAfter
                  THEN Added(read, "HINT", read.start, read.current) ELSE read} :
      self' = Attached(after, line)

(* _scan_comment                                                           *)
ScanComment(t, open) ==
  LET close == Comments[open]
  IN \/ /\ close = <<>>
        /\ \E end \in {LineEnd(t.current)} : WithComment(Walk(t, end), t.line, open)
     \/ /\ close # <<>>
        /\ \E first \in {Advance(t, Len(open))} :
             \/ first.current > Size /\ Raise
             \/ /\ first.current <= Size
                /\ \E end \in {BlockEnd(first.current, open, close)} :
                     \/ end > Size /\ Raise
                     \/ /\ end <= Size
                        /\ WithComment(ThroughDelimiter(first, end, Len(close)), t.line, open)

-----------------------------------------------------------------------------
(* Numbers and names                                                       *)

(* What stops _scan_var, _extract_value and the literal after a number.    *)
Stops(char, singles) == char = "" \/ char \in Spaces \/ char \in singles

(* The last character of the run after p.                                  *)
RunEnd(p, singles) == First({q \in p..Size : Stops(At(q + 1), singles)}, p)

(* _scan_bits, _scan_hex: digits of another base, or else an identifier.   *)
ScanRadix(t, radix) ==
  \E end \in {RunEnd(t.current + 1, DOMAIN Singles)} :
    LET value == SubSeq(sql, t.current + 2, end)
        valid == value # <<>> /\ ToSet(value) \subseteq radix.digits
    IN Add(Walk(t, end), IF valid THEN radix.type ELSE "IDENTIFIER")

(* The loop of _scan_number from p: where it stops.                        *)
NumberEnd(p) ==
  LET goesOn(q) ==
        LET peek == At(q + 1)
            read == {At(r) : r \in (p + 1)..q}
        IN \/ peek \in Digits
           \/ peek = "." /\ "." \notin read /\ LastType # "PARAMETER"
           \/ peek \in {"-", "+"} /\ "E" \in read /\ {"-", "+"} \intersect read = {}
           \/ peek = "E" /\ "E" \notin read
  IN First({q \in p..Size : ~goesOn(q)}, Size)

(* Mutant: one character too few is given back.                            *)
GiveBackFewer(t, literal) == Advance(t, 1 - Len(literal))

(* What is not part of the number is given back.                           *)
GiveBack(t, literal) == Advance(t, -Len(literal))

(* A number followed by letters up to q: a suffix stands for a cast;       *)
(* underscores may be part of it; or it starts a name.                     *)
NumberWithLiteral(t, q) ==
  LET literal == SubSeq(sql, t.current + 1, q)
      digits == SelectSeq(literal, LAMBDA c : c # "_")
      suffix == literal \in DOMAIN NumericSuffixes
      underscored == /\ "NUMBERS_CAN_BE_UNDERSCORE_SEPARATED" \in flags
                     /\ digits # <<>> /\ ToSet(digits) \subseteq Digits
      name == "IDENTIFIERS_CAN_START_WITH_DIGIT" \in flags
  IN \E after \in {Walk(t, q)} :
       \/ /\ suffix
          /\ \E number \in {Added(after, "NUMBER", t.start, t.current)} :
               \E cast \in {Added(number, "DCOLON", t.current + 1, t.current)} :
                 self' = Added(cast, NumericSuffixes[literal], t.current + 1, q)
       \/ ~suffix /\ underscored /\ Add(after, "NUMBER")
       \/ ~suffix /\ ~underscored /\ name /\ Add(after, "VAR")
       \/ /\ ~suffix /\ ~underscored /\ ~name
          /\ \E back \in {GiveBack(after, literal)} : self' = Added(back, "NUMBER", t.start, t.current)

(* _scan_number                                                            *)
ScanNumber(t) ==
  \E end \in {NumberEnd(t.current)} :
    LET radix == IF At(t.current) = "0" THEN At(t.current + 1) ELSE ""
        stop == At(end + 1)
        followed == stop \in Letters \union {"_"}
    IN \/ radix \in DOMAIN Radixes /\ ScanRadix(t, Radixes[radix])
       \/ radix \in {"B", "X"} \ DOMAIN Radixes /\ Add(t, "NUMBER")
       \/ radix \notin {"B", "X"} /\ ~followed /\ Add(Walk(t, end), "NUMBER")
       \/ /\ radix \notin {"B", "X"} /\ followed
          /\ \E number \in {Walk(t, end)} : NumberWithLiteral(number, RunEnd(number.current, DOMAIN Singles))

(* _scan_var                                                               *)
ScanVar(t) ==
  \E end \in {RunEnd(t.current, DOMAIN Singles \ VarSingles)} :
    LET word == SubSeq(sql, t.start, end)
    IN Add(Walk(t, end), IF LastType # "PARAMETER" /\ word \in DOMAIN Keywords THEN Keywords[word] ELSE "VAR")

-----------------------------------------------------------------------------
(* Keywords                                                                *)

(* The words _KEYWORD_TRIE is made of.                                     *)
TrieWords ==
  {w \in DOMAIN Keywords \union DOMAIN Comments \union DOMAIN Strings \union {<<Heredoc>>} :
     " " \in ToSet(w) \/ ToSet(w) \intersect DOMAIN Singles # {}}

TriePrefixes == UNION {{SubSeq(w, 1, n) : n \in 1..Len(w)} : w \in TrieWords}

(* A keyword is read as far as the trie was followed: what follows it in a *)
(* longer word must not be lost, which is so in every dialect.             *)
ASSUME KeywordsMeetNoDeadEnd ==
  \A w \in TrieWords \intersect DOMAIN Keywords, p \in TriePrefixes \ TrieWords :
    IsPrefix(w, p) => p = Append(w, " ") \/ \E v \in TrieWords : IsPrefix(v, p) /\ Len(v) > Len(w)

(* The text from p on, by how much of it has been read.  A run of white    *)
(* space counts as one blank.                                              *)
CharsRead(p) ==
  LET blank(n) == At(p + n - 1) \in Spaces
      chars[n \in 0..(Size + 1 - p)] ==
        IF n = 0 THEN <<>>
        ELSE IF n > 1 /\ blank(n) /\ blank(n - 1) THEN chars[n - 1]
        ELSE Append(chars[n - 1], IF blank(n) THEN " " ELSE At(p + n - 1))
  IN chars

(* The trie followed from p: how far, the longest word met, and where that *)
(* ends.                                                                   *)
Followed(p) ==
  LET chars == CharsRead(p)
      met == {n \in 1..(Size + 1 - p) : chars[n] \in TriePrefixes}
      words == {n \in met : chars[n] \in TrieWords /\ chars[n] # chars[n - 1]}
      Latest(places) == IF places = {} THEN 0 ELSE Max(places)
  IN [end |-> p - 1 + Latest(met), word |-> chars[Latest(words)], last |-> p - 1 + Latest(words)]

(* _scan_keywords.  The trie is followed one character beyond its end; a   *)
(* keyword of letters is one only if white space, a single token or the    *)
(* end follows.  As far as the trie was followed is read.                  *)
ScanKeywords(t) ==
  \E followed \in {Followed(t.current)} :
    LET word == followed.word
        end == followed.end
        single == \E q \in t.current..(end + 1) : At(q) \in DOMAIN Singles
        whole == end >= Size \/ At(end + 1) \in Spaces \/ single
        keyword == word \in DOMAIN Keywords /\ whole
        other == word \notin DOMAIN Strings \union DOMAIN Comments \union {<<Heredoc>>} /\ ~keyword
    IN \/ word \in DOMAIN Strings /\ ScanString(t, word)
       \/ word = <<Heredoc>> /\ ScanHeredoc(t)
       \/ word \in DOMAIN Comments /\ ScanComment(t, word)
       \/ /\ word \notin DOMAIN Comments /\ keyword
          /\ \E after \in {Advance(t, end - t.current)} : self' = Added(after, Keywords[word], t.start, followed.last)
       \/ other /\ At(t.current) \in DOMAIN Singles /\ Add(t, Singles[At(t.current)])
       \/ other /\ At(t.current) \notin DOMAIN Singles /\ ScanVar(t)

-----------------------------------------------------------------------------
(* tokenize                                                                *)

Init ==
  /\ \E case \in Cases : sql = case.sql /\ flags = case.flags
  /\ self = [current |-> 0, line |-> 1, col |-> 0, start |-> 0, comments |-> <<>>, tokens |-> <<>>,
             prev_token_line |-> -1, frames |-> <<>>, status |-> "scan", scanned |-> {}]

(* Mutant: only a semicolon ends a command.                                *)
SemicolonNext == self.frames # <<>> /\ At(self.current + 1) = ";"

CommandEnds == self.frames # <<>> /\ (Ended(self) \/ At(self.current + 1) = ";")

(* A turn of _scan: blanks are skipped in one call of _advance, or a       *)
(* character is read, and what it begins.                                  *)
Turn ==
  LET blanks == First({q \in self.current..Size : At(q + 1) \notin Blanks}, self.current) - self.current
      offset == IF blanks > 0 THEN blanks ELSE 1
  IN Advance([self EXCEPT !.start = self.current + blanks + 1], offset)

Scan ==
  /\ self.status = "scan" /\ ~Ended(self) /\ ~CommandEnds
  /\ \E t \in {Turn} :
       LET char == At(t.current)
       IN \/ char \in Spaces /\ self' = t
          \/ char \in Digits \ Spaces /\ ScanNumber(t)
          \/ char \in IdentifierQuotes \ (Spaces \union Digits) /\ ScanIdentifier(t)
          \/ char \notin Spaces \union Digits \union IdentifierQuotes /\ ScanKeywords(t)
  /\ UNCHANGED <<sql, flags>>

(* The end of _scan: comments still waiting go to the last token, but stay *)
(* in _comments.                                                           *)
WithWaiting(t) ==
  IF t.tokens # <<>> /\ t.comments # <<>> THEN Extended(t.tokens, t.comments) ELSE t.tokens

(* The end of the scan of a command: its tokens are dropped, what they     *)
(* were read from becomes one string, without the white space around it.   *)
EndCommand ==
  /\ self.status = "scan" /\ CommandEnds
  /\ LET frame == Last(self.frames)
         text == {q \in (frame.start + 1)..self.current : At(q) \notin Spaces}
     IN \E cut \in {[self EXCEPT !.tokens = SubSeq(WithWaiting(self), 1, frame.tokens),
                                 !.frames = Front(@)]} :
          self' = IF text = {} THEN cut ELSE Added(cut, "STRING", Min(text), Max(text))
  /\ UNCHANGED <<sql, flags>>

Finish ==
  /\ self.status = "scan" /\ Ended(self) /\ self.frames = <<>>
  /\ self' = [self EXCEPT !.tokens = WithWaiting(self), !.status = "done"]
  /\ UNCHANGED <<sql, flags>>

(* tokenize has returned, or raised.                                       *)
Stopped == self.status # "scan" /\ UNCHANGED vars

Next == Scan \/ EndCommand \/ Finish \/ Stopped

Spec == Init /\ [][Next]_vars /\ WF_vars(Scan \/ EndCommand \/ Finish)

-----------------------------------------------------------------------------
(* Properties                                                              *)

Done == self.status = "done"

IsCommandString(i) == i > 1 /\ self.tokens[i - 1].type \in Commands /\ self.tokens[i].type = "STRING"

InCommand(p) ==
  \E i \in DOMAIN self.tokens : IsCommandString(i) /\ p \in self.tokens[i].from..self.tokens[i].to

(* The texts of the tokens follow each other without overlap, and what     *)
(* lies outside them is white space or in exactly one comment, up to where *)
(* the cursor is: nothing is skipped, nothing is read twice, also after    *)
(* characters were given back.  A number with a suffix adds a token of no  *)
(* text.                                                                   *)
TokensCoverInput ==
  LET texts == [i \in DOMAIN self.tokens |-> self.tokens[i].from..self.tokens[i].to]
      comments == {c[1]..c[2] : c \in self.scanned}
  IN self.status # "error" =>
       /\ \A i \in 2..Len(self.tokens) :
            /\ self.tokens[i - 1].to < self.tokens[i].from
            /\ self.tokens[i].to <= self.current
       /\ \A p \in 1..self.current :
            \/ sql[p] \in Spaces
            \/ \E i \in DOMAIN texts : p \in texts[i]
            \/ Cardinality({c \in comments : p \in c}) = 1
       /\ \A c \in comments, i \in DOMAIN texts :
            IsCommandString(i) \/ c \intersect texts[i] = {} \/ self.tokens[i].type = "HINT"

HangsAt(c, i, k) == self.tokens[i].comments[k] = c

(* Every comment outside the text of a command hangs at exactly one token, *)
(* once, and no other token lies between the two: at the one before it or  *)
(* at the one after it.                                                    *)
CommentsAttachedOnce ==
  Done /\ self.tokens # <<>> =>
    \A c \in self.scanned : ~InCommand(c[1]) =>
      \E i \in DOMAIN self.tokens : \E k \in DOMAIN self.tokens[i].comments :
        /\ HangsAt(c, i, k)
        /\ \A j \in DOMAIN self.tokens : \A l \in DOMAIN self.tokens[j].comments : HangsAt(c, j, l) => j = i /\ l = k
        /\ self.tokens[i].to < c[1] => \A j \in DOMAIN self.tokens : i < j => c[2] < self.tokens[j].from
        /\ c[2] < self.tokens[i].from => \A j \in DOMAIN self.tokens : j < i => self.tokens[j].to < c[1]

FirstOfTwo(q) == At(q) = "\r" /\ At(q + 1) = "\n"

(* Line breaks before a character, \r\n as one.                            *)
LinesBefore(p) == {q \in 1..(p - 1) : At(q) \in Breaks /\ ~FirstOfTwo(q)}

(* The character the line of p begins after.                               *)
LineStart(p) == IF LinesBefore(p) = {} THEN 0 ELSE Max(LinesBefore(p))

(* The characters of the line up to p, \r\n as one.                        *)
Column(p) == (p - LineStart(p)) - Cardinality({q \in (LineStart(p) + 1)..(p - 1) : FirstOfTwo(q)})

(* A keyword may stand on two lines, or a line break may be given back by  *)
(* a heredoc.                                                              *)
BreakPassed ==
  LET passed(p) == LET followed == Followed(p)
                   IN followed.word \in DOMAIN Keywords /\ \E q \in (p + 1)..(followed.end - 1) : At(q) \in Breaks
  IN \/ \E p \in 1..Size : passed(p)
     \/ Heredoc \in ToSet(sql) /\ Breaks \intersect ToSet(sql) # {}

(* A token has the line it ends on and the column it ends in, as long as   *)
(* no keyword stands on two lines, in a command either, and no text with a *)
(* line break is given back by a heredoc.                                  *)
PlacesTrueOnLines ==
  ~BreakPassed =>
       \A i \in DOMAIN self.tokens : LET token == self.tokens[i] IN
         /\ token.line = 1 + Cardinality(LinesBefore(token.end))
         /\ token.col = Column(token.end)

(* tokenize returns or raises: no turn of _scan leaves the cursor where it *)
(* was, also where it gives characters back.                               *)
Terminates == <>(self.status # "scan")
=============================================================================
