SPECIFICATION Spec
CONSTANTS
  Cases <- MCCases
  Letters <- MCLetters
  Digits = {"0", "1"}
  Singles <- MCSingles
  VarSingles = {"@"}
  Keywords <- MCKeywords
  Strings <- MCStrings
  IdentifierQuotes <- MCIdentifierQuotes
  Heredoc = "$"
  Escapes <- MCEscapes
  UnescapedSequences <- MCUnescaped
  Comments <- MCComments
  HintStart <- Hint
  HintAfter = {"SELECT"}
  Commands = {"SHOW"}
  CommandPrefixes = {"SEMICOLON", "BEGIN"}
  NumericSuffixes <- MCSuffixes
  Radixes <- MCRadixes
INVARIANTS
  TokensCoverInput
  CommentsAttachedOnce
  PlacesTrueOnLines
PROPERTY Terminates
