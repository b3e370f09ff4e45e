-------------------------- MODULE TokenizerProofs --------------------------
(***************************************************************************)
(* For every dialect and every text: the tokens and comments cover the     *)
(* text, every comment hangs at one neighbouring token, once, and every    *)
(* token has the line and the column it ends at.                           *)
(***************************************************************************)
EXTENDS Tokenizer, FiniteSetTheorems, SequenceTheorems, WellFoundedInduction, TLAPS

-----------------------------------------------------------------------------
(* The inductive invariant, for a tokenizer t that has dealt with the text *)
(* up to p.                                                                *)

Span == Nat \X Nat

(* The types of tokens.                                                    *)
TokenTypes ==
  {"NUMBER", "DCOLON", "STRING", "HINT", "VAR", "IDENTIFIER", "PARAMETER", "HEREDOC"}
    \union {Singles[char] : char \in DOMAIN Singles} \union {Keywords[word] : word \in DOMAIN Keywords}
    \union {Strings[open].type : open \in DOMAIN Strings}
    \union {NumericSuffixes[suffix] : suffix \in DOMAIN NumericSuffixes}
    \union {Radixes[letter].type : letter \in DOMAIN Radixes}

Token == [type : TokenTypes, line : Nat, col : Int, start : Nat, end : Nat,
          from : Nat, to : Nat, comments : Seq(Span)]

Frame == [start : Nat, tokens : Nat]

State == [current : Nat, line : Nat, col : Int, start : Nat, comments : Seq(Span), tokens : Seq(Token),
          prev_token_line : Int, frames : Seq(Frame), status : {"scan", "done", "error"},
          scanned : SUBSET Span]

TypeOK == sql \in Seq(STRING) /\ self \in State

(* What a command has become.                                              *)
CommandString(t, i) ==
  /\ i > 1 /\ i \in DOMAIN t.tokens
  /\ t.tokens[i - 1].type \in Commands /\ t.tokens[i].type = "STRING"

InText(t, x) ==
  \E i \in DOMAIN t.tokens : CommandString(t, i) /\ x \in t.tokens[i].from..t.tokens[i].to

Hangs(t, c, i, k) ==
  i \in DOMAIN t.tokens /\ k \in DOMAIN t.tokens[i].comments /\ t.tokens[i].comments[k] = c

Waits(t, c) == \E k \in DOMAIN t.comments : t.comments[k] = c

(* The comments that no command has swallowed or will.                     *)
Outside(t, c) == ~InText(t, c[1]) /\ (t.frames # <<>> => c[1] <= t.frames[1].start)

Neighbour(t, c, i) ==
  /\ t.tokens[i].to < c[1] => \A j \in DOMAIN t.tokens : i < j => c[2] < t.tokens[j].from
  /\ c[2] < t.tokens[i].from => \A j \in DOMAIN t.tokens : j < i => t.tokens[j].to < c[1]

HangsOnce(t, c) ==
  \E i, k : /\ Hangs(t, c, i, k) /\ Neighbour(t, c, i)
            /\ \A j, l : Hangs(t, c, j, l) => j = i /\ l = k

Ordered(t, p) ==
  /\ \A i, j \in DOMAIN t.tokens : i < j => t.tokens[i].to < t.tokens[j].from
  /\ \A i \in DOMAIN t.tokens : t.tokens[i].to <= p

Covered(t, p) ==
  \A q \in 1..p :
    \/ At(q) \in Spaces
    \/ \E i \in DOMAIN t.tokens : q \in t.tokens[i].from..t.tokens[i].to
    \/ \E c \in t.scanned : q \in c[1]..c[2]

SpansApart(t, p) ==
  /\ \A c \in t.scanned : 1 <= c[1] /\ c[1] <= c[2] /\ c[2] <= p /\ At(c[1]) \notin Spaces
  /\ \A c, d \in t.scanned : c = d \/ c[2] < d[1] \/ d[2] < c[1]

OffTexts(t) ==
  \A c \in t.scanned : \A i \in DOMAIN t.tokens :
    \/ c[2] < t.tokens[i].from \/ t.tokens[i].to < c[1]
    \/ CommandString(t, i) \/ t.tokens[i].type = "HINT"

FramesInv(t, p) ==
  /\ \A k \in DOMAIN t.frames :
       /\ t.frames[k].tokens \in DOMAIN t.tokens /\ t.frames[k].start <= p
       /\ t.tokens[t.frames[k].tokens].type \in Commands
       /\ \A j \in DOMAIN t.tokens : j <= t.frames[k].tokens => t.tokens[j].to <= t.frames[k].start
       /\ \A j \in DOMAIN t.tokens : j > t.frames[k].tokens =>
            /\ t.frames[k].start < t.tokens[j].from
            /\ \A l \in DOMAIN t.tokens[j].comments : t.frames[k].start < t.tokens[j].comments[l][1]
       /\ \A c \in t.scanned : c[1] <= t.frames[k].start => c[2] <= t.frames[k].start
  /\ \A k, l \in DOMAIN t.frames :
       k <= l => t.frames[k].tokens <= t.frames[l].tokens /\ t.frames[k].start <= t.frames[l].start

WaitingInv(t) ==
  /\ \A k, l \in DOMAIN t.comments : t.comments[k] = t.comments[l] => k = l
  /\ \A k \in DOMAIN t.comments :
       /\ t.comments[k] \in t.scanned
       /\ \A i \in DOMAIN t.tokens : t.tokens[i].to < t.comments[k][1]
       /\ \A l \in DOMAIN t.frames : t.frames[l].start < t.comments[k][1]
  /\ t.tokens = <<>> => t.prev_token_line = -1

(* Every comment outside commands waits or hangs.                          *)
PlacedInv(t) ==
  \A c \in t.scanned : Outside(t, c) =>
    \/ Waits(t, c) /\ \A i, k : ~Hangs(t, c, i, k)
    \/ ~Waits(t, c) /\ HangsOnce(t, c)

TextInv(t, p) == Ordered(t, p) /\ Covered(t, p) /\ SpansApart(t, p) /\ OffTexts(t)

CommentInv(t) ==
  /\ WaitingInv(t) /\ PlacedInv(t)
  /\ \A i \in DOMAIN t.tokens : \A k \in DOMAIN t.tokens[i].comments : t.tokens[i].comments[k] \in t.scanned

ScanInv(t, p) == TextInv(t, p) /\ FramesInv(t, p) /\ CommentInv(t)

DoneInv(t) ==
  /\ TextInv(t, t.current)
  /\ t.tokens # <<>> => \A c \in t.scanned : ~InText(t, c[1]) => HangsOnce(t, c)

IInv ==
  /\ TypeOK
  /\ self.status = "scan" => ScanInv(self, self.current)
  /\ self.status = "done" => DoneInv(self)

-----------------------------------------------------------------------------
(* Numbers                                                                 *)

LEMMA BelowIsWellFounded ==
  IsWellFoundedOn({p \in Nat \X Nat : p[1] < p[2]}, Nat)
BY NatLessThanWellFounded DEF OpToRel

LEMMA LeastNumber ==
  ASSUME NEW T \in SUBSET Nat, T # {}
  PROVE  \E x \in T : \A y \in T : x <= y
<1> DEFINE R == {p \in Nat \X Nat : p[1] < p[2]}
<1>1. PICK x \in T : \A y \in T : ~ (<<y, x>> \in R)
  <2> HIDE DEF R
  <2> IsWellFoundedOn(R, Nat)
    BY BelowIsWellFounded DEF R
  <2> QED BY WFMin
<1>2. ASSUME NEW y \in T PROVE x <= y
  <2>1. <<y, x>> \notin R
    BY <1>1
  <2>2. x \in Nat /\ y \in Nat
    OBVIOUS
  <2>3. ~(y < x)
    BY <2>1, <2>2
  <2> QED BY <2>2, <2>3
<1> QED BY <1>2

(* What holds of 0 and, if of n - 1, then of n, holds up to N.             *)
LEMMA UpTo ==
  ASSUME NEW N \in Nat, NEW P, 0 \in P, \A n \in 1..N : n - 1 \in P => n \in P
  PROVE  \A n \in 0..N : n \in P
<1> DEFINE T == {n \in 0..N : n \notin P}
<1>1. SUFFICES ASSUME T # {} PROVE FALSE
  OBVIOUS
<1>2. T \in SUBSET Nat
  OBVIOUS
<1>3. PICK x \in T : \A y \in T : x <= y
  <2> HIDE DEF T
  <2> QED BY <1>1, <1>2, LeastNumber
<1>4. x # 0 /\ x \in 0..N /\ x \notin P
  OBVIOUS
<1>5. x - 1 \in 0..N /\ x \in 1..N /\ ~(x <= x - 1)
  BY <1>4
<1>6. x - 1 \in P
  BY <1>3, <1>5
<1> QED BY <1>4, <1>5, <1>6

Recursive(g, N, S, s0, next) ==
  g \in [0..N -> S] /\ g[0] = s0 /\ \A n \in 1..N : g[n] = next[<<n, g[n - 1]>>]

(* Recursion up to N defines a function.                                   *)
LEMMA Recursion ==
  ASSUME NEW N \in Nat, NEW S, NEW s0 \in S, NEW next \in [(1..N) \X S -> S]
  PROVE  \E g : Recursive(g, N, S, s0, next)
<1> USE DEF Recursive
<1> DEFINE Def(g, m) == Recursive(g, m, S, s0, next)
           P == {m \in 0..N : \E g : Def(g, m)}
<1>1. 0 \in P
  <2> DEFINE f == [n \in 0..0 |-> s0]
  <2>1. Def(f, 0)
    OBVIOUS
  <2>2. \E g : Def(g, 0)
    <3> HIDE DEF f, Def
    <3> QED BY <2>1
  <2>3. 0 \in 0..N
    OBVIOUS
  <2> QED BY <2>2, <2>3
<1>2. ASSUME NEW m \in 1..N, m - 1 \in P PROVE m \in P
  <2>1. PICK g : Def(g, m - 1)
    BY <1>2
  <2> DEFINE f == [n \in 0..m |-> IF n = m THEN next[<<m, g[m - 1]>>] ELSE g[n]]
  <2>2. g[m - 1] \in S
    BY <2>1
  <2>3. f \in [0..m -> S]
    <3>1. next[<<m, g[m - 1]>>] \in S
      BY <2>2
    <3>2. ASSUME NEW n \in 0..m, n # m PROVE g[n] \in S
      <4>1. n \in 0..(m - 1)
        BY <3>2
      <4> QED BY <2>1, <4>1
    <3> QED BY <3>1, <3>2
  <2>4. f[0] = s0
    BY <2>1
  <2>5. ASSUME NEW n \in 1..m PROVE f[n] = next[<<n, f[n - 1]>>]
    <3>1. n - 1 \in 0..m /\ n - 1 # m
      OBVIOUS
    <3>2. f[n - 1] = g[n - 1]
      BY <3>1
    <3>3. CASE n = m
      BY <3>2, <3>3, SMTT(60)
    <3>4. CASE n # m
      <4>1. n \in 1..(m - 1) /\ f[n] = g[n]
        BY <3>4
      <4> QED BY <2>1, <3>2, <4>1
    <3> QED BY <3>3, <3>4
  <2>6. Def(f, m)
    BY <2>3, <2>4, <2>5
  <2>7. \E h : Def(h, m)
    <3> HIDE DEF f, Def
    <3> QED BY <2>6
  <2>8. m \in 0..N
    OBVIOUS
  <2> QED BY <2>7, <2>8
<1>3. \A n \in 0..N : n \in P
  <2> HIDE DEF P
  <2> QED BY <1>1, <1>2, UpTo
<1>4. N \in 0..N
  OBVIOUS
<1>5. PICK g : Def(g, N)
  BY <1>3, <1>4
<1> QED BY <1>5

(* A value of B[f] is made of values of f of lower rank.                   *)
Ranked(B, D, S, rank, N) ==
  /\ rank \in [D -> 0..N] /\ B \in [[D -> S] -> [D -> S]] /\ S # {}
  /\ \A f, g \in [D -> S], d \in D :
       (\A e \in D : rank[e] < rank[d] => f[e] = g[e]) => B[f][d] = B[g][d]

HasFixpoint(B, D, S) == \E f \in [D -> S] : B[f] = f

(* What is defined from what has a lower rank is defined.                  *)
LEMMA Fixpoint ==
  ASSUME NEW N \in Nat, NEW D, NEW rank, NEW S, NEW B, Ranked(B, D, S, rank, N)
  PROVE  HasFixpoint(B, D, S)
<1>0. rank \in [D -> 0..N] /\ B \in [[D -> S] -> [D -> S]] /\ S # {}
  BY DEF Ranked
<1> PICK s0 \in S : TRUE
  BY <1>0
<1> DEFINE F == [D -> S]
           f0 == [d \in D |-> s0]
           M == N + 2
           next == [x \in (1..M) \X F |-> B[x[2]]]
<1>1. f0 \in F /\ M \in Nat
  OBVIOUS
<1>2. next \in [(1..M) \X F -> F]
  BY <1>0
<1>3. PICK g : Recursive(g, M, F, f0, next)
  <2> HIDE DEF next, F, f0, M
  <2> QED BY <1>1, <1>2, Recursion
<1>4. g \in [0..M -> F] /\ \A n \in 1..M : g[n] = B[g[n - 1]]
  <2>1. g \in [0..M -> F] /\ \A n \in 1..M : g[n] = next[<<n, g[n - 1]>>]
    BY <1>3 DEF Recursive
  <2>2. ASSUME NEW n \in 1..M PROVE g[n] = B[g[n - 1]]
    <3>1. n - 1 \in 0..M
      OBVIOUS
    <3>2. g[n - 1] \in F
      BY <2>1, <3>1
    <3>3. next[<<n, g[n - 1]>>] = B[g[n - 1]]
      <4> HIDE DEF F
      <4> QED BY <3>2
    <3> QED BY <2>1, <3>3
  <2> QED BY <2>1, <2>2
<1> HIDE DEF next, f0
<1> DEFINE P == {n \in 0..(N + 1) : \A d \in D : rank[d] < n => g[n][d] = g[n + 1][d]}
<1>5. \A n \in 0..(N + 1) : n \in P
  <2>1. 0 \in P
    <3>1. \A d \in D : ~(rank[d] < 0) /\ 0 \in 0..(N + 1)
      BY <1>0
    <3> QED BY <3>1
  <2>2. ASSUME NEW n \in 1..(N + 1), n - 1 \in P PROVE n \in P
    <3>1. /\ n \in 0..(N + 1) /\ n - 1 \in 0..(N + 1) /\ (n - 1) + 1 = n /\ (n + 1) - 1 = n
          /\ n \in 1..M /\ n + 1 \in 1..M /\ n - 1 \in 0..M /\ n \in 0..M
      OBVIOUS
    <3>2. ASSUME NEW d \in D, rank[d] < n PROVE g[n][d] = g[n + 1][d]
      <4>1. \A e \in D : rank[e] < rank[d] => rank[e] < n - 1
        BY <1>0, <3>2
      <4>2. \A e \in D : rank[e] < n - 1 => g[n - 1][e] = g[n][e]
        BY <2>2, <3>1
      <4>3. g[n - 1] \in F /\ g[n] \in F
        BY <1>4, <3>1
      <4>4. g[n] = B[g[n - 1]] /\ g[n + 1] = B[g[n]]
        BY <1>4, <3>1
      <4>5. B[g[n - 1]][d] = B[g[n]][d]
        BY <4>1, <4>2, <4>3 DEF Ranked
      <4> QED BY <4>4, <4>5
    <3> QED BY <3>1, <3>2
  <2> HIDE DEF P
  <2> QED BY <2>1, <2>2, UpTo
<1>6. N + 1 \in P /\ N + 1 \in 0..M /\ N + 2 \in 0..M /\ N + 2 \in 1..M /\ (N + 2) - 1 = N + 1
      /\ (N + 1) + 1 = N + 2
  <2> HIDE DEF P
  <2> QED BY <1>5
<1>7. g[N + 1] \in F /\ g[N + 2] \in F
  BY <1>4, <1>6
<1>8. \A d \in D : g[N + 1][d] = g[N + 2][d]
  BY <1>0, <1>6
<1>9. g[N + 1] = g[N + 2]
  BY <1>7, <1>8
<1>10. B[g[N + 1]] = g[N + 1]
  BY <1>4, <1>6, <1>9
<1> QED BY <1>7, <1>10 DEF HasFixpoint

-----------------------------------------------------------------------------
(* The cursor                                                              *)

(* Only the cursor differs, or the line of the last token.                 *)
Moved(u, t) ==
  /\ u \in State /\ u.start = t.start /\ u.comments = t.comments /\ u.tokens = t.tokens
  /\ t.tokens = <<>> => u.prev_token_line = t.prev_token_line
  /\ u.frames = t.frames /\ u.status = t.status /\ u.scanned = t.scanned

LEMMA StateFields ==
  ASSUME NEW t \in State
  PROVE  /\ t.current \in Nat /\ t.line \in Nat /\ t.col \in Int /\ t.start \in Nat
         /\ t.comments \in Seq(Span) /\ t.tokens \in Seq(Token) /\ t.prev_token_line \in Int
         /\ t.frames \in Seq(Frame) /\ t.scanned \in SUBSET Span
BY DEF State

LEMMA MovedTwice ==
  ASSUME NEW t, NEW u, NEW v, Moved(u, t), Moved(v, u)
  PROVE  Moved(v, t)
BY DEF Moved

LEMMA AdvanceMoves ==
  ASSUME NEW t \in State, NEW i \in Int, t.current + i \in Nat
  PROVE  Moved(Advance(t, i), t) /\ Advance(t, i).current = t.current + i
<1> DEFINE char == At(t.current)
           break == char \in Breaks /\ ~(char = "\r" /\ At(t.current + 1) = "\n")
           line == IF break THEN t.line + 1 ELSE t.line
           col == IF break THEN i ELSE IF char \in Breaks THEN t.col ELSE t.col + i
           current == t.current + i
<1>1. line \in Nat /\ col \in Int /\ current \in Nat
  BY StateFields
<1>2. Advance(t, i) = [t EXCEPT !.current = current, !.line = line, !.col = col]
  BY DEF Advance
<1> HIDE DEF line, col, current
<1>3. Moved(Advance(t, i), t) /\ Advance(t, i).current = current
  BY <1>1, <1>2 DEF State, Moved
<1> QED BY <1>3 DEF current

LEMMA NumbersOfInterval ==
  ASSUME NEW a \in Int, NEW b \in Int, NEW T, T \subseteq a..b
  PROVE  IsFiniteSet(T) /\ Cardinality(T) \in Nat
<1>1. IsFiniteSet(a..b)
  BY FS_Interval
<1> QED BY <1>1, FS_Subset, FS_CardinalityType

(* A set of numbers of an interval has a greatest and a least one.         *)
LEMMA MaxOfInterval ==
  ASSUME NEW a \in Int, NEW b \in Int, NEW T, T \subseteq a..b, T # {}
  PROVE  /\ Max(T) \in T /\ \A x \in T : x <= Max(T)
         /\ Min(T) \in T /\ \A x \in T : Min(T) <= x
<1> DEFINE D == {b - x : x \in T}
           E == {x - a : x \in T}
<1>1. \E x \in T : \A y \in T : y <= x
  <2>1. D \in SUBSET Nat /\ D # {}
    <3>1. ASSUME NEW x \in T PROVE b - x \in Nat
      <4>1. x \in a..b
        OBVIOUS
      <4> QED BY <4>1
    <3>2. PICK x \in T : TRUE
      OBVIOUS
    <3>3. b - x \in D
      BY <3>2
    <3> QED BY <3>1, <3>3
  <2>2. PICK d \in D : \A y \in D : d <= y
    <3> HIDE DEF D
    <3> QED BY <2>1, LeastNumber
  <2>3. PICK x \in T : d = b - x
    OBVIOUS
  <2>4. ASSUME NEW y \in T PROVE y <= x
    <3>1. d <= b - y /\ y \in Int /\ x \in Int
      BY <2>2
    <3> QED BY <2>3, <3>1
  <2> QED BY <2>4
<1>2. \E x \in T : \A y \in T : x <= y
  <2>1. E \in SUBSET Nat /\ E # {}
    OBVIOUS
  <2>2. PICK d \in E : \A y \in E : d <= y
    <3> HIDE DEF E
    <3> QED BY <2>1, LeastNumber
  <2>3. PICK x \in T : d = x - a
    OBVIOUS
  <2>4. ASSUME NEW y \in T PROVE x <= y
    <3>1. d <= y - a /\ y \in Int /\ x \in Int
      BY <2>2
    <3> QED BY <2>3, <3>1
  <2> QED BY <2>4
<1>3. /\ Max(T) \in T /\ \A x \in T : Max(T) >= x
      /\ Min(T) \in T /\ \A x \in T : Min(T) <= x
  BY <1>1, <1>2 DEF Max, Min
<1>4. \A x \in T : x \in Int
  OBVIOUS
<1> QED BY <1>3, <1>4

LEMMA WalkMoves ==
  ASSUME NEW t \in State, NEW p \in Int
  PROVE  Moved(Walk(t, p), t) /\ Walk(t, p).current = IF p <= t.current THEN t.current ELSE p
<1> DEFINE ends == {q \in t.current..(p - 1) : At(q) \in Breaks}
           first == {q \in ends : At(q) = "\r" /\ At(q + 1) = "\n"}
           lines == ends \ first
           from == IF lines = {} THEN t.current - t.col ELSE Max(lines)
           line == t.line + Cardinality(lines)
           col == (p - from) - Cardinality({q \in first : q > from})
<1>1. CASE p <= t.current
  BY <1>1, StateFields DEF Walk, Moved
<1>2. CASE ~(p <= t.current)
  <2>1. t.current \in Nat /\ t.line \in Nat /\ t.col \in Int /\ p \in Nat
    BY <1>2, StateFields
  <2> DEFINE late == {q \in first : q > from}
  <2>2. p - 1 \in Int /\ lines \subseteq t.current..(p - 1) /\ late \subseteq t.current..(p - 1)
    BY <2>1
  <2>3. Cardinality(lines) \in Nat /\ Cardinality(late) \in Nat
    <3> HIDE DEF lines, late
    <3>1. t.current \in Int
      BY <2>1
    <3>2. Cardinality(lines) \in Nat
      BY <2>2, <3>1, NumbersOfInterval, Zenon
    <3>3. Cardinality(late) \in Nat
      BY <2>2, <3>1, NumbersOfInterval, Zenon
    <3> QED BY <3>2, <3>3
  <2>4. from \in Int
    <3>1. CASE lines = {}
      BY <2>1, <3>1
    <3>2. CASE lines # {}
      <4>1. Max(lines) \in lines
        BY <2>1, <2>2, <3>2, MaxOfInterval
      <4>2. Max(lines) \in Int
        BY <2>1, <2>2, <4>1
      <4> QED BY <3>2, <4>2
    <3> QED BY <3>1, <3>2
  <2>5. line \in Nat /\ col \in Int
    BY <2>1, <2>3, <2>4
  <2>6. Walk(t, p) = [t EXCEPT !.current = p, !.line = line, !.col = col]
    BY <1>2 DEF Walk
  <2> HIDE DEF line, col
  <2> QED BY <1>2, <2>1, <2>5, <2>6 DEF State, Moved
<1> QED BY <1>1, <1>2

LEMMA FirstIsIn ==
  ASSUME NEW a \in Int, NEW b \in Int, NEW T, T \subseteq a..b, NEW c \in Int
  PROVE  /\ T = {} => First(T, c) = c
         /\ T # {} => First(T, c) \in T /\ \A x \in T : First(T, c) <= x
         /\ First(T, c) \in Int
<1>1. CASE T = {}
  BY <1>1 DEF First
<1>2. CASE T # {}
  <2>1. Min(T) \in T /\ \A x \in T : Min(T) <= x
    BY <1>2, MaxOfInterval, Zenon
  <2>2. First(T, c) = Min(T)
    BY <1>2 DEF First
  <2>3. First(T, c) \in Int
    <3>1. Min(T) \in a..b
      BY <2>1
    <3> QED BY <2>2, <3>1
  <2> QED BY <1>2, <2>1, <2>2, <2>3
<1> QED BY <1>1, <1>2

LEMMA ThroughDelimiterMoves ==
  ASSUME NEW t \in State, NEW end \in Int, NEW size \in Nat
  PROVE  Moved(ThroughDelimiter(t, end, size), t) /\ t.current <= ThroughDelimiter(t, end, size).current
<1> DEFINE last == Walk(t, end - size + 1)
<1>1. Moved(last, t) /\ last.current = IF end - size + 1 <= t.current THEN t.current ELSE end - size + 1
  BY WalkMoves
<1>2. last \in State /\ last.current \in Nat /\ t.current \in Nat /\ t.current <= last.current
  BY <1>1, StateFields DEF Moved
<1> HIDE DEF last
<1>3. CASE size > 1
  <2>1. size - 1 \in Int /\ last.current + (size - 1) \in Nat
    BY <1>2, <1>3
  <2>2. Moved(Advance(last, size - 1), last) /\ Advance(last, size - 1).current = last.current + (size - 1)
    BY <1>2, <2>1, AdvanceMoves
  <2>3. ThroughDelimiter(t, end, size) = Advance(last, size - 1)
    BY <1>3 DEF ThroughDelimiter, last
  <2>4. Moved(Advance(last, size - 1), t)
    BY <1>1, <2>2, MovedTwice
  <2> QED BY <1>2, <1>3, <2>2, <2>3, <2>4
<1>4. CASE ~(size > 1)
  BY <1>1, <1>2, <1>4 DEF ThroughDelimiter, last
<1> QED BY <1>3, <1>4

-----------------------------------------------------------------------------
(* Tokens and comments are added                                           *)

Attach(t) == [t EXCEPT !.tokens = Extended(@, t.comments), !.comments = <<>>]

LEMMA ExtendedFacts ==
  ASSUME NEW tokens \in Seq(Token), tokens # <<>>, NEW comments \in Seq(Span)
  PROVE  /\ Extended(tokens, comments) \in Seq(Token)
         /\ Extended(tokens, comments) # <<>>
         /\ Len(Extended(tokens, comments)) = Len(tokens)
         /\ DOMAIN Extended(tokens, comments) = DOMAIN tokens
         /\ Len(tokens) \in DOMAIN tokens
         /\ \A i \in DOMAIN tokens :
              /\ Extended(tokens, comments)[i].type = tokens[i].type
              /\ Extended(tokens, comments)[i].from = tokens[i].from
              /\ Extended(tokens, comments)[i].to = tokens[i].to
              /\ Extended(tokens, comments)[i].comments
                   = IF i = Len(tokens) THEN tokens[i].comments \o comments ELSE tokens[i].comments
<1> DEFINE n == Len(tokens)
           last == [tokens[n] EXCEPT !.comments = @ \o comments]
           E == Extended(tokens, comments)
<1>1. n \in Nat \ {0} /\ n \in 1..n /\ DOMAIN tokens = 1..n /\ tokens \in [1..n -> Token]
  OBVIOUS
<1>2. tokens[n].comments \o comments \in Seq(Span)
  <2>1. tokens[n] \in Token
    BY <1>1
  <2>2. tokens[n].comments \in Seq(Span)
    BY <2>1 DEF Token
  <2> QED BY <2>2
<1>3. last \in Token /\ last.type = tokens[n].type /\ last.from = tokens[n].from /\ last.to = tokens[n].to
        /\ last.comments = tokens[n].comments \o comments
  BY <1>1, <1>2 DEF Token
<1>4. E = [tokens EXCEPT ![n] = last]
  BY DEF Extended
<1> HIDE DEF last, E
<1>5. E \in [1..n -> Token] /\ E[n] = last /\ \A i \in 1..n : i # n => E[i] = tokens[i]
  BY <1>1, <1>3, <1>4
<1>6. E \in Seq(Token) /\ Len(E) = n /\ DOMAIN E = 1..n /\ E # <<>>
  <2>1. n \in Nat
    BY <1>1
  <2> HIDE DEF n
  <2>2. E \in Seq(Token) /\ Len(E) = n /\ DOMAIN E = 1..n
    BY <1>5, <2>1
  <2>3. n > 0
    BY <1>1 DEF n
  <2> QED BY <2>2, <2>3
<1>7. ASSUME NEW i \in 1..n
      PROVE  /\ E[i].type = tokens[i].type /\ E[i].from = tokens[i].from /\ E[i].to = tokens[i].to
             /\ E[i].comments = IF i = n THEN tokens[i].comments \o comments ELSE tokens[i].comments
  <2>1. CASE i = n
    <3>1. E[i] = last
      BY <1>5, <2>1
    <3> QED BY <1>3, <2>1, <3>1
  <2>2. CASE i # n
    <3>1. E[i] = tokens[i]
      BY <1>5, <2>2
    <3> QED BY <2>2, <3>1
  <2> QED BY <2>1, <2>2
<1> QED BY <1>1, <1>6, <1>7 DEF E

LEMMA AttachFields ==
  ASSUME NEW t \in State, t.tokens # <<>>
  PROVE  /\ Attach(t) \in State
         /\ Attach(t).tokens = Extended(t.tokens, t.comments) /\ Attach(t).comments = <<>>
         /\ Attach(t).scanned = t.scanned /\ Attach(t).frames = t.frames
         /\ Attach(t).current = t.current /\ Attach(t).status = t.status /\ Attach(t).start = t.start
         /\ Attach(t).line = t.line /\ Attach(t).col = t.col /\ Attach(t).prev_token_line = t.prev_token_line
<1>1. Extended(t.tokens, t.comments) \in Seq(Token) /\ <<>> \in Seq(Span)
  BY StateFields, ExtendedFacts
<1> QED BY <1>1 DEF Attach, State

NewToken(t, type, from, to) ==
  [type |-> type, line |-> t.line, col |-> t.col, start |-> t.start, end |-> t.current,
   from |-> from, to |-> to, comments |-> t.comments]

NewFrame(t) == [start |-> t.current, tokens |-> Len(t.tokens) + 1]

LEMMA NewTokenFields ==
  ASSUME NEW t \in State, NEW type \in TokenTypes, NEW from \in Nat, NEW to \in Nat
  PROVE  /\ NewToken(t, type, from, to) \in Token /\ NewToken(t, type, from, to).comments = t.comments
         /\ NewToken(t, type, from, to).type = type
         /\ NewToken(t, type, from, to).from = from /\ NewToken(t, type, from, to).to = to
BY StateFields DEF NewToken, Token

LEMMA AddedFields ==
  ASSUME NEW t \in State, NEW type \in TokenTypes, NEW from \in Nat, NEW to \in Nat,
         ~(t.comments # <<>> /\ type = "SEMICOLON" /\ t.tokens # <<>>)
  PROVE  /\ Added(t, type, from, to) \in State
         /\ Added(t, type, from, to).tokens = Append(t.tokens, NewToken(t, type, from, to))
         /\ Added(t, type, from, to).comments = <<>>
         /\ Added(t, type, from, to).scanned = t.scanned
         /\ Added(t, type, from, to).current = t.current
         /\ Added(t, type, from, to).start = t.start
         /\ Added(t, type, from, to).line = t.line
         /\ Added(t, type, from, to).col = t.col
         /\ Added(t, type, from, to).status = t.status
         /\ Added(t, type, from, to).prev_token_line = t.line
         /\ \/ Added(t, type, from, to).frames = t.frames
            \/ type \in Commands /\ Added(t, type, from, to).frames = Append(t.frames, NewFrame(t))
<1> DEFINE token == NewToken(t, type, from, to)
           frame == NewFrame(t)
           command == /\ type \in Commands /\ At(t.current + 1) # ";"
                      /\ t.tokens = <<>> \/ Last(t.tokens).type \in CommandPrefixes
           tokens == Append(t.tokens, token)
           frames == IF command THEN Append(t.frames, frame) ELSE t.frames
           u == [t EXCEPT !.prev_token_line = t.line, !.tokens = tokens, !.comments = <<>>, !.frames = frames]
<1>1. Added(t, type, from, to) = u
  BY DEF Added, NewToken, NewFrame
<1>2. t.line \in Int /\ <<>> \in Seq(Span)
  BY StateFields
<1>3. tokens \in Seq(Token)
  <2>1. token \in Token
    BY StateFields DEF NewToken, Token
  <2> QED BY <2>1, StateFields
<1>4. frames \in Seq(Frame)
  <2>1. frame \in Frame
    <3>1. Len(t.tokens) \in Nat
      BY StateFields
    <3> QED BY <3>1, StateFields DEF NewFrame, Frame
  <2>2. t.frames \in Seq(Frame)
    BY StateFields
  <2> HIDE DEF frame, command
  <2> QED BY <2>1, <2>2
<1>5. frames = t.frames \/ (type \in Commands /\ frames = Append(t.frames, frame))
  <2>1. CASE command
    <3>1. type \in Commands
      BY <2>1
    <3>2. frames = Append(t.frames, frame)
      <4> HIDE DEF command, frame
      <4> QED BY <2>1
    <3> QED BY <3>1, <3>2
  <2>2. CASE ~command
    <3>1. frames = t.frames
      <4> HIDE DEF command, frame
      <4> QED BY <2>2
    <3> QED BY <3>1
  <2> QED BY <2>1, <2>2
<1> HIDE DEF tokens, frames, frame, token
<1>6. /\ u \in State /\ u.tokens = tokens /\ u.comments = <<>> /\ u.scanned = t.scanned /\ u.current = t.current
      /\ u.start = t.start /\ u.line = t.line /\ u.col = t.col /\ u.status = t.status
      /\ u.prev_token_line = t.line /\ u.frames = frames
  BY <1>2, <1>3, <1>4 DEF State
<1> HIDE DEF u
<1> QED BY <1>1, <1>5, <1>6 DEF tokens, frame, token

AddedTo(u, t, type, from, to) ==
  /\ u \in State /\ u.tokens = Append(t.tokens, NewToken(t, type, from, to)) /\ u.comments = <<>>
  /\ u.scanned = t.scanned
  /\ \/ u.frames = t.frames
     \/ type \in Commands /\ u.frames = Append(t.frames, NewFrame(t))

LEMMA AddedIs ==
  ASSUME NEW t \in State, NEW type \in TokenTypes, NEW from \in Nat, NEW to \in Nat,
         ~(t.comments # <<>> /\ type = "SEMICOLON" /\ t.tokens # <<>>)
  PROVE  AddedTo(Added(t, type, from, to), t, type, from, to)
<1> DEFINE u == Added(t, type, from, to)
<1>1. u \in State /\ u.tokens = Append(t.tokens, NewToken(t, type, from, to)) /\ u.comments = <<>>
  BY AddedFields, Zenon
<1>2. u.scanned = t.scanned
  BY AddedFields, Zenon
<1>3. u.frames = t.frames \/ (type \in Commands /\ u.frames = Append(t.frames, NewFrame(t)))
  BY AddedFields, Zenon
<1> HIDE DEF u
<1>4. AddedTo(u, t, type, from, to)
  BY <1>1, <1>2, <1>3, Zenon DEF AddedTo
<1> QED BY <1>4 DEF u

(* Comments before a semicolon go to the token before it.                  *)
LEMMA AddedAttaches ==
  ASSUME NEW t \in State, NEW type \in TokenTypes, NEW from \in Nat, NEW to \in Nat,
         t.comments # <<>>, type = "SEMICOLON", t.tokens # <<>>
  PROVE  Added(t, type, from, to) = Added(Attach(t), type, from, to)
<1> DEFINE a == Attach(t)
           E == Extended(t.tokens, t.comments)
<1>1. /\ a \in State /\ a.tokens = E /\ a.comments = <<>> /\ a.scanned = t.scanned /\ a.frames = t.frames
      /\ a.current = t.current /\ a.status = t.status /\ a.start = t.start
      /\ a.line = t.line /\ a.col = t.col /\ a.prev_token_line = t.prev_token_line
  BY AttachFields
<1>2. E # <<>>
  BY ExtendedFacts, StateFields
<1> DEFINE token == [type |-> type, line |-> t.line, col |-> t.col, start |-> t.start, end |-> t.current,
                     from |-> from, to |-> to, comments |-> <<>>]
           command == /\ type \in Commands /\ At(t.current + 1) # ";"
                      /\ E = <<>> \/ Last(E).type \in CommandPrefixes
           frame == [start |-> t.current, tokens |-> Len(E) + 1]
           frames == IF command THEN Append(t.frames, frame) ELSE t.frames
           tokens == Append(E, token)
<1>3. Added(t, type, from, to)
        = [t EXCEPT !.prev_token_line = t.line, !.tokens = tokens, !.comments = <<>>, !.frames = frames]
  BY DEF Added
<1>4. Added(a, type, from, to)
        = [a EXCEPT !.prev_token_line = t.line, !.tokens = tokens, !.comments = <<>>, !.frames = frames]
  <2> HIDE DEF a, E
  <2> QED BY <1>1 DEF Added
<1> HIDE DEF a, E, tokens, frames
<1>5. [a EXCEPT !.prev_token_line = t.line, !.tokens = tokens, !.comments = <<>>, !.frames = frames]
        = [t EXCEPT !.prev_token_line = t.line, !.tokens = tokens, !.comments = <<>>, !.frames = frames]
  BY <1>1 DEF State
<1> QED BY <1>3, <1>4, <1>5 DEF a

LEMMA JoinedSequence ==
  ASSUME NEW S, NEW r \in Seq(S), NEW w \in Seq(S)
  PROVE  /\ \A l \in DOMAIN r : l \in DOMAIN (r \o w) /\ (r \o w)[l] = r[l]
         /\ \A k \in DOMAIN w : Len(r) + k \in DOMAIN (r \o w) /\ (r \o w)[Len(r) + k] = w[k]
         /\ \A l \in DOMAIN (r \o w) :
              \/ l \in DOMAIN r
              \/ l > Len(r) /\ l - Len(r) \in DOMAIN w /\ (r \o w)[l] = w[l - Len(r)]
OBVIOUS

LEMMA TokenFields ==
  ASSUME NEW t \in State, NEW i \in DOMAIN t.tokens
  PROVE  /\ i \in Nat /\ i >= 1 /\ i <= Len(t.tokens) /\ t.tokens[i] \in Token
         /\ t.tokens[i].type \in TokenTypes /\ t.tokens[i].from \in Nat /\ t.tokens[i].to \in Nat
         /\ t.tokens[i].comments \in Seq(Span)
<1>1. t.tokens \in Seq(Token)
  BY StateFields
<1>2. i \in 1..Len(t.tokens) /\ t.tokens[i] \in Token
  BY <1>1
<1> QED BY <1>2 DEF Token

LEMMA SpanFields ==
  ASSUME NEW t \in State, NEW c \in t.scanned
  PROVE  c \in Span /\ c[1] \in Nat /\ c[2] \in Nat
BY StateFields DEF Span

LEMMA FrameFields ==
  ASSUME NEW t \in State, NEW k \in DOMAIN t.frames
  PROVE  /\ k \in Nat /\ k >= 1 /\ k <= Len(t.frames)
         /\ t.frames[k].start \in Nat /\ t.frames[k].tokens \in Nat
<1>1. t.frames \in Seq(Frame)
  BY StateFields
<1>2. k \in 1..Len(t.frames) /\ t.frames[k] \in Frame
  BY <1>1
<1> QED BY <1>2 DEF Frame

(* The comments that wait go to the last token.                            *)
LEMMA AttachFacts ==
  ASSUME NEW t \in State, t.tokens # <<>>
  PROVE  /\ DOMAIN Attach(t).tokens = DOMAIN t.tokens
         /\ Len(t.tokens) \in DOMAIN t.tokens
         /\ \A i \in DOMAIN t.tokens :
              /\ Attach(t).tokens[i].type = t.tokens[i].type
              /\ Attach(t).tokens[i].from = t.tokens[i].from
              /\ Attach(t).tokens[i].to = t.tokens[i].to
         /\ \A c, i, l : Hangs(t, c, i, l) => Hangs(Attach(t), c, i, l)
         /\ \A c, i, l : Hangs(Attach(t), c, i, l) =>
              \/ Hangs(t, c, i, l)
              \/ /\ i = Len(t.tokens)
                 /\ \E k \in DOMAIN t.comments : l = Len(t.tokens[i].comments) + k /\ t.comments[k] = c
         /\ \A k \in DOMAIN t.comments :
              Hangs(Attach(t), t.comments[k], Len(t.tokens), Len(t.tokens[Len(t.tokens)].comments) + k)
<1> DEFINE n == Len(t.tokens)
           u == Attach(t)
           r == t.tokens[n].comments
           w == t.comments
<1>1. u.tokens = Extended(t.tokens, w)
  BY AttachFields
<1>2. t.tokens \in Seq(Token) /\ w \in Seq(Span)
  BY StateFields
<1>3. /\ DOMAIN u.tokens = DOMAIN t.tokens /\ n \in DOMAIN t.tokens
      /\ \A i \in DOMAIN t.tokens :
           /\ u.tokens[i].type = t.tokens[i].type /\ u.tokens[i].from = t.tokens[i].from
           /\ u.tokens[i].to = t.tokens[i].to
           /\ u.tokens[i].comments = IF i = n THEN t.tokens[i].comments \o w ELSE t.tokens[i].comments
  BY <1>1, <1>2, ExtendedFacts
<1>4. r \in Seq(Span)
  BY <1>3, TokenFields
<1> HIDE DEF n, u, w
<1>5. u.tokens[n].comments = r \o w /\ \A i \in DOMAIN t.tokens : i # n => u.tokens[i].comments = t.tokens[i].comments
  BY <1>3
<1> HIDE DEF r
<1>6. /\ \A l \in DOMAIN r : l \in DOMAIN (r \o w) /\ (r \o w)[l] = r[l]
      /\ \A k \in DOMAIN w : Len(r) + k \in DOMAIN (r \o w) /\ (r \o w)[Len(r) + k] = w[k]
      /\ \A l \in DOMAIN (r \o w) :
              \/ l \in DOMAIN r
              \/ l > Len(r) /\ l - Len(r) \in DOMAIN w /\ (r \o w)[l] = w[l - Len(r)]
  BY <1>2, <1>4, JoinedSequence DEF w
<1>7. ASSUME NEW c, NEW i, NEW l, Hangs(t, c, i, l) PROVE Hangs(u, c, i, l)
  <2>1. CASE i = n
    BY <1>3, <1>5, <1>6, <1>7, <2>1 DEF Hangs, r
  <2>2. CASE i # n
    BY <1>3, <1>5, <1>7, <2>2 DEF Hangs
  <2> QED BY <2>1, <2>2
<1>8. ASSUME NEW c, NEW i, NEW l, Hangs(u, c, i, l), ~Hangs(t, c, i, l)
      PROVE  i = n /\ \E k \in DOMAIN w : l = Len(r) + k /\ w[k] = c
  <2>1. i = n
    BY <1>3, <1>5, <1>8 DEF Hangs
  <2>2. l \in DOMAIN (r \o w) /\ (r \o w)[l] = c
    BY <1>5, <1>8, <2>1 DEF Hangs
  <2>3. l \notin DOMAIN r
    BY <1>3, <1>6, <1>8, <2>1, <2>2 DEF Hangs, r
  <2>4. l - Len(r) \in DOMAIN w /\ (r \o w)[l] = w[l - Len(r)]
    BY <1>6, <2>2, <2>3
  <2>5. l = Len(r) + (l - Len(r))
    <3>1. l \in Int /\ Len(r) \in Int
      BY <1>2, <1>4, <2>2 DEF w
    <3> QED BY <3>1
  <2> QED BY <2>1, <2>2, <2>4, <2>5
<1>9. ASSUME NEW k \in DOMAIN w PROVE Hangs(u, w[k], n, Len(r) + k)
  BY <1>3, <1>5, <1>6, <1>9 DEF Hangs
<1> QED BY <1>3, <1>7, <1>8, <1>9 DEF n, u, w, r

LEMMA AttachKeeps ==
  ASSUME NEW t \in State, t.tokens # <<>>, NEW p \in Nat, ScanInv(t, p)
  PROVE  ScanInv(Attach(t), p)
<1> DEFINE n == Len(t.tokens)
           m == Len(t.tokens[n].comments)
           u == Attach(t)
<1>1. /\ u.comments = <<>> /\ u.scanned = t.scanned /\ u.frames = t.frames
      /\ DOMAIN u.tokens = DOMAIN t.tokens /\ n \in DOMAIN t.tokens /\ u.tokens # <<>>
      /\ \A i \in DOMAIN t.tokens : u.tokens[i].type = t.tokens[i].type
                                    /\ u.tokens[i].from = t.tokens[i].from /\ u.tokens[i].to = t.tokens[i].to
  BY AttachFields, AttachFacts, ExtendedFacts, StateFields
<1>2. \A c, i, l : Hangs(t, c, i, l) => Hangs(u, c, i, l)
  BY AttachFacts
<1>3. \A c, i, l : Hangs(u, c, i, l) =>
         \/ Hangs(t, c, i, l)
         \/ i = n /\ \E k \in DOMAIN t.comments : l = m + k /\ t.comments[k] = c
  BY AttachFacts
<1>4. \A k \in DOMAIN t.comments : Hangs(u, t.comments[k], n, m + k)
  BY AttachFacts
<1>5. \A i \in DOMAIN t.tokens : i \in Nat /\ i <= n /\ (i > 1 => i - 1 \in DOMAIN t.tokens)
  BY TokenFields, StateFields
<1> HIDE DEF n, m, u
<1>6. \A i : CommandString(u, i) <=> CommandString(t, i)
  BY <1>1, <1>5 DEF CommandString
<1>7. \A x : InText(u, x) <=> InText(t, x)
  BY <1>1, <1>6 DEF InText
<1>8. \A c : Outside(u, c) <=> Outside(t, c)
  BY <1>1, <1>7 DEF Outside
<1>9. TextInv(u, p)
  <2>1. Ordered(u, p)
    BY <1>1 DEF ScanInv, TextInv, Ordered
  <2>2. Covered(u, p)
    BY <1>1 DEF ScanInv, TextInv, Covered
  <2>3. SpansApart(u, p)
    BY <1>1 DEF ScanInv, TextInv, SpansApart
  <2>4. OffTexts(u)
    BY <1>1, <1>6 DEF ScanInv, TextInv, OffTexts
  <2> QED BY <2>1, <2>2, <2>3, <2>4 DEF TextInv
<1>10. \A k \in DOMAIN t.comments :
         /\ t.comments[k] \in t.scanned
         /\ \A i \in DOMAIN t.tokens : t.tokens[i].to < t.comments[k][1]
         /\ \A l \in DOMAIN t.frames : t.frames[l].start < t.comments[k][1]
  BY DEF ScanInv, CommentInv, WaitingInv
<1>11. FramesInv(u, p)
  <2>1. ASSUME NEW k \in DOMAIN t.frames, NEW j \in DOMAIN t.tokens, j > t.frames[k].tokens,
               NEW l \in DOMAIN u.tokens[j].comments
        PROVE  t.frames[k].start < u.tokens[j].comments[l][1]
    <3> DEFINE c == u.tokens[j].comments[l]
    <3>1. Hangs(u, c, j, l)
      BY <1>1 DEF Hangs
    <3>2. CASE Hangs(t, c, j, l)
      BY <2>1, <3>2 DEF Hangs, ScanInv, FramesInv
    <3>3. CASE \E q \in DOMAIN t.comments : t.comments[q] = c
      BY <1>10, <3>3
    <3> HIDE DEF c
    <3> QED BY <1>3, <3>1, <3>2, <3>3
  <2> QED BY <1>1, <2>1 DEF ScanInv, FramesInv
<1>12. WaitingInv(u)
  BY <1>1 DEF WaitingInv
<1>13. PlacedInv(u)
  <2> SUFFICES ASSUME NEW c \in t.scanned, Outside(t, c)
               PROVE  ~Waits(u, c) /\ HangsOnce(u, c)
    BY <1>1, <1>8 DEF PlacedInv
  <2>1. ~Waits(u, c)
    BY <1>1 DEF Waits
  <2>2. CASE Waits(t, c)
    <3>1. \A i, k : ~Hangs(t, c, i, k)
      BY <2>2 DEF ScanInv, CommentInv, PlacedInv
    <3>2. PICK k \in DOMAIN t.comments : t.comments[k] = c
      BY <2>2 DEF Waits
    <3>3. Hangs(u, c, n, m + k)
      BY <1>4, <3>2
    <3>4. Neighbour(u, c, n)
      <4>1. \A j \in DOMAIN t.tokens : ~(n < j)
        BY <1>1, <1>5
      <4>2. \A j \in DOMAIN t.tokens : t.tokens[j].to < c[1]
        BY <1>10, <3>2
      <4> QED BY <1>1, <4>1, <4>2 DEF Neighbour
    <3>5. ASSUME NEW j, NEW l, Hangs(u, c, j, l) PROVE j = n /\ l = m + k
      <4>1. j = n /\ \E q \in DOMAIN t.comments : l = m + q /\ t.comments[q] = c
        BY <1>3, <3>1, <3>5
      <4>2. PICK q \in DOMAIN t.comments : l = m + q /\ t.comments[q] = c
        BY <4>1
      <4>3. q = k
        BY <3>2, <4>2 DEF ScanInv, CommentInv, WaitingInv
      <4> QED BY <4>1, <4>2, <4>3
    <3> QED BY <2>1, <3>3, <3>4, <3>5 DEF HangsOnce
  <2>3. CASE ~Waits(t, c)
    <3>1. HangsOnce(t, c)
      BY <2>3 DEF ScanInv, CommentInv, PlacedInv
    <3>2. PICK i, k : /\ Hangs(t, c, i, k) /\ Neighbour(t, c, i)
                      /\ \A j, l : Hangs(t, c, j, l) => j = i /\ l = k
      BY <3>1 DEF HangsOnce
    <3>3. Hangs(u, c, i, k)
      BY <1>2, <3>2
    <3>4. Neighbour(u, c, i)
      BY <1>1, <3>2 DEF Neighbour, Hangs
    <3>5. ASSUME NEW j, NEW l, Hangs(u, c, j, l) PROVE j = i /\ l = k
      BY <1>3, <2>3, <3>2, <3>5 DEF Waits
    <3> QED BY <2>1, <3>3, <3>4, <3>5 DEF HangsOnce
  <2> QED BY <2>2, <2>3
<1>14. ASSUME NEW i \in DOMAIN u.tokens, NEW k \in DOMAIN u.tokens[i].comments
       PROVE  u.tokens[i].comments[k] \in u.scanned
  <2> DEFINE c == u.tokens[i].comments[k]
  <2>1. Hangs(u, c, i, k)
    BY DEF Hangs
  <2>2. CASE Hangs(t, c, i, k)
    BY <1>1, <2>2 DEF Hangs, ScanInv, CommentInv
  <2>3. CASE \E q \in DOMAIN t.comments : t.comments[q] = c
    BY <1>1, <1>10, <2>3
  <2> HIDE DEF c
  <2> QED BY <1>3, <2>1, <2>2, <2>3 DEF c
<1> QED BY <1>9, <1>11, <1>12, <1>13, <1>14 DEF ScanInv, CommentInv, u

(* A token that stands behind the others, and what comments it then has.   *)
LEMMA AppendFacts ==
  ASSUME NEW t \in State, NEW u \in State, NEW new \in Token,
         u.tokens = Append(t.tokens, new), new.comments = t.comments
  PROVE  /\ DOMAIN u.tokens = DOMAIN t.tokens \union {Len(t.tokens) + 1}
         /\ Len(t.tokens) \in Nat /\ u.tokens # <<>>
         /\ \A i \in DOMAIN t.tokens : i \in Nat /\ i >= 1 /\ i < Len(t.tokens) + 1
         /\ \A i \in DOMAIN t.tokens : u.tokens[i] = t.tokens[i]
         /\ u.tokens[Len(t.tokens) + 1] = new
         /\ \A c, i, l : Hangs(t, c, i, l) => Hangs(u, c, i, l)
         /\ \A c, i, l : Hangs(u, c, i, l) =>
              Hangs(t, c, i, l) \/ (i = Len(t.tokens) + 1 /\ l \in DOMAIN t.comments /\ t.comments[l] = c)
         /\ \A k \in DOMAIN t.comments : Hangs(u, t.comments[k], Len(t.tokens) + 1, k)
<1> DEFINE n == Len(t.tokens) + 1
<1>1. t.tokens \in Seq(Token)
  BY StateFields
<1>2. /\ DOMAIN u.tokens = DOMAIN t.tokens \union {n} /\ Len(t.tokens) \in Nat /\ u.tokens # <<>>
      /\ \A i \in DOMAIN t.tokens : i \in Nat /\ i >= 1 /\ i < n
      /\ \A i \in DOMAIN t.tokens : u.tokens[i] = t.tokens[i]
      /\ u.tokens[n] = new
  BY <1>1
<1> HIDE DEF n
<1>3. \A i \in DOMAIN t.tokens : i # n
  BY <1>2 DEF n
<1>4. \A c, i, l : Hangs(t, c, i, l) => Hangs(u, c, i, l)
  BY <1>2 DEF Hangs
<1>5. \A c, i, l : Hangs(u, c, i, l) =>
        Hangs(t, c, i, l) \/ (i = n /\ l \in DOMAIN t.comments /\ t.comments[l] = c)
  BY <1>2 DEF Hangs
<1>6. \A k \in DOMAIN t.comments : Hangs(u, t.comments[k], n, k)
  BY <1>2 DEF Hangs
<1> QED BY <1>2, <1>4, <1>5, <1>6 DEF n

LEMMA AddOneKeeps ==
  ASSUME NEW t \in State, NEW p \in Nat, ScanInv(t, p), NEW e \in Nat, p <= e, NEW type \in TokenTypes,
         NEW from \in Nat, NEW to \in Nat, to <= e, type \in Commands => t.current = e,
         \A q \in (p + 1)..e : At(q) \in Spaces \/ q \in from..to,
         \A i \in DOMAIN t.tokens : t.tokens[i].to < from,
         \A k \in DOMAIN t.frames : t.frames[k].start < from,
         \A c \in t.scanned : c[2] < from \/ (type = "HINT" /\ Waits(t, c)),
         ~(t.comments # <<>> /\ type = "SEMICOLON" /\ t.tokens # <<>>)
  PROVE  ScanInv(Added(t, type, from, to), e)
<1> DEFINE n == Len(t.tokens) + 1
           u == Added(t, type, from, to)
           new == NewToken(t, type, from, to)
<1>1. /\ u \in State /\ u.tokens = Append(t.tokens, new) /\ u.comments = <<>> /\ u.scanned = t.scanned
      /\ \/ u.frames = t.frames
         \/ type \in Commands /\ u.frames = Append(t.frames, NewFrame(t))
  <2>1. AddedTo(u, t, type, from, to)
    BY AddedIs, Zenon
  <2> HIDE DEF u
  <2> QED BY <2>1 DEF AddedTo
<1>2. /\ new \in Token /\ new.comments = t.comments /\ new.type = type /\ new.from = from /\ new.to = to
  BY StateFields DEF NewToken, Token
<1> HIDE DEF u, new
<1>3. /\ DOMAIN u.tokens = DOMAIN t.tokens \union {n} /\ u.tokens # <<>>
      /\ \A i \in DOMAIN t.tokens : i \in Nat /\ i >= 1 /\ i < n
      /\ \A i \in DOMAIN t.tokens : u.tokens[i] = t.tokens[i]
      /\ u.tokens[n] = new
      /\ \A c, i, l : Hangs(t, c, i, l) => Hangs(u, c, i, l)
      /\ \A c, i, l : Hangs(u, c, i, l) =>
           Hangs(t, c, i, l) \/ (i = n /\ l \in DOMAIN t.comments /\ t.comments[l] = c)
      /\ \A k \in DOMAIN t.comments : Hangs(u, t.comments[k], n, k)
  BY <1>1, <1>2, AppendFacts, SMTT(60)
<1>4. /\ \A i \in DOMAIN t.tokens : t.tokens[i].from \in Nat /\ t.tokens[i].to \in Nat
                                   /\ (i > 1 => i - 1 \in DOMAIN t.tokens)
      /\ \A c \in t.scanned : c[1] \in Nat /\ c[2] \in Nat
      /\ \A k \in DOMAIN t.frames : t.frames[k].start \in Nat /\ t.frames[k].tokens \in Nat
  BY TokenFields, SpanFields, FrameFields, StateFields
<1>5. n \in Nat /\ ~(n < n) /\ n >= 1 /\ (n > 1 => n - 1 \in DOMAIN t.tokens)
  BY StateFields
<1> HIDE DEF n
<1>6. \A i \in DOMAIN t.tokens : CommandString(u, i) <=> CommandString(t, i)
  BY <1>3, <1>4 DEF CommandString
<1>7. \A c \in t.scanned : CommandString(u, n) => c[2] < from
  BY <1>2, <1>3 DEF CommandString
<1>8. SpansApart(t, p) /\ Ordered(t, p) /\ Covered(t, p) /\ OffTexts(t)
  BY DEF ScanInv, TextInv
<1>9. \A c \in t.scanned : 1 <= c[1] /\ c[1] <= c[2] /\ c[2] <= p
  BY <1>8 DEF SpansApart
<1>10. \A c \in t.scanned : InText(t, c[1]) => InText(u, c[1])
  BY <1>3, <1>6 DEF InText
<1>11. FramesInv(t, p) /\ WaitingInv(t) /\ PlacedInv(t)
       /\ \A i \in DOMAIN t.tokens : \A k \in DOMAIN t.tokens[i].comments : t.tokens[i].comments[k] \in t.scanned
  BY DEF ScanInv, CommentInv
<1>12. \A k \in DOMAIN t.comments :
         /\ t.comments[k] \in t.scanned
         /\ \A i \in DOMAIN t.tokens : t.tokens[i].to < t.comments[k][1]
         /\ \A l \in DOMAIN t.frames : t.frames[l].start < t.comments[k][1]
  BY <1>11 DEF WaitingInv
<1>13. TextInv(u, e)
  <2>1. Ordered(u, e)
    <3>1. \A i \in DOMAIN u.tokens : u.tokens[i].to <= e
      BY <1>2, <1>3, <1>4, <1>8 DEF Ordered
    <3>2. \A i, j \in DOMAIN u.tokens : i < j => u.tokens[i].to < u.tokens[j].from
      BY <1>2, <1>3, <1>5, <1>8 DEF Ordered
    <3> QED BY <3>1, <3>2 DEF Ordered
  <2>2. Covered(u, e)
    <3> SUFFICES ASSUME NEW q \in 1..e, At(q) \notin Spaces
                 PROVE  \/ \E i \in DOMAIN u.tokens : q \in u.tokens[i].from..u.tokens[i].to
                        \/ \E c \in u.scanned : q \in c[1]..c[2]
      BY DEF Covered
    <3>1. CASE q <= p
      <4>1. \/ \E i \in DOMAIN t.tokens : q \in t.tokens[i].from..t.tokens[i].to
            \/ \E c \in t.scanned : q \in c[1]..c[2]
        BY <1>8, <3>1 DEF Covered
      <4> QED BY <1>1, <1>3, <4>1
    <3>2. CASE ~(q <= p)
      <4>1. q \in (p + 1)..e
        BY <3>2
      <4>2. q \in from..to
        BY <4>1
      <4> QED BY <1>2, <1>3, <4>2
    <3> QED BY <3>1, <3>2
  <2>3. SpansApart(u, e)
    <3>1. \A c \in t.scanned : c[2] <= e
      BY <1>4, <1>9
    <3> QED BY <1>1, <1>8, <3>1 DEF SpansApart
  <2>4. OffTexts(u)
    <3> SUFFICES ASSUME NEW c \in t.scanned, NEW i \in DOMAIN u.tokens
                 PROVE  \/ c[2] < u.tokens[i].from \/ u.tokens[i].to < c[1]
                        \/ CommandString(u, i) \/ u.tokens[i].type = "HINT"
      BY <1>1 DEF OffTexts
    <3>1. CASE i \in DOMAIN t.tokens
      BY <1>3, <1>6, <1>8, <3>1 DEF OffTexts
    <3>2. CASE i = n
      BY <1>2, <1>3, <3>2
    <3> QED BY <1>3, <3>1, <3>2
  <2> QED BY <2>1, <2>2, <2>3, <2>4 DEF TextInv
<1>14. FramesInv(u, e)
  <2>1. ASSUME NEW k \in DOMAIN t.frames
        PROVE  /\ t.frames[k].tokens \in DOMAIN u.tokens /\ t.frames[k].start <= e
               /\ u.tokens[t.frames[k].tokens].type \in Commands
               /\ \A j \in DOMAIN u.tokens : j <= t.frames[k].tokens => u.tokens[j].to <= t.frames[k].start
               /\ \A j \in DOMAIN u.tokens : j > t.frames[k].tokens =>
                    /\ t.frames[k].start < u.tokens[j].from
                    /\ \A l \in DOMAIN u.tokens[j].comments : t.frames[k].start < u.tokens[j].comments[l][1]
               /\ \A c \in t.scanned : c[1] <= t.frames[k].start => c[2] <= t.frames[k].start
    <3>1. /\ t.frames[k].tokens \in DOMAIN t.tokens /\ t.frames[k].start <= p
          /\ t.tokens[t.frames[k].tokens].type \in Commands
          /\ \A j \in DOMAIN t.tokens : j <= t.frames[k].tokens => t.tokens[j].to <= t.frames[k].start
          /\ \A j \in DOMAIN t.tokens : j > t.frames[k].tokens =>
               /\ t.frames[k].start < t.tokens[j].from
               /\ \A l \in DOMAIN t.tokens[j].comments : t.frames[k].start < t.tokens[j].comments[l][1]
          /\ \A c \in t.scanned : c[1] <= t.frames[k].start => c[2] <= t.frames[k].start
      BY <1>11 DEF FramesInv
    <3>2. t.frames[k].start <= e
      BY <1>4, <3>1
    <3>3. ~(n <= t.frames[k].tokens)
      BY <1>3, <1>4, <1>5, <3>1
    <3>4. \A j \in DOMAIN u.tokens : j <= t.frames[k].tokens => u.tokens[j].to <= t.frames[k].start
      BY <1>3, <3>1, <3>3
    <3>5. \A j \in DOMAIN u.tokens : j > t.frames[k].tokens =>
            /\ t.frames[k].start < u.tokens[j].from
            /\ \A l \in DOMAIN u.tokens[j].comments : t.frames[k].start < u.tokens[j].comments[l][1]
      BY <1>2, <1>3, <1>12, <3>1
    <3> QED BY <1>3, <3>1, <3>2, <3>4, <3>5
  <2>2. \A k, l \in DOMAIN t.frames :
          k <= l => t.frames[k].tokens <= t.frames[l].tokens /\ t.frames[k].start <= t.frames[l].start
    BY <1>11 DEF FramesInv
  <2>3. CASE u.frames = t.frames
    BY <1>1, <2>1, <2>2, <2>3 DEF FramesInv
  <2>4. CASE type \in Commands /\ u.frames = Append(t.frames, NewFrame(t))
    <3> DEFINE m == Len(t.frames) + 1
               frame == NewFrame(t)
    <3>1. frame.start = e /\ frame.tokens = n
      BY <2>4 DEF NewFrame, n
    <3>2. /\ DOMAIN u.frames = DOMAIN t.frames \union {m} /\ u.frames[m] = frame
          /\ \A k \in DOMAIN t.frames : u.frames[k] = t.frames[k] /\ k < m /\ k \in Nat
          /\ m \in Nat
      BY <2>4, StateFields
    <3> HIDE DEF m, frame
    <3>3. /\ \A j \in DOMAIN u.tokens : j <= n => u.tokens[j].to <= e
          /\ \A j \in DOMAIN u.tokens : ~(j > n)
          /\ \A c \in t.scanned : c[2] <= e
      <4>1. \A j \in DOMAIN u.tokens : ~(j > n)
        BY <1>3, <1>5
      <4>2. \A j \in DOMAIN u.tokens : u.tokens[j].to <= e
        BY <1>13 DEF TextInv, Ordered
      <4>3. \A c \in t.scanned : c[2] <= e
        BY <1>1, <1>13 DEF TextInv, SpansApart
      <4> QED BY <4>1, <4>2, <4>3
    <3>4. \A k \in DOMAIN u.frames :
            /\ u.frames[k].tokens \in DOMAIN u.tokens /\ u.frames[k].start <= e
            /\ u.tokens[u.frames[k].tokens].type \in Commands
            /\ \A j \in DOMAIN u.tokens : j <= u.frames[k].tokens => u.tokens[j].to <= u.frames[k].start
            /\ \A j \in DOMAIN u.tokens : j > u.frames[k].tokens =>
                 /\ u.frames[k].start < u.tokens[j].from
                 /\ \A l \in DOMAIN u.tokens[j].comments : u.frames[k].start < u.tokens[j].comments[l][1]
            /\ \A c \in t.scanned : c[1] <= u.frames[k].start => c[2] <= u.frames[k].start
      <4> TAKE k \in DOMAIN u.frames
      <4>1. CASE k \in DOMAIN t.frames
        BY <2>1, <3>2, <4>1
      <4>2. CASE k = m
        <5>1. u.frames[k].start = e /\ u.frames[k].tokens = n
          BY <3>1, <3>2, <4>2
        <5>2. u.tokens[n].type \in Commands /\ n \in DOMAIN u.tokens /\ e <= e
          BY <1>2, <1>3, <2>4
        <5> QED BY <3>3, <5>1, <5>2
      <4> QED BY <3>2, <4>1, <4>2
    <3>5. \A k, l \in DOMAIN u.frames :
            k <= l => u.frames[k].tokens <= u.frames[l].tokens /\ u.frames[k].start <= u.frames[l].start
      <4> TAKE k, l \in DOMAIN u.frames
      <4> HAVE k <= l
      <4>1. CASE l \in DOMAIN t.frames
        <5>1. k \in DOMAIN t.frames
          BY <3>2, <4>1
        <5> QED BY <2>2, <3>2, <4>1, <5>1
      <4>2. CASE l = m /\ k \in DOMAIN t.frames
        <5>1. t.frames[k].tokens \in DOMAIN t.tokens
          BY <1>11, <4>2 DEF FramesInv
        <5>2. t.frames[k].tokens <= n
          BY <1>3, <1>5, <5>1
        <5> QED BY <2>1, <3>1, <3>2, <4>2, <5>2
      <4>3. CASE l = m /\ k = m
        BY <1>5, <3>1, <3>2, <4>3
      <4> QED BY <3>2, <4>1, <4>2, <4>3
    <3> QED BY <1>1, <3>4, <3>5 DEF FramesInv
  <2> QED BY <1>1, <2>3, <2>4
<1>15. WaitingInv(u)
  BY <1>1, <1>3 DEF WaitingInv
<1>16. PlacedInv(u)
  <2> SUFFICES ASSUME NEW c \in t.scanned, Outside(u, c)
               PROVE  ~Waits(u, c) /\ HangsOnce(u, c)
    BY <1>1 DEF PlacedInv
  <2>1. ~Waits(u, c)
    BY <1>1 DEF Waits
  <2>2. Outside(t, c)
    <3>1. t.frames # <<>> => u.frames # <<>> /\ u.frames[1] = t.frames[1]
      <4>1. t.frames \in Seq(Frame)
        BY StateFields
      <4>2. CASE u.frames = t.frames
        BY <4>2
      <4>3. CASE u.frames = Append(t.frames, NewFrame(t))
        BY <4>1, <4>3
      <4> QED BY <1>1, <4>2, <4>3
    <3> QED BY <1>10, <3>1 DEF Outside
  <2>3. CASE Waits(t, c)
    <3>1. \A i, k : ~Hangs(t, c, i, k)
      BY <1>11, <2>2, <2>3 DEF PlacedInv
    <3>2. PICK k \in DOMAIN t.comments : t.comments[k] = c
      BY <2>3 DEF Waits
    <3>3. Hangs(u, c, n, k)
      BY <1>3, <3>2
    <3>4. Neighbour(u, c, n)
      <4>1. \A j \in DOMAIN u.tokens : ~(n < j)
        BY <1>3, <1>5
      <4>2. \A j \in DOMAIN t.tokens : t.tokens[j].to < c[1]
        BY <1>12, <3>2
      <4>3. \A j \in DOMAIN u.tokens : j < n => u.tokens[j].to < c[1]
        BY <1>3, <1>5, <4>2
      <4> QED BY <4>1, <4>3 DEF Neighbour
    <3>5. ASSUME NEW j, NEW l, Hangs(u, c, j, l) PROVE j = n /\ l = k
      <4>1. j = n /\ l \in DOMAIN t.comments /\ t.comments[l] = c
        BY <1>3, <3>1, <3>5
      <4>2. l = k
        BY <1>11, <3>2, <4>1 DEF WaitingInv
      <4> QED BY <4>1, <4>2
    <3> QED BY <2>1, <3>3, <3>4, <3>5 DEF HangsOnce
  <2>4. CASE ~Waits(t, c)
    <3>1. HangsOnce(t, c)
      BY <1>11, <2>2, <2>4 DEF PlacedInv
    <3>2. PICK i, k : /\ Hangs(t, c, i, k) /\ Neighbour(t, c, i)
                      /\ \A j, l : Hangs(t, c, j, l) => j = i /\ l = k
      BY <3>1 DEF HangsOnce
    <3>3. Hangs(u, c, i, k) /\ i \in DOMAIN t.tokens
      BY <1>3, <3>2 DEF Hangs
    <3>4. c[2] < from
      BY <2>4
    <3>5. Neighbour(u, c, i)
      <4>1. u.tokens[i].to < c[1] => \A j \in DOMAIN u.tokens : i < j => c[2] < u.tokens[j].from
        BY <1>2, <1>3, <3>2, <3>3, <3>4 DEF Neighbour
      <4>2. ~(n < i)
        BY <1>3, <1>5, <3>3
      <4>3. c[2] < u.tokens[i].from => \A j \in DOMAIN u.tokens : j < i => u.tokens[j].to < c[1]
        BY <1>3, <3>2, <3>3, <4>2 DEF Neighbour
      <4> QED BY <4>1, <4>3 DEF Neighbour
    <3>6. ASSUME NEW j, NEW l, Hangs(u, c, j, l) PROVE j = i /\ l = k
      BY <1>3, <2>4, <3>2, <3>6 DEF Waits
    <3> QED BY <2>1, <3>3, <3>5, <3>6 DEF HangsOnce
  <2> QED BY <2>3, <2>4
<1>17. ASSUME NEW i \in DOMAIN u.tokens, NEW k \in DOMAIN u.tokens[i].comments
       PROVE  u.tokens[i].comments[k] \in u.scanned
  <2>1. CASE i \in DOMAIN t.tokens
    BY <1>1, <1>3, <1>11, <2>1
  <2>2. CASE i = n
    BY <1>1, <1>2, <1>3, <1>12, <2>2
  <2> QED BY <1>3, <2>1, <2>2
<1> QED BY <1>13, <1>14, <1>15, <1>16, <1>17 DEF ScanInv, CommentInv, u

(* Another token, or the comments that wait go to the last one: only the   *)
(* cursor is as before.                                                    *)
Grown(u, t) ==
  /\ u \in State /\ u.tokens # <<>> /\ u.comments = <<>> /\ u.prev_token_line \in Nat
  /\ u.current = t.current /\ u.start = t.start /\ u.line = t.line /\ u.status = t.status

(* A token is added behind the text that has been dealt with.              *)
LEMMA AddKeeps ==
  ASSUME NEW t \in State, NEW p \in Nat, ScanInv(t, p), NEW e \in Nat, p <= e, NEW type \in TokenTypes,
         NEW from \in Nat, NEW to \in Nat, to <= e, type \in Commands => t.current = e,
         \A q \in (p + 1)..e : At(q) \in Spaces \/ q \in from..to,
         \A i \in DOMAIN t.tokens : t.tokens[i].to < from,
         \A k \in DOMAIN t.frames : t.frames[k].start < from,
         \A c \in t.scanned : c[2] < from \/ (type = "HINT" /\ Waits(t, c))
  PROVE  ScanInv(Added(t, type, from, to), e) /\ Grown(Added(t, type, from, to), t)
<1> DEFINE u == Added(t, type, from, to)
<1>1. CASE ~(t.comments # <<>> /\ type = "SEMICOLON" /\ t.tokens # <<>>)
  <2>1. ScanInv(u, e)
    BY <1>1, AddOneKeeps
  <2>2. /\ u \in State /\ u.tokens = Append(t.tokens, NewToken(t, type, from, to)) /\ u.comments = <<>>
        /\ u.current = t.current /\ u.start = t.start /\ u.line = t.line /\ u.status = t.status
        /\ u.prev_token_line = t.line
    BY <1>1, AddedFields
  <2> HIDE DEF u
  <2>3. u.tokens # <<>> /\ t.line \in Nat
    <3>1. t.tokens \in Seq(Token) /\ t.line \in Nat
      BY StateFields
    <3>2. \A new : Append(t.tokens, new) # <<>>
      BY <3>1
    <3> QED BY <2>2, <3>1, <3>2
  <2> QED BY <2>1, <2>2, <2>3 DEF Grown, u
<1>2. CASE t.comments # <<>> /\ type = "SEMICOLON" /\ t.tokens # <<>>
  <2> DEFINE a == Attach(t)
  <2>1. u = Added(a, type, from, to)
    BY <1>2, AddedAttaches
  <2>2. /\ a \in State /\ a.comments = <<>> /\ a.scanned = t.scanned /\ a.frames = t.frames
        /\ a.current = t.current /\ a.status = t.status /\ a.start = t.start /\ a.line = t.line
    BY <1>2, AttachFields
  <2>3. DOMAIN a.tokens = DOMAIN t.tokens /\ \A i \in DOMAIN t.tokens : a.tokens[i].to = t.tokens[i].to
    BY <1>2, AttachFacts
  <2>4. ScanInv(a, p)
    BY <1>2, AttachKeeps
  <2>5. \A c \in t.scanned : c[2] < from
    BY <1>2
  <2> HIDE DEF a
  <2>6. /\ \A i \in DOMAIN a.tokens : a.tokens[i].to < from
        /\ \A k \in DOMAIN a.frames : a.frames[k].start < from
        /\ \A c \in a.scanned : c[2] < from \/ (type = "HINT" /\ Waits(a, c))
        /\ type \in Commands => a.current = e
        /\ ~(a.comments # <<>> /\ type = "SEMICOLON" /\ a.tokens # <<>>)
    BY <2>2, <2>3, <2>5
  <2>7. ScanInv(u, e)
    BY <2>1, <2>2, <2>4, <2>6, AddOneKeeps
  <2>8. /\ u \in State /\ u.tokens = Append(a.tokens, NewToken(a, type, from, to)) /\ u.comments = <<>>
        /\ u.current = a.current /\ u.start = a.start /\ u.line = a.line /\ u.status = a.status
        /\ u.prev_token_line = a.line
    BY <2>1, <2>2, AddedFields
  <2>9. u.tokens # <<>> /\ a.line \in Nat
    <3>1. a.tokens \in Seq(Token) /\ a.line \in Nat
      BY <2>2, StateFields
    <3>2. \A r \in Seq(Token) : \A x : Append(r, x) # <<>>
      OBVIOUS
    <3> HIDE DEF u, a
    <3> QED BY <2>8, <3>1, <3>2
  <2> QED BY <2>2, <2>7, <2>8, <2>9 DEF Grown
<1> QED BY <1>1, <1>2

(* What a turn of _scan works on: a character that is no space has been    *)
(* read, and the text before it dealt with.                                *)
Begun(t) ==
  /\ t \in State /\ t.status = "scan" /\ t.start >= 1 /\ t.start <= t.current
  /\ At(t.start) \notin Spaces /\ ScanInv(t, t.start - 1)

(* What it leaves.                                                         *)
Kept(t) == t \in State /\ t.status \in {"scan", "error"} /\ (t.status = "scan" => ScanInv(t, t.current))

(* A token behind all that has been dealt with.                            *)
LEMMA AddBehind ==
  ASSUME NEW t \in State, NEW p \in Nat, ScanInv(t, p), NEW e \in Nat, p <= e, NEW type \in TokenTypes,
         NEW from \in Nat, NEW to \in Nat, p < from, to <= e, type \in Commands => t.current = e,
         \A q \in (p + 1)..e : At(q) \in Spaces \/ q \in from..to
  PROVE  ScanInv(Added(t, type, from, to), e) /\ Grown(Added(t, type, from, to), t)
<1>1. \A i \in DOMAIN t.tokens : t.tokens[i].to < from
  <2>1. \A i \in DOMAIN t.tokens : t.tokens[i].to \in Nat /\ t.tokens[i].to <= p
    BY TokenFields DEF ScanInv, TextInv, Ordered
  <2> QED BY <2>1
<1>2. \A k \in DOMAIN t.frames : t.frames[k].start < from
  <2>1. \A k \in DOMAIN t.frames : t.frames[k].start \in Nat /\ t.frames[k].start <= p
    BY FrameFields DEF ScanInv, FramesInv
  <2> QED BY <2>1
<1>3. \A c \in t.scanned : c[2] < from
  <2>1. \A c \in t.scanned : c[2] \in Nat /\ c[2] <= p
    BY SpanFields DEF ScanInv, TextInv, SpansApart
  <2> QED BY <2>1
<1> QED BY <1>1, <1>2, <1>3, AddKeeps

(* What the invariant is about does not differ.                            *)
SameTokens(u, t) ==
  /\ u.comments = t.comments /\ u.tokens = t.tokens /\ u.frames = t.frames /\ u.scanned = t.scanned
  /\ t.tokens = <<>> => u.prev_token_line = t.prev_token_line

LEMMA SameKeeps ==
  ASSUME NEW t \in State, NEW u, SameTokens(u, t), NEW p, ScanInv(t, p)
  PROVE  ScanInv(u, p)
<1>1. \A i : CommandString(u, i) <=> CommandString(t, i)
  BY DEF SameTokens, CommandString
<1>2. \A x : InText(u, x) <=> InText(t, x)
  BY <1>1 DEF SameTokens, InText
<1>3. \A c : Outside(u, c) <=> Outside(t, c)
  BY <1>2 DEF SameTokens, Outside
<1>4. \A c, i, k : Hangs(u, c, i, k) <=> Hangs(t, c, i, k)
  BY DEF SameTokens, Hangs
<1>5. \A c : (Waits(u, c) <=> Waits(t, c)) /\ (HangsOnce(t, c) => HangsOnce(u, c))
  BY <1>4 DEF SameTokens, Waits, HangsOnce, Neighbour
<1>6. TextInv(u, p)
  BY <1>1 DEF SameTokens, ScanInv, TextInv, Ordered, Covered, SpansApart, OffTexts
<1>7. FramesInv(u, p)
  BY DEF SameTokens, ScanInv, FramesInv
<1>8. CommentInv(u)
  <2>1. WaitingInv(u)
    BY DEF SameTokens, ScanInv, CommentInv, WaitingInv
  <2>2. PlacedInv(u)
    BY <1>3, <1>4, <1>5 DEF SameTokens, ScanInv, CommentInv, PlacedInv
  <2> QED BY <2>1, <2>2 DEF SameTokens, ScanInv, CommentInv
<1> QED BY <1>6, <1>7, <1>8 DEF ScanInv

LEMMA MovedKeeps ==
  ASSUME NEW t \in State, NEW u, Moved(u, t), NEW p, ScanInv(t, p)
  PROVE  ScanInv(u, p)
BY SameKeeps DEF Moved, SameTokens

LEMMA MovedBegun ==
  ASSUME NEW t, Begun(t), NEW u, Moved(u, t), t.start <= u.current
  PROVE  Begun(u)
BY MovedKeeps DEF Begun, Moved

(* The token of a turn that takes all that has been read.                  *)
LEMMA ScanAdds ==
  ASSUME NEW t, Begun(t), NEW type \in TokenTypes
  PROVE  Kept(Added(t, type, t.start, t.current))
<1> DEFINE u == Added(t, type, t.start, t.current)
<1>1. t \in State /\ t.start - 1 \in Nat /\ t.current \in Nat /\ t.start \in Nat
  BY StateFields DEF Begun
<1>2. t.start - 1 <= t.current /\ t.start - 1 < t.start /\ ScanInv(t, t.start - 1) /\ t.current <= t.current
  BY <1>1 DEF Begun
<1>3. \A q \in (t.start - 1 + 1)..t.current : q \in t.start..t.current
  BY <1>1
<1>4. ScanInv(u, t.current) /\ Grown(u, t)
  BY <1>1, <1>2, <1>3, AddBehind
<1> HIDE DEF u
<1> QED BY <1>4 DEF Kept, Grown, Begun, u

(* A comment behind all that has been dealt with waits.                    *)
WaitsFor(t, c) == [t EXCEPT !.comments = Append(@, c), !.scanned = @ \union {c}]

LEMMA CommentWaits ==
  ASSUME NEW t, Begun(t)
  PROVE  /\ ScanInv(WaitsFor(t, <<t.start, t.current>>), t.current)
         /\ WaitsFor(t, <<t.start, t.current>>) \in State
         /\ WaitsFor(t, <<t.start, t.current>>).comments = Append(t.comments, <<t.start, t.current>>)
         /\ WaitsFor(t, <<t.start, t.current>>).scanned = t.scanned \union {<<t.start, t.current>>}
         /\ WaitsFor(t, <<t.start, t.current>>).start = t.start
         /\ WaitsFor(t, <<t.start, t.current>>).current = t.current
         /\ WaitsFor(t, <<t.start, t.current>>).line = t.line
         /\ WaitsFor(t, <<t.start, t.current>>).status = t.status
         /\ WaitsFor(t, <<t.start, t.current>>).tokens = t.tokens
         /\ WaitsFor(t, <<t.start, t.current>>).frames = t.frames
         /\ WaitsFor(t, <<t.start, t.current>>).prev_token_line = t.prev_token_line
<1> DEFINE c == <<t.start, t.current>>
           u == WaitsFor(t, c)
           p == t.start - 1
           e == t.current
           m == Len(t.comments) + 1
<1>1. t \in State /\ p \in Nat /\ e \in Nat /\ t.start \in Nat /\ p < t.start /\ t.start <= e
      /\ t.comments \in Seq(Span) /\ t.scanned \in SUBSET Span
  BY StateFields DEF Begun
<1>2. c \in Span /\ c[1] = t.start /\ c[2] = e
  BY <1>1 DEF Span
<1> HIDE DEF c
<1>3. /\ u \in State /\ u.comments = Append(t.comments, c) /\ u.scanned = t.scanned \union {c}
      /\ u.start = t.start /\ u.current = t.current /\ u.line = t.line /\ u.status = t.status
      /\ u.tokens = t.tokens /\ u.frames = t.frames /\ u.prev_token_line = t.prev_token_line
  <2> DEFINE comments == Append(t.comments, c)
             scanned == t.scanned \union {c}
  <2>1. comments \in Seq(Span) /\ scanned \in SUBSET Span
    BY <1>1, <1>2
  <2> HIDE DEF comments, scanned
  <2>2. u = [t EXCEPT !.comments = comments, !.scanned = scanned]
    BY DEF WaitsFor, comments, scanned
  <2>3. /\ u \in State /\ u.comments = comments /\ u.scanned = scanned
        /\ u.start = t.start /\ u.current = t.current /\ u.line = t.line /\ u.status = t.status
        /\ u.tokens = t.tokens /\ u.frames = t.frames /\ u.prev_token_line = t.prev_token_line
    BY <1>1, <2>1, <2>2 DEF State
  <2> QED BY <2>3 DEF comments, scanned
<1>4. /\ DOMAIN u.comments = DOMAIN t.comments \union {m} /\ u.comments[m] = c
      /\ \A k \in DOMAIN t.comments : u.comments[k] = t.comments[k] /\ k # m
  BY <1>1, <1>2, <1>3
<1>5. ScanInv(t, p) /\ At(c[1]) \notin Spaces
  BY <1>2 DEF Begun
<1> HIDE DEF u, p, e, m
<1>6. /\ \A d \in t.scanned : d[1] \in Nat /\ d[2] \in Nat /\ d[1] <= d[2] /\ d[2] <= p /\ d[2] < c[1] /\ d # c
      /\ \A i \in DOMAIN t.tokens : t.tokens[i].to < c[1]
      /\ \A k \in DOMAIN t.frames : t.frames[k].start < c[1] /\ t.frames[k].start <= e
  <2>1. \A d \in t.scanned : d[1] \in Nat /\ d[2] \in Nat /\ d[1] <= d[2] /\ d[2] <= p
    BY <1>1, <1>5, SpanFields DEF ScanInv, TextInv, SpansApart
  <2>2. \A d \in t.scanned : d[2] < c[1] /\ d # c
    BY <1>1, <1>2, <2>1
  <2>3. \A i \in DOMAIN t.tokens : t.tokens[i].to \in Nat /\ t.tokens[i].to <= p
    BY <1>1, <1>5, TokenFields DEF ScanInv, TextInv, Ordered
  <2>4. \A k \in DOMAIN t.frames : t.frames[k].start \in Nat /\ t.frames[k].start <= p
    BY <1>1, <1>5, FrameFields DEF ScanInv, FramesInv
  <2>5. \A i \in DOMAIN t.tokens : t.tokens[i].to < c[1]
    BY <1>1, <1>2, <2>3
  <2>6. \A k \in DOMAIN t.frames : t.frames[k].start < c[1] /\ t.frames[k].start <= e
    BY <1>1, <1>2, <2>4
  <2> QED BY <2>1, <2>2, <2>5, <2>6
<1>7. \A i : CommandString(u, i) <=> CommandString(t, i)
  BY <1>3 DEF CommandString
<1>8. \A x : InText(u, x) <=> InText(t, x)
  BY <1>3, <1>7 DEF InText
<1>9. \A d : (Outside(u, d) <=> Outside(t, d)) /\ (HangsOnce(t, d) => HangsOnce(u, d))
  BY <1>3, <1>8 DEF Outside, HangsOnce, Hangs, Neighbour
<1>10. TextInv(u, e)
  <2>1. Ordered(u, e)
    <3>1. \A i \in DOMAIN t.tokens : t.tokens[i].to <= e
      BY <1>1, <1>2, <1>6, TokenFields
    <3> QED BY <1>3, <1>5, <3>1 DEF ScanInv, TextInv, Ordered
  <2>2. Covered(u, e)
    <3> SUFFICES ASSUME NEW q \in 1..e, At(q) \notin Spaces
                 PROVE  \/ \E i \in DOMAIN u.tokens : q \in u.tokens[i].from..u.tokens[i].to
                        \/ \E d \in u.scanned : q \in d[1]..d[2]
      BY DEF Covered
    <3>1. CASE q <= p
      <4>1. q \in 1..p
        BY <1>1, <3>1
      <4> QED BY <1>3, <1>5, <4>1 DEF ScanInv, TextInv, Covered
    <3>2. CASE ~(q <= p)
      <4>1. q \in c[1]..c[2]
        BY <1>1, <1>2, <3>2 DEF p
      <4> QED BY <1>3, <4>1
    <3> QED BY <3>1, <3>2
  <2>3. SpansApart(u, e)
    <3>1. \A d \in t.scanned : 1 <= d[1] /\ d[1] <= d[2] /\ d[2] <= e /\ At(d[1]) \notin Spaces
      BY <1>1, <1>2, <1>5, <1>6 DEF ScanInv, TextInv, SpansApart
    <3>2. 1 <= c[1] /\ c[1] <= c[2] /\ c[2] <= e
      BY <1>1, <1>2 DEF p, e
    <3>3. \A x, y \in t.scanned : x = y \/ x[2] < y[1] \/ y[2] < x[1]
      BY <1>5 DEF ScanInv, TextInv, SpansApart
    <3> QED BY <1>3, <1>5, <1>6, <3>1, <3>2, <3>3 DEF SpansApart
  <2>4. OffTexts(u)
    BY <1>3, <1>5, <1>6, <1>7 DEF ScanInv, TextInv, OffTexts
  <2> QED BY <2>1, <2>2, <2>3, <2>4 DEF TextInv
<1>11. FramesInv(u, e)
  <2>1. \A k \in DOMAIN t.frames : ~(c[1] <= t.frames[k].start)
    BY <1>1, <1>2, <1>6, FrameFields
  <2> QED BY <1>3, <1>5, <1>6, <2>1 DEF ScanInv, FramesInv
<1>12. WaitingInv(u)
  <2>1. \A k \in DOMAIN t.comments : t.comments[k] \in t.scanned
    BY <1>5 DEF ScanInv, CommentInv, WaitingInv
  <2> QED BY <1>3, <1>4, <1>5, <1>6, <2>1 DEF ScanInv, CommentInv, WaitingInv
<1>13. PlacedInv(u)
  <2> SUFFICES ASSUME NEW d \in u.scanned, Outside(u, d)
               PROVE  \/ Waits(u, d) /\ \A i, k : ~Hangs(u, d, i, k)
                      \/ ~Waits(u, d) /\ HangsOnce(u, d)
    BY DEF PlacedInv
  <2>1. CASE d = c
    <3>1. Waits(u, d)
      BY <1>4, <2>1 DEF Waits
    <3>2. \A i, k : ~Hangs(u, d, i, k)
      BY <1>3, <1>5, <1>6, <2>1 DEF Hangs, ScanInv, CommentInv
    <3> QED BY <3>1, <3>2
  <2>2. CASE d # c
    <3>1. d \in t.scanned /\ Outside(t, d)
      BY <1>3, <1>9, <2>2
    <3>2. Waits(u, d) <=> Waits(t, d)
      BY <1>4, <2>2 DEF Waits
    <3>3. \A i, k : Hangs(u, d, i, k) <=> Hangs(t, d, i, k)
      BY <1>3 DEF Hangs
    <3> QED BY <1>5, <1>9, <3>1, <3>2, <3>3 DEF ScanInv, CommentInv, PlacedInv
  <2> QED BY <2>1, <2>2
<1>14. \A i \in DOMAIN u.tokens : \A k \in DOMAIN u.tokens[i].comments : u.tokens[i].comments[k] \in u.scanned
  BY <1>3, <1>5 DEF ScanInv, CommentInv
<1>15. ScanInv(u, e)
  BY <1>10, <1>11, <1>12, <1>13, <1>14 DEF ScanInv, CommentInv
<1> QED BY <1>3, <1>15 DEF u, c, e

LEMMA AttachedKeeps ==
  ASSUME NEW t, NEW p \in Nat, t \in State, ScanInv(t, p), t.status = "scan", t.current = p, NEW line \in Nat
  PROVE  Kept(Attached(t, line))
<1>1. CASE line # t.prev_token_line
  BY <1>1 DEF Attached, Kept
<1>2. CASE line = t.prev_token_line
  <2> DEFINE a == Attach(t)
             u == [a EXCEPT !.prev_token_line = t.line]
  <2>1. t.tokens # <<>>
    BY <1>2 DEF ScanInv, CommentInv, WaitingInv
  <2>2. /\ a \in State /\ a.current = t.current /\ a.status = t.status /\ a.tokens # <<>>
        /\ ScanInv(a, p)
    BY <2>1, AttachFields, AttachKeeps, ExtendedFacts, StateFields
  <2>3. u = Attached(t, line)
    BY <1>2, <2>1 DEF Attach, Attached, State
  <2> HIDE DEF a
  <2>4. t.line \in Int
    BY StateFields
  <2>5. Moved(u, a) /\ u.current = a.current
    BY <2>2, <2>4 DEF Moved, State
  <2> HIDE DEF u
  <2>6. ScanInv(u, p)
    BY <2>2, <2>5, MovedKeeps
  <2> QED BY <2>2, <2>3, <2>5, <2>6 DEF Kept, Moved
<1> QED BY <1>1, <1>2

(* A comment has been read.                                                *)
LEMMA CommentKeeps ==
  ASSUME NEW t, Begun(t), NEW line \in Nat, NEW open, WithComment(t, line, open)
  PROVE  Kept(self')
<1> DEFINE c == <<t.start, t.current>>
           read == WaitsFor(t, c)
           hint == Added(read, "HINT", read.start, read.current)
           e == t.current
<1>1. /\ ScanInv(read, e) /\ read \in State
      /\ read.comments = Append(t.comments, c) /\ read.scanned = t.scanned \union {c}
      /\ read.start = t.start /\ read.current = t.current /\ read.line = t.line /\ read.status = t.status
      /\ read.tokens = t.tokens /\ read.frames = t.frames /\ read.prev_token_line = t.prev_token_line
  BY CommentWaits
<1>2. self' = Attached(hint, line) \/ self' = Attached(read, line)
  BY DEF WithComment, WaitsFor
<1> HIDE DEF read
<1>3. e \in Nat /\ t.start \in Nat /\ t \in State /\ t.status = "scan" /\ t.start <= e
      /\ t.comments \in Seq(Span) /\ ScanInv(t, t.start - 1)
  BY StateFields DEF Begun
<1>4. ScanInv(hint, e) /\ Grown(hint, read)
  <2>1. "HINT" \in TokenTypes /\ "HINT" \notin Commands
    BY CommandsAssumption DEF TokenTypes
  <2>2. \A i \in DOMAIN read.tokens : read.tokens[i].to < t.start
    <3>1. \A i \in DOMAIN t.tokens : t.tokens[i].to \in Nat /\ t.tokens[i].to <= t.start - 1
      BY <1>3, TokenFields DEF ScanInv, TextInv, Ordered
    <3> QED BY <1>1, <1>3, <3>1
  <2>3. \A k \in DOMAIN read.frames : read.frames[k].start < t.start
    <3>1. \A k \in DOMAIN t.frames : t.frames[k].start \in Nat /\ t.frames[k].start <= t.start - 1
      BY <1>3, FrameFields DEF ScanInv, FramesInv
    <3> QED BY <1>1, <1>3, <3>1
  <2>4. \A d \in read.scanned : d[2] < t.start \/ ("HINT" = "HINT" /\ Waits(read, d))
    <3>1. \A d \in t.scanned : d[2] \in Nat /\ d[2] <= t.start - 1
      BY <1>3, SpanFields DEF ScanInv, TextInv, SpansApart
    <3>2. \A d \in t.scanned : d[2] < t.start
      BY <1>3, <3>1
    <3>3. Waits(read, c)
      <4>1. Len(t.comments) + 1 \in DOMAIN read.comments /\ read.comments[Len(t.comments) + 1] = c
        BY <1>1, <1>3
      <4> QED BY <4>1 DEF Waits
    <3> HIDE DEF c
    <3> QED BY <1>1, <3>2, <3>3
  <2>5. \A q \in (e + 1)..e : At(q) \in Spaces \/ q \in t.start..e
    BY <1>3
  <2>6. hint = Added(read, "HINT", t.start, e)
    BY <1>1
  <2> HIDE DEF hint, e
  <2>7. e <= e
    BY <1>3
  <2> QED BY <1>1, <1>3, <2>1, <2>2, <2>3, <2>4, <2>5, <2>6, <2>7, AddKeeps
<1> HIDE DEF hint
<1>5. CASE self' = Attached(hint, line)
  BY <1>1, <1>3, <1>4, <1>5, AttachedKeeps DEF Grown
<1>6. CASE self' = Attached(read, line)
  BY <1>1, <1>3, <1>6, AttachedKeeps
<1> QED BY <1>2, <1>5, <1>6

-----------------------------------------------------------------------------
(* The end of a command, and of the text                                   *)

(* The tokens read for the innermost command go, and what it was read from *)
(* becomes one token: from t, in which the command is token n and has been *)
(* read from after s to p, to u.                                           *)
FramesCut(t, u) ==
  DOMAIN u.frames = 1..(Len(t.frames) - 1) /\ \A k \in DOMAIN u.frames : u.frames[k] = t.frames[k]

HeadKept(t, u, n) ==
  \A i \in 1..n : /\ u.tokens[i].type = t.tokens[i].type /\ u.tokens[i].from = t.tokens[i].from
                  /\ u.tokens[i].to = t.tokens[i].to

HangingKept(t, u, n) ==
  /\ \A c, i, l : i \in 1..n /\ Hangs(t, c, i, l) => Hangs(u, c, i, l)
  /\ \A c, i, l : Hangs(u, c, i, l) => (i \in 1..n /\ Hangs(t, c, i, l)) \/ Waits(t, c)

ReadAgain(u, p, n, s) ==
  /\ n + 1 \in DOMAIN u.tokens => /\ u.tokens[n + 1].type = "STRING"
                                  /\ s < u.tokens[n + 1].from /\ u.tokens[n + 1].to <= p
  /\ \A q \in (s + 1)..p : \/ At(q) \in Spaces
                           \/ n + 1 \in DOMAIN u.tokens /\ q \in u.tokens[n + 1].from..u.tokens[n + 1].to

CutTo(t, u, p, n, s) ==
  /\ t.frames # <<>> /\ n = t.frames[Len(t.frames)].tokens /\ s = t.frames[Len(t.frames)].start
  /\ u.comments = <<>> /\ u.scanned = t.scanned
  /\ DOMAIN u.tokens = 1..n \/ DOMAIN u.tokens = 1..(n + 1)
  /\ FramesCut(t, u) /\ HeadKept(t, u, n) /\ HangingKept(t, u, n) /\ ReadAgain(u, p, n, s)

LEMMA CutKeeps ==
  ASSUME NEW t \in State, NEW p \in Nat, ScanInv(t, p), NEW u \in State, NEW n, NEW s, CutTo(t, u, p, n, s)
  PROVE  ScanInv(u, p)
<1> USE DEF CutTo
<1> DEFINE top == Len(t.frames)
<1>1. /\ TextInv(t, p) /\ FramesInv(t, p) /\ WaitingInv(t) /\ PlacedInv(t)
      /\ \A i \in DOMAIN t.tokens : \A k \in DOMAIN t.tokens[i].comments : t.tokens[i].comments[k] \in t.scanned
  BY DEF ScanInv, CommentInv
<1>2. /\ top \in DOMAIN t.frames /\ top \in Nat /\ n \in Nat /\ s \in Nat /\ t.frames \in Seq(Frame)
      /\ DOMAIN t.frames = 1..top
  <2>1. t.frames \in Seq(Frame) /\ t.frames # <<>>
    BY StateFields
  <2>2. top \in DOMAIN t.frames /\ top \in Nat /\ DOMAIN t.frames = 1..top
    BY <2>1
  <2> QED BY <2>1, <2>2, FrameFields
<1>3. /\ n \in DOMAIN t.tokens /\ s <= p /\ t.tokens[n].type \in Commands
      /\ \A j \in DOMAIN t.tokens : j <= n => t.tokens[j].to <= s
      /\ \A j \in DOMAIN t.tokens : j > n =>
            /\ s < t.tokens[j].from
            /\ \A l \in DOMAIN t.tokens[j].comments : s < t.tokens[j].comments[l][1]
      /\ \A c \in t.scanned : c[1] <= s => c[2] <= s
  BY <1>1, <1>2 DEF FramesInv
<1>4. /\ DOMAIN t.tokens = 1..Len(t.tokens) /\ Len(t.tokens) \in Nat /\ n >= 1 /\ n <= Len(t.tokens)
      /\ \A i \in 1..n : i \in DOMAIN t.tokens /\ i \in Nat
  <2>1. t.tokens \in Seq(Token)
    BY StateFields
  <2> QED BY <1>2, <1>3, <2>1
<1>5. /\ \A i \in 1..n : i \in DOMAIN u.tokens
      /\ \A i \in DOMAIN u.tokens : i \in 1..n \/ i = n + 1
      /\ u.tokens # <<>> /\ n + 1 \notin 1..n /\ n + 1 > n
  <2>1. \A i \in 1..n : i \in DOMAIN u.tokens
    BY <1>2
  <2>2. \A i \in DOMAIN u.tokens : i \in 1..n \/ i = n + 1
    BY <1>2
  <2>3. 1 \in DOMAIN u.tokens
    BY <1>2, <1>4, <2>1
  <2> QED BY <1>2, <2>1, <2>2, <2>3
<1>6. \A i \in DOMAIN t.tokens : t.tokens[i].from \in Nat /\ t.tokens[i].to \in Nat /\ i \in Nat
  BY TokenFields
<1>7. \A c \in t.scanned : c[1] \in Nat /\ c[2] \in Nat /\ 1 <= c[1] /\ c[1] <= c[2] /\ c[2] <= p
                           /\ At(c[1]) \notin Spaces
  BY <1>1, SpanFields DEF TextInv, SpansApart
<1>8. \A i \in DOMAIN u.tokens : u.tokens[i].from \in Nat /\ u.tokens[i].to \in Nat
  BY TokenFields
<1>9. \A i \in DOMAIN t.tokens : i \notin 1..n => i > n
  BY <1>2, <1>4
<1>10. \A c \in t.scanned : Waits(t, c) => s < c[1]
  BY <1>1, <1>2 DEF Waits, WaitingInv
<1>11. \A i \in 1..n : CommandString(t, i) => CommandString(u, i)
  <2>1. \A i \in 1..n : i > 1 => i - 1 \in 1..n
    BY <1>2
  <2> QED BY <1>5, <2>1 DEF CommandString, HeadKept
<1>12. n + 1 \in DOMAIN u.tokens => CommandString(u, n + 1)
  <2>1. (n + 1) - 1 = n /\ n \in 1..n /\ n + 1 > 1
    BY <1>2, <1>4
  <2> QED BY <1>3, <2>1 DEF CommandString, HeadKept, ReadAgain
<1>13. \A q \in 1..p : s < q /\ At(q) \notin Spaces =>
         n + 1 \in DOMAIN u.tokens /\ q \in u.tokens[n + 1].from..u.tokens[n + 1].to
  <2>1. \A q \in 1..p : s < q => q \in (s + 1)..p
    BY <1>2
  <2> QED BY <2>1 DEF ReadAgain
<1>14. \A c \in t.scanned : ~InText(u, c[1]) => c[1] <= s
  <2> SUFFICES ASSUME NEW c \in t.scanned, ~(c[1] <= s) PROVE InText(u, c[1])
    OBVIOUS
  <2>1. c[1] \in 1..p /\ s < c[1]
    BY <1>2, <1>7
  <2> QED BY <1>7, <1>12, <1>13, <2>1 DEF InText
<1>15. TextInv(u, p)
  <2>1. Ordered(u, p)
    <3>1. \A i \in DOMAIN u.tokens : u.tokens[i].to <= p
      BY <1>1, <1>4, <1>5 DEF TextInv, Ordered, HeadKept, ReadAgain
    <3>2. \A i, j \in DOMAIN u.tokens : i < j => u.tokens[i].to < u.tokens[j].from
      <4> TAKE i, j \in DOMAIN u.tokens
      <4> HAVE i < j
      <4>1. CASE i \in 1..n /\ j \in 1..n
        BY <1>1, <1>4, <4>1 DEF TextInv, Ordered, HeadKept
      <4>2. CASE i \in 1..n /\ j = n + 1
        <5>1. t.tokens[i].to <= s /\ t.tokens[i].to \in Nat
          BY <1>3, <1>4, <1>6, <4>2
        <5>2. s < u.tokens[n + 1].from /\ u.tokens[n + 1].from \in Nat
          BY <1>8, <4>2 DEF ReadAgain
        <5>3. t.tokens[i].to < u.tokens[n + 1].from
          <6>1. s \in Nat
            BY <1>2
          <6>2. n + 1 \in DOMAIN u.tokens
            BY <4>2
          <6> QED BY <5>1, <5>2, <6>1, <6>2
        <5> QED BY <4>2, <5>3 DEF HeadKept
      <4>3. CASE i = n + 1
        BY <1>2, <1>5, <4>3
      <4> QED BY <1>5, <4>1, <4>2, <4>3
    <3> QED BY <3>1, <3>2 DEF Ordered
  <2>2. Covered(u, p)
    <3> SUFFICES ASSUME NEW q \in 1..p, At(q) \notin Spaces
                 PROVE  \/ \E i \in DOMAIN u.tokens : q \in u.tokens[i].from..u.tokens[i].to
                        \/ \E c \in u.scanned : q \in c[1]..c[2]
      BY DEF Covered
    <3>1. CASE s < q
      BY <1>13, <3>1
    <3>2. CASE ~(s < q)
      <4>1. CASE \E c \in t.scanned : q \in c[1]..c[2]
        BY <4>1
      <4>2. CASE ~ \E c \in t.scanned : q \in c[1]..c[2]
        <5>1. PICK i \in DOMAIN t.tokens : q \in t.tokens[i].from..t.tokens[i].to
          BY <1>1, <4>2 DEF TextInv, Covered
        <5>2. t.tokens[i].from <= s
          BY <1>2, <1>6, <3>2, <5>1
        <5>3. i \in 1..n
          BY <1>2, <1>3, <1>6, <1>9, <5>2
        <5> QED BY <1>5, <5>1, <5>3 DEF HeadKept
      <4> QED BY <4>1, <4>2
    <3> QED BY <3>1, <3>2
  <2>3. SpansApart(u, p)
    BY <1>1 DEF TextInv, SpansApart
  <2>4. OffTexts(u)
    <3> SUFFICES ASSUME NEW c \in t.scanned, NEW i \in DOMAIN u.tokens
                 PROVE  \/ c[2] < u.tokens[i].from \/ u.tokens[i].to < c[1]
                        \/ CommandString(u, i) \/ u.tokens[i].type = "HINT"
      BY DEF OffTexts
    <3>1. CASE i \in 1..n
      BY <1>1, <1>4, <1>11, <3>1 DEF TextInv, OffTexts, HeadKept
    <3>2. CASE i = n + 1
      BY <1>12, <3>2
    <3> QED BY <1>5, <3>1, <3>2
  <2> QED BY <2>1, <2>2, <2>3, <2>4 DEF TextInv
<1>16. FramesInv(u, p)
  <2>1. \A k \in DOMAIN u.frames : k \in DOMAIN t.frames /\ k <= top
    BY <1>2 DEF FramesCut
  <2>2. \A k, l \in DOMAIN t.frames :
          k <= l => t.frames[k].tokens <= t.frames[l].tokens /\ t.frames[k].start <= t.frames[l].start
    BY <1>1 DEF FramesInv
  <2>3. ASSUME NEW k \in DOMAIN u.frames
        PROVE  /\ u.frames[k].tokens \in DOMAIN u.tokens /\ u.frames[k].start <= p
               /\ u.tokens[u.frames[k].tokens].type \in Commands
               /\ \A j \in DOMAIN u.tokens : j <= u.frames[k].tokens => u.tokens[j].to <= u.frames[k].start
               /\ \A j \in DOMAIN u.tokens : j > u.frames[k].tokens =>
                    /\ u.frames[k].start < u.tokens[j].from
                    /\ \A l \in DOMAIN u.tokens[j].comments : u.frames[k].start < u.tokens[j].comments[l][1]
               /\ \A c \in t.scanned : c[1] <= u.frames[k].start => c[2] <= u.frames[k].start
    <3> DEFINE m == t.frames[k].tokens
               r == t.frames[k].start
    <3>1. u.frames[k] = t.frames[k] /\ k \in DOMAIN t.frames
      BY <2>1 DEF FramesCut
    <3>2. m <= n /\ r <= s /\ m \in Nat /\ r \in Nat
      BY <1>2, <2>1, <2>2, <3>1, FrameFields
    <3>3. /\ m \in DOMAIN t.tokens /\ r <= p /\ t.tokens[m].type \in Commands
          /\ \A j \in DOMAIN t.tokens : j <= m => t.tokens[j].to <= r
          /\ \A j \in DOMAIN t.tokens : j > m =>
               /\ r < t.tokens[j].from
               /\ \A l \in DOMAIN t.tokens[j].comments : r < t.tokens[j].comments[l][1]
          /\ \A c \in t.scanned : c[1] <= r => c[2] <= r
      BY <1>1, <3>1 DEF FramesInv
    <3> HIDE DEF m, r
    <3>4. m \in 1..n /\ ~(n + 1 <= m)
      BY <1>2, <1>4, <3>2, <3>3
    <3>5. \A j \in DOMAIN u.tokens : j <= m => u.tokens[j].to <= r
      BY <1>4, <1>5, <3>3, <3>4 DEF HeadKept
    <3>6. \A j \in DOMAIN u.tokens : j > m => r < u.tokens[j].from
      <4> TAKE j \in DOMAIN u.tokens
      <4> HAVE j > m
      <4>1. CASE j \in 1..n
        BY <1>4, <3>3, <4>1 DEF HeadKept
      <4>2. CASE j = n + 1
        <5>1. s < u.tokens[j].from /\ u.tokens[j].from \in Nat
          BY <1>8, <4>2 DEF ReadAgain
        <5> QED BY <1>2, <3>2, <5>1
      <4> QED BY <1>5, <4>1, <4>2
    <3>7. ASSUME NEW j \in DOMAIN u.tokens, j > m, NEW l \in DOMAIN u.tokens[j].comments
          PROVE  r < u.tokens[j].comments[l][1]
      <4> DEFINE c == u.tokens[j].comments[l]
      <4>1. Hangs(u, c, j, l)
        BY DEF Hangs
      <4>2. CASE j \in 1..n /\ Hangs(t, c, j, l)
        BY <1>4, <3>3, <3>7, <4>2 DEF Hangs
      <4>3. CASE Waits(t, c)
        BY <1>1, <3>1, <4>3 DEF Waits, WaitingInv, r
      <4> HIDE DEF c
      <4> QED BY <4>1, <4>2, <4>3 DEF c, HangingKept
    <3> QED BY <1>5, <3>1, <3>3, <3>4, <3>5, <3>6, <3>7 DEF m, r, HeadKept
  <2>4. \A k, l \in DOMAIN u.frames :
          k <= l => u.frames[k].tokens <= u.frames[l].tokens /\ u.frames[k].start <= u.frames[l].start
    BY <2>1, <2>2 DEF FramesCut
  <2> QED BY <2>3, <2>4 DEF FramesInv
<1>17. WaitingInv(u)
  BY <1>5 DEF WaitingInv
<1>18. PlacedInv(u)
  <2> SUFFICES ASSUME NEW c \in t.scanned, Outside(u, c)
               PROVE  ~Waits(u, c) /\ HangsOnce(u, c)
    BY DEF PlacedInv
  <2>1. ~Waits(u, c)
    BY DEF Waits
  <2>2. c[1] <= s /\ c[2] <= s
    BY <1>3, <1>14 DEF Outside
  <2>3. ~Waits(t, c)
    BY <1>2, <1>7, <1>10, <2>2
  <2>4. Outside(t, c)
    <3>1. ASSUME InText(t, c[1]) PROVE InText(u, c[1])
      <4>1. PICK i \in DOMAIN t.tokens : CommandString(t, i) /\ c[1] \in t.tokens[i].from..t.tokens[i].to
        BY <3>1 DEF InText
      <4>2. t.tokens[i].from <= s
        BY <1>2, <1>6, <1>7, <2>2, <4>1
      <4>3. i \in 1..n
        BY <1>2, <1>3, <1>6, <1>9, <4>2
      <4> QED BY <1>5, <1>11, <4>1, <4>3 DEF InText, HeadKept
    <3>2. c[1] <= t.frames[1].start
      <4>1. CASE top = 1
        BY <2>2, <4>1
      <4>2. CASE top # 1
        <5>1. 1 \in DOMAIN u.frames
          <6>1. top \in 1..top /\ top \in Nat
            BY <1>2
          <6>2. \A m \in Nat : m \in 1..m /\ m # 1 => 1 \in 1..(m - 1)
            OBVIOUS
          <6> HIDE DEF top
          <6>3. 1 \in 1..(top - 1)
            BY <4>2, <6>1, <6>2
          <6> QED BY <6>3 DEF top, FramesCut
        <5>2. u.frames # <<>> /\ u.frames[1] = t.frames[1]
          BY <5>1 DEF FramesCut
        <5> QED BY <5>2 DEF Outside
      <4> QED BY <4>1, <4>2
    <3> QED BY <3>1, <3>2 DEF Outside
  <2>5. PICK i, k : /\ Hangs(t, c, i, k) /\ Neighbour(t, c, i)
                    /\ \A j, l : Hangs(t, c, j, l) => j = i /\ l = k
    BY <1>1, <2>3, <2>4 DEF PlacedInv, HangsOnce
  <2>6. i \in 1..n
    <3>1. i \in DOMAIN t.tokens /\ k \in DOMAIN t.tokens[i].comments /\ t.tokens[i].comments[k] = c
      BY <2>5 DEF Hangs
    <3>2. i > n => s < c[1]
      BY <1>3, <3>1
    <3> QED BY <1>2, <1>7, <1>9, <2>2, <3>1, <3>2
  <2>7. Hangs(u, c, i, k)
    BY <2>5, <2>6 DEF HangingKept
  <2>8. ASSUME NEW j, NEW l, Hangs(u, c, j, l) PROVE j = i /\ l = k
    BY <2>3, <2>5, <2>8 DEF HangingKept
  <2>9. Neighbour(u, c, i)
    <3>1. u.tokens[i].to < c[1] => \A j \in DOMAIN u.tokens : i < j => c[2] < u.tokens[j].from
      <4> HAVE u.tokens[i].to < c[1]
      <4> TAKE j \in DOMAIN u.tokens
      <4> HAVE i < j
      <4>1. CASE j \in 1..n
        BY <1>4, <2>5, <2>6, <4>1 DEF Neighbour, HeadKept
      <4>2. CASE j = n + 1
        <5>1. s < u.tokens[j].from /\ u.tokens[j].from \in Nat
          BY <1>8, <4>2 DEF ReadAgain
        <5> QED BY <1>2, <1>7, <2>2, <5>1
      <4> QED BY <1>5, <4>1, <4>2
    <3>2. c[2] < u.tokens[i].from => \A j \in DOMAIN u.tokens : j < i => u.tokens[j].to < c[1]
      <4>1. ~(n + 1 < i)
        BY <1>2, <2>6
      <4> QED BY <1>4, <1>5, <2>5, <2>6, <4>1 DEF Neighbour, HeadKept
    <3> QED BY <3>1, <3>2 DEF Neighbour
  <2> QED BY <2>1, <2>7, <2>8, <2>9 DEF HangsOnce
<1>19. ASSUME NEW i \in DOMAIN u.tokens, NEW k \in DOMAIN u.tokens[i].comments
       PROVE  u.tokens[i].comments[k] \in u.scanned
  <2> DEFINE c == u.tokens[i].comments[k]
  <2>1. Hangs(u, c, i, k)
    BY DEF Hangs
  <2>2. CASE i \in 1..n /\ Hangs(t, c, i, k)
    BY <1>1, <2>2 DEF Hangs
  <2>3. CASE Waits(t, c)
    BY <1>1, <2>3 DEF Waits, WaitingInv
  <2> HIDE DEF c
  <2> QED BY <2>1, <2>2, <2>3 DEF c, HangingKept
<1> QED BY <1>15, <1>16, <1>17, <1>18, <1>19 DEF ScanInv, CommentInv

LEMMA WithWaitingFacts ==
  ASSUME NEW t \in State
  PROVE  /\ WithWaiting(t) \in Seq(Token) /\ DOMAIN WithWaiting(t) = DOMAIN t.tokens
         /\ \A i \in DOMAIN t.tokens :
              /\ WithWaiting(t)[i].type = t.tokens[i].type /\ WithWaiting(t)[i].from = t.tokens[i].from
              /\ WithWaiting(t)[i].to = t.tokens[i].to
         /\ \A x, c, i, l : x.tokens = WithWaiting(t) /\ Hangs(t, c, i, l) => Hangs(x, c, i, l)
         /\ \A x, c, i, l : x.tokens = WithWaiting(t) /\ Hangs(x, c, i, l) => Hangs(t, c, i, l) \/ Waits(t, c)
<1>1. CASE t.tokens # <<>> /\ t.comments # <<>>
  <2> DEFINE a == Attach(t)
  <2>1. a \in State /\ a.tokens = WithWaiting(t)
    BY <1>1, AttachFields DEF WithWaiting
  <2>2. /\ DOMAIN a.tokens = DOMAIN t.tokens
        /\ \A i \in DOMAIN t.tokens :
             a.tokens[i].type = t.tokens[i].type /\ a.tokens[i].from = t.tokens[i].from /\ a.tokens[i].to = t.tokens[i].to
        /\ \A c, i, l : Hangs(t, c, i, l) => Hangs(a, c, i, l)
        /\ \A c, i, l : Hangs(a, c, i, l) => Hangs(t, c, i, l) \/ \E k \in DOMAIN t.comments : t.comments[k] = c
    BY <1>1, AttachFacts
  <2> HIDE DEF a
  <2>3. a.tokens \in Seq(Token)
    BY <2>1, StateFields
  <2>4. \A x, c, i, l : x.tokens = a.tokens => (Hangs(x, c, i, l) <=> Hangs(a, c, i, l))
    BY DEF Hangs
  <2> QED BY <2>1, <2>2, <2>3, <2>4 DEF Waits
<1>2. CASE ~(t.tokens # <<>> /\ t.comments # <<>>)
  <2>1. WithWaiting(t) = t.tokens
    BY <1>2 DEF WithWaiting
  <2>2. \A x, c, i, l : x.tokens = t.tokens => (Hangs(x, c, i, l) <=> Hangs(t, c, i, l))
    BY DEF Hangs
  <2> QED BY <2>1, <2>2, StateFields
<1> QED BY <1>1, <1>2

(* The state without the tokens of the innermost command.                  *)
Cut(t) == [t EXCEPT !.tokens = SubSeq(WithWaiting(t), 1, t.frames[Len(t.frames)].tokens), !.frames = Front(@)]

LEMMA CutFields ==
  ASSUME NEW t \in State, t.frames # <<>>, NEW n \in DOMAIN t.tokens, n = t.frames[Len(t.frames)].tokens
  PROVE  /\ Cut(t) \in State /\ DOMAIN Cut(t).tokens = 1..n /\ Len(Cut(t).tokens) = n
         /\ DOMAIN Cut(t).frames = 1..(Len(t.frames) - 1)
         /\ \A k \in DOMAIN Cut(t).frames : Cut(t).frames[k] = t.frames[k]
         /\ Cut(t).comments = t.comments /\ Cut(t).scanned = t.scanned /\ Cut(t).status = t.status
         /\ Cut(t).current = t.current /\ Cut(t).start = t.start /\ Cut(t).line = t.line
         /\ \A i \in 1..n : /\ Cut(t).tokens[i].type = t.tokens[i].type /\ Cut(t).tokens[i].from = t.tokens[i].from
                            /\ Cut(t).tokens[i].to = t.tokens[i].to
         /\ \A c, i, l : i \in 1..n /\ Hangs(t, c, i, l) => Hangs(Cut(t), c, i, l)
         /\ \A c, i, l : Hangs(Cut(t), c, i, l) => (i \in 1..n /\ Hangs(t, c, i, l)) \/ Waits(t, c)
<1> DEFINE W == WithWaiting(t)
           u == Cut(t)
           tokens == SubSeq(W, 1, n)
           frames == Front(t.frames)
           x == [tokens |-> W]
<1>1. /\ W \in Seq(Token) /\ DOMAIN W = DOMAIN t.tokens
      /\ \A i \in DOMAIN t.tokens :
           W[i].type = t.tokens[i].type /\ W[i].from = t.tokens[i].from /\ W[i].to = t.tokens[i].to
      /\ \A c, i, l : Hangs(t, c, i, l) => Hangs(x, c, i, l)
      /\ \A c, i, l : Hangs(x, c, i, l) => Hangs(t, c, i, l) \/ Waits(t, c)
  BY WithWaitingFacts
<1>2. x.tokens = W
  OBVIOUS
<1> HIDE DEF W, x
<1>3. n \in Nat /\ n \in 1..Len(W) /\ Len(W) \in Nat
  BY <1>1
<1>4. tokens \in Seq(Token) /\ DOMAIN tokens = 1..n /\ Len(tokens) = n /\ \A i \in 1..n : tokens[i] = W[i]
  BY <1>1, <1>3
<1>5. frames \in Seq(Frame) /\ DOMAIN frames = 1..(Len(t.frames) - 1)
      /\ \A k \in DOMAIN frames : frames[k] = t.frames[k]
  <2>1. t.frames \in Seq(Frame)
    BY StateFields
  <2> QED BY <2>1 DEF Front
<1>6. u = [t EXCEPT !.tokens = tokens, !.frames = frames]
  BY DEF Cut, W
<1> HIDE DEF tokens, frames
<1>7. /\ u \in State /\ u.tokens = tokens /\ u.frames = frames /\ u.comments = t.comments
      /\ u.scanned = t.scanned /\ u.status = t.status /\ u.current = t.current /\ u.start = t.start /\ u.line = t.line
  BY <1>4, <1>5, <1>6 DEF State
<1> HIDE DEF u
<1>8. \A i \in 1..n : i \in DOMAIN t.tokens /\ i \in DOMAIN W
  BY <1>1, <1>3
<1>9. \A c, i, l : Hangs(u, c, i, l) <=> i \in 1..n /\ Hangs(x, c, i, l)
  BY <1>2, <1>4, <1>7, <1>8 DEF Hangs
<1> QED BY <1>1, <1>4, <1>5, <1>7, <1>8, <1>9 DEF u

LEMMA EndCommandKeeps ==
  ASSUME NEW t \in State, t.frames # <<>>, t.status = "scan", NEW p \in Nat, p = t.current, ScanInv(t, p),
         NEW text, text = {q \in (t.frames[Len(t.frames)].start + 1)..p : At(q) \notin Spaces}
  PROVE  Kept(IF text = {} THEN Cut(t) ELSE Added(Cut(t), "STRING", Min(text), Max(text)))
<1> DEFINE top == Len(t.frames)
           n == t.frames[top].tokens
           s == t.frames[top].start
           cut == Cut(t)
<1>1. top \in DOMAIN t.frames
  <2>1. t.frames \in Seq(Frame)
    BY StateFields
  <2> QED BY <2>1
<1>2. n \in DOMAIN t.tokens /\ n \in Nat /\ s \in Nat /\ n >= 1
  BY <1>1, FrameFields, TokenFields DEF ScanInv, FramesInv
<1>3. /\ cut \in State /\ DOMAIN cut.tokens = 1..n /\ Len(cut.tokens) = n
      /\ DOMAIN cut.frames = 1..(top - 1) /\ \A k \in DOMAIN cut.frames : cut.frames[k] = t.frames[k]
      /\ cut.comments = t.comments /\ cut.scanned = t.scanned /\ cut.status = t.status /\ cut.current = t.current
      /\ \A i \in 1..n : /\ cut.tokens[i].type = t.tokens[i].type /\ cut.tokens[i].from = t.tokens[i].from
                         /\ cut.tokens[i].to = t.tokens[i].to
      /\ \A c, i, l : i \in 1..n /\ Hangs(t, c, i, l) => Hangs(cut, c, i, l)
      /\ \A c, i, l : Hangs(cut, c, i, l) => (i \in 1..n /\ Hangs(t, c, i, l)) \/ Waits(t, c)
  BY <1>2, CutFields
<1>4. text \subseteq (s + 1)..p /\ s + 1 \in Int /\ p \in Int
  BY <1>2
<1>5. \A q \in (s + 1)..p : At(q) \in Spaces \/ q \in text
  OBVIOUS
<1>6. \A c \in t.scanned : Waits(t, c) => c[1] \in text
  <2> SUFFICES ASSUME NEW c \in t.scanned, Waits(t, c) PROVE c[1] \in text
    OBVIOUS
  <2>1. c[1] \in Nat /\ c[2] \in Nat /\ c[1] <= c[2] /\ c[2] <= p /\ At(c[1]) \notin Spaces
    BY SpanFields DEF ScanInv, TextInv, SpansApart
  <2>2. s < c[1]
    BY <1>1 DEF Waits, ScanInv, CommentInv, WaitingInv
  <2>3. c[1] \in (s + 1)..p
    BY <1>2, <2>1, <2>2
  <2> QED BY <2>1, <2>3
<1> HIDE DEF cut
<1>7. CASE text = {}
  <2>1. t.comments = <<>>
    <3>1. \A c \in t.scanned : ~Waits(t, c)
      BY <1>6, <1>7
    <3>2. \A k \in DOMAIN t.comments : t.comments[k] \in t.scanned
      BY DEF ScanInv, CommentInv, WaitingInv
    <3>3. DOMAIN t.comments = {}
      BY <3>1, <3>2 DEF Waits
    <3>4. t.comments \in Seq(Span)
      BY StateFields
    <3>5. t.comments # <<>> => 1 \in DOMAIN t.comments
      BY <3>4
    <3> QED BY <3>3, <3>5
  <2>2. n + 1 \notin DOMAIN cut.tokens
    BY <1>2, <1>3
  <2>3. \A q \in (s + 1)..p : At(q) \in Spaces
    BY <1>5, <1>7
  <2> HIDE DEF n, s
  <2>4. n = t.frames[Len(t.frames)].tokens /\ s = t.frames[Len(t.frames)].start
    BY DEF n, s
  <2>5. CutTo(t, cut, p, n, s)
    <3>1. FramesCut(t, cut)
      BY <1>3 DEF FramesCut
    <3>2. HeadKept(t, cut, n)
      BY <1>3 DEF HeadKept
    <3>3. HangingKept(t, cut, n)
      BY <1>3 DEF HangingKept
    <3>4. ReadAgain(cut, p, n, s)
      BY <1>2, <2>2, <2>3 DEF ReadAgain
    <3> QED BY <1>3, <2>1, <2>4, <3>1, <3>2, <3>3, <3>4 DEF CutTo
  <2>6. ScanInv(cut, p)
    BY <1>3, <2>5, CutKeeps
  <2>7. Kept(cut)
    BY <1>3, <2>6 DEF Kept
  <2> QED BY <1>7, <2>7 DEF cut
<1>8. CASE text # {}
  <2> DEFINE a == Min(text)
             b == Max(text)
             u == Added(cut, "STRING", a, b)
             new == NewToken(cut, "STRING", a, b)
  <2>1. a \in text /\ b \in text /\ \A x \in text : a <= x /\ x <= b
    <3> HIDE DEF s
    <3> QED BY <1>4, <1>8, MaxOfInterval, Zenon
  <2>2. a \in Nat /\ b \in Nat /\ s < a /\ b <= p
    BY <1>2, <1>4, <2>1
  <2>3. \A q \in (s + 1)..p : At(q) \in Spaces \/ q \in a..b
    <3>1. \A q \in text : q \in a..b
      BY <1>4, <2>1, <2>2
    <3> QED BY <1>5, <3>1
  <2> HIDE DEF a, b
  <2>4. /\ "STRING" \in TokenTypes /\ "STRING" \notin Commands
        /\ ~(cut.comments # <<>> /\ "STRING" = "SEMICOLON" /\ cut.tokens # <<>>)
    BY CommandsAssumption DEF TokenTypes
  <2>5. /\ u \in State /\ u.tokens = Append(cut.tokens, new) /\ u.comments = <<>> /\ u.scanned = cut.scanned
        /\ u.current = cut.current /\ u.status = cut.status /\ u.frames = cut.frames
    <3>1. cut \in State
      BY <1>3
    <3> HIDE DEF n, s
    <3> QED BY <2>2, <2>4, <3>1, AddedFields
  <2>6. new \in Token /\ new.comments = t.comments /\ new.type = "STRING" /\ new.from = a /\ new.to = b
    <3>1. cut \in State /\ cut.comments = t.comments
      BY <1>3
    <3> QED BY <2>2, <2>4, <3>1, NewTokenFields
  <2> HIDE DEF u, new
  <2>7. /\ DOMAIN u.tokens = DOMAIN cut.tokens \union {n + 1}
        /\ \A i \in DOMAIN cut.tokens : u.tokens[i] = cut.tokens[i]
        /\ u.tokens[n + 1] = new
        /\ \A c, i, l : Hangs(cut, c, i, l) => Hangs(u, c, i, l)
        /\ \A c, i, l : Hangs(u, c, i, l) =>
             Hangs(cut, c, i, l) \/ (i = n + 1 /\ l \in DOMAIN t.comments /\ t.comments[l] = c)
    BY <1>3, <2>5, <2>6, AppendFacts, SMTT(60)
  <2>8. DOMAIN u.tokens = 1..(n + 1)
    BY <1>2, <1>3, <2>7
  <2>9. \A i \in 1..n : /\ u.tokens[i].type = t.tokens[i].type /\ u.tokens[i].from = t.tokens[i].from
                        /\ u.tokens[i].to = t.tokens[i].to
    BY <1>3, <2>7
  <2>10. \A c, i, l : i \in 1..n /\ Hangs(t, c, i, l) => Hangs(u, c, i, l)
    BY <1>3, <2>7
  <2>11. \A c, i, l : Hangs(u, c, i, l) => (i \in 1..n /\ Hangs(t, c, i, l)) \/ Waits(t, c)
    BY <1>3, <2>7 DEF Waits
  <2>12. /\ u.tokens[n + 1].type = "STRING" /\ s < u.tokens[n + 1].from /\ u.tokens[n + 1].to <= p
         /\ n + 1 \in DOMAIN u.tokens
         /\ \A q \in (s + 1)..p : At(q) \in Spaces \/ q \in u.tokens[n + 1].from..u.tokens[n + 1].to
    BY <2>2, <2>3, <2>6, <2>7
  <2>13. /\ u.scanned = t.scanned /\ DOMAIN u.frames = 1..(Len(t.frames) - 1)
         /\ \A k \in DOMAIN u.frames : u.frames[k] = t.frames[k]
    BY <1>3, <2>5
  <2>14. n = t.frames[Len(t.frames)].tokens /\ s = t.frames[Len(t.frames)].start
    OBVIOUS
  <2> HIDE DEF n, s
  <2>15. CutTo(t, u, p, n, s)
    <3>1. FramesCut(t, u)
      BY <2>13 DEF FramesCut
    <3>2. HeadKept(t, u, n)
      BY <2>9 DEF HeadKept
    <3>3. HangingKept(t, u, n)
      BY <2>10, <2>11 DEF HangingKept
    <3>4. ReadAgain(u, p, n, s)
      BY <1>2, <2>12 DEF ReadAgain
    <3> QED BY <2>5, <2>8, <2>13, <2>14, <3>1, <3>2, <3>3, <3>4 DEF CutTo
  <2>16. ScanInv(u, p)
    BY <2>5, <2>15, CutKeeps
  <2>17. Kept(u)
    BY <1>3, <2>5, <2>16 DEF Kept
  <2> QED BY <1>8, <2>17 DEF u, a, b, cut
<1> QED BY <1>7, <1>8

LEMMA FinishKeeps ==
  ASSUME NEW t \in State, t.frames = <<>>, ScanInv(t, t.current)
  PROVE  LET u == [t EXCEPT !.tokens = WithWaiting(t), !.status = "done"]
         IN u \in State /\ u.status = "done" /\ DoneInv(u)
<1> DEFINE W == WithWaiting(t)
           u == [t EXCEPT !.tokens = W, !.status = "done"]
<1>1. W \in Seq(Token)
  BY WithWaitingFacts
<1> HIDE DEF W
<1>2. u \in State /\ u.status = "done" /\ u.tokens = W /\ u.scanned = t.scanned /\ u.current = t.current
  BY <1>1 DEF State
<1> HIDE DEF u
<1>3. CASE t.tokens # <<>>
  <2> DEFINE a == Attach(t)
  <2>1. /\ a \in State /\ a.comments = <<>> /\ a.scanned = t.scanned /\ a.frames = t.frames /\ a.current = t.current
        /\ ScanInv(a, t.current)
    BY <1>3, AttachFields, AttachKeeps, StateFields
  <2> HIDE DEF a
  <2>2. PICK x \in {a, t} : /\ x.tokens = W /\ x.comments = <<>> /\ x.scanned = t.scanned /\ x.frames = <<>>
                            /\ ScanInv(x, t.current)
    <3>1. CASE t.comments = <<>>
      BY <1>3, <3>1 DEF W, WithWaiting
    <3>2. CASE t.comments # <<>>
      <4>1. a.tokens = W
        BY <1>3, <3>2, AttachFields DEF W, WithWaiting, a
      <4> QED BY <2>1, <4>1
    <3> QED BY <3>1, <3>2
  <2>3. \A i : CommandString(u, i) <=> CommandString(x, i)
    BY <1>2, <2>2 DEF CommandString
  <2>4. TextInv(u, t.current)
    BY <1>2, <2>2, <2>3 DEF ScanInv, TextInv, Ordered, Covered, SpansApart, OffTexts
  <2>5. \A c : InText(u, c) <=> InText(x, c)
    BY <1>2, <2>2, <2>3 DEF InText
  <2>6. ASSUME NEW c \in t.scanned, ~InText(u, c[1]) PROVE HangsOnce(u, c)
    <3>1. Outside(x, c)
      BY <2>2, <2>5, <2>6 DEF Outside
    <3>2. ~Waits(x, c)
      BY <2>2 DEF Waits
    <3>3. HangsOnce(x, c)
      BY <2>2, <3>1, <3>2 DEF ScanInv, CommentInv, PlacedInv
    <3> QED BY <1>2, <2>2, <3>3 DEF HangsOnce, Hangs, Neighbour
  <2> QED BY <1>2, <2>4, <2>6 DEF DoneInv, u, W
<1>4. CASE t.tokens = <<>>
  <2>1. W = <<>>
    BY <1>4 DEF W, WithWaiting
  <2>2. \A i : CommandString(u, i) <=> CommandString(t, i)
    BY <1>2, <1>4, <2>1 DEF CommandString
  <2>3. TextInv(u, t.current)
    BY <1>2, <1>4, <2>1, <2>2 DEF ScanInv, TextInv, Ordered, Covered, SpansApart, OffTexts
  <2> QED BY <1>2, <2>1, <2>3 DEF DoneInv, u, W
<1> QED BY <1>3, <1>4

-----------------------------------------------------------------------------
(* Where strings, comments, numbers and names end                          *)

LEMMA SizeIsNumber ==
  ASSUME sql \in Seq(STRING)
  PROVE  Size \in Nat
BY DEF Size

LEMMA AfterAlnumIsLater ==
  ASSUME Size \in Nat, NEW q \in Int, q < Size
  PROVE  AfterAlnum(q) \in (q + 1)..Size
<1> DEFINE T == {x \in (q + 1)..Size : At(x + 1) \notin Alnum}
<1>1. CASE At(q + 1) \notin Alnum
  BY <1>1 DEF AfterAlnum
<1>2. CASE ~(At(q + 1) \notin Alnum)
  <2>1. AfterAlnum(q) = First(T, Size)
    BY <1>2 DEF AfterAlnum
  <2>2. T \subseteq (q + 1)..Size /\ q + 1 \in Int /\ Size \in Int
    OBVIOUS
  <2> HIDE DEF T
  <2>3. First(T, Size) = Size \/ First(T, Size) \in T
    BY <2>2, FirstIsIn, Zenon
  <2>4. Size \in (q + 1)..Size
    OBVIOUS
  <2> QED BY <2>1, <2>2, <2>3, <2>4
<1> QED BY <1>1, <1>2

(* A delimiter that is found from p on ends at end.                        *)
Closes(p, delimiter, end) ==
  \E q \in p..Size : Chars(q, Len(delimiter)) = delimiter /\ end = q + Len(delimiter) - 1

Ends(p, delimiter, end) == end > Size \/ Closes(p, delimiter, end)

LEMMA EndsLater ==
  ASSUME Size \in Nat, NEW p \in Int, NEW r \in Int, p <= r, NEW delimiter, NEW end, Ends(r, delimiter, end)
  PROVE  Ends(p, delimiter, end)
BY DEF Ends, Closes

(* What is defined from later places is a number, and where a delimiter    *)
(* ends, if it is so without.                                              *)
LEMMA StringEndsNumbers ==
  ASSUME Size \in Nat, NEW delimiter, Len(delimiter) \in Nat, NEW raw, NEW escapes
  PROVE  \A q \in 1..Size : /\ StringEnds(delimiter, raw, escapes)[q] \in Int
                            /\ Ends(q, delimiter, StringEnds(delimiter, raw, escapes)[q])
<1> DEFINE Skips(q) ==
             \/ ~raw /\ At(q) \in Escapes /\ <<At(q), At(q + 1)>> \in UnescapedSequences
             \/ Escaped(q, delimiter, raw, escapes)
           Matches(q) == Chars(q, Len(delimiter)) = delimiter
           Value(f, q) ==
             IF Skips(q) THEN IF q + 1 < Size THEN f[q + 2] ELSE Size + 2
             ELSE IF Matches(q) THEN q + Len(delimiter) - 1
             ELSE IF q = Size THEN Size + 1
             ELSE f[AfterAlnum(q)]
           Body(f) == [q \in 1..Size |-> Value(f, q)]
           D == 1..Size
           rank == [q \in D |-> Size - q]
           B == [f \in [D -> Int] |-> Body(f)]
           end == StringEnds(delimiter, raw, escapes)
<1>1. end = CHOOSE f : f = Body(f)
  BY DEF StringEnds
<1>2. \A q \in D : q # Size => AfterAlnum(q) \in D /\ AfterAlnum(q) > q
  BY AfterAlnumIsLater
<1>3. ASSUME NEW q \in D, Matches(q) PROVE Ends(q, delimiter, q + Len(delimiter) - 1)
  BY <1>3 DEF Ends, Closes
<1> HIDE DEF Skips, Matches
<1>4. ASSUME NEW f, NEW q \in D,
             \A e \in D : Size - e < Size - q => f[e] \in Int
      PROVE  Value(f, q) \in Int
  <2>1. q + 1 < Size => q + 2 \in D /\ Size - (q + 2) < Size - q
    OBVIOUS
  <2>2. q # Size => Size - AfterAlnum(q) < Size - q
    BY <1>2
  <2> QED BY <1>2, <1>4, <2>1, <2>2
<1>5. ASSUME NEW f, NEW g, NEW q \in D,
             \A e \in D : Size - e < Size - q => f[e] = g[e]
      PROVE  Value(f, q) = Value(g, q)
  <2>1. q + 1 < Size => q + 2 \in D /\ Size - (q + 2) < Size - q
    OBVIOUS
  <2>2. q # Size => Size - AfterAlnum(q) < Size - q
    BY <1>2
  <2> QED BY <1>2, <1>5, <2>1, <2>2
<1>6. ASSUME NEW f, NEW q \in D,
             \A e \in D : Size - e < Size - q => f[e] \in Int /\ Ends(e, delimiter, f[e])
      PROVE  Ends(q, delimiter, Value(f, q))
  <2>1. Ends(q, delimiter, Size + 1) /\ Ends(q, delimiter, Size + 2)
    BY DEF Ends
  <2>2. CASE Skips(q)
    <3>1. CASE q + 1 < Size
      <4>1. q + 2 \in D /\ Size - (q + 2) < Size - q /\ q <= q + 2
        BY <3>1
      <4>2. Ends(q, delimiter, f[q + 2])
        BY <1>6, <4>1, EndsLater
      <4> QED BY <2>2, <3>1, <4>2
    <3>2. CASE ~(q + 1 < Size)
      BY <2>1, <2>2, <3>2
    <3> QED BY <3>1, <3>2
  <2>3. CASE ~Skips(q) /\ Matches(q)
    BY <1>3, <2>3
  <2>4. CASE ~Skips(q) /\ ~Matches(q) /\ q = Size
    BY <2>1, <2>4
  <2>5. CASE ~Skips(q) /\ ~Matches(q) /\ q # Size
    <3>1. AfterAlnum(q) \in D /\ Size - AfterAlnum(q) < Size - q /\ q <= AfterAlnum(q)
      BY <1>2, <2>5
    <3>2. Ends(q, delimiter, f[AfterAlnum(q)])
      BY <1>6, <3>1, EndsLater
    <3> QED BY <2>5, <3>2
  <2> QED BY <2>2, <2>3, <2>4, <2>5
<1> HIDE DEF Value
<1>7. \E f : f = Body(f)
  <2>1. rank \in [D -> 0..Size]
    OBVIOUS
  <2>2. B \in [[D -> Int] -> [D -> Int]]
    <3>1. ASSUME NEW f \in [D -> Int] PROVE Body(f) \in [D -> Int]
      BY <1>4
    <3> HIDE DEF Body, D
    <3> QED BY <3>1
  <2>3. ASSUME NEW f \in [D -> Int], NEW g \in [D -> Int], NEW d \in D,
               \A e \in D : rank[e] < rank[d] => f[e] = g[e]
        PROVE  B[f][d] = B[g][d]
    <3>1. \A e \in D : Size - e < Size - d => f[e] = g[e]
      BY <2>3
    <3>2. Value(f, d) = Value(g, d)
      BY <1>5, <3>1
    <3> QED BY <3>2
  <2> HIDE DEF B, rank, D
  <2>4. HasFixpoint(B, D, Int)
    <3>1. Int # {}
      OBVIOUS
    <3>2. Ranked(B, D, Int, rank, Size)
      BY <2>1, <2>2, <2>3, <3>1 DEF Ranked
    <3> QED BY <3>2, Fixpoint
  <2> QED BY <2>4 DEF B, HasFixpoint
<1>8. end = Body(end)
  <2> HIDE DEF Body, end
  <2> QED BY <1>1, <1>7
<1> HIDE DEF end
<1>9. \A q \in D : end[q] = Value(end, q)
  <2>1. \A q \in D : Body(end)[q] = Value(end, q)
    OBVIOUS
  <2> HIDE DEF Body
  <2> QED BY <1>8, <2>1
<1> DEFINE P == {n \in 0..Size : \A q \in D : Size - q < n => end[q] \in Int /\ Ends(q, delimiter, end[q])}
<1>10. \A n \in 0..Size : n \in P
  <2>1. 0 \in P
    OBVIOUS
  <2>2. ASSUME NEW n \in 1..Size, n - 1 \in P PROVE n \in P
    <3>1. ASSUME NEW q \in D, Size - q < n PROVE end[q] \in Int /\ Ends(q, delimiter, end[q])
      <4>1. \A e \in D : Size - e < Size - q => Size - e < n - 1
        BY <3>1
      <4>2. \A e \in D : Size - e < Size - q => end[e] \in Int /\ Ends(e, delimiter, end[e])
        BY <2>2, <4>1
      <4>3. Value(end, q) \in Int
        BY <1>4, <4>2
      <4>4. Ends(q, delimiter, Value(end, q))
        BY <1>6, <4>2
      <4> QED BY <1>9, <4>3, <4>4
    <3> QED BY <3>1
  <2> HIDE DEF P
  <2> QED BY <2>1, <2>2, UpTo
<1>11. Size \in P
  <2> HIDE DEF P
  <2> QED BY <1>10
<1>12. \A q \in D : end[q] \in Int /\ Ends(q, delimiter, end[q])
  <2>1. \A q \in D : Size - q < Size
    OBVIOUS
  <2> QED BY <1>11, <2>1
<1> QED BY <1>12 DEF end

LEMMA BlockEndsNumbers ==
  ASSUME Size \in Nat, NEW open, NEW close, Len(open) \in Nat \ {0}, Len(close) \in Nat
  PROVE  \A q \in 1..Size : /\ BlockEnds(open, close)[<<q, 1>>] \in Int
                            /\ Ends(q, close, BlockEnds(open, close)[<<q, 1>>])
<1> DEFINE N == Size + Len(open)
           A == 1..N
           left(q, depth) == IF Chars(q, Len(close)) = close THEN depth - 1 ELSE depth
           nested(q) == "NESTED_COMMENTS" \in flags /\ AfterAlnum(q) < Size /\ Chars(AfterAlnum(q), Len(close)) = open
           Value(f, q, depth) ==
             IF q >= Size THEN Size + 1
             ELSE IF left(q, depth) = 0 THEN q + Len(close) - 1
             ELSE IF nested(q) THEN f[<<AfterAlnum(q) + Len(open), left(q, depth) + 1>>]
             ELSE f[<<AfterAlnum(q), left(q, depth)>>]
           Body(f) == [place \in A \X Int |-> Value(f, place[1], place[2])]
           D == A \X Int
           rank == [d \in D |-> N - d[1]]
           B == [f \in [D -> Int] |-> Body(f)]
           end == BlockEnds(open, close)
<1>1. end = CHOOSE f : f = Body(f)
  BY DEF BlockEnds
<1>2. N \in Nat
  OBVIOUS
<1>3. \A q \in A : ~(q >= Size) =>
        /\ AfterAlnum(q) \in A /\ AfterAlnum(q) > q
        /\ nested(q) => AfterAlnum(q) + Len(open) \in A /\ AfterAlnum(q) + Len(open) > q
  <2> SUFFICES ASSUME NEW q \in A, ~(q >= Size)
               PROVE  /\ AfterAlnum(q) \in A /\ AfterAlnum(q) > q
                      /\ nested(q) => AfterAlnum(q) + Len(open) \in A /\ AfterAlnum(q) + Len(open) > q
    OBVIOUS
  <2>1. q \in Int /\ q < Size /\ q >= 1
    OBVIOUS
  <2>2. AfterAlnum(q) \in (q + 1)..Size
    BY <2>1, AfterAlnumIsLater
  <2> QED BY <2>1, <2>2
<1>4. \A q \in A, depth \in Int : left(q, depth) \in Int
  OBVIOUS
<1>5. ASSUME NEW q \in A, NEW depth \in Nat \ {0}, q < Size, left(q, depth) = 0
      PROVE  Ends(q, close, q + Len(close) - 1)
  BY <1>5 DEF Ends, Closes
<1>6. \A q \in A, depth \in Nat \ {0} : left(q, depth) \in Nat
  OBVIOUS
<1> HIDE DEF left, nested
<1>7. ASSUME NEW f, NEW q \in A, NEW depth \in Int,
             \A e \in A, x \in Int : N - e < N - q => f[<<e, x>>] \in Int
      PROVE  Value(f, q, depth) \in Int
  <2>1. CASE q >= Size
    BY <2>1
  <2>2. CASE left(q, depth) = 0
    BY <2>2
  <2>3. CASE ~(q >= Size) /\ left(q, depth) # 0 /\ nested(q)
    <3>1. AfterAlnum(q) + Len(open) \in A /\ N - (AfterAlnum(q) + Len(open)) < N - q
          /\ left(q, depth) + 1 \in Int
      <4>1. AfterAlnum(q) + Len(open) \in A /\ AfterAlnum(q) + Len(open) > q
        BY <1>3, <2>3
      <4>2. left(q, depth) + 1 \in Int
        BY <1>4
      <4> HIDE DEF N
      <4> QED BY <1>2, <4>1, <4>2
    <3>2. f[<<AfterAlnum(q) + Len(open), left(q, depth) + 1>>] \in Int
      BY <1>7, <3>1
    <3> QED BY <2>3, <3>2
  <2>4. CASE ~(q >= Size) /\ left(q, depth) # 0 /\ ~nested(q)
    <3>1. AfterAlnum(q) \in A /\ N - AfterAlnum(q) < N - q /\ left(q, depth) \in Int
      BY <1>2, <1>3, <1>4, <2>4
    <3>2. f[<<AfterAlnum(q), left(q, depth)>>] \in Int
      BY <1>7, <3>1
    <3> QED BY <2>4, <3>2
  <2> QED BY <2>1, <2>2, <2>3, <2>4
<1>8. ASSUME NEW f, NEW g, NEW q \in A, NEW depth \in Int,
             \A e \in A, x \in Int : N - e < N - q => f[<<e, x>>] = g[<<e, x>>]
      PROVE  Value(f, q, depth) = Value(g, q, depth)
  <2>1. CASE q >= Size \/ left(q, depth) = 0
    BY <2>1
  <2>2. CASE ~(q >= Size) /\ left(q, depth) # 0 /\ nested(q)
    <3>1. AfterAlnum(q) + Len(open) \in A /\ N - (AfterAlnum(q) + Len(open)) < N - q
          /\ left(q, depth) + 1 \in Int
      <4>1. AfterAlnum(q) + Len(open) \in A /\ AfterAlnum(q) + Len(open) > q
        BY <1>3, <2>2
      <4>2. left(q, depth) + 1 \in Int
        BY <1>4
      <4> HIDE DEF N
      <4> QED BY <1>2, <4>1, <4>2
    <3>2. f[<<AfterAlnum(q) + Len(open), left(q, depth) + 1>>] = g[<<AfterAlnum(q) + Len(open), left(q, depth) + 1>>]
      BY <1>8, <3>1
    <3> QED BY <2>2, <3>2
  <2>3. CASE ~(q >= Size) /\ left(q, depth) # 0 /\ ~nested(q)
    <3>1. AfterAlnum(q) \in A /\ N - AfterAlnum(q) < N - q /\ left(q, depth) \in Int
      BY <1>2, <1>3, <1>4, <2>3
    <3>2. f[<<AfterAlnum(q), left(q, depth)>>] = g[<<AfterAlnum(q), left(q, depth)>>]
      BY <1>8, <3>1
    <3> QED BY <2>3, <3>2
  <2> QED BY <2>1, <2>2, <2>3
<1>9. ASSUME NEW f, NEW q \in A, NEW depth \in Nat \ {0},
             \A e \in A, x \in Nat \ {0} : N - e < N - q => Ends(e, close, f[<<e, x>>])
      PROVE  Ends(q, close, Value(f, q, depth))
  <2>1. CASE q >= Size
    BY <2>1 DEF Ends
  <2>2. CASE ~(q >= Size) /\ left(q, depth) = 0
    BY <1>5, <2>2
  <2>3. CASE ~(q >= Size) /\ left(q, depth) # 0 /\ nested(q)
    <3> DEFINE e == AfterAlnum(q) + Len(open)
               x == left(q, depth) + 1
    <3>1. e \in A /\ N - e < N - q /\ q <= e /\ x \in Nat \ {0}
      <4>1. e \in A /\ e > q
        BY <1>3, <2>3
      <4>2. x \in Nat \ {0}
        BY <1>6
      <4> HIDE DEF e
      <4> QED BY <1>2, <4>1, <4>2
    <3>2. Value(f, q, depth) = f[<<e, x>>]
      BY <2>3
    <3> HIDE DEF e, x, Value
    <3>3. Ends(q, close, f[<<e, x>>])
      BY <1>9, <3>1, EndsLater
    <3> QED BY <3>2, <3>3
  <2>4. CASE ~(q >= Size) /\ left(q, depth) # 0 /\ ~nested(q)
    <3> DEFINE e == AfterAlnum(q)
               x == left(q, depth)
    <3>1. e \in A /\ N - e < N - q /\ q <= e /\ x \in Nat \ {0}
      <4>1. e \in A /\ e > q
        BY <1>3, <2>4
      <4>2. x \in Nat \ {0}
        BY <1>6, <2>4
      <4> HIDE DEF e
      <4> QED BY <1>2, <4>1, <4>2
    <3>2. Value(f, q, depth) = f[<<e, x>>]
      BY <2>4
    <3> HIDE DEF e, x, Value
    <3>3. Ends(q, close, f[<<e, x>>])
      BY <1>9, <3>1, EndsLater
    <3> QED BY <3>2, <3>3
  <2> QED BY <2>1, <2>2, <2>3, <2>4
<1> HIDE DEF Value, N, A
<1>10. \E f : f = Body(f)
  <2>1. rank \in [D -> 0..N]
    <3>1. \A q \in A : N - q \in 0..N
      BY <1>2 DEF A
    <3> QED BY <3>1
  <2>2. B \in [[D -> Int] -> [D -> Int]]
    <3>1. ASSUME NEW f \in [D -> Int] PROVE Body(f) \in [D -> Int]
      <4>1. \A e \in A, x \in Int : f[<<e, x>>] \in Int
        OBVIOUS
      <4>2. \A e \in A, x \in Int : Value(f, e, x) \in Int
        BY <1>7, <4>1
      <4> QED BY <4>2
    <3> HIDE DEF Body, D
    <3> QED BY <3>1
  <2>3. ASSUME NEW f \in [D -> Int], NEW g \in [D -> Int], NEW d \in D,
               \A e \in D : rank[e] < rank[d] => f[e] = g[e]
        PROVE  B[f][d] = B[g][d]
    <3>1. PICK q \in A, depth \in Int : d = <<q, depth>>
      OBVIOUS
    <3>2. ASSUME NEW e \in A, NEW x \in Int, N - e < N - q PROVE f[<<e, x>>] = g[<<e, x>>]
      <4>1. <<e, x>> \in D /\ rank[<<e, x>>] = N - e /\ rank[d] = N - q
        BY <3>1
      <4> QED BY <2>3, <3>2, <4>1
    <3>3. Value(f, q, depth) = Value(g, q, depth)
      BY <1>8, <3>2
    <3>4. B[f][d] = Value(f, q, depth) /\ B[g][d] = Value(g, q, depth)
      BY <3>1
    <3> QED BY <3>3, <3>4
  <2> HIDE DEF B, rank, D
  <2>4. HasFixpoint(B, D, Int)
    <3>1. Int # {}
      OBVIOUS
    <3>2. Ranked(B, D, Int, rank, N)
      BY <2>1, <2>2, <2>3, <3>1 DEF Ranked
    <3> QED BY <1>2, <3>2, Fixpoint
  <2> QED BY <2>4 DEF B, HasFixpoint
<1>11. end = Body(end)
  <2> HIDE DEF Body, end
  <2> QED BY <1>1, <1>10
<1> HIDE DEF end
<1>12. \A q \in A, depth \in Int : end[<<q, depth>>] = Value(end, q, depth)
  <2>1. \A q \in A, depth \in Int : Body(end)[<<q, depth>>] = Value(end, q, depth)
    OBVIOUS
  <2> HIDE DEF Body
  <2> QED BY <1>11, <2>1
<1> DEFINE P == {n \in 0..N : \A q \in A : N - q < n => \A depth \in Int : end[<<q, depth>>] \in Int}
<1>13. \A n \in 0..N : n \in P
  <2>1. 0 \in P
    <3>1. \A q \in A : ~(N - q < 0) /\ 0 \in 0..N
      BY <1>2 DEF A
    <3> QED BY <1>2, <3>1
  <2>2. ASSUME NEW n \in 1..N, n - 1 \in P PROVE n \in P
    <3>1. ASSUME NEW q \in A, N - q < n, NEW depth \in Int PROVE end[<<q, depth>>] \in Int
      <4>1. \A e \in A : N - e < N - q => N - e < n - 1
        BY <1>2, <3>1 DEF A
      <4>2. \A e \in A, x \in Int : N - e < N - q => end[<<e, x>>] \in Int
        BY <2>2, <4>1
      <4>3. Value(end, q, depth) \in Int
        BY <1>7, <4>2
      <4> QED BY <1>12, <4>3
    <3>2. n \in 0..N
      BY <1>2
    <3> QED BY <3>1, <3>2
  <2> HIDE DEF P
  <2> QED BY <1>2, <2>1, <2>2, UpTo
<1>14. N \in P
  <2> HIDE DEF P
  <2> QED BY <1>2, <1>13
<1> DEFINE R == {n \in 0..N : \A q \in A : N - q < n => \A depth \in Nat \ {0} : Ends(q, close, end[<<q, depth>>])}
<1>15. \A n \in 0..N : n \in R
  <2>1. 0 \in R
    <3>1. \A q \in A : ~(N - q < 0) /\ 0 \in 0..N
      BY <1>2 DEF A
    <3> QED BY <1>2, <3>1
  <2>2. ASSUME NEW n \in 1..N, n - 1 \in R PROVE n \in R
    <3>1. ASSUME NEW q \in A, N - q < n, NEW depth \in Nat \ {0} PROVE Ends(q, close, end[<<q, depth>>])
      <4>1. \A e \in A : N - e < N - q => N - e < n - 1
        BY <1>2, <3>1 DEF A
      <4>2. \A e \in A, x \in Nat \ {0} : N - e < N - q => Ends(e, close, end[<<e, x>>])
        BY <2>2, <4>1
      <4>3. Ends(q, close, Value(end, q, depth))
        BY <1>9, <4>2
      <4> QED BY <1>12, <4>3
    <3>2. n \in 0..N
      BY <1>2
    <3> QED BY <3>1, <3>2
  <2> HIDE DEF R
  <2> QED BY <1>2, <2>1, <2>2, UpTo
<1>16. N \in R
  <2> HIDE DEF R
  <2> QED BY <1>2, <1>15
<1>17. ASSUME NEW q \in 1..Size PROVE end[<<q, 1>>] \in Int /\ Ends(q, close, end[<<q, 1>>])
  <2>1. q \in A /\ N - q < N /\ 1 \in Nat \ {0}
    BY DEF A, N
  <2>2. end[<<q, 1>>] \in Int
    BY <1>14, <2>1
  <2>3. Ends(q, close, end[<<q, 1>>])
    BY <1>16, <2>1
  <2> QED BY <2>2, <2>3
<1> QED BY <1>17 DEF end

LEMMA RunEndIsLater ==
  ASSUME Size \in Nat, NEW p \in Nat, NEW singles
  PROVE  /\ RunEnd(p, singles) \in Int /\ RunEnd(p, singles) >= p
         /\ RunEnd(p, singles) = p \/ RunEnd(p, singles) <= Size
<1> DEFINE T == {q \in p..Size : Stops(At(q + 1), singles)}
<1>1. RunEnd(p, singles) = First(T, p)
  BY DEF RunEnd
<1>2. T \subseteq p..Size /\ p \in Int /\ Size \in Int
  OBVIOUS
<1> HIDE DEF T
<1>3. First(T, p) = p \/ First(T, p) \in T
  BY <1>2, FirstIsIn, Zenon
<1>4. First(T, p) = p \/ First(T, p) \in p..Size
  BY <1>2, <1>3, Zenon
<1>5. First(T, p) \in Int /\ First(T, p) >= p /\ (First(T, p) = p \/ First(T, p) <= Size)
  BY <1>2, <1>4
<1> QED BY <1>1, <1>5

LEMMA LineEndIsNumber ==
  ASSUME Size \in Nat, NEW p \in Nat
  PROVE  LineEnd(p) \in Int
<1> DEFINE T == {q \in p..Size : At(q + 1) \in Breaks}
<1>1. LineEnd(p) = First(T, Size)
  BY DEF LineEnd
<1>2. T \subseteq p..Size /\ p \in Int /\ Size \in Int
  OBVIOUS
<1> HIDE DEF T
<1>3. First(T, Size) \in Int
  BY <1>2, FirstIsIn, Zenon
<1> QED BY <1>1, <1>3

LEMMA NumberEndIsNumber ==
  ASSUME Size \in Nat, NEW p \in Nat
  PROVE  NumberEnd(p) \in Int
<1> DEFINE goesOn(q) ==
             LET peek == At(q + 1)
                 read == {At(r) : r \in (p + 1)..q}
             IN \/ peek \in Digits
                \/ peek = "." /\ "." \notin read /\ LastType # "PARAMETER"
                \/ peek \in {"-", "+"} /\ "E" \in read /\ {"-", "+"} \intersect read = {}
                \/ peek = "E" /\ "E" \notin read
           T == {q \in p..Size : ~goesOn(q)}
<1>1. NumberEnd(p) = First(T, Size)
  BY DEF NumberEnd
<1>2. T \subseteq p..Size /\ p \in Int /\ Size \in Int
  <2> HIDE DEF goesOn
  <2> QED OBVIOUS
<1> HIDE DEF T
<1>3. First(T, Size) \in Int
  BY <1>2, FirstIsIn, Zenon
<1> QED BY <1>1, <1>3

(* Only white space follows up to e.                                       *)
LEMMA SpacesKeep ==
  ASSUME NEW t \in State, NEW p \in Nat, ScanInv(t, p), NEW e \in Nat, p <= e,
         \A q \in (p + 1)..e : At(q) \in Spaces
  PROVE  ScanInv(t, e)
<1>1. Ordered(t, e)
  <2>1. ASSUME NEW i \in DOMAIN t.tokens PROVE t.tokens[i].to <= e
    <3>1. t.tokens[i].to \in Nat /\ t.tokens[i].to <= p
      BY TokenFields DEF ScanInv, TextInv, Ordered
    <3> QED BY <3>1
  <2> QED BY <2>1 DEF ScanInv, TextInv, Ordered
<1>2. Covered(t, e)
  <2>1. \A q \in 1..e : q \in 1..p \/ q \in (p + 1)..e
    OBVIOUS
  <2> QED BY <2>1 DEF ScanInv, TextInv, Covered
<1>3. SpansApart(t, e)
  <2>1. ASSUME NEW c \in t.scanned PROVE c[2] <= e
    <3>1. c[2] \in Nat /\ c[2] <= p
      BY SpanFields DEF ScanInv, TextInv, SpansApart
    <3> QED BY <3>1
  <2> QED BY <2>1 DEF ScanInv, TextInv, SpansApart
<1>4. FramesInv(t, e)
  <2>1. ASSUME NEW k \in DOMAIN t.frames PROVE t.frames[k].start <= e
    <3>1. t.frames[k].start \in Nat /\ t.frames[k].start <= p
      BY FrameFields DEF ScanInv, FramesInv
    <3> QED BY <3>1
  <2> QED BY <2>1 DEF ScanInv, FramesInv
<1> QED BY <1>1, <1>2, <1>3, <1>4 DEF ScanInv, TextInv

-----------------------------------------------------------------------------
(* The turns                                                               *)

LEMMA RaiseKeeps ==
  ASSUME self \in State, Raise
  PROVE  Kept(self')
BY DEF Raise, State, Kept

(* A turn that has only moved the cursor adds the token it has read.       *)
LEMMA ReadKeeps ==
  ASSUME NEW t, Begun(t), NEW u, Moved(u, t), t.start <= u.current, NEW type \in TokenTypes, Add(u, type)
  PROVE  Kept(self')
<1>1. Begun(u)
  BY MovedBegun
<1>2. self' = Added(u, type, u.start, u.current)
  BY DEF Add
<1> QED BY <1>1, <1>2, ScanAdds

LEMMA BegunFields ==
  ASSUME NEW t, Begun(t)
  PROVE  /\ t \in State /\ t.start \in Nat /\ t.current \in Nat /\ t.line \in Nat /\ t.start >= 1
         /\ t.start <= t.current /\ t.current >= 1
  BY StateFields DEF Begun

LEMMA StringEndIsNumber ==
  ASSUME Size \in Nat, NEW p \in Nat \ {0}, NEW delimiter, Len(delimiter) \in Nat, NEW raw, NEW escapes
  PROVE  /\ StringEnd(p, delimiter, raw, escapes) \in Int
         /\ Ends(p, delimiter, StringEnd(p, delimiter, raw, escapes))
<1>1. CASE p > Size
  BY <1>1 DEF StringEnd, Ends
<1>2. CASE ~(p > Size)
  <2>1. p \in 1..Size
    BY <1>2
  <2>2. StringEnd(p, delimiter, raw, escapes) = StringEnds(delimiter, raw, escapes)[p]
    BY <1>2 DEF StringEnd
  <2> QED BY <2>1, <2>2, StringEndsNumbers
<1> QED BY <1>1, <1>2

LEMMA ExtractKeeps ==
  ASSUME Size \in Nat, self \in State, NEW t, Begun(t), NEW string, Len(string.close) \in Nat,
         string.type \in TokenTypes, NEW raw, NEW escapes, ExtractString(t, string, raw, escapes)
  PROVE  Kept(self')
<1> DEFINE end == StringEnd(t.current, string.close, raw, escapes)
           size == Len(string.close)
           u == ThroughDelimiter(t, end, size)
<1>1. end \in Int
  BY BegunFields, StringEndIsNumber
<1>2. Add(u, string.type) \/ Raise
  BY DEF ExtractString
<1>3. Moved(u, t) /\ t.current <= u.current
  <2> HIDE DEF end
  <2> QED BY <1>1, BegunFields, ThroughDelimiterMoves
<1>4. t.start <= u.current
  <2> HIDE DEF u
  <2>1. u.current \in Nat
    BY <1>3, StateFields DEF Moved
  <2> QED BY <1>3, <2>1, BegunFields
<1> HIDE DEF u
<1> QED BY <1>2, <1>3, <1>4, ReadKeeps, RaiseKeeps

LEMMA AdvanceBegun ==
  ASSUME NEW t, Begun(t), NEW i \in Nat
  PROVE  Begun(Advance(t, i)) /\ Advance(t, i).current = t.current + i /\ Moved(Advance(t, i), t)
<1>1. t.current + i \in Nat /\ i \in Int /\ t.start <= t.current + i
  BY BegunFields
<1>2. Moved(Advance(t, i), t) /\ Advance(t, i).current = t.current + i
  BY <1>1, BegunFields, AdvanceMoves
<1> QED BY <1>1, <1>2, MovedBegun

LEMMA WalkBegun ==
  ASSUME NEW t, Begun(t), NEW p \in Int
  PROVE  /\ Begun(Walk(t, p)) /\ Moved(Walk(t, p), t)
         /\ Walk(t, p).current = IF p <= t.current THEN t.current ELSE p
<1>1. Moved(Walk(t, p), t) /\ Walk(t, p).current = IF p <= t.current THEN t.current ELSE p
  BY BegunFields, WalkMoves
<1>2. t.start <= Walk(t, p).current
  BY <1>1, BegunFields
<1> QED BY <1>1, <1>2, MovedBegun

LEMMA ScanStringKeeps ==
  ASSUME Size \in Nat, self \in State, NEW t, Begun(t), NEW open \in DOMAIN Strings, ScanString(t, open)
  PROVE  Kept(self')
<1>1. open \in Seq(STRING) /\ Strings[open].close \in Seq(STRING)
  BY WordsAssumption
<1>2. Len(open) \in Nat /\ Len(Strings[open].close) \in Nat
  BY <1>1, Zenon, LenProperties
<1>3. Strings[open].type \in TokenTypes
  BY DEF TokenTypes
<1>4. Begun(Advance(t, Len(open)))
  BY <1>2, AdvanceBegun
<1>5. ExtractString(Advance(t, Len(open)), Strings[open], Strings[open].type = "RAW_STRING", Escapes)
  BY DEF ScanString
<1> QED BY <1>2, <1>3, <1>4, <1>5, ExtractKeeps

LEMMA ScanIdentifierKeeps ==
  ASSUME Size \in Nat, self \in State, NEW t, Begun(t), ScanIdentifier(t)
  PROVE  Kept(self')
<1> DEFINE char == At(t.current)
           string == [close |-> <<char>>, type |-> "IDENTIFIER", digits |-> {}]
<1>1. Len(string.close) \in Nat /\ string.type \in TokenTypes
  BY DEF TokenTypes
<1>2. Begun(Advance(t, 1))
  BY AdvanceBegun
<1>3. ExtractString(Advance(t, 1), string, FALSE, {char})
  BY DEF ScanIdentifier
<1> HIDE DEF string
<1> QED BY <1>1, <1>2, <1>3, ExtractKeeps

LEMMA SliceFacts ==
  ASSUME sql \in Seq(STRING), NEW from \in Nat \ {0}, NEW to \in Int, from <= to => to <= Size
  PROVE  /\ SubSeq(sql, from, to) \in Seq(STRING)
         /\ Len(SubSeq(sql, from, to)) = IF from <= to THEN to - from + 1 ELSE 0
<1>1. CASE from <= to
  <2>1. /\ SubSeq(sql, from, to) \in Seq(STRING)
        /\ Len(SubSeq(sql, from, to)) = to - from + 1
    BY <1>1 DEF Size
  <2> QED BY <1>1, <2>1
<1>2. CASE ~(from <= to)
  <2>1. from \in Int /\ to < from
    BY <1>2
  <2>2. SubSeq(sql, from, to) = <<>>
    BY <2>1, SubSeqEmpty
  <2> QED BY <1>2, <2>2
<1> QED BY <1>1, <1>2

(* What At gives.                                                          *)
AtValues == STRING \union {""}

LEMMA AtIsOfThem ==
  ASSUME sql \in Seq(STRING), NEW q
  PROVE  At(q) \in AtValues
<1>1. CASE q \in 1..Size
  <2>1. sql[q] \in STRING
    BY <1>1 DEF Size
  <2> QED BY <1>1, <2>1 DEF At, AtValues
<1>2. CASE q \notin 1..Size
  BY <1>2 DEF At, AtValues
<1> QED BY <1>1, <1>2

(* A tag is no longer than what it was read from.                          *)
LEMMA TagFacts ==
  ASSUME Size \in Nat, NEW p \in Nat, NEW end \in Int, p <= end, NEW Y, \A q : At(q) \in Y
  PROVE  /\ TagText(p, end) \in Seq(Y)
         /\ Len(TagText(p, end)) \in Nat /\ Len(TagText(p, end)) <= end - p
<1> DEFINE Begins(q) == Escaped(q, <<Heredoc>>, TRUE, Escapes)
           second == CHOOSE f : f = [q \in p..(end - 1) |-> q > p /\ Begins(q - 1) /\ ~f[q - 1]]
           kept == {q \in p..(end - 1) : second[q] \/ ~Begins(q) \/ At(q + 1) # Heredoc}
           char == [i \in 1..Cardinality(kept) |-> At(CHOOSE q \in kept : Cardinality({r \in kept : r <= q}) = i)]
<1>1. TagText(p, end) = char
  BY DEF TagText
<1>2. kept \subseteq p..(end - 1)
  OBVIOUS
<1> HIDE DEF kept
<1>3. Cardinality(kept) \in Nat /\ Cardinality(kept) <= end - p
  <2>1. IsFiniteSet(p..(end - 1)) /\ Cardinality(p..(end - 1)) = IF p > end - 1 THEN 0 ELSE (end - 1) - p + 1
    BY FS_Interval
  <2>2. Cardinality(p..(end - 1)) = end - p
    BY <2>1
  <2>3. IsFiniteSet(kept) /\ Cardinality(kept) <= Cardinality(p..(end - 1))
    BY <1>2, <2>1, FS_Subset
  <2> QED BY <2>2, <2>3, FS_CardinalityType
<1>4. char \in [1..Cardinality(kept) -> Y]
  OBVIOUS
<1> HIDE DEF char
<1>5. char \in Seq(Y) /\ Len(char) = Cardinality(kept)
  BY <1>3, <1>4
<1> QED BY <1>1, <1>3, <1>5

(* A tag ends at the delimiter, or there is none.                          *)
LEMMA TagEnds ==
  ASSUME sql \in Seq(STRING), Size \in Nat, NEW p \in Nat \ {0}
  PROVE  /\ StringEnd(p, <<Heredoc>>, TRUE, Escapes) \in Int
         /\ p <= Size => p <= StringEnd(p, <<Heredoc>>, TRUE, Escapes)
         /\ StringEnd(p, <<Heredoc>>, TRUE, Escapes) <= Size =>
              /\ p <= StringEnd(p, <<Heredoc>>, TRUE, Escapes)
              /\ At(StringEnd(p, <<Heredoc>>, TRUE, Escapes)) = Heredoc
<1> DEFINE delimiter == <<Heredoc>>
           end == StringEnd(p, delimiter, TRUE, Escapes)
<1>1. Len(delimiter) = 1 /\ Len(delimiter) \in Nat
  OBVIOUS
<1>2. end \in Int /\ Ends(p, delimiter, end)
  <2> HIDE DEF delimiter
  <2> QED BY <1>1, StringEndIsNumber
<1> HIDE DEF end
<1>3. ASSUME NEW q \in p..Size, Chars(q, Len(delimiter)) = delimiter, end = q + Len(delimiter) - 1
      PROVE  p <= end /\ At(end) = Heredoc
  <2>1. end = q /\ q \in 1..Size
    BY <1>1, <1>3
  <2>2. Chars(q, 1) = SubSeq(sql, q, q)
    BY <2>1 DEF Chars
  <2>3. SubSeq(sql, q, q)[1] = sql[q]
    BY <2>1 DEF Size
  <2>4. sql[q] = Heredoc
    BY <1>1, <1>3, <2>2, <2>3
  <2> QED BY <2>1, <2>4 DEF At
<1>4. CASE end > Size
  <2>1. ~(end <= Size) /\ (p <= Size => p <= end)
    BY <1>2, <1>4
  <2> QED BY <1>2, <2>1 DEF end
<1>5. CASE ~(end > Size)
  <2>1. PICK q \in p..Size : Chars(q, Len(delimiter)) = delimiter /\ end = q + Len(delimiter) - 1
    BY <1>2, <1>5 DEF Ends, Closes
  <2>2. p <= end /\ At(end) = Heredoc
    BY <1>3, <2>1
  <2> QED BY <1>2, <2>2 DEF end
<1> QED BY <1>4, <1>5

(* Going back at most the length of what a tag was read from, at the end of *)
(* the text or one past it, does not go behind where the tag began.         *)
LEMMA StepsBack ==
  ASSUME NEW start \in Nat, NEW current \in Nat, start <= current,
         NEW n \in Nat, NEW far \in Int, NEW end \in {far, far + 1}, n <= end - (current + 1)
  PROVE  -n \in Int /\ far + (-n) \in Nat /\ far + (-n) >= start
<1>1. CASE end = far
  BY <1>1
<1>2. CASE end = far + 1
  BY <1>2
<1> QED BY <1>1, <1>2

LEMMA BackToTagBegun ==
  ASSUME sql \in Seq(STRING), Size \in Nat, NEW t, Begun(t), NEW tag, NEW end \in Int,
         t.current + 1 <= Size, t.current + 1 <= end, end <= Size + 1,
         Len(tag) \in Nat, Len(tag) <= end - (t.current + 1)
  PROVE  /\ Moved(BackToTag(Advance(t, 1), end, tag), t)
         /\ t.start <= BackToTag(Advance(t, 1), end, tag).current
<1> DEFINE open == Advance(t, 1)
           far == IF end > Size THEN Size ELSE end
           after == Walk(open, far)
           n == Len(tag)
<1>1. t.current \in Nat /\ t.current >= 1 /\ t.start \in Nat /\ t.start <= t.current
  BY BegunFields
<1>2. n \in Nat /\ n <= end - (t.current + 1)
  OBVIOUS
<1>3. Begun(open) /\ Moved(open, t) /\ open.current = t.current + 1
  BY <1>1, AdvanceBegun
<1>4. far \in Int /\ far >= t.current + 1
  BY <1>1
<1> HIDE DEF open, far, n
<1>5. Begun(after) /\ Moved(after, open) /\ after.current = IF far <= open.current THEN open.current ELSE far
  BY <1>3, <1>4, WalkBegun
<1>6. after.current = far /\ after \in State /\ Moved(after, t)
  <2>1. after.current = far
    BY <1>1, <1>3, <1>4, <1>5
  <2>2. after \in State
    BY <1>5, BegunFields
  <2>3. Moved(after, t)
    BY <1>3, <1>5, MovedTwice
  <2> QED BY <2>1, <2>2, <2>3
<1> HIDE DEF after
<1>7. CASE end >= Size
  <2>1. BackToTag(open, end, tag) = Advance(after, -n)
    BY <1>7 DEF BackToTag, after, far, n
  <2>2. -n \in Int /\ far + (-n) \in Nat /\ far + (-n) >= t.start
    <3>1. far = Size /\ (end = Size \/ end = Size + 1)
      BY <1>7 DEF far
    <3> HIDE DEF far
    <3>2. far \in Int /\ end \in {far, far + 1}
      BY <3>1
    <3> QED BY <1>1, <1>2, <3>2, StepsBack
  <2>3. Moved(Advance(after, -n), after) /\ Advance(after, -n).current = far + (-n)
    BY <1>6, <2>2, AdvanceMoves
  <2>4. Moved(Advance(after, -n), t)
    BY <1>6, <2>3, MovedTwice
  <2> QED BY <2>1, <2>2, <2>3, <2>4 DEF open
<1>8. CASE ~(end >= Size)
  <2> DEFINE back == Advance(after, -1)
  <2>1. BackToTag(open, end, tag) = Advance(back, -n)
    BY <1>8 DEF BackToTag, after, far, n
  <2>2. /\ -1 \in Int /\ far + (-1) \in Nat
        /\ -n \in Int /\ (far + (-1)) + (-n) \in Nat /\ (far + (-1)) + (-n) >= t.start
    BY <1>1, <1>2, <1>8 DEF far
  <2>3. Moved(back, after) /\ back.current = far + (-1)
    BY <1>6, <2>2, AdvanceMoves
  <2>4. back \in State /\ Moved(back, t)
    BY <1>6, <2>3, MovedTwice DEF Moved
  <2> HIDE DEF back
  <2>5. Moved(Advance(back, -n), back) /\ Advance(back, -n).current = (far + (-1)) + (-n)
    BY <2>2, <2>3, <2>4, AdvanceMoves
  <2>6. Moved(Advance(back, -n), t)
    BY <2>4, <2>5, MovedTwice
  <2> QED BY <2>1, <2>2, <2>5, <2>6 DEF open
<1> QED BY <1>7, <1>8

LEMMA ScanHeredocKeeps ==
  ASSUME sql \in Seq(STRING), Size \in Nat, self \in State, NEW t, Begun(t), ScanHeredoc(t)
  PROVE  Kept(self')
<1> DEFINE open == Advance(t, 1)
           end == StringEnd(open.current, <<Heredoc>>, TRUE, Escapes)
           tag == TagText(open.current, end)
           close == <<Heredoc>> \o tag \o <<Heredoc>>
           first == Advance(Walk(open, end), 1)
           string == [close |-> close, type |-> "HEREDOC", digits |-> {}]
<1>1. t.current \in Nat /\ Begun(open) /\ open.current = t.current + 1 /\ open.current \in Nat
  BY BegunFields, AdvanceBegun
<1>2. \/ Raise
      \/ open.current <= Size /\ end <= Size + 1 /\ Add(BackToTag(open, end, tag), "PARAMETER")
      \/ end <= Size /\ ExtractString(first, string, FALSE, Escapes)
  BY DEF ScanHeredoc
<1>3. end \in Int /\ (open.current <= Size => open.current <= end) /\ (end <= Size => open.current <= end)
  <2> HIDE DEF open
  <2>1. open.current \in Nat \ {0}
    BY <1>1
  <2> QED BY <2>1, TagEnds
<1>7. ASSUME open.current <= end
      PROVE  tag \in Seq(AtValues) /\ Len(tag) \in Nat /\ Len(tag) <= end - open.current
  <2> HIDE DEF open, end
  <2>1. \A q : At(q) \in AtValues
    BY AtIsOfThem
  <2> QED BY <1>1, <1>3, <1>7, <2>1, TagFacts
<1> HIDE DEF end, tag
<1>4. CASE Raise
  BY <1>4, RaiseKeeps
<1>5. CASE open.current <= Size /\ end <= Size + 1 /\ Add(BackToTag(open, end, tag), "PARAMETER")
  <2>1. Len(tag) \in Nat /\ Len(tag) <= end - (t.current + 1)
    <3> HIDE DEF open
    <3>1. open.current <= end
      BY <1>3, <1>5
    <3> QED BY <1>1, <1>7, <3>1
  <2>2. t.current + 1 <= Size /\ t.current + 1 <= end /\ end <= Size + 1
    <3> HIDE DEF open
    <3> QED BY <1>1, <1>3, <1>5
  <2>3. Moved(BackToTag(open, end, tag), t) /\ t.start <= BackToTag(open, end, tag).current
    BY <1>3, <2>1, <2>2, BackToTagBegun
  <2>4. "PARAMETER" \in TokenTypes
    BY DEF TokenTypes
  <2> HIDE DEF open
  <2> QED BY <1>5, <2>3, <2>4, ReadKeeps
<1>6. CASE end <= Size /\ ExtractString(first, string, FALSE, Escapes)
  <2>1. Begun(first)
    <3>1. Begun(Walk(open, end))
      BY <1>1, <1>3, WalkBegun
    <3> QED BY <3>1, AdvanceBegun
  <2>2. Len(string.close) \in Nat
    <3> HIDE DEF open
    <3>1. open.current <= end
      BY <1>3, <1>6
    <3>2. tag \in Seq(AtValues)
      BY <1>7, <3>1
    <3>3. tag \in Seq(AtValues \union {Heredoc})
      BY <3>2
    <3>4. close \in Seq(AtValues \union {Heredoc})
      BY <3>3
    <3> HIDE DEF close
    <3> QED BY <3>4
  <2>3. string.type \in TokenTypes
    BY DEF TokenTypes
  <2> HIDE DEF string, first
  <2> QED BY <1>6, <2>1, <2>2, <2>3, ExtractKeeps
<1> QED BY <1>2, <1>4, <1>5, <1>6

LEMMA ScanCommentKeeps ==
  ASSUME Size \in Nat, self \in State, NEW t, Begun(t), NEW open \in DOMAIN Comments, ScanComment(t, open)
  PROVE  Kept(self')
<1> DEFINE close == Comments[open]
           first == Advance(t, Len(open))
           end == BlockEnd(first.current, open, close)
<1>1. t.current \in Nat /\ t.line \in Nat
  BY BegunFields
<1>2. Len(open) \in Nat \ {0} /\ Len(close) \in Nat
  <2>1. open \in Seq(STRING) /\ open # <<>> /\ close \in Seq(STRING)
    BY WordsAssumption
  <2> QED BY <2>1, LenProperties, EmptySeq, Zenon
<1>3. \/ Raise
      \/ WithComment(Walk(t, LineEnd(t.current)), t.line, open)
      \/ first.current <= Size /\ WithComment(ThroughDelimiter(first, end, Len(close)), t.line, open)
  BY DEF ScanComment
<1>4. CASE Raise
  BY <1>4, RaiseKeeps
<1>5. CASE WithComment(Walk(t, LineEnd(t.current)), t.line, open)
  <2>1. Begun(Walk(t, LineEnd(t.current)))
    BY <1>1, LineEndIsNumber, WalkBegun
  <2> QED BY <1>1, <1>5, <2>1, CommentKeeps
<1>6. CASE first.current <= Size /\ WithComment(ThroughDelimiter(first, end, Len(close)), t.line, open)
  <2>1. Begun(first) /\ first.current \in Nat /\ first.current >= 1
    BY <1>2, AdvanceBegun, BegunFields
  <2> HIDE DEF first
  <2>2. first.current \in 1..Size
    BY <1>6, <2>1
  <2>3. end \in Int
    BY <1>2, <2>2, BlockEndsNumbers DEF BlockEnd
  <2> DEFINE u == ThroughDelimiter(first, end, Len(close))
  <2> HIDE DEF end
  <2>4. first \in State
    BY <2>1, BegunFields
  <2>5. Moved(u, first) /\ first.current <= u.current
    BY <1>2, <2>3, <2>4, ThroughDelimiterMoves
  <2> HIDE DEF u
  <2>6. u.current \in Nat
    BY <2>5, StateFields DEF Moved
  <2>7. first.start <= u.current
    BY <2>1, <2>5, <2>6, BegunFields
  <2>8. Begun(u)
    BY <2>1, <2>5, <2>7, MovedBegun
  <2> QED BY <1>1, <1>6, <2>8, CommentKeeps DEF u
<1> QED BY <1>3, <1>4, <1>5, <1>6

(* A token for all that has been read up to p.                             *)
LEMMA WalkKeeps ==
  ASSUME NEW t, Begun(t), NEW p \in Int, NEW type \in TokenTypes, Add(Walk(t, p), type)
  PROVE  Kept(self')
<1>1. Begun(Walk(t, p))
  BY WalkBegun
<1> QED BY <1>1, ScanAdds DEF Add

LEMMA ScanVarKeeps ==
  ASSUME Size \in Nat, NEW t, Begun(t), ScanVar(t)
  PROVE  Kept(self')
<1> DEFINE end == RunEnd(t.current, DOMAIN Singles \ VarSingles)
           word == SubSeq(sql, t.start, end)
           type == IF LastType # "PARAMETER" /\ word \in DOMAIN Keywords THEN Keywords[word] ELSE "VAR"
<1>1. end \in Int
  BY BegunFields, RunEndIsLater
<1>2. Add(Walk(t, end), type)
  BY DEF ScanVar
<1>3. type \in TokenTypes
  BY DEF TokenTypes
<1> HIDE DEF end, type
<1> QED BY <1>1, <1>2, <1>3, WalkKeeps

LEMMA ScanRadixKeeps ==
  ASSUME Size \in Nat, NEW t, Begun(t), NEW letter \in DOMAIN Radixes, ScanRadix(t, Radixes[letter])
  PROVE  Kept(self')
<1> DEFINE radix == Radixes[letter]
           end == RunEnd(t.current + 1, DOMAIN Singles)
           value == SubSeq(sql, t.current + 2, end)
           valid == value # <<>> /\ ToSet(value) \subseteq radix.digits
           type == IF valid THEN radix.type ELSE "IDENTIFIER"
<1>1. end \in Int
  <2>1. t.current + 1 \in Nat
    BY BegunFields
  <2> QED BY <2>1, RunEndIsLater
<1>2. Add(Walk(t, end), type)
  BY DEF ScanRadix
<1>3. type \in TokenTypes
  <2> HIDE DEF valid
  <2> QED BY DEF TokenTypes
<1> HIDE DEF end, type
<1> QED BY <1>1, <1>2, <1>3, WalkKeeps

(* A number and its suffix are three tokens, the second without a text.    *)
LEMMA SuffixKeeps ==
  ASSUME NEW t, Begun(t), NEW p \in Nat, t.start <= p, p <= t.current,
         NEW type \in TokenTypes
  PROVE  LET number == Added(t, "NUMBER", t.start, p)
             cast == Added(number, "DCOLON", p + 1, p)
         IN Kept(Added(cast, type, p + 1, t.current))
<1> DEFINE e == t.current
           number == Added(t, "NUMBER", t.start, p)
           cast == Added(number, "DCOLON", p + 1, p)
           read == Added(cast, type, p + 1, e)
<1>1. t \in State /\ t.start \in Nat /\ t.start >= 1 /\ e \in Nat /\ t.start - 1 \in Nat /\ p + 1 \in Nat
      /\ t.status = "scan" /\ ScanInv(t, t.start - 1)
  BY BegunFields DEF Begun
<1>2. "NUMBER" \in TokenTypes /\ "DCOLON" \in TokenTypes
  BY DEF TokenTypes
<1>3. "NUMBER" \notin Commands /\ "DCOLON" \notin Commands
  BY CommandsAssumption
<1>4. ScanInv(number, p) /\ Grown(number, t)
  <2>1. /\ t.start - 1 <= p /\ t.start - 1 < t.start /\ p <= p
        /\ \A q \in (t.start - 1 + 1)..p : q \in t.start..p
    BY <1>1
  <2> QED BY <1>1, <1>2, <1>3, <2>1, AddBehind
<1> HIDE DEF number
<1>5. number \in State /\ number.current = e /\ number.status = "scan"
  BY <1>1, <1>4 DEF Grown
<1>6. ScanInv(cast, p) /\ Grown(cast, number)
  <2>1. p <= p /\ p < p + 1 /\ \A q \in (p + 1)..p : q \in (p + 1)..p
    OBVIOUS
  <2> QED BY <1>1, <1>2, <1>3, <1>4, <1>5, <2>1, AddBehind
<1> HIDE DEF cast
<1>7. cast \in State /\ cast.current = e /\ cast.status = "scan"
  BY <1>5, <1>6 DEF Grown
<1>8. ScanInv(read, e) /\ Grown(read, cast)
  <2>1. p <= e /\ p < p + 1 /\ e <= e /\ \A q \in (p + 1)..e : q \in (p + 1)..e
    BY <1>1
  <2> QED BY <1>1, <1>6, <1>7, <2>1, AddBehind
<1> HIDE DEF read
<1>9. Kept(read)
  BY <1>7, <1>8 DEF Grown, Kept
<1> QED BY <1>9 DEF read, cast, number

LEMMA NumberWithLiteralKeeps ==
  ASSUME sql \in Seq(STRING), Size \in Nat, NEW t, Begun(t), NEW q \in Int, q >= t.current,
         q = t.current \/ q <= Size, NumberWithLiteral(t, q)
  PROVE  Kept(self')
<1> DEFINE literal == SubSeq(sql, t.current + 1, q)
           after == Walk(t, q)
           number == Added(after, "NUMBER", t.start, t.current)
           cast == Added(number, "DCOLON", t.current + 1, t.current)
           back == GiveBack(after, literal)
<1>1. t.current \in Nat /\ t.start \in Nat /\ t.start <= t.current /\ t.current >= 1
  BY BegunFields
<1>2. \/ literal \in DOMAIN NumericSuffixes /\ self' = Added(cast, NumericSuffixes[literal], t.current + 1, q)
      \/ Add(after, "NUMBER")
      \/ Add(after, "VAR")
      \/ self' = Added(back, "NUMBER", t.start, t.current)
  BY DEF NumberWithLiteral
<1>3. "NUMBER" \in TokenTypes /\ "VAR" \in TokenTypes
  BY DEF TokenTypes
<1>4. Begun(after) /\ Moved(after, t) /\ after.current = q
  <2>1. Begun(after) /\ Moved(after, t) /\ after.current = IF q <= t.current THEN t.current ELSE q
    BY WalkBegun
  <2> HIDE DEF after
  <2> QED BY <1>1, <2>1
<1>5. after.start = t.start /\ after \in State
  BY <1>4 DEF Moved
<1>6. CASE literal \in DOMAIN NumericSuffixes /\ self' = Added(cast, NumericSuffixes[literal], t.current + 1, q)
  <2>1. NumericSuffixes[literal] \in TokenTypes
    BY <1>6 DEF TokenTypes
  <2>2. after.start <= t.current /\ t.current <= after.current
    BY <1>1, <1>4, <1>5
  <2> HIDE DEF after, literal
  <2>3. Kept(Added(Added(Added(after, "NUMBER", after.start, t.current), "DCOLON", t.current + 1, t.current),
                   NumericSuffixes[literal], t.current + 1, after.current))
    BY <1>1, <1>4, <2>1, <2>2, SuffixKeeps
  <2> QED BY <1>4, <1>5, <1>6, <2>3
<1>7. CASE Add(after, "NUMBER")
  BY <1>3, <1>7, WalkKeeps
<1>8. CASE Add(after, "VAR")
  BY <1>3, <1>8, WalkKeeps
<1>9. CASE self' = Added(back, "NUMBER", t.start, t.current)
  <2> DEFINE n == Len(literal)
  <2>1. n \in Nat /\ n = q - t.current
    <3>1. t.current + 1 \in Nat \ {0} /\ (t.current + 1 <= q => q <= Size)
      BY <1>1
    <3>2. n = IF t.current + 1 <= q THEN q - (t.current + 1) + 1 ELSE 0
      BY <3>1, SliceFacts
    <3> HIDE DEF n
    <3> QED BY <1>1, <3>2
  <2>2. back = Advance(after, -n)
    BY DEF GiveBack
  <2> HIDE DEF n, after, back
  <2>3. -n \in Int /\ after.current + (-n) = t.current
    BY <1>1, <1>4, <2>1
  <2>4. Moved(back, after) /\ back.current = t.current
    BY <1>1, <1>5, <2>2, <2>3, AdvanceMoves
  <2>5. back.start = t.start
    BY <1>5, <2>4 DEF Moved
  <2>6. Begun(back)
    BY <1>1, <1>4, <1>5, <2>4, MovedBegun
  <2>7. Kept(Added(back, "NUMBER", back.start, back.current))
    BY <1>3, <2>6, ScanAdds
  <2> QED BY <1>9, <2>4, <2>5, <2>7
<1> QED BY <1>2, <1>6, <1>7, <1>8, <1>9

LEMMA ScanNumberKeeps ==
  ASSUME sql \in Seq(STRING), Size \in Nat, NEW t, Begun(t), ScanNumber(t)
  PROVE  Kept(self')
<1> DEFINE end == NumberEnd(t.current)
           number == Walk(t, end)
           radix == IF At(t.current) = "0" THEN At(t.current + 1) ELSE ""
           q == RunEnd(number.current, DOMAIN Singles)
<1>1. end \in Int
  BY BegunFields, NumberEndIsNumber
<1>2. \/ radix \in DOMAIN Radixes /\ ScanRadix(t, Radixes[radix])
      \/ Add(t, "NUMBER")
      \/ Add(number, "NUMBER")
      \/ NumberWithLiteral(number, q)
  BY DEF ScanNumber
<1>3. "NUMBER" \in TokenTypes
  BY DEF TokenTypes
<1> HIDE DEF radix, end
<1>4. CASE radix \in DOMAIN Radixes /\ ScanRadix(t, Radixes[radix])
  BY <1>4, ScanRadixKeeps
<1>5. CASE Add(t, "NUMBER")
  BY <1>3, <1>5, ScanAdds DEF Add
<1>6. CASE Add(number, "NUMBER")
  BY <1>1, <1>3, <1>6, WalkKeeps
<1>7. CASE NumberWithLiteral(number, q)
  <2>1. Begun(number)
    BY <1>1, WalkBegun
  <2> HIDE DEF number
  <2>2. q \in Int /\ q >= number.current /\ (q = number.current \/ q <= Size)
    BY <2>1, BegunFields, RunEndIsLater
  <2> HIDE DEF q
  <2> QED BY <1>7, <2>1, <2>2, NumberWithLiteralKeeps
<1> QED BY <1>2, <1>4, <1>5, <1>6, <1>7

-----------------------------------------------------------------------------
(* Keywords                                                                *)

Blank == " "

(* The text from p on, by how much of it has been read.                    *)
Reading(chars, p, N, X) ==
  /\ chars \in [0..N -> Seq(X)] /\ chars[0] = <<>>
  /\ \A n \in 1..N :
       \/ At(p + n - 1) \in Spaces /\ chars[n] = chars[n - 1] /\ n > 1 /\ At(p + (n - 1) - 1) \in Spaces
       \/ At(p + n - 1) \in Spaces /\ chars[n] = Append(chars[n - 1], Blank)
       \/ At(p + n - 1) \notin Spaces /\ chars[n] = Append(chars[n - 1], At(p + n - 1))

LEMMA CharsReadFacts ==
  ASSUME Size \in Nat, NEW p \in Nat, NEW N \in Nat, N = Size + 1 - p, NEW X, Blank \in X, \A q \in Int : At(q) \in X
  PROVE  Reading(CharsRead(p), p, N, X)
<1> DEFINE blank(n) == At(p + n - 1) \in Spaces
           Value(s, n) == IF n > 1 /\ blank(n) /\ blank(n - 1) THEN s
                          ELSE Append(s, IF blank(n) THEN Blank ELSE At(p + n - 1))
           Body(f) == [n \in 0..N |-> IF n = 0 THEN <<>> ELSE Value(f[n - 1], n)]
           S == Seq(X)
           next == [x \in (1..N) \X S |-> Value(x[2], x[1])]
           chars == CharsRead(p)
<1>1. chars = CHOOSE f : f = Body(f)
  BY Zenon DEF CharsRead, Blank
<1>2. ASSUME NEW n \in 1..N, NEW s \in S
      PROVE  /\ Value(s, n) \in S
             /\ \/ At(p + n - 1) \in Spaces /\ Value(s, n) = s /\ n > 1 /\ At(p + (n - 1) - 1) \in Spaces
                \/ At(p + n - 1) \in Spaces /\ Value(s, n) = Append(s, Blank)
                \/ At(p + n - 1) \notin Spaces /\ Value(s, n) = Append(s, At(p + n - 1))
  <2>1. p + n - 1 \in Int
    OBVIOUS
  <2>2. At(p + n - 1) \in X
    BY <2>1
  <2> QED BY <2>2
<1> HIDE DEF Value
<1>3. \E f : f = Body(f)
  <2>1. next \in [(1..N) \X S -> S] /\ <<>> \in S
    BY <1>2
  <2>2. PICK g : Recursive(g, N, S, <<>>, next)
    <3> HIDE DEF next, S
    <3> QED BY <2>1, Recursion
  <2>3. g \in [0..N -> S] /\ g[0] = <<>> /\ \A n \in 1..N : g[n] = next[<<n, g[n - 1]>>]
    BY <2>2 DEF Recursive
  <2>4. ASSUME NEW n \in 1..N PROVE g[n] = Value(g[n - 1], n)
    <3>1. n - 1 \in 0..N
      OBVIOUS
    <3>2. g[n - 1] \in S
      BY <2>3, <3>1
    <3>3. next[<<n, g[n - 1]>>] = Value(g[n - 1], n)
      <4> HIDE DEF S
      <4> QED BY <3>2
    <3> QED BY <2>3, <3>3
  <2>5. \A n \in 0..N : g[n] = Body(g)[n]
    BY <2>3, <2>4
  <2>6. DOMAIN g = 0..N /\ g = [n \in 0..N |-> g[n]]
    BY <2>3
  <2>7. g = Body(g)
    BY <2>5, <2>6
  <2> QED BY <2>7
<1>4. chars = Body(chars)
  <2> HIDE DEF Body, chars
  <2> QED BY <1>1, <1>3
<1> HIDE DEF chars
<1>5. DOMAIN chars = 0..N /\ chars[0] = <<>> /\ \A n \in 1..N : chars[n] = Value(chars[n - 1], n)
  <2>1. DOMAIN Body(chars) = 0..N /\ Body(chars)[0] = <<>>
    OBVIOUS
  <2>2. \A n \in 1..N : Body(chars)[n] = Value(chars[n - 1], n)
    OBVIOUS
  <2> HIDE DEF Body
  <2> QED BY <1>4, <2>1, <2>2
<1> DEFINE P == {n \in 0..N : chars[n] \in S}
<1>6. \A n \in 0..N : n \in P
  <2>1. 0 \in P
    <3>1. chars[0] \in S /\ 0 \in 0..N
      BY <1>5
    <3> HIDE DEF S
    <3> QED BY <3>1
  <2>2. ASSUME NEW n \in 1..N, n - 1 \in P PROVE n \in P
    <3>1. n \in 0..N
      OBVIOUS
    <3>2. Value(chars[n - 1], n) \in S
      <4> HIDE DEF S
      <4> QED BY <1>2, <2>2
    <3> QED BY <1>5, <3>1, <3>2
  <2> HIDE DEF P
  <2> QED BY <2>1, <2>2, UpTo
<1>7. chars = [n \in 0..N |-> chars[n]]
  <2> DEFINE f == [n \in 0..N |-> chars[n]]
  <2>1. chars = Body(chars) /\ Body(chars) = [n \in 0..N |-> Body(chars)[n]]
    BY <1>4
  <2> HIDE DEF Body
  <2> QED BY <2>1
<1>8. chars \in [0..N -> S]
  <2> HIDE DEF S
  <2> QED BY <1>6, <1>7
<1>9. ASSUME NEW n \in 1..N
      PROVE  \/ At(p + n - 1) \in Spaces /\ chars[n] = chars[n - 1] /\ n > 1 /\ At(p + (n - 1) - 1) \in Spaces
             \/ At(p + n - 1) \in Spaces /\ chars[n] = Append(chars[n - 1], Blank)
             \/ At(p + n - 1) \notin Spaces /\ chars[n] = Append(chars[n - 1], At(p + n - 1))
  <2>1. n - 1 \in 0..N
    OBVIOUS
  <2>2. chars[n - 1] \in S
    BY <1>6, <2>1
  <2> HIDE DEF S
  <2> QED BY <1>2, <1>5, <2>2
<1> QED BY <1>5, <1>8, <1>9 DEF Reading, chars

Before(r, s) == Len(r) <= Len(s) /\ \A i \in 1..Len(r) : r[i] = s[i]

LEMMA ReadingGrows ==
  ASSUME NEW chars, NEW p \in Nat, NEW N \in Nat, NEW X, Reading(chars, p, N, X)
  PROVE  \A m \in 0..N : \A n \in 0..N : m <= n => Before(chars[m], chars[n])
<1>1. SUFFICES ASSUME NEW m \in 0..N PROVE \A n \in 0..N : m <= n => Before(chars[m], chars[n])
  OBVIOUS
<1>2. \A n \in 0..N : chars[n] \in Seq(X)
  BY DEF Reading
<1> DEFINE P == {n \in 0..N : m <= n => Before(chars[m], chars[n])}
<1>3. \A n \in 0..N : n \in P
  <2>1. \A n \in 0..N : n <= m => n \in P
    <3>1. Before(chars[m], chars[m])
      BY <1>2, LenProperties DEF Before
    <3>2. ASSUME NEW n \in 0..N, n <= m, m <= n PROVE n = m
      BY <3>2
    <3> QED BY <3>1, <3>2
  <2>2. ASSUME NEW n \in 1..N, n - 1 \in P PROVE n \in P
    <3>1. n \in 0..N /\ n - 1 \in 0..N
      OBVIOUS
    <3>2. CASE n <= m
      BY <2>1, <3>1, <3>2
    <3>3. CASE ~(n <= m)
      <4>1. Before(chars[m], chars[n - 1])
        BY <2>2, <3>3
      <4>2. chars[n] = chars[n - 1] \/ chars[n] = Append(chars[n - 1], Blank)
            \/ chars[n] = Append(chars[n - 1], At(p + n - 1))
        BY DEF Reading
      <4>3. chars[m] \in Seq(X) /\ chars[n - 1] \in Seq(X)
        BY <1>2, <3>1
      <4>4. ASSUME NEW r \in Seq(X), NEW s \in Seq(X), NEW x, Before(r, s) PROVE Before(r, Append(s, x))
        BY <4>4 DEF Before
      <4>5. Before(chars[m], chars[n])
        BY <4>1, <4>2, <4>3, <4>4
      <4> QED BY <3>1, <4>5
    <3> QED BY <3>2, <3>3
  <2>3. 0 \in P
    BY <2>1
  <2> HIDE DEF P
  <2> QED BY <2>2, <2>3, UpTo
<1> QED BY <1>3

(* Every length is reached, first by a character that is not left out.     *)
LEMMA ReadingReaches ==
  ASSUME NEW chars, NEW p \in Nat, NEW N \in Nat, NEW X, Reading(chars, p, N, X)
  PROVE  \A n \in 0..N : \A l \in 1..Len(chars[n]) :
           \E m \in 1..n : Len(chars[m]) = l /\ chars[m] # chars[m - 1]
<1>1. \A n \in 0..N : chars[n] \in Seq(X)
  BY DEF Reading
<1> DEFINE reached(n, l) == \E m \in 1..n : Len(chars[m]) = l /\ chars[m] # chars[m - 1]
           P == {n \in 0..N : \A l \in 1..Len(chars[n]) : reached(n, l)}
<1>2. \A n \in 0..N : n \in P
  <2>1. 0 \in P
    <3>1. Len(chars[0]) = 0 /\ 0 \in 0..N
      BY DEF Reading
    <3> HIDE DEF reached
    <3> QED BY <3>1
  <2>2. ASSUME NEW n \in 1..N, n - 1 \in P PROVE n \in P
    <3>1. n \in 0..N /\ n - 1 \in 0..N
      OBVIOUS
    <3>2. chars[n] \in Seq(X) /\ chars[n - 1] \in Seq(X)
      BY <1>1, <3>1
    <3>3. \A l : reached(n - 1, l) => reached(n, l)
      <4>1. \A m \in 1..(n - 1) : m \in 1..n
        OBVIOUS
      <4> QED BY <4>1
    <3>4. \A l \in 1..Len(chars[n - 1]) : reached(n - 1, l)
      BY <2>2
    <3>5. \/ chars[n] = chars[n - 1]
          \/ Len(chars[n]) = Len(chars[n - 1]) + 1 /\ chars[n] # chars[n - 1]
      <4>1. chars[n] = chars[n - 1] \/ chars[n] = Append(chars[n - 1], Blank)
            \/ chars[n] = Append(chars[n - 1], At(p + n - 1))
        BY DEF Reading
      <4>2. ASSUME NEW s \in Seq(X), NEW x PROVE Len(Append(s, x)) = Len(s) + 1 /\ Append(s, x) # s
        OBVIOUS
      <4> QED BY <3>2, <4>1, <4>2
    <3>6. ASSUME chars[n] # chars[n - 1] PROVE reached(n, Len(chars[n]))
      BY <3>6
    <3> HIDE DEF reached
    <3>7. ASSUME NEW l \in 1..Len(chars[n]) PROVE reached(n, l)
      <4>1. CASE chars[n] = chars[n - 1]
        BY <3>3, <3>4, <4>1
      <4>2. CASE chars[n] # chars[n - 1]
        <5>1. l \in 1..Len(chars[n - 1]) \/ l = Len(chars[n])
          BY <3>2, <3>5, <4>2
        <5> QED BY <3>3, <3>4, <3>6, <4>2, <5>1
      <4> QED BY <4>1, <4>2
    <3> QED BY <3>1, <3>7
  <2> HIDE DEF P
  <2> QED BY <2>1, <2>2, UpTo
<1> QED BY <1>2

LEMMA BeforeIsPrefix ==
  ASSUME NEW X, NEW r \in Seq(X), NEW s \in Seq(X)
  PROVE  /\ Before(r, s) <=> IsPrefix(r, s)
         /\ Before(r, s) /\ Len(r) = Len(s) => r = s
<1>1. Len(r) \in Nat /\ Len(s) \in Nat
  OBVIOUS
<1>2. ASSUME Len(r) <= Len(s)
      PROVE  SubSeq(r, 1, Len(r)) = SubSeq(s, 1, Len(r)) <=> \A i \in 1..Len(r) : r[i] = s[i]
  <2> DEFINE a == SubSeq(r, 1, Len(r))
             b == SubSeq(s, 1, Len(r))
  <2>1. a \in Seq(X) /\ b \in Seq(X) /\ Len(a) = Len(r) /\ Len(b) = Len(r)
    BY <1>1, <1>2
  <2>2. \A i \in 1..Len(r) : a[i] = r[i] /\ b[i] = s[i]
    BY <1>1, <1>2
  <2> HIDE DEF a, b
  <2>3. a = b <=> \A i \in 1..Len(r) : a[i] = b[i]
    BY <2>1, SeqEqual
  <2>4. a = b <=> \A i \in 1..Len(r) : r[i] = s[i]
    BY <2>2, <2>3
  <2> QED BY <2>4 DEF a, b
<1>3. Before(r, s) <=> IsPrefix(r, s)
  BY <1>2 DEF Before, IsPrefix
<1>4. ASSUME Before(r, s), Len(r) = Len(s) PROVE r = s
  <2>1. \A i \in 1..Len(r) : r[i] = s[i]
    BY <1>4 DEF Before
  <2> QED BY <1>4, <2>1, SeqEqual
<1> QED BY <1>3, <1>4

LEMMA TrieWordsFacts ==
  ASSUME NEW X, STRING \subseteq X, Heredoc \in X, NEW v \in TrieWords
  PROVE  v \in Seq(X) /\ (Len(v) >= 1 => v \in TriePrefixes)
<1>1. v \in DOMAIN Keywords \union DOMAIN Comments \union DOMAIN Strings \union {<<Heredoc>>}
  BY Zenon DEF TrieWords
<1>2. v \in Seq(STRING) \/ v = <<Heredoc>>
  BY <1>1, WordsAssumption
<1>3. v \in Seq(X)
  <2>1. CASE v \in Seq(STRING)
    BY <2>1, SeqMonotonic, Zenon
  <2>2. CASE v = <<Heredoc>>
    BY <2>2
  <2> QED BY <1>2, <2>1, <2>2
<1>4. ASSUME Len(v) >= 1 PROVE v \in TriePrefixes
  <2>1. v = SubSeq(v, 1, Len(v)) /\ Len(v) \in 1..Len(v)
    BY <1>3, <1>4
  <2> DEFINE prefixes(w) == {SubSeq(w, 1, n) : n \in 1..Len(w)}
  <2>2. TriePrefixes = UNION {prefixes(w) : w \in TrieWords}
    BY DEF TriePrefixes
  <2>3. SubSeq(v, 1, Len(v)) \in prefixes(v)
    BY <2>1
  <2> HIDE DEF prefixes
  <2>4. SubSeq(v, 1, Len(v)) \in TriePrefixes
    BY <2>2, <2>3
  <2> QED BY <2>1, <2>4, Zenon
<1> QED BY <1>3, <1>4

LEMMA NoDeadEnd ==
  ASSUME NEW w \in TrieWords \intersect DOMAIN Keywords, NEW p \in TriePrefixes \ TrieWords, IsPrefix(w, p)
  PROVE  p = Append(w, Blank) \/ \E v \in TrieWords : IsPrefix(v, p) /\ Len(v) > Len(w)
BY KeywordsMeetNoDeadEnd, Zenon DEF Blank

(* What is read behind a keyword, as far as the trie was followed, is      *)
(* white space.                                                            *)
LEMMA SpacesAfterKeyword ==
  ASSUME Size \in Nat, NEW p \in 1..Size, Followed(p).word \in DOMAIN Keywords
  PROVE  /\ Followed(p).last \in Nat /\ Followed(p).end \in Nat
         /\ p <= Followed(p).last /\ Followed(p).last <= Followed(p).end
         /\ \A q \in (Followed(p).last + 1)..Followed(p).end : At(q) \in Spaces
<1> DEFINE N == Size + 1 - p
           X == STRING \union {Heredoc, Blank} \union {At(q) : q \in Int}
           chars == CharsRead(p)
           met == {n \in 1..N : chars[n] \in TriePrefixes}
           words == {n \in met : chars[n] \in TrieWords /\ chars[n] # chars[n - 1]}
           Latest(places) == IF places = {} THEN 0 ELSE Max(places)
           W == Latest(words)
           M == Latest(met)
           L(n) == Len(chars[n])
<1>1. N \in Nat /\ p \in Nat
  OBVIOUS
<1>2. Blank \in X /\ STRING \subseteq X /\ Heredoc \in X /\ \A q \in Int : At(q) \in X
  OBVIOUS
<1>3. Reading(chars, p, N, X)
  <2> HIDE DEF X
  <2> QED BY <1>1, <1>2, CharsReadFacts
<1>4. Followed(p) = [end |-> p - 1 + M, word |-> chars[W], last |-> p - 1 + W]
  BY DEF Followed
<1> HIDE DEF chars, X
<1>5. /\ chars[0] = <<>> /\ \A n \in 0..N : chars[n] \in Seq(X) /\ L(n) \in Nat
  <2>1. \A n \in 0..N : chars[n] \in Seq(X)
    BY <1>3 DEF Reading
  <2> QED BY <1>3, <2>1, LenProperties DEF Reading
<1>6. words # {} /\ words \subseteq 1..N /\ met # {} /\ met \subseteq 1..N /\ words \subseteq met
  <2>1. words = {} => W = 0
    OBVIOUS
  <2>2. words # {}
    <3> HIDE DEF words
    <3> SUFFICES ASSUME words = {} PROVE FALSE
      OBVIOUS
    <3>1. chars[0] \in DOMAIN Keywords
      BY <1>4, <2>1
    <3> QED BY <1>5, <3>1, WordsAssumption
  <2> QED BY <2>2
<1>7. /\ W \in words /\ \A n \in words : n <= W
      /\ M \in met /\ \A n \in met : n <= M
  <2> HIDE DEF words, met
  <2>1. N \in Int /\ 1 \in Int
    BY <1>1
  <2>2. Max(words) \in words /\ \A n \in words : n <= Max(words)
    BY <1>6, <2>1, MaxOfInterval, Zenon
  <2>3. Max(met) \in met /\ \A n \in met : n <= Max(met)
    BY <1>6, <2>1, MaxOfInterval, Zenon
  <2>4. W = Max(words) /\ M = Max(met)
    BY <1>6
  <2> QED BY <2>2, <2>3, <2>4
<1> HIDE DEF W, M
<1>8. /\ W \in 1..N /\ M \in 1..N /\ W <= M /\ W \in 0..N /\ M \in 0..N
      /\ chars[W] \in TrieWords /\ chars[M] \in TriePrefixes
  BY <1>6, <1>7
<1>9. \A n \in 1..N : chars[n] \in TrieWords /\ L(n) >= 1 /\ chars[n] # chars[n - 1] => n <= W
  <2>1. \A n \in 1..N : chars[n] \in TrieWords /\ L(n) >= 1 => chars[n] \in TriePrefixes
    BY <1>2, TrieWordsFacts
  <2> QED BY <1>7, <2>1
<1> HIDE DEF words, met, N
<1>10. chars[W] \in DOMAIN Keywords /\ Followed(p).last = p - 1 + W /\ Followed(p).end = p - 1 + M
  BY <1>4
<1>11. L(W) >= 1
  <2>1. chars[W] # <<>> /\ chars[W] \in Seq(X)
    BY <1>5, <1>8, <1>10, WordsAssumption
  <2> QED BY <2>1
<1>12. ASSUME NEW m \in 0..N, NEW n \in 0..N, m <= n
       PROVE  Before(chars[m], chars[n]) /\ L(m) <= L(n)
  <2>1. Before(chars[m], chars[n])
    BY <1>1, <1>3, <1>12, ReadingGrows
  <2> QED BY <2>1 DEF Before
<1>13. ASSUME NEW n \in (W + 1)..M PROVE At(p + n - 1) \in Spaces
  <2>1. n \in 1..N /\ n - 1 \in 0..N /\ n \in 0..N /\ W <= n - 1 /\ n <= M
    BY <1>1, <1>8
  <2>2. SUFFICES ASSUME At(p + n - 1) \notin Spaces PROVE FALSE
    OBVIOUS
  <2>3. chars[n] = Append(chars[n - 1], At(p + n - 1))
    BY <1>3, <2>1, <2>2 DEF Reading
  <2>4. L(n) = L(n - 1) + 1 /\ chars[n][L(n)] = At(p + n - 1)
    <3>1. chars[n - 1] \in Seq(X)
      BY <1>5, <2>1
    <3> QED BY <2>3, <3>1
  <2>5. L(W) <= L(n - 1) /\ L(n) <= L(M) /\ Before(chars[n], chars[M])
    BY <1>8, <1>12, <2>1
  <2>6. L(n) \in Nat /\ L(n - 1) \in Nat /\ L(W) \in Nat /\ L(M) \in Nat
    BY <1>5, <1>8, <2>1
  <2>7. ASSUME NEW l \in 1..L(M), l > L(n - 1) \/ l > L(W), NEW m \in 1..M,
               L(m) = l, chars[m] # chars[m - 1], chars[m] \in TrieWords
        PROVE  FALSE
    <3>1. m \in 1..N /\ m \in 0..N
      BY <1>1, <1>8
    <3>2. m <= W
      BY <1>9, <2>7, <3>1
    <3>3. L(m) <= L(W)
      BY <1>8, <1>12, <3>1, <3>2
    <3> QED BY <2>5, <2>6, <2>7, <3>3
  <2>8. ASSUME NEW v \in TrieWords, IsPrefix(v, chars[M]), Len(v) > L(W) PROVE FALSE
    <3>1. v \in Seq(X) /\ chars[M] \in Seq(X)
      BY <1>2, <1>5, <1>8, TrieWordsFacts
    <3>2. Before(v, chars[M]) /\ Len(v) \in Nat
      BY <2>8, <3>1, BeforeIsPrefix, LenProperties
    <3>3. Len(v) \in 1..L(M)
      BY <2>6, <2>8, <3>2 DEF Before
    <3>4. PICK m \in 1..M : L(m) = Len(v) /\ chars[m] # chars[m - 1]
      BY <1>1, <1>3, <1>8, <3>3, ReadingReaches
    <3>5. m \in 0..N /\ m <= M
      BY <1>1, <1>8
    <3>6. Before(chars[m], chars[M]) /\ chars[m] \in Seq(X)
      BY <1>5, <1>8, <1>12, <3>5
    <3>7. chars[m] = v
      <4>1. \A i \in 1..Len(v) : v[i] = chars[M][i] /\ chars[m][i] = chars[M][i]
        BY <3>2, <3>4, <3>6 DEF Before
      <4>2. Before(chars[m], v)
        BY <3>2, <3>4, <4>1 DEF Before
      <4> QED BY <3>1, <3>4, <3>6, <4>2, BeforeIsPrefix
    <3> QED BY <2>7, <2>8, <3>3, <3>4, <3>7
  <2>9. CASE chars[M] \in TrieWords
    <3>1. chars[M] \in Seq(X)
      BY <1>5, <1>8
    <3>2. Before(chars[M], chars[M])
      BY <2>6 DEF Before
    <3>3. IsPrefix(chars[M], chars[M])
      BY <3>1, <3>2, BeforeIsPrefix
    <3>4. L(M) > L(W)
      BY <2>4, <2>5, <2>6
    <3> QED BY <2>8, <2>9, <3>3, <3>4
  <2>10. CASE chars[M] \notin TrieWords
    <3>1. chars[W] \in Seq(X) /\ chars[M] \in Seq(X) /\ Before(chars[W], chars[M])
      BY <1>5, <1>8, <1>12
    <3>2. IsPrefix(chars[W], chars[M])
      BY <3>1, BeforeIsPrefix
    <3>3. \/ chars[M] = Append(chars[W], Blank)
          \/ \E v \in TrieWords : IsPrefix(v, chars[M]) /\ Len(v) > L(W)
      BY <1>8, <1>10, <2>10, <3>2, NoDeadEnd
    <3>4. chars[M] = Append(chars[W], Blank)
      BY <2>8, <3>3
    <3>5. L(M) = L(W) + 1 /\ chars[M][L(M)] = Blank
      BY <3>1, <3>4
    <3>6. L(n) = L(M)
      <4> HIDE DEF L
      <4>1. L(n) = L(n - 1) + 1 /\ L(W) <= L(n - 1) /\ L(n) <= L(M) /\ L(M) = L(W) + 1
        BY <2>4, <2>5, <3>5
      <4> QED BY <2>6, <4>1
    <3>7. chars[n][L(n)] = chars[M][L(n)]
      <4>1. L(n) \in 1..L(n)
        BY <2>4, <2>6
      <4> QED BY <2>5, <4>1 DEF Before
    <3>8. At(p + n - 1) = Blank
      BY <2>4, <3>5, <3>6, <3>7
    <3>9. Blank \in Spaces
      BY Zenon DEF Blank, Spaces, Blanks
    <3> QED BY <2>2, <3>8, <3>9
  <2> QED BY <2>9, <2>10
<1>14. ASSUME NEW q \in (p - 1 + W + 1)..(p - 1 + M) PROVE At(q) \in Spaces
  <2>1. q - p + 1 \in (W + 1)..M /\ p + (q - p + 1) - 1 = q
    BY <1>1, <1>8
  <2> QED BY <1>13, <2>1
<1>15. /\ p - 1 + W \in Nat /\ p - 1 + M \in Nat /\ p <= p - 1 + W /\ p - 1 + W <= p - 1 + M
  BY <1>1, <1>8
<1> QED BY <1>10, <1>14, <1>15

LEMMA ScanKeywordsKeeps ==
  ASSUME sql \in Seq(STRING), Size \in Nat, self \in State, NEW t, Begun(t), t.current <= Size, ScanKeywords(t)
  PROVE  Kept(self')
<1> DEFINE p == t.current
           followed == Followed(p)
           word == followed.word
           end == followed.end
           after == Advance(t, end - p)
<1>1. \/ word \in DOMAIN Strings /\ ScanString(t, word)
      \/ ScanHeredoc(t)
      \/ word \in DOMAIN Comments /\ ScanComment(t, word)
      \/ word \in DOMAIN Keywords /\ self' = Added(after, Keywords[word], t.start, followed.last)
      \/ At(p) \in DOMAIN Singles /\ Add(t, Singles[At(p)])
      \/ ScanVar(t)
  BY DEF ScanKeywords
<1>2. CASE word \in DOMAIN Strings /\ ScanString(t, word)
  BY <1>2, ScanStringKeeps
<1>3. CASE ScanHeredoc(t)
  BY <1>3, ScanHeredocKeeps
<1>4. CASE word \in DOMAIN Comments /\ ScanComment(t, word)
  BY <1>4, ScanCommentKeeps
<1>5. CASE word \in DOMAIN Keywords /\ self' = Added(after, Keywords[word], t.start, followed.last)
  <2> DEFINE last == followed.last
             from == t.start
             type == Keywords[word]
  <2>1. p \in Nat /\ p >= 1 /\ from \in Nat /\ from >= 1 /\ from <= p /\ p \in 1..Size
    BY BegunFields
  <2>2. /\ last \in Nat /\ end \in Nat /\ p <= last /\ last <= end
        /\ \A q \in (last + 1)..end : At(q) \in Spaces
    BY <1>5, <2>1, SpacesAfterKeyword
  <2>3. type \in TokenTypes
    BY <1>5 DEF TokenTypes
  <2> HIDE DEF followed, word, end, last, p, from, type
  <2>4. end - p \in Nat /\ p + (end - p) = end
    BY <2>1, <2>2
  <2>5. Begun(after) /\ after.current = end /\ Moved(after, t)
    <3>1. Begun(after) /\ after.current = t.current + (end - p) /\ Moved(after, t)
      BY <2>4, AdvanceBegun
    <3> QED BY <2>4, <3>1 DEF p
  <2> HIDE DEF after
  <2>6. after \in State /\ ScanInv(after, from - 1) /\ after.status = "scan"
    BY <2>5 DEF Begun, Moved, from
  <2>7. /\ from - 1 \in Nat /\ from - 1 <= end /\ from - 1 < from /\ last <= end
        /\ \A q \in (from - 1 + 1)..end : At(q) \in Spaces \/ q \in from..last
    <3>1. \A q \in (from - 1 + 1)..end : q \in from..last \/ q \in (last + 1)..end
      BY <2>1, <2>2
    <3> QED BY <2>1, <2>2, <3>1
  <2>8. ScanInv(Added(after, type, from, last), end) /\ Grown(Added(after, type, from, last), after)
    BY <2>1, <2>2, <2>3, <2>5, <2>6, <2>7, AddBehind
  <2>9. self' = Added(after, type, from, last)
    BY <1>5 DEF type, from, last
  <2> DEFINE u == Added(after, type, from, last)
  <2> HIDE DEF u
  <2> QED BY <2>5, <2>6, <2>8, <2>9 DEF Grown, Kept, u
<1>6. CASE At(p) \in DOMAIN Singles /\ Add(t, Singles[At(p)])
  <2>1. Singles[At(p)] \in TokenTypes
    BY <1>6 DEF TokenTypes
  <2> QED BY <1>6, <2>1, ScanAdds DEF Add
<1>7. CASE ScanVar(t)
  BY <1>7, ScanVarKeeps
<1> QED BY <1>1, <1>2, <1>3, <1>4, <1>5, <1>6, <1>7

-----------------------------------------------------------------------------
(* The specification                                                       *)

(* A turn of _scan skips blanks or a line break, or begins a token.        *)
LEMMA TurnFacts ==
  ASSUME Size \in Nat, self \in State, self.status = "scan", self.current < Size, ScanInv(self, self.current)
  PROVE  /\ Turn.current <= Size
         /\ At(Turn.current) \in Spaces => Kept(Turn)
         /\ At(Turn.current) \notin Spaces => Begun(Turn)
<1> DEFINE p == self.current
           T == {q \in p..Size : At(q + 1) \notin Blanks}
           blanks == First(T, p) - p
           offset == IF blanks > 0 THEN blanks ELSE 1
           begun == [self EXCEPT !.start = p + blanks + 1]
           t == Advance(begun, offset)
<1>1. p \in Nat /\ t = Turn
  BY StateFields DEF Turn
<1>2. /\ blanks \in Nat /\ p + blanks <= Size
      /\ \A q \in (p + 1)..(p + blanks) : At(q) \in Blanks
  <2>1. T \subseteq p..Size /\ p \in Int /\ Size \in Int
    BY <1>1
  <2>2. \A q \in p..Size : q \notin T => At(q + 1) \in Blanks
    OBVIOUS
  <2> HIDE DEF T
  <2> DEFINE m == First(T, p)
  <2>3. \/ T = {} /\ m = p
        \/ m \in T /\ \A q \in T : m <= q
    BY <2>1, FirstIsIn, Zenon
  <2> HIDE DEF m, p
  <2>4. CASE T = {} /\ m = p
    BY <1>1, <2>4 DEF m, p
  <2>5. CASE m \in T /\ \A q \in T : m <= q
    <3>1. m \in p..Size
      BY <2>1, <2>5
    <3>2. ASSUME NEW q \in (p + 1)..m PROVE At(q) \in Blanks
      <4>1. q - 1 \in p..Size /\ ~(m <= q - 1) /\ q - 1 + 1 = q
        BY <1>1, <3>1
      <4> QED BY <2>2, <2>5, <4>1
    <3>3. blanks \in Nat /\ p + blanks = m /\ m <= Size
      BY <1>1, <3>1 DEF m
    <3> QED BY <3>2, <3>3
  <2> QED BY <2>3, <2>4, <2>5
<1> HIDE DEF blanks
<1>3. /\ begun \in State /\ begun.current = p /\ begun.start = p + blanks + 1 /\ begun.status = "scan"
      /\ SameTokens(begun, self)
  <2> DEFINE start == p + blanks + 1
  <2>1. start \in Nat
    BY <1>1, <1>2
  <2> HIDE DEF start
  <2>2. begun = [self EXCEPT !.start = start]
    BY DEF start
  <2> HIDE DEF begun
  <2> QED BY <2>1, <2>2 DEF State, SameTokens, start
<1>4. ScanInv(begun, p)
  BY <1>3, SameKeeps
<1> HIDE DEF begun, p
<1>5. offset \in Nat /\ offset >= 1 /\ p + offset <= Size
  BY <1>1, <1>2 DEF p
<1> HIDE DEF offset
<1>6. Moved(t, begun) /\ t.current = p + offset
  BY <1>1, <1>3, <1>5, AdvanceMoves
<1> HIDE DEF t
<1>7. t \in State /\ t.status = "scan" /\ t.start = p + blanks + 1
  BY <1>3, <1>6 DEF Moved
<1>8. ScanInv(t, p)
  BY <1>3, <1>4, <1>6, MovedKeeps
<1>9. p + offset \in Nat /\ p <= p + offset
  BY <1>1, <1>5
<1>10. ASSUME \A q \in (p + 1)..(p + offset) : At(q) \in Spaces PROVE Kept(t)
  BY <1>1, <1>6, <1>7, <1>8, <1>9, <1>10, SpacesKeep DEF Kept
<1>11. CASE blanks > 0
  <2>1. offset = blanks
    BY <1>11 DEF offset
  <2>2. \A q \in (p + 1)..(p + offset) : At(q) \in Spaces
    BY <1>2, <2>1 DEF Spaces
  <2>3. p + offset \in (p + 1)..(p + offset)
    BY <1>1, <1>5
  <2> QED BY <1>1, <1>5, <1>6, <1>10, <2>2, <2>3
<1>12. CASE ~(blanks > 0)
  <2>1. offset = 1 /\ blanks = 0
    BY <1>2, <1>12 DEF offset
  <2>2. (p + 1)..(p + offset) = {p + 1} /\ t.current = p + 1 /\ t.start = p + 1
    BY <1>1, <1>6, <1>7, <2>1
  <2>3. At(t.current) \in Spaces => Kept(t)
    BY <1>10, <2>2
  <2>4. At(t.current) \notin Spaces => Begun(t)
    <3>1. t.start - 1 = p /\ t.start >= 1 /\ t.start <= t.current
      BY <1>1, <2>2
    <3> QED BY <1>7, <1>8, <2>2, <3>1 DEF Begun
  <2> QED BY <1>1, <1>5, <1>6, <2>3, <2>4
<1> QED BY <1>11, <1>12

LEMMA InvInit ==
  ASSUME Init
  PROVE  IInv
<1>1. PICK case \in Cases : sql = case.sql
  BY DEF Init
<1>2. sql \in Seq(STRING)
  BY <1>1, TextAssumption
<1>3. /\ self = [current |-> 0, line |-> 1, col |-> 0, start |-> 0, comments |-> <<>>, tokens |-> <<>>,
                 prev_token_line |-> -1, frames |-> <<>>, status |-> "scan", scanned |-> {}]
      /\ self.tokens = <<>> /\ self.comments = <<>> /\ self.frames = <<>> /\ self.scanned = {}
      /\ self.current = 0 /\ self.prev_token_line = -1 /\ self.status = "scan"
  BY DEF Init
<1>4. self \in State
  BY <1>3 DEF State
<1>5. DOMAIN self.tokens = {} /\ DOMAIN self.comments = {} /\ DOMAIN self.frames = {}
  BY <1>3
<1>6. TextInv(self, self.current)
  <2>1. 1..self.current = {}
    BY <1>3
  <2> QED BY <1>3, <1>5, <2>1 DEF TextInv, Ordered, Covered, SpansApart, OffTexts
<1>7. FramesInv(self, self.current)
  BY <1>5 DEF FramesInv
<1>8. CommentInv(self)
  BY <1>3, <1>5 DEF CommentInv, WaitingInv, PlacedInv
<1> QED BY <1>2, <1>3, <1>4, <1>6, <1>7, <1>8 DEF IInv, TypeOK, ScanInv

LEMMA InvScan ==
  ASSUME IInv, Scan
  PROVE  Kept(self')
<1>1. /\ sql \in Seq(STRING) /\ self \in State /\ self.status = "scan" /\ ScanInv(self, self.current)
      /\ ~(self.current >= Size)
  BY DEF IInv, TypeOK, Scan, Ended
<1>2. Size \in Nat /\ self.current \in Nat
  BY <1>1, SizeIsNumber, StateFields
<1>3. self.current < Size
  BY <1>1, <1>2
<1> DEFINE t == Turn
<1>4. t.current <= Size /\ (At(t.current) \in Spaces => Kept(t)) /\ (At(t.current) \notin Spaces => Begun(t))
  BY <1>1, <1>2, <1>3, TurnFacts
<1>5. \/ At(t.current) \in Spaces /\ self' = t
      \/ At(t.current) \notin Spaces /\ (ScanNumber(t) \/ ScanIdentifier(t) \/ ScanKeywords(t))
  BY DEF Scan
<1> HIDE DEF t
<1>6. CASE At(t.current) \in Spaces /\ self' = t
  BY <1>4, <1>6
<1>7. CASE At(t.current) \notin Spaces /\ ScanNumber(t)
  BY <1>1, <1>2, <1>4, <1>7, ScanNumberKeeps
<1>8. CASE At(t.current) \notin Spaces /\ ScanIdentifier(t)
  BY <1>1, <1>2, <1>4, <1>8, ScanIdentifierKeeps
<1>9. CASE At(t.current) \notin Spaces /\ ScanKeywords(t)
  BY <1>1, <1>2, <1>4, <1>9, ScanKeywordsKeeps
<1> QED BY <1>5, <1>6, <1>7, <1>8, <1>9

LEMMA InvFinish ==
  ASSUME IInv, Finish
  PROVE  self' \in State /\ self'.status = "done" /\ DoneInv(self')
<1>1. self \in State /\ self.frames = <<>> /\ ScanInv(self, self.current)
  BY DEF IInv, TypeOK, Finish
<1>2. self' = [self EXCEPT !.tokens = WithWaiting(self), !.status = "done"]
  BY DEF Finish
<1> QED BY <1>1, <1>2, FinishKeeps

LEMMA InvEndCommand ==
  ASSUME IInv, EndCommand
  PROVE  Kept(self')
<1> DEFINE frame == Last(self.frames)
           text == {q \in (frame.start + 1)..self.current : At(q) \notin Spaces}
<1>1. self \in State /\ self.frames # <<>> /\ self.status = "scan" /\ ScanInv(self, self.current)
      /\ self.current \in Nat
  BY StateFields DEF IInv, TypeOK, EndCommand, CommandEnds
<1>2. frame = self.frames[Len(self.frames)]
  BY DEF Last
<1>3. self' = IF text = {} THEN Cut(self) ELSE Added(Cut(self), "STRING", Min(text), Max(text))
  BY DEF EndCommand, Cut, Last
<1>4. text = {q \in (self.frames[Len(self.frames)].start + 1)..self.current : At(q) \notin Spaces}
  BY <1>2
<1> HIDE DEF text
<1>5. Kept(IF text = {} THEN Cut(self) ELSE Added(Cut(self), "STRING", Min(text), Max(text)))
  BY <1>1, <1>4, EndCommandKeeps
<1> QED BY <1>3, <1>5

(* What is kept for the text that was is kept for the text that is.        *)
LEMMA TextStays ==
  ASSUME sql' = sql
  PROVE  /\ ScanInv(self', self'.current) => ScanInv(self, self.current)'
         /\ DoneInv(self') => DoneInv(self)'
<1>1. \A q : At(q)' = At(q)
  BY DEF At, Size
<1>2. Covered(self', self'.current) => Covered(self, self.current)'
  BY <1>1 DEF Covered
<1>3. SpansApart(self', self'.current) => SpansApart(self, self.current)'
  BY <1>1 DEF SpansApart
<1>4. TextInv(self', self'.current) => TextInv(self, self.current)'
  BY <1>2, <1>3 DEF TextInv, Ordered, OffTexts, CommandString
<1>5. FramesInv(self', self'.current) => FramesInv(self, self.current)'
  BY DEF FramesInv
<1>6. CommentInv(self') => CommentInv(self)'
  BY DEF CommentInv, WaitingInv, PlacedInv, Outside, InText, CommandString, Waits, Hangs, HangsOnce, Neighbour
<1>7. DoneInv(self') => DoneInv(self)'
  BY <1>4 DEF DoneInv, InText, CommandString, Hangs, HangsOnce, Neighbour
<1> QED BY <1>4, <1>5, <1>6, <1>7 DEF ScanInv

LEMMA InvNext ==
  ASSUME IInv, [Next]_vars
  PROVE  IInv'
<1>1. sql' = sql
  BY DEF Next, Scan, EndCommand, Finish, Stopped, vars
<1>2. sql \in Seq(STRING)
  BY DEF IInv, TypeOK
<1>3. ASSUME Kept(self') PROVE IInv'
  BY <1>1, <1>2, <1>3, TextStays DEF Kept, IInv, TypeOK
<1>4. CASE Scan
  BY <1>3, <1>4, InvScan
<1>5. CASE EndCommand
  BY <1>3, <1>5, InvEndCommand
<1>6. CASE Finish
  <2>1. self' \in State /\ self'.status = "done" /\ DoneInv(self')
    BY <1>6, InvFinish
  <2> QED BY <1>1, <1>2, <2>1, TextStays DEF IInv, TypeOK
<1>7. CASE UNCHANGED vars
  <2>1. self' = self
    BY <1>7 DEF vars
  <2> QED BY <1>1, <2>1, TextStays DEF IInv, TypeOK
<1> QED BY <1>4, <1>5, <1>6, <1>7 DEF Next, Stopped

(* The invariant holds always.                                             *)
LEMMA Invariance == Spec => []IInv
<1>1. Init => IInv
  BY InvInit
<1>2. IInv /\ [Next]_vars => IInv'
  BY InvNext
<1> QED BY <1>1, <1>2, PTL DEF Spec

(* The fields of the tokenizer have their types.                           *)
THEOREM Typing == Spec => []TypeOK
<1>1. IInv => TypeOK
  BY DEF IInv
<1> QED BY <1>1, Invariance, PTL

LEMMA TextInvAlways ==
  ASSUME IInv, self.status # "error"
  PROVE  TextInv(self, self.current) /\ self \in State /\ sql \in Seq(STRING)
<1>1. self.status \in {"scan", "done", "error"} /\ self \in State
  BY DEF IInv, TypeOK, State
<1> QED BY <1>1 DEF IInv, TypeOK, ScanInv, DoneInv

LEMMA CoverFollows ==
  ASSUME IInv
  PROVE  TokensCoverInput
<1> DEFINE texts == [i \in DOMAIN self.tokens |-> self.tokens[i].from..self.tokens[i].to]
           comments == {c[1]..c[2] : c \in self.scanned}
<1> SUFFICES ASSUME self.status # "error"
             PROVE  /\ \A i \in 2..Len(self.tokens) :
                         /\ self.tokens[i - 1].to < self.tokens[i].from
                         /\ self.tokens[i].to <= self.current
                    /\ \A p \in 1..self.current :
                         \/ sql[p] \in Spaces
                         \/ \E i \in DOMAIN texts : p \in texts[i]
                         \/ Cardinality({c \in comments : p \in c}) = 1
                    /\ \A c \in comments, i \in DOMAIN texts :
                         IsCommandString(i) \/ c \intersect texts[i] = {} \/ self.tokens[i].type = "HINT"
  BY DEF TokensCoverInput
<1>1. TextInv(self, self.current) /\ self \in State /\ sql \in Seq(STRING)
  BY TextInvAlways
<1>2. DOMAIN texts = DOMAIN self.tokens /\ DOMAIN self.tokens = 1..Len(self.tokens) /\ Len(self.tokens) \in Nat
      /\ self.current \in Nat
  BY <1>1, StateFields
<1>3. ASSUME NEW i \in 2..Len(self.tokens)
      PROVE  self.tokens[i - 1].to < self.tokens[i].from /\ self.tokens[i].to <= self.current
  <2>1. i - 1 \in DOMAIN self.tokens /\ i \in DOMAIN self.tokens /\ i - 1 < i
    BY <1>2
  <2> QED BY <1>1, <2>1 DEF TextInv, Ordered
<1>4. ASSUME NEW p \in 1..self.current
      PROVE  \/ sql[p] \in Spaces
             \/ \E i \in DOMAIN texts : p \in texts[i]
             \/ Cardinality({c \in comments : p \in c}) = 1
  <2>1. \/ At(p) \in Spaces
        \/ \E i \in DOMAIN self.tokens : p \in self.tokens[i].from..self.tokens[i].to
        \/ \E c \in self.scanned : p \in c[1]..c[2]
    BY <1>1 DEF TextInv, Covered
  <2>2. CASE At(p) \in Spaces
    <3>1. "" \notin Spaces
      BY DEF Spaces, Blanks, Breaks
    <3>2. p \in 1..Size
      BY <2>2, <3>1, Zenon DEF At
    <3> QED BY <2>2, <3>2 DEF At
  <2>3. CASE \E i \in DOMAIN self.tokens : p \in self.tokens[i].from..self.tokens[i].to
    BY <2>3
  <2>4. ASSUME NEW c \in self.scanned, p \in c[1]..c[2]
        PROVE  Cardinality({d \in comments : p \in d}) = 1
    <3>1. ASSUME NEW d \in self.scanned, p \in d[1]..d[2] PROVE d = c
      <4>1. /\ c[1] \in Nat /\ c[2] \in Nat /\ d[1] \in Nat /\ d[2] \in Nat
            /\ c = d \/ c[2] < d[1] \/ d[2] < c[1]
        BY <1>1, SpanFields DEF TextInv, SpansApart
      <4> QED BY <2>4, <3>1, <4>1
    <3>2. {d \in comments : p \in d} = {c[1]..c[2]}
      <4>1. c[1]..c[2] \in comments
        OBVIOUS
      <4>2. ASSUME NEW x \in comments, p \in x PROVE x = c[1]..c[2]
        BY <3>1, <4>2
      <4> HIDE DEF comments
      <4> QED BY <2>4, <4>1, <4>2
    <3> QED BY <3>2, FS_Singleton
  <2> QED BY <2>1, <2>2, <2>3, <2>4
<1>5. ASSUME NEW c \in self.scanned, NEW i \in DOMAIN self.tokens
      PROVE  \/ IsCommandString(i) \/ (c[1]..c[2]) \intersect texts[i] = {} \/ self.tokens[i].type = "HINT"
  <2>1. /\ c[1] \in Nat /\ c[2] \in Nat /\ self.tokens[i].from \in Nat /\ self.tokens[i].to \in Nat
        /\ \/ c[2] < self.tokens[i].from \/ self.tokens[i].to < c[1]
           \/ CommandString(self, i) \/ self.tokens[i].type = "HINT"
    BY <1>1, SpanFields, TokenFields DEF TextInv, OffTexts
  <2> QED BY <2>1 DEF CommandString, IsCommandString
<1> QED BY <1>2, <1>3, <1>4, <1>5

(* Nothing is skipped and nothing is read twice: the texts of the tokens   *)
(* follow each other, what is in none of them is white space or in exactly *)
(* one comment, and no comment lies in the text of a token but a command's *)
(* or a hint's.                                                            *)
THEOREM Covering == Spec => []TokensCoverInput
<1>1. IInv => TokensCoverInput
  BY CoverFollows
<1> QED BY <1>1, Invariance, PTL

LEMMA AttachedFollows ==
  ASSUME IInv
  PROVE  CommentsAttachedOnce
<1> SUFFICES ASSUME Done, self.tokens # <<>>, NEW c \in self.scanned, ~InCommand(c[1])
             PROVE  \E i \in DOMAIN self.tokens : \E k \in DOMAIN self.tokens[i].comments :
                      /\ HangsAt(c, i, k)
                      /\ \A j \in DOMAIN self.tokens : \A l \in DOMAIN self.tokens[j].comments :
                           HangsAt(c, j, l) => j = i /\ l = k
                      /\ self.tokens[i].to < c[1] => \A j \in DOMAIN self.tokens : i < j => c[2] < self.tokens[j].from
                      /\ c[2] < self.tokens[i].from => \A j \in DOMAIN self.tokens : j < i => self.tokens[j].to < c[1]
  BY DEF CommentsAttachedOnce
<1>1. DoneInv(self)
  BY DEF IInv, Done
<1>2. ~InText(self, c[1])
  BY DEF InText, InCommand, CommandString, IsCommandString
<1>3. PICK i, k : /\ Hangs(self, c, i, k) /\ Neighbour(self, c, i)
                  /\ \A j, l : Hangs(self, c, j, l) => j = i /\ l = k
  BY <1>1, <1>2 DEF DoneInv, HangsOnce
<1> QED BY <1>3 DEF Hangs, HangsAt, Neighbour

(* When the scan is done, every comment outside the text of a command      *)
(* hangs at one token, once, with no other token between the two: the      *)
(* lists that _add, _scan_comment and _scan fill lose no comment and       *)
(* repeat none.                                                            *)
THEOREM Attaching == Spec => []CommentsAttachedOnce
<1>1. IInv => CommentsAttachedOnce
  BY AttachedFollows
<1> QED BY <1>1, Invariance, PTL

-----------------------------------------------------------------------------
(* Lines and columns: the breaks from one place to before another          *)

LinesFrom(p, r) == {q \in p..(r - 1) : At(q) \in Breaks /\ ~FirstOfTwo(q)}

FirstsFrom(p, r) == {q \in p..(r - 1) : FirstOfTwo(q)}

LEMMA FirstOfTwoIsBreak ==
  ASSUME NEW q, FirstOfTwo(q)
  PROVE  At(q) \in Breaks /\ q \in 1..Size
<1>1. At(q) = "\r"
  BY DEF FirstOfTwo
<1> QED BY <1>1 DEF Breaks, At

LEMMA LinesAreNumbers ==
  ASSUME NEW p \in Int, NEW r \in Int
  PROVE  /\ IsFiniteSet(LinesFrom(p, r)) /\ Cardinality(LinesFrom(p, r)) \in Nat
         /\ LinesFrom(p, r) \subseteq p..(r - 1)
         /\ IsFiniteSet(FirstsFrom(p, r)) /\ Cardinality(FirstsFrom(p, r)) \in Nat
         /\ FirstsFrom(p, r) \subseteq p..(r - 1)
<1>1. LinesFrom(p, r) \subseteq p..(r - 1) /\ FirstsFrom(p, r) \subseteq p..(r - 1) /\ r - 1 \in Int
  BY DEF LinesFrom, FirstsFrom
<1>2. IsFiniteSet(LinesFrom(p, r)) /\ Cardinality(LinesFrom(p, r)) \in Nat
  BY <1>1, NumbersOfInterval, Zenon
<1>3. IsFiniteSet(FirstsFrom(p, r)) /\ Cardinality(FirstsFrom(p, r)) \in Nat
  BY <1>1, NumbersOfInterval, Zenon
<1> QED BY <1>1, <1>2, <1>3

(* The sizes of sets that share nothing add up.                            *)
LEMMA Apart ==
  ASSUME NEW S, NEW T, IsFiniteSet(S), IsFiniteSet(T), S \intersect T = {}
  PROVE  IsFiniteSet(S \union T) /\ Cardinality(S \union T) = Cardinality(S) + Cardinality(T)
<1>1. /\ IsFiniteSet(S \union T)
      /\ Cardinality(S \union T) = Cardinality(S) + Cardinality(T) - Cardinality(S \intersect T)
  BY FS_Union
<1>2. Cardinality(S) \in Nat /\ Cardinality(T) \in Nat /\ Cardinality(S \intersect T) = 0
  BY FS_CardinalityType, FS_EmptySet
<1> QED BY <1>1, <1>2

LEMMA LineStartFacts ==
  ASSUME Size \in Nat, NEW p \in Nat
  PROVE  /\ LinesBefore(p) = LinesFrom(1, p) /\ Cardinality(LinesBefore(p)) \in Nat
         /\ LineStart(p) \in Nat /\ (LineStart(p) = 0 \/ LineStart(p) \in LinesBefore(p))
         /\ \A q \in LinesBefore(p) : q <= LineStart(p)
         /\ p >= 1 => LineStart(p) < p
         /\ p = 0 => LineStart(p) = 0
         /\ Column(p) = (p - LineStart(p)) - Cardinality(FirstsFrom(LineStart(p) + 1, p))
<1>1. LinesBefore(p) = LinesFrom(1, p) /\ Cardinality(LinesBefore(p)) \in Nat
  <2>1. LinesBefore(p) = LinesFrom(1, p) /\ 1 \in Int /\ p \in Int
    BY DEF LinesBefore, LinesFrom
  <2> QED BY <2>1, LinesAreNumbers, Zenon
<1>2. LinesBefore(p) \subseteq 1..(p - 1)
  BY <1>1, LinesAreNumbers
<1>3. Column(p) = (p - LineStart(p)) - Cardinality(FirstsFrom(LineStart(p) + 1, p))
  BY DEF Column, FirstsFrom
<1>4. CASE LinesBefore(p) = {}
  BY <1>1, <1>3, <1>4 DEF LineStart
<1>5. CASE LinesBefore(p) # {}
  <2>1. p - 1 \in Int /\ 1 \in Int
    OBVIOUS
  <2>2. Max(LinesBefore(p)) \in LinesBefore(p) /\ \A q \in LinesBefore(p) : q <= Max(LinesBefore(p))
    BY <1>2, <1>5, <2>1, MaxOfInterval, Zenon
  <2>3. LineStart(p) = Max(LinesBefore(p))
    BY <1>5 DEF LineStart
  <2>4. LineStart(p) \in 1..(p - 1)
    BY <1>2, <2>2, <2>3
  <2> QED BY <1>1, <1>3, <2>2, <2>3, <2>4
<1> QED BY <1>4, <1>5

(* Lines between two places.                                               *)
LEMMA LinesGrow ==
  ASSUME Size \in Nat, NEW p \in Nat, NEW r \in Nat, p <= r
  PROVE  /\ Cardinality(LinesBefore(r)) = Cardinality(LinesBefore(p)) + Cardinality(LinesFrom(p, r))
         /\ LineStart(r) = IF LinesFrom(p, r) = {} THEN LineStart(p) ELSE Max(LinesFrom(p, r))
<1>1. LinesBefore(r) = LinesBefore(p) \union LinesFrom(p, r)
  <2>1. ~(At(0) \in Breaks)
    <3>1. At(0) = ""
      BY DEF At
    <3> QED BY <3>1 DEF Breaks
  <2>2. LinesFrom(1, r) = LinesFrom(1, p) \union LinesFrom(p, r)
    BY <2>1 DEF LinesFrom
  <2> QED BY <2>2, LineStartFacts
<1>2. LinesBefore(p) \intersect LinesFrom(p, r) = {}
  BY DEF LinesBefore, LinesFrom
<1>3. IsFiniteSet(LinesBefore(p)) /\ IsFiniteSet(LinesFrom(p, r))
  BY LineStartFacts, LinesAreNumbers
<1>4. Cardinality(LinesBefore(r)) = Cardinality(LinesBefore(p)) + Cardinality(LinesFrom(p, r))
  BY <1>1, <1>2, <1>3, Apart
<1>5. CASE LinesFrom(p, r) = {}
  BY <1>1, <1>4, <1>5 DEF LineStart
<1>6. CASE LinesFrom(p, r) # {}
  <2>1. LinesFrom(p, r) \subseteq p..(r - 1) /\ p \in Int /\ r - 1 \in Int
    BY LinesAreNumbers
  <2> DEFINE m == Max(LinesFrom(p, r))
  <2>2. m \in LinesFrom(p, r) /\ \A q \in LinesFrom(p, r) : q <= m
    BY <1>6, <2>1, MaxOfInterval, Zenon
  <2>3. m \in LinesBefore(r) /\ m \in p..(r - 1)
    BY <1>1, <2>1, <2>2
  <2> HIDE DEF m
  <2>4. \A q \in LinesBefore(p) : q <= m
    <3>1. LinesBefore(p) \subseteq 1..(p - 1)
      BY DEF LinesBefore
    <3> QED BY <2>3, <3>1
  <2>5. LineStart(r) \in Nat /\ LineStart(r) \in LinesBefore(r) /\ m <= LineStart(r)
    <3>1. /\ LineStart(r) \in Nat /\ (LineStart(r) = 0 \/ LineStart(r) \in LinesBefore(r))
          /\ \A q \in LinesBefore(r) : q <= LineStart(r)
      BY LineStartFacts
    <3>2. m >= 1
      BY <2>3 DEF LinesBefore
    <3> QED BY <2>3, <3>1, <3>2
  <2>6. LineStart(r) <= m
    BY <1>1, <2>2, <2>4, <2>5
  <2>7. LineStart(r) = m
    BY <2>3, <2>5, <2>6
  <2> QED BY <1>4, <1>6, <2>7 DEF m
<1> QED BY <1>4, <1>5, <1>6

LEMMA ColumnGrows ==
  ASSUME Size \in Nat, NEW p \in Nat, NEW r \in Nat, p <= r
  PROVE  /\ LinesFrom(p, r) = {} => Column(r) = Column(p) + (r - p) - Cardinality(FirstsFrom(p, r))
         /\ LinesFrom(p, r) # {} =>
              /\ Max(LinesFrom(p, r)) \in p..(r - 1)
              /\ Column(r) = (r - Max(LinesFrom(p, r)))
                               - Cardinality({q \in FirstsFrom(p, r) : q > Max(LinesFrom(p, r))})
         /\ Column(p) \in Int /\ Column(p) >= 0 /\ (p >= 1 => Column(p) >= 1)
<1> DEFINE l == LineStart(p)
<1>1. /\ l \in Nat /\ (p >= 1 => l < p) /\ (p = 0 => l = 0)
      /\ Column(p) = (p - l) - Cardinality(FirstsFrom(l + 1, p))
  BY LineStartFacts
<1>2. Cardinality(FirstsFrom(l + 1, p)) \in Nat /\ IsFiniteSet(FirstsFrom(l + 1, p))
  <2>1. l + 1 \in Int /\ p \in Int
    BY <1>1
  <2> QED BY <2>1, LinesAreNumbers, Zenon
<1>3. IsFiniteSet(FirstsFrom(p, r)) /\ Cardinality(FirstsFrom(p, r)) \in Nat
  BY LinesAreNumbers
<1> HIDE DEF l
<1>4. ASSUME LinesFrom(p, r) = {}
      PROVE  Column(r) = Column(p) + (r - p) - Cardinality(FirstsFrom(p, r))
  <2>1. LineStart(r) = l
    BY <1>4, LinesGrow DEF l
  <2>2. Column(r) = (r - l) - Cardinality(FirstsFrom(l + 1, r))
    BY <2>1, LineStartFacts
  <2>3. FirstsFrom(l + 1, r) = FirstsFrom(l + 1, p) \union FirstsFrom(p, r)
    <3>1. ~FirstOfTwo(0)
      BY FirstOfTwoIsBreak
    <3> QED BY <1>1, <3>1 DEF FirstsFrom
  <2>4. FirstsFrom(l + 1, p) \intersect FirstsFrom(p, r) = {}
    BY <1>1 DEF FirstsFrom
  <2>5. Cardinality(FirstsFrom(l + 1, r)) = Cardinality(FirstsFrom(l + 1, p)) + Cardinality(FirstsFrom(p, r))
    BY <1>2, <1>3, <2>3, <2>4, Apart
  <2> QED BY <1>1, <1>2, <1>3, <2>2, <2>5
<1>5. ASSUME LinesFrom(p, r) # {}
      PROVE  /\ Max(LinesFrom(p, r)) \in p..(r - 1)
             /\ Column(r) = (r - Max(LinesFrom(p, r)))
                              - Cardinality({q \in FirstsFrom(p, r) : q > Max(LinesFrom(p, r))})
  <2> DEFINE m == Max(LinesFrom(p, r))
  <2>1. LineStart(r) = m
    BY <1>5, LinesGrow
  <2>2. m \in p..(r - 1)
    <3>1. LinesFrom(p, r) \subseteq p..(r - 1) /\ p \in Int /\ r - 1 \in Int
      BY LinesAreNumbers
    <3>2. m \in LinesFrom(p, r)
      BY <1>5, <3>1, MaxOfInterval, Zenon
    <3> QED BY <3>1, <3>2
  <2> HIDE DEF m
  <2>3. Column(r) = (r - m) - Cardinality(FirstsFrom(m + 1, r))
    BY <2>1, LineStartFacts
  <2>4. FirstsFrom(m + 1, r) = {q \in FirstsFrom(p, r) : q > m}
    BY <2>2 DEF FirstsFrom
  <2> QED BY <2>2, <2>3, <2>4 DEF m
<1>6. Column(p) \in Int /\ Column(p) >= 0 /\ (p >= 1 => Column(p) >= 1)
  <2>1. CASE p = 0
    <3>1. FirstsFrom(l + 1, p) = {}
      BY <1>1, <2>1 DEF FirstsFrom
    <3>2. Cardinality(FirstsFrom(l + 1, p)) = 0
      BY <3>1, FS_EmptySet
    <3> QED BY <1>1, <2>1, <3>2
  <2>2. CASE p >= 1
    <3>1. FirstsFrom(l + 1, p) \subseteq (l + 1)..(p - 1) /\ l + 1 \in Int /\ p - 1 \in Int
      BY <1>1, LinesAreNumbers
    <3>2. IsFiniteSet((l + 1)..(p - 1)) /\ Cardinality((l + 1)..(p - 1)) = p - 1 - l
      <4>1. /\ IsFiniteSet((l + 1)..(p - 1))
            /\ Cardinality((l + 1)..(p - 1)) = IF l + 1 > p - 1 THEN 0 ELSE (p - 1) - (l + 1) + 1
        BY <3>1, FS_Interval, Zenon
      <4> QED BY <1>1, <2>2, <4>1
    <3>3. Cardinality(FirstsFrom(l + 1, p)) <= p - 1 - l
      BY <3>1, <3>2, FS_Subset
    <3> QED BY <1>1, <1>2, <2>2, <3>3
  <2> QED BY <2>1, <2>2
<1> QED BY <1>4, <1>5, <1>6

-----------------------------------------------------------------------------
(* The cursor has the line and the column of the place it is at            *)

Good(t) == t.line = 1 + Cardinality(LinesBefore(t.current)) /\ t.col = Column(t.current)

LEMMA NoLines ==
  ASSUME NEW p, NEW r, \A q \in p..(r - 1) : At(q) \notin Breaks
  PROVE  LinesFrom(p, r) = {} /\ FirstsFrom(p, r) = {} /\ Cardinality(LinesFrom(p, r)) = 0
         /\ Cardinality(FirstsFrom(p, r)) = 0
<1>1. LinesFrom(p, r) = {} /\ FirstsFrom(p, r) = {}
  BY FirstOfTwoIsBreak DEF LinesFrom, FirstsFrom
<1> QED BY <1>1, FS_EmptySet

LEMMA WalkPlaces ==
  ASSUME Size \in Nat, NEW t \in State, Good(t), NEW p \in Int
  PROVE  Good(Walk(t, p))
<1> DEFINE c == t.current
           ends == {q \in c..(p - 1) : At(q) \in Breaks}
           first == {q \in ends : At(q) = "\r" /\ At(q + 1) = "\n"}
           lines == ends \ first
           from == IF lines = {} THEN c - t.col ELSE Max(lines)
           line == t.line + Cardinality(lines)
           col == (p - from) - Cardinality({q \in first : q > from})
<1>1. CASE p <= c
  BY <1>1 DEF Walk
<1>2. CASE ~(p <= c)
  <2>1. c \in Nat /\ t.line \in Nat /\ t.col \in Int /\ p \in Nat /\ c <= p
    BY <1>2, StateFields
  <2>2. lines = LinesFrom(c, p) /\ first = FirstsFrom(c, p)
    BY FirstOfTwoIsBreak DEF LinesFrom, FirstsFrom, FirstOfTwo
  <2>3. line = 1 + Cardinality(LinesBefore(p))
    <3>1. Cardinality(LinesBefore(p)) = Cardinality(LinesBefore(c)) + Cardinality(lines)
      BY <2>1, <2>2, LinesGrow
    <3>2. t.line = 1 + Cardinality(LinesBefore(c))
      BY DEF Good
    <3>3. Cardinality(LinesBefore(c)) \in Nat /\ Cardinality(lines) \in Nat
      <4>1. Cardinality(LinesBefore(c)) \in Nat
        BY <2>1, LineStartFacts
      <4>2. c \in Int /\ p \in Int
        BY <2>1
      <4> HIDE DEF lines, c
      <4> QED BY <2>2, <4>1, <4>2, LinesAreNumbers, Zenon
    <3> HIDE DEF lines, c
    <3> QED BY <3>1, <3>2, <3>3
  <2>4. col = Column(p)
    <3> HIDE DEF lines, first, ends
    <3>1. t.col = Column(c) /\ Column(c) \in Int /\ Column(c) >= 0 /\ (c >= 1 => Column(c) >= 1)
      BY <2>1, ColumnGrows DEF Good
    <3>2. first \subseteq c..(p - 1) /\ Cardinality(first) \in Nat
      <4>1. c \in Int /\ p \in Int
        BY <2>1
      <4> HIDE DEF c
      <4> QED BY <2>2, <4>1, LinesAreNumbers, Zenon
    <3>3. 0 \notin first
      <4>1. ~FirstOfTwo(0)
        BY FirstOfTwoIsBreak
      <4> QED BY <2>2, <4>1 DEF FirstsFrom
    <3> HIDE DEF c
    <3>4. CASE lines = {}
      <4>1. {q \in first : q > from} = first
        <5>1. ASSUME NEW q \in first PROVE q > from
          <6>1. q \in Int /\ q >= c /\ q # 0 /\ from = c - t.col
            BY <2>1, <3>2, <3>3, <3>4
          <6> QED BY <2>1, <3>1, <6>1
        <5> HIDE DEF from
        <5> QED BY <5>1
      <4>2. col = (p - (c - t.col)) - Cardinality(first)
        BY <3>4, <4>1
      <4>3. Column(p) = Column(c) + (p - c) - Cardinality(first)
        BY <2>1, <2>2, <3>4, ColumnGrows
      <4> HIDE DEF col
      <4> QED BY <2>1, <3>1, <3>2, <4>2, <4>3
    <3>5. CASE lines # {}
      <4>1. LinesFrom(c, p) # {}
        BY <2>2, <3>5, Zenon
      <4>2. Column(p) = (p - Max(LinesFrom(c, p)))
                          - Cardinality({q \in FirstsFrom(c, p) : q > Max(LinesFrom(c, p))})
        BY <2>1, <4>1, ColumnGrows
      <4>3. col = (p - Max(lines)) - Cardinality({q \in first : q > Max(lines)})
        BY <3>5, Zenon
      <4> HIDE DEF col
      <4> QED BY <2>2, <4>2, <4>3, Zenon
    <3> QED BY <3>4, <3>5
  <2>5. Walk(t, p) = [t EXCEPT !.current = p, !.line = line, !.col = col]
    BY <1>2 DEF Walk
  <2> HIDE DEF line, col, c
  <2>6. Walk(t, p).current = p /\ Walk(t, p).line = line /\ Walk(t, p).col = col
    BY <2>5 DEF State
  <2> QED BY <2>3, <2>4, <2>6 DEF Good
<1> QED BY <1>1, <1>2

LEMMA AdvanceFields ==
  ASSUME NEW t \in State, NEW i \in Int
  PROVE  LET char == At(t.current)
             break == char \in Breaks /\ ~FirstOfTwo(t.current)
         IN /\ Advance(t, i).current = t.current + i
            /\ Advance(t, i).line = IF break THEN t.line + 1 ELSE t.line
            /\ Advance(t, i).col = IF break THEN i ELSE IF char \in Breaks THEN t.col ELSE t.col + i
<1> DEFINE char == At(t.current)
           break == char \in Breaks /\ ~(char = "\r" /\ At(t.current + 1) = "\n")
           line == IF break THEN t.line + 1 ELSE t.line
           col == IF break THEN i ELSE IF char \in Breaks THEN t.col ELSE t.col + i
           current == t.current + i
<1>1. Advance(t, i) = [t EXCEPT !.current = current, !.line = line, !.col = col]
  BY DEF Advance
<1>2. break <=> char \in Breaks /\ ~FirstOfTwo(t.current)
  BY DEF FirstOfTwo
<1>3. Advance(t, i).current = current /\ Advance(t, i).line = line /\ Advance(t, i).col = col
  <2> HIDE DEF current, line, col
  <2> QED BY <1>1 DEF State
<1> HIDE DEF break
<1> QED BY <1>2, <1>3

(* One call of _advance that passes no line break.                         *)
LEMMA AdvancePlaces ==
  ASSUME Size \in Nat, NEW t \in State, Good(t), NEW i \in Nat,
         i = 0 => At(t.current) \notin Breaks,
         \A q \in (t.current + 1)..(t.current + i - 1) : At(q) \notin Breaks
  PROVE  Good(Advance(t, i))
<1> DEFINE c == t.current
           r == c + i
           L == LinesFrom(c, r)
           F == FirstsFrom(c, r)
           break == At(c) \in Breaks /\ ~FirstOfTwo(c)
<1>1. c \in Nat /\ t.line \in Nat /\ t.col \in Int /\ r \in Nat /\ c <= r
  BY StateFields
<1>2. /\ Advance(t, i).current = r
      /\ Advance(t, i).line = IF break THEN t.line + 1 ELSE t.line
      /\ Advance(t, i).col = IF break THEN i ELSE IF At(c) \in Breaks THEN t.col ELSE t.col + i
  BY AdvanceFields
<1>3. /\ Cardinality(LinesBefore(r)) = Cardinality(LinesBefore(c)) + Cardinality(L)
      /\ Cardinality(LinesBefore(c)) \in Nat
  <2> HIDE DEF c, r
  <2> QED BY <1>1, LinesGrow, LineStartFacts
<1>4. /\ L = {} => Column(r) = Column(c) + (r - c) - Cardinality(F)
      /\ L # {} => Column(r) = (r - Max(L)) - Cardinality({q \in F : q > Max(L)})
      /\ Column(c) \in Int
  BY <1>1, ColumnGrows
<1>5. t.line = 1 + Cardinality(LinesBefore(c)) /\ t.col = Column(c)
  BY DEF Good
<1>6. \A q \in c..(r - 1) : q = c \/ At(q) \notin Breaks
  <2>1. \A q \in c..(r - 1) : q = c \/ q \in (t.current + 1)..(t.current + i - 1)
    BY <1>1
  <2> QED BY <2>1
<1>7. CASE At(c) \notin Breaks
  <2>1. L = {} /\ Cardinality(L) = 0 /\ Cardinality(F) = 0
    BY <1>6, <1>7, NoLines, Zenon
  <2> HIDE DEF c, r, L, F
  <2>2. r - c = i
    BY <1>1 DEF r
  <2> QED BY <1>1, <1>2, <1>3, <1>4, <1>5, <1>7, <2>1, <2>2 DEF Good
<1>8. CASE FirstOfTwo(c)
  <2>1. At(c) \in Breaks /\ At(c + 1) \in Breaks
    BY <1>8, FirstOfTwoIsBreak DEF FirstOfTwo, Breaks
  <2>2. i = 1
    <3>1. i > 1 => c + 1 \in (t.current + 1)..(t.current + i - 1)
      BY <1>1
    <3> QED BY <2>1, <3>1
  <2>3. c..(r - 1) = {c}
    BY <1>1, <2>2
  <2>4. L = {} /\ F = {c}
    BY <1>8, <2>3 DEF LinesFrom, FirstsFrom
  <2>5. Cardinality(L) = 0 /\ Cardinality(F) = 1
    BY <2>4, FS_EmptySet, FS_Singleton
  <2> HIDE DEF L, F
  <2>6. r - c = 1
    BY <1>1, <2>2
  <2> HIDE DEF c, r
  <2> QED BY <1>1, <1>2, <1>3, <1>4, <1>5, <1>8, <2>1, <2>4, <2>5, <2>6 DEF Good
<1>9. CASE At(c) \in Breaks /\ ~FirstOfTwo(c)
  <2>1. i >= 1 /\ c \in c..(r - 1)
    BY <1>1, <1>9
  <2>2. L = {c}
    BY <1>6, <1>9, <2>1 DEF LinesFrom
  <2>3. F = {}
    <3>1. \A q \in c..(r - 1) : ~FirstOfTwo(q)
      BY <1>6, <1>9, FirstOfTwoIsBreak
    <3> QED BY <3>1 DEF FirstsFrom
  <2>4. Max(L) = c
    <3> HIDE DEF c, L
    <3>1. L \subseteq c..c /\ L # {} /\ c \in Int
      BY <1>1, <2>2
    <3>2. Max(L) \in L
      BY <3>1, MaxOfInterval, Zenon
    <3> QED BY <2>2, <3>2
  <2>5. Cardinality(L) = 1 /\ Cardinality({q \in F : q > Max(L)}) = 0
    <3>1. {q \in F : q > Max(L)} = {}
      BY <2>3
    <3> QED BY <2>2, <3>1, FS_EmptySet, FS_Singleton
  <2> HIDE DEF L, F
  <2>6. r - c = i
    BY <1>1
  <2> HIDE DEF c, r
  <2> QED BY <1>1, <1>2, <1>3, <1>4, <1>5, <1>9, <2>2, <2>4, <2>5, <2>6 DEF Good
<1> QED BY <1>7, <1>8, <1>9

(* Characters are given back, none of them a line break.                   *)
LEMMA AdvanceBack ==
  ASSUME Size \in Nat, NEW t \in State, Good(t), NEW n \in Nat, t.current - n \in Nat,
         \A q \in (t.current - n)..t.current : At(q) \notin Breaks
  PROVE  Good(Advance(t, -n))
<1> DEFINE c == t.current
           p == c - n
<1>1. c \in Nat /\ t.line \in Nat /\ t.col \in Int /\ p \in Nat /\ p <= c /\ -n \in Int /\ c + (-n) = p
      /\ c - p = n
  BY StateFields
<1>2. At(c) \notin Breaks
  BY <1>1
<1>3. /\ Advance(t, -n).current = p
      /\ Advance(t, -n).line = t.line
      /\ Advance(t, -n).col = t.col - n
  BY <1>1, <1>2, AdvanceFields
<1>4. \A q \in p..(c - 1) : At(q) \notin Breaks
  BY <1>1
<1>5. LinesFrom(p, c) = {} /\ Cardinality(LinesFrom(p, c)) = 0 /\ Cardinality(FirstsFrom(p, c)) = 0
  BY <1>4, NoLines, Zenon
<1>6. t.line = 1 + Cardinality(LinesBefore(c)) /\ t.col = Column(c)
  BY DEF Good
<1> HIDE DEF c, p
<1>7. Cardinality(LinesBefore(c)) = Cardinality(LinesBefore(p)) + 0
  BY <1>1, <1>5, LinesGrow
<1>8. Cardinality(LinesBefore(p)) \in Nat
  BY <1>1, LineStartFacts
<1>9. Column(c) = Column(p) + n - 0 /\ Column(p) \in Int
  <2>1. Column(c) = Column(p) + (c - p) - Cardinality(FirstsFrom(p, c)) /\ Column(p) \in Int
    BY <1>1, <1>5, ColumnGrows
  <2> QED BY <1>1, <1>5, <2>1
<1> QED BY <1>1, <1>3, <1>6, <1>7, <1>8, <1>9 DEF Good

-----------------------------------------------------------------------------
(* Tokens are placed                                                       *)

InPlace(tokens) ==
  \A i \in DOMAIN tokens :
    /\ tokens[i].line = 1 + Cardinality(LinesBefore(tokens[i].end))
    /\ tokens[i].col = Column(tokens[i].end)

Placed(t) == t \in State /\ Good(t) /\ InPlace(t.tokens)

(* What a turn leaves.                                                     *)
Fits(t) == InPlace(t.tokens) /\ (t.status = "scan" => Good(t))

LEMMA PlacedFits ==
  ASSUME NEW t, Placed(t)
  PROVE  Fits(t) /\ t \in State
BY DEF Placed, Fits

LEMMA SameGood ==
  ASSUME NEW t, Good(t), NEW u, u.line = t.line, u.col = t.col, u.current = t.current
  PROVE  Good(u)
BY DEF Good

LEMMA ExtendedPlaces ==
  ASSUME NEW tokens \in Seq(Token), tokens # <<>>, NEW comments \in Seq(Span), InPlace(tokens)
  PROVE  InPlace(Extended(tokens, comments))
<1> DEFINE n == Len(tokens)
           last == [tokens[n] EXCEPT !.comments = @ \o comments]
           E == Extended(tokens, comments)
<1>1. n \in DOMAIN tokens /\ tokens[n] \in Token
  OBVIOUS
<1>2. last.line = tokens[n].line /\ last.col = tokens[n].col /\ last.end = tokens[n].end
  BY <1>1 DEF Token
<1>3. E = [tokens EXCEPT ![n] = last]
  BY DEF Extended
<1> HIDE DEF last, E, n
<1>4. DOMAIN E = DOMAIN tokens /\ E[n] = last /\ \A i \in DOMAIN tokens : i # n => E[i] = tokens[i]
  BY <1>1, <1>3
<1>5. ASSUME NEW i \in DOMAIN tokens
      PROVE  E[i].line = tokens[i].line /\ E[i].col = tokens[i].col /\ E[i].end = tokens[i].end
  BY <1>2, <1>4
<1> QED BY <1>4, <1>5 DEF InPlace, E

LEMMA AttachPlaces ==
  ASSUME NEW t, Placed(t), t.tokens # <<>>
  PROVE  Placed(Attach(t))
<1>1. t \in State /\ t.tokens \in Seq(Token) /\ t.comments \in Seq(Span)
  BY StateFields DEF Placed
<1>2. /\ Attach(t) \in State /\ Attach(t).tokens = Extended(t.tokens, t.comments)
      /\ Attach(t).current = t.current /\ Attach(t).line = t.line /\ Attach(t).col = t.col
  BY <1>1, AttachFields
<1>3. InPlace(Extended(t.tokens, t.comments))
  BY <1>1, ExtendedPlaces DEF Placed
<1>4. Good(Attach(t))
  BY <1>2, SameGood DEF Placed
<1> QED BY <1>2, <1>3, <1>4 DEF Placed

LEMMA AddOnePlaces ==
  ASSUME NEW t, Placed(t), NEW type \in TokenTypes, NEW from \in Nat, NEW to \in Nat,
         ~(t.comments # <<>> /\ type = "SEMICOLON" /\ t.tokens # <<>>)
  PROVE  Placed(Added(t, type, from, to))
<1> DEFINE u == Added(t, type, from, to)
           new == NewToken(t, type, from, to)
<1>1. t \in State /\ t.tokens \in Seq(Token)
  BY StateFields DEF Placed
<1>2. u \in State /\ u.tokens = Append(t.tokens, new)
  BY <1>1, AddedFields, Zenon
<1>3. u.current = t.current /\ u.line = t.line /\ u.col = t.col
  BY <1>1, AddedFields, Zenon
<1>4. new.line = t.line /\ new.col = t.col /\ new.end = t.current
  BY DEF NewToken
<1> HIDE DEF u, new
<1>5. Good(u)
  BY <1>3, SameGood DEF Placed
<1>6. InPlace(u.tokens)
  <2>1. ASSUME NEW i \in DOMAIN u.tokens
        PROVE  u.tokens[i] = new \/ (i \in DOMAIN t.tokens /\ u.tokens[i] = t.tokens[i])
    BY <1>1, <1>2
  <2>2. /\ new.line = 1 + Cardinality(LinesBefore(new.end))
        /\ new.col = Column(new.end)
    BY <1>4 DEF Placed, Good
  <2> QED BY <2>1, <2>2 DEF Placed, InPlace
<1> QED BY <1>2, <1>5, <1>6 DEF Placed, u

LEMMA AddPlaces ==
  ASSUME NEW t, Placed(t), NEW type \in TokenTypes, NEW from \in Nat, NEW to \in Nat
  PROVE  Placed(Added(t, type, from, to))
<1>1. CASE ~(t.comments # <<>> /\ type = "SEMICOLON" /\ t.tokens # <<>>)
  BY <1>1, AddOnePlaces
<1>2. CASE t.comments # <<>> /\ type = "SEMICOLON" /\ t.tokens # <<>>
  <2>1. t \in State
    BY DEF Placed
  <2>2. Added(t, type, from, to) = Added(Attach(t), type, from, to)
    BY <1>2, <2>1, AddedAttaches
  <2>3. Placed(Attach(t)) /\ Attach(t).comments = <<>>
    BY <1>2, <2>1, AttachPlaces, AttachFields
  <2> QED BY <2>2, <2>3, AddOnePlaces
<1> QED BY <1>1, <1>2

LEMMA AddFits ==
  ASSUME NEW t, Placed(t), t.start \in Nat, NEW type \in TokenTypes, Add(t, type)
  PROVE  Fits(self')
<1>1. self' = Added(t, type, t.start, t.current) /\ t.current \in Nat
  BY StateFields DEF Add, Placed
<1> QED BY <1>1, AddPlaces, PlacedFits

LEMMA WalkFits ==
  ASSUME Size \in Nat, NEW t, Placed(t), NEW p \in Int
  PROVE  /\ Placed(Walk(t, p)) /\ Moved(Walk(t, p), t)
         /\ Walk(t, p).current = IF p <= t.current THEN t.current ELSE p
<1>1. /\ Moved(Walk(t, p), t) /\ Good(Walk(t, p))
      /\ Walk(t, p).current = IF p <= t.current THEN t.current ELSE p
  BY WalkMoves, WalkPlaces DEF Placed
<1> QED BY <1>1 DEF Placed, Moved

LEMMA AdvanceFits ==
  ASSUME Size \in Nat, NEW t, Placed(t), NEW i \in Nat, i = 0 => At(t.current) \notin Breaks,
         \A q \in (t.current + 1)..(t.current + i - 1) : At(q) \notin Breaks
  PROVE  Placed(Advance(t, i)) /\ Moved(Advance(t, i), t) /\ Advance(t, i).current = t.current + i
<1>1. t.current + i \in Nat
  BY StateFields DEF Placed
<1>2. Moved(Advance(t, i), t) /\ Advance(t, i).current = t.current + i
  BY <1>1, AdvanceMoves DEF Placed
<1>3. Good(Advance(t, i))
  BY AdvancePlaces DEF Placed
<1> QED BY <1>2, <1>3 DEF Placed, Moved

LEMMA StepFits ==
  ASSUME Size \in Nat, NEW t, Placed(t)
  PROVE  Placed(Advance(t, 1)) /\ Moved(Advance(t, 1), t) /\ Advance(t, 1).current = t.current + 1
<1>1. \A q \in (t.current + 1)..(t.current + 1 - 1) : FALSE
  BY StateFields DEF Placed
<1> QED BY <1>1, AdvanceFits

LEMMA BackFits ==
  ASSUME Size \in Nat, NEW t, Placed(t), NEW n \in Nat, t.current - n \in Nat,
         \A q \in (t.current - n)..t.current : At(q) \notin Breaks
  PROVE  Placed(Advance(t, -n)) /\ Moved(Advance(t, -n), t) /\ Advance(t, -n).current = t.current - n
<1>1. t.current + (-n) \in Nat /\ t.current + (-n) = t.current - n
  BY StateFields DEF Placed
<1>2. Moved(Advance(t, -n), t) /\ Advance(t, -n).current = t.current - n
  BY <1>1, AdvanceMoves DEF Placed
<1>3. Good(Advance(t, -n))
  BY AdvanceBack DEF Placed
<1> QED BY <1>2, <1>3 DEF Placed, Moved

LEMMA RaiseFits ==
  ASSUME self \in State, InPlace(self.tokens), Raise
  PROVE  Fits(self')
BY DEF Raise, State, Fits

-----------------------------------------------------------------------------
(* Delimiters                                                              *)

OnOneLine(word) == \A i \in 1..Len(word) : word[i] \notin Breaks

LEMMA CharsAt ==
  ASSUME sql \in Seq(STRING), NEW q \in Nat \ {0}, NEW word, Len(word) \in Nat \ {0}, Chars(q, Len(word)) = word
  PROVE  \A i \in 1..Len(word) : At(q + i - 1) = word[i]
<1> DEFINE n == Len(word)
<1>1. Len(<<>>) = 0
  OBVIOUS
<1>2. q + n - 1 <= Size
  <2> SUFFICES ASSUME ~(q + n - 1 <= Size) PROVE FALSE
    OBVIOUS
  <2>1. word = <<>>
    BY DEF Chars
  <2> QED BY <1>1, <2>1
<1>3. word = SubSeq(sql, q, q + n - 1)
  BY <1>2 DEF Chars
<1>4. n \in Nat /\ n > 0
  OBVIOUS
<1> HIDE DEF n
<1>5. \A i \in 1..n : SubSeq(sql, q, q + n - 1)[i] = sql[q + i - 1] /\ q + i - 1 \in 1..Size
  BY <1>2, <1>4 DEF Size
<1> QED BY <1>3, <1>5 DEF At, n

LEMMA ThroughFits ==
  ASSUME sql \in Seq(STRING), Size \in Nat, NEW t, Placed(t), t.current >= 1, NEW end \in Int,
         NEW delimiter, Len(delimiter) \in Nat \ {0}, Closes(t.current, delimiter, end),
         Len(delimiter) = 1 \/ OnOneLine(delimiter)
  PROVE  LET u == ThroughDelimiter(t, end, Len(delimiter)) IN Placed(u) /\ Moved(u, t)
<1> DEFINE n == Len(delimiter)
           last == Walk(t, end - n + 1)
           u == ThroughDelimiter(t, end, n)
<1>1. t.current \in Nat /\ n \in Nat /\ n >= 1 /\ Len(delimiter) = n /\ (n = 1 \/ OnOneLine(delimiter))
  BY StateFields DEF Placed
<1> HIDE DEF n
<1>2. PICK q \in t.current..Size : Chars(q, n) = delimiter /\ end = q + n - 1
  BY <1>1 DEF Closes
<1>3. q \in Nat \ {0} /\ end - n + 1 = q /\ t.current <= q
  BY <1>1, <1>2
<1>4. Placed(last) /\ Moved(last, t) /\ last.current = q
  <2>1. Placed(last) /\ Moved(last, t) /\ last.current = IF end - n + 1 <= t.current THEN t.current ELSE end - n + 1
    <3>1. end - n + 1 \in Int
      BY <1>1
    <3> QED BY <3>1, WalkFits
  <2> HIDE DEF last
  <2> QED BY <1>1, <1>3, <2>1
<1> HIDE DEF last
<1>5. CASE n > 1
  <2>1. n - 1 \in Nat /\ n - 1 # 0
    BY <1>1, <1>5
  <2>2. \A x \in (q + 1)..(q + (n - 1) - 1) : At(x) \notin Breaks
    <3>1. \A i \in 1..n : At(q + i - 1) = delimiter[i]
      BY <1>1, <1>2, <1>3, CharsAt
    <3>2. OnOneLine(delimiter)
      BY <1>1, <1>5
    <3>3. ASSUME NEW x \in (q + 1)..(q + (n - 1) - 1) PROVE At(x) \notin Breaks
      <4>1. x - q + 1 \in 1..n /\ q + (x - q + 1) - 1 = x
        BY <1>1, <1>3
      <4>2. At(x) = delimiter[x - q + 1]
        BY <3>1, <4>1
      <4>3. delimiter[x - q + 1] \notin Breaks
        BY <1>1, <3>2, <4>1 DEF OnOneLine
      <4> QED BY <4>2, <4>3
    <3> QED BY <3>3
  <2>3. Placed(Advance(last, n - 1)) /\ Moved(Advance(last, n - 1), last)
    BY <1>4, <2>1, <2>2, AdvanceFits
  <2>4. u = Advance(last, n - 1)
    BY <1>5 DEF ThroughDelimiter, last
  <2>5. Moved(Advance(last, n - 1), t)
    BY <1>4, <2>3, MovedTwice
  <2> QED BY <1>1, <2>3, <2>4, <2>5
<1>6. CASE ~(n > 1)
  <2>1. u = last
    BY <1>6 DEF ThroughDelimiter, last
  <2> QED BY <1>1, <1>4, <2>1
<1> QED BY <1>5, <1>6

LEMMA ExtractFits ==
  ASSUME sql \in Seq(STRING), Size \in Nat, self \in State, InPlace(self.tokens),
         NEW t, Placed(t), t.current >= 1, t.start \in Nat,
         NEW string, Len(string.close) \in Nat \ {0}, Len(string.close) = 1 \/ OnOneLine(string.close),
         string.type \in TokenTypes, NEW raw, NEW escapes, ExtractString(t, string, raw, escapes)
  PROVE  Fits(self')
<1> DEFINE end == StringEnd(t.current, string.close, raw, escapes)
           u == ThroughDelimiter(t, end, Len(string.close))
<1>1. end \in Int /\ Ends(t.current, string.close, end)
  <2>1. t.current \in Nat \ {0}
    BY StateFields DEF Placed
  <2> QED BY <2>1, StringEndIsNumber
<1>2. (end <= Size /\ Add(u, string.type)) \/ Raise
  BY DEF ExtractString
<1>3. CASE Raise
  BY <1>3, RaiseFits
<1>4. CASE end <= Size /\ Add(u, string.type)
  <2> HIDE DEF end
  <2>1. Closes(t.current, string.close, end)
    BY <1>1, <1>4 DEF Ends
  <2>2. Placed(u) /\ Moved(u, t)
    BY <1>1, <2>1, ThroughFits
  <2>3. u.start \in Nat
    BY <2>2 DEF Moved
  <2> HIDE DEF u
  <2> QED BY <1>4, <2>2, <2>3, AddFits
<1> QED BY <1>2, <1>3, <1>4

LEMMA ScanStringFits ==
  ASSUME sql \in Seq(STRING), Size \in Nat, self \in State, InPlace(self.tokens),
         NEW t, Placed(t), t.current >= 1, t.start \in Nat, At(t.current) \notin Spaces,
         NEW open \in DOMAIN Strings, \A i \in 1..Len(open) : At(t.current + i - 1) \notin Breaks,
         ScanString(t, open)
  PROVE  Fits(self')
<1> DEFINE n == Len(open)
           close == Strings[open].close
           u == Advance(t, n)
<1>1. n \in Nat /\ Len(close) \in Nat \ {0} /\ OnOneLine(close)
  <2>1. open \in Seq(STRING) /\ close \in Seq(STRING) /\ close # <<>>
    BY WordsAssumption
  <2>2. Breaks \intersect ToSet(close) = {}
    BY DelimitersAssumption DEF Breaks
  <2>3. \A i \in 1..Len(close) : close[i] \in ToSet(close)
    BY <2>1 DEF ToSet
  <2> QED BY <2>1, <2>2, <2>3 DEF OnOneLine
<1>2. Strings[open].type \in TokenTypes
  BY DEF TokenTypes
<1>3. Placed(u) /\ Moved(u, t) /\ u.current = t.current + n
  <2>1. At(t.current) \notin Breaks
    BY DEF Spaces
  <2>2. \A q \in (t.current + 1)..(t.current + n - 1) : At(q) \notin Breaks
    <3>1. t.current \in Nat
      BY StateFields DEF Placed
    <3>2. ASSUME NEW q \in (t.current + 1)..(t.current + n - 1) PROVE At(q) \notin Breaks
      <4>1. q - t.current + 1 \in 1..n /\ t.current + (q - t.current + 1) - 1 = q
        BY <1>1, <3>1
      <4> QED BY <4>1
    <3> QED BY <3>2
  <2> HIDE DEF n
  <2> QED BY <1>1, <2>1, <2>2, AdvanceFits
<1>4. ExtractString(u, Strings[open], Strings[open].type = "RAW_STRING", Escapes)
  BY DEF ScanString
<1>5. u.current >= 1 /\ u.start \in Nat
  BY <1>1, <1>3, StateFields DEF Moved, Placed
<1> HIDE DEF u
<1> QED BY <1>1, <1>2, <1>3, <1>4, <1>5, ExtractFits

LEMMA ScanIdentifierFits ==
  ASSUME sql \in Seq(STRING), Size \in Nat, self \in State, InPlace(self.tokens),
         NEW t, Placed(t), t.start \in Nat, ScanIdentifier(t)
  PROVE  Fits(self')
<1> DEFINE char == At(t.current)
           string == [close |-> <<char>>, type |-> "IDENTIFIER", digits |-> {}]
           u == Advance(t, 1)
<1>1. Len(string.close) = 1 /\ string.type \in TokenTypes
  BY DEF TokenTypes
<1>2. Placed(u) /\ Moved(u, t) /\ u.current = t.current + 1
  BY StepFits
<1>3. u.current >= 1 /\ u.start \in Nat
  BY <1>2, StateFields DEF Moved, Placed
<1>4. ExtractString(u, string, FALSE, {char})
  BY DEF ScanIdentifier
<1>5. Len(string.close) \in Nat \ {0}
  BY <1>1
<1> HIDE DEF string, u
<1> QED BY <1>1, <1>2, <1>3, <1>4, <1>5, ExtractFits

LEMMA BackToTagFits ==
  ASSUME sql \in Seq(STRING), Size \in Nat, \A q : At(q) \notin Breaks, NEW t, Placed(t), NEW tag, NEW end \in Int,
         t.current + 1 <= Size, t.current + 1 <= end, end <= Size + 1,
         Len(tag) \in Nat, Len(tag) <= end - (t.current + 1)
  PROVE  LET u == BackToTag(Advance(t, 1), end, tag) IN Placed(u) /\ Moved(u, t)
<1> DEFINE open == Advance(t, 1)
           far == IF end > Size THEN Size ELSE end
           after == Walk(open, far)
           n == Len(tag)
<1>1. t.current \in Nat
  BY StateFields DEF Placed
<1>2. n \in Nat /\ n <= end - (t.current + 1)
  OBVIOUS
<1>3. Placed(open) /\ Moved(open, t) /\ open.current = t.current + 1
  BY StepFits
<1>4. far \in Int /\ far >= t.current + 1
  BY <1>1
<1> HIDE DEF open, far, n
<1>5. Placed(after) /\ Moved(after, open) /\ after.current = IF far <= open.current THEN open.current ELSE far
  BY <1>3, <1>4, WalkFits
<1>6. after.current = far /\ Moved(after, t)
  <2>1. after.current = far
    BY <1>1, <1>3, <1>4, <1>5
  <2>2. Moved(after, t)
    BY <1>3, <1>5, MovedTwice
  <2> QED BY <2>1, <2>2
<1> HIDE DEF after
<1>7. CASE end >= Size
  <2>1. BackToTag(open, end, tag) = Advance(after, -n)
    BY <1>7 DEF BackToTag, after, far, n
  <2>2. after.current - n \in Nat
    <3>1. far = Size /\ (end = Size \/ end = Size + 1)
      BY <1>7 DEF far
    <3> QED BY <1>1, <1>2, <1>6, <3>1
  <2>3. Placed(Advance(after, -n)) /\ Moved(Advance(after, -n), after)
    BY <1>2, <1>5, <2>2, BackFits
  <2>4. Moved(Advance(after, -n), t)
    BY <1>6, <2>3, MovedTwice
  <2> QED BY <2>1, <2>3, <2>4 DEF open
<1>8. CASE ~(end >= Size)
  <2> DEFINE back == Advance(after, -1)
  <2>1. BackToTag(open, end, tag) = Advance(back, -n)
    BY <1>8 DEF BackToTag, after, far, n
  <2>2. after.current - 1 \in Nat /\ after.current - 1 - n \in Nat
    BY <1>1, <1>2, <1>6, <1>8 DEF far
  <2>3. Placed(back) /\ Moved(back, after) /\ back.current = after.current - 1
    BY <1>5, <2>2, BackFits
  <2>4. Moved(back, t)
    BY <1>6, <2>3, MovedTwice
  <2> HIDE DEF back
  <2>5. Placed(Advance(back, -n)) /\ Moved(Advance(back, -n), back)
    BY <1>2, <2>2, <2>3, BackFits
  <2>6. Moved(Advance(back, -n), t)
    BY <2>4, <2>5, MovedTwice
  <2> QED BY <2>1, <2>5, <2>6 DEF open
<1> QED BY <1>7, <1>8

(* A heredoc, in a text without line breaks.                               *)
LEMMA ScanHeredocFits ==
  ASSUME sql \in Seq(STRING), Size \in Nat, self \in State, InPlace(self.tokens), \A q : At(q) \notin Breaks,
         NEW t, Placed(t), t.start \in Nat, ScanHeredoc(t)
  PROVE  Fits(self')
<1> DEFINE open == Advance(t, 1)
           end == StringEnd(open.current, <<Heredoc>>, TRUE, Escapes)
           tag == TagText(open.current, end)
           close == <<Heredoc>> \o tag \o <<Heredoc>>
           walk == Walk(open, end)
           first == Advance(walk, 1)
           string == [close |-> close, type |-> "HEREDOC", digits |-> {}]
<1>1. t.current \in Nat /\ Placed(open) /\ Moved(open, t) /\ open.current = t.current + 1 /\ open.current \in Nat
  BY StepFits, StateFields DEF Placed
<1>2. \/ Raise
      \/ open.current <= Size /\ end <= Size + 1 /\ Add(BackToTag(open, end, tag), "PARAMETER")
      \/ end <= Size /\ ExtractString(first, string, FALSE, Escapes)
  BY DEF ScanHeredoc
<1>3. end \in Int /\ (open.current <= Size => open.current <= end)
      /\ (end <= Size => open.current <= end /\ At(end) = Heredoc)
  <2> HIDE DEF open
  <2>1. open.current \in Nat \ {0}
    BY <1>1
  <2> QED BY <2>1, TagEnds
<1> DEFINE Y == {x \in AtValues \union {Heredoc} : x \notin Breaks}
<1>7. ASSUME open.current <= end
      PROVE  tag \in Seq(Y) /\ Len(tag) \in Nat /\ Len(tag) <= end - open.current
  <2> HIDE DEF open, end
  <2>1. \A q : At(q) \in AtValues
    BY AtIsOfThem
  <2>2. \A q : At(q) \in Y
    BY <2>1
  <2> HIDE DEF Y
  <2> QED BY <1>1, <1>3, <1>7, <2>2, TagFacts
<1> HIDE DEF end, tag, Y
<1>4. CASE Raise
  BY <1>4, RaiseFits
<1>5. CASE open.current <= Size /\ end <= Size + 1 /\ Add(BackToTag(open, end, tag), "PARAMETER")
  <2>1. Len(tag) \in Nat /\ Len(tag) <= end - (t.current + 1)
    <3> HIDE DEF open
    <3>1. open.current <= end
      BY <1>3, <1>5
    <3> QED BY <1>1, <1>7, <3>1
  <2>2. t.current + 1 <= Size /\ t.current + 1 <= end /\ end <= Size + 1
    <3> HIDE DEF open
    <3> QED BY <1>1, <1>3, <1>5
  <2>3. Placed(BackToTag(open, end, tag)) /\ Moved(BackToTag(open, end, tag), t)
    BY <1>3, <2>1, <2>2, BackToTagFits
  <2>4. "PARAMETER" \in TokenTypes
    BY DEF TokenTypes
  <2> DEFINE u == BackToTag(open, end, tag)
  <2>5. u.start \in Nat
    BY <2>3 DEF Moved
  <2> HIDE DEF u, open
  <2> QED BY <1>5, <2>3, <2>4, <2>5, AddFits DEF u
<1>6. CASE end <= Size /\ ExtractString(first, string, FALSE, Escapes)
  <2>1. Placed(walk) /\ Moved(walk, open)
    BY <1>1, <1>3, WalkFits
  <2>2. Placed(first) /\ Moved(first, walk) /\ first.current = walk.current + 1
    <3> HIDE DEF walk
    <3> QED BY <2>1, StepFits
  <2>3. first.current >= 1 /\ first.start \in Nat
    <3>1. walk.current \in Nat
      BY <2>1, StateFields DEF Placed
    <3>2. first.start = t.start
      BY <1>1, <2>1, <2>2 DEF Moved
    <3> HIDE DEF walk, first
    <3> QED BY <2>2, <3>1, <3>2
  <2>4. Len(string.close) \in Nat \ {0} /\ OnOneLine(string.close)
    <3> HIDE DEF open
    <3>1. open.current <= end
      BY <1>3, <1>6
    <3>3. tag \in Seq(Y) /\ Len(tag) \in Nat
      BY <1>7, <3>1
    <3>4. Heredoc \in Y
      BY <1>3, <1>6 DEF Y
    <3>5. \A x \in Y : x \notin Breaks
      BY DEF Y
    <3>6. close \in Seq(Y) /\ Len(close) = Len(tag) + 2 /\ Len(tag) \in Nat
      BY <3>3, <3>4
    <3> HIDE DEF close
    <3>7. \A i \in 1..Len(close) : close[i] \in Y
      BY <3>6
    <3> QED BY <3>5, <3>6, <3>7 DEF OnOneLine
  <2>5. string.type \in TokenTypes
    BY DEF TokenTypes
  <2> HIDE DEF string, first
  <2> QED BY <1>6, <2>2, <2>3, <2>4, <2>5, ExtractFits
<1> QED BY <1>2, <1>4, <1>5, <1>6

-----------------------------------------------------------------------------
(* Comments keep the places                                                *)

LEMMA AttachedFits ==
  ASSUME NEW t, Placed(t), t.tokens = <<>> => t.prev_token_line = -1, NEW line \in Nat
  PROVE  Fits(Attached(t, line))
<1>1. CASE line # t.prev_token_line
  BY <1>1, PlacedFits DEF Attached
<1>2. CASE line = t.prev_token_line
  <2> DEFINE a == Attach(t)
             u == [a EXCEPT !.prev_token_line = t.line]
  <2>1. t.tokens # <<>> /\ t \in State
    BY <1>2 DEF Placed
  <2>2. Placed(a)
    BY <2>1, AttachPlaces
  <2>3. u = Attached(t, line)
    BY <1>2, <2>1 DEF Attach, Attached, State
  <2> HIDE DEF a
  <2>4. u.tokens = a.tokens /\ u.line = a.line /\ u.col = a.col /\ u.current = a.current
    BY <2>2 DEF Placed, State
  <2> HIDE DEF u
  <2>5. InPlace(u.tokens) /\ Good(u)
    BY <2>2, <2>4, SameGood DEF Placed
  <2> QED BY <2>3, <2>5 DEF Fits
<1> QED BY <1>1, <1>2

LEMMA CommentFits ==
  ASSUME NEW t, Placed(t), t.start \in Nat, t.tokens = <<>> => t.prev_token_line = -1, NEW line \in Nat, NEW open,
         WithComment(t, line, open)
  PROVE  Fits(self')
<1> DEFINE read == WaitsFor(t, <<t.start, t.current>>)
           hint == Added(read, "HINT", read.start, read.current)
<1>1. self' = Attached(hint, line) \/ self' = Attached(read, line)
  BY DEF WithComment, WaitsFor
<1>2. /\ read \in State /\ read.tokens = t.tokens /\ read.line = t.line /\ read.col = t.col
      /\ read.current = t.current /\ read.start = t.start /\ read.prev_token_line = t.prev_token_line
  <2> DEFINE c == <<t.start, t.current>>
             comments == Append(t.comments, c)
             scanned == t.scanned \union {c}
  <2>1. t \in State /\ t.comments \in Seq(Span) /\ t.scanned \in SUBSET Span /\ c \in Span
    BY StateFields DEF Placed, Span
  <2> HIDE DEF c
  <2>2. comments \in Seq(Span) /\ scanned \in SUBSET Span
    BY <2>1
  <2>3. read = [t EXCEPT !.comments = comments, !.scanned = scanned]
    BY DEF WaitsFor, c
  <2> HIDE DEF comments, scanned, read
  <2> QED BY <2>1, <2>2, <2>3 DEF State
<1> HIDE DEF read
<1>3. Placed(read)
  BY <1>2, SameGood DEF Placed
<1>4. read.start \in Nat /\ read.current \in Nat /\ "HINT" \in TokenTypes
  BY <1>2, StateFields DEF TokenTypes
<1>5. Placed(hint) /\ hint.tokens # <<>>
  <2>1. Placed(hint)
    BY <1>3, <1>4, AddPlaces
  <2>2. hint.tokens = Append(read.tokens, NewToken(read, "HINT", read.start, read.current))
    <3>1. ~(read.comments # <<>> /\ "HINT" = "SEMICOLON" /\ read.tokens # <<>>)
      OBVIOUS
    <3>2. read \in State
      BY <1>2
    <3> QED BY <1>4, <3>1, <3>2, AddedFields, Zenon
  <2>3. read.tokens \in Seq(Token)
    BY <1>2, StateFields
  <2> HIDE DEF hint
  <2> QED BY <2>1, <2>2, <2>3
<1> HIDE DEF hint
<1> QED BY <1>1, <1>2, <1>3, <1>5, AttachedFits

(* A comment of any kind.                                                  *)
LEMMA ScanCommentFits ==
  ASSUME sql \in Seq(STRING), Size \in Nat, self \in State, InPlace(self.tokens),
         NEW t, Placed(t), t.start \in Nat, t.tokens = <<>> => t.prev_token_line = -1,
         At(t.current) \notin Spaces,
         NEW open \in DOMAIN Comments, \A i \in 1..Len(open) : At(t.current + i - 1) \notin Breaks,
         ScanComment(t, open)
  PROVE  Fits(self')
<1> DEFINE close == Comments[open]
           n == Len(open)
           first == Advance(t, n)
           end == BlockEnd(first.current, open, close)
           u == ThroughDelimiter(first, end, Len(close))
<1>1. t.current \in Nat /\ t.line \in Nat
  BY StateFields DEF Placed
<1>2. n \in Nat \ {0} /\ close \in Seq(STRING) /\ Len(close) \in Nat /\ (close # <<>> => Len(close) # 0)
  <2>1. open \in Seq(STRING) /\ open # <<>> /\ close \in Seq(STRING)
    BY WordsAssumption
  <2> QED BY <2>1, LenProperties, EmptySeq, Zenon
<1>3. \/ Raise
      \/ WithComment(Walk(t, LineEnd(t.current)), t.line, open)
      \/ close # <<>> /\ first.current <= Size /\ end <= Size /\ WithComment(u, t.line, open)
  BY DEF ScanComment
<1>4. CASE Raise
  BY <1>4, RaiseFits
<1>5. CASE WithComment(Walk(t, LineEnd(t.current)), t.line, open)
  <2> DEFINE w == Walk(t, LineEnd(t.current))
  <2>1. Placed(w) /\ Moved(w, t)
    BY <1>1, LineEndIsNumber, WalkFits
  <2>2. w.start \in Nat /\ (w.tokens = <<>> => w.prev_token_line = -1)
    BY <2>1 DEF Moved
  <2> HIDE DEF w
  <2>3. WithComment(w, t.line, open)
    BY <1>5 DEF w
  <2> QED BY <1>1, <2>1, <2>2, <2>3, CommentFits
<1>6. CASE close # <<>> /\ first.current <= Size /\ end <= Size /\ WithComment(u, t.line, open)
  <2>1. Placed(first) /\ Moved(first, t) /\ first.current = t.current + n
    <3>1. \A q \in (t.current + 1)..(t.current + n - 1) : At(q) \notin Breaks
      <4>1. ASSUME NEW q \in (t.current + 1)..(t.current + n - 1) PROVE At(q) \notin Breaks
        <5>1. q - t.current + 1 \in 1..n /\ t.current + (q - t.current + 1) - 1 = q
          BY <1>1, <1>2
        <5> QED BY <5>1
      <4> QED BY <4>1
    <3>2. n \in Nat /\ n # 0
      BY <1>2
    <3> HIDE DEF n
    <3> QED BY <3>1, <3>2, AdvanceFits
  <2>2. first.current \in Nat \ {0} /\ first.current >= 1
    BY <1>1, <1>2, <2>1
  <2> HIDE DEF first, n
  <2>3. first.current \in 1..Size
    BY <1>6, <2>2
  <2>4. end \in Int /\ Closes(first.current, close, end)
    <3>1. end \in Int /\ Ends(first.current, close, end)
      BY <1>2, <2>3, BlockEndsNumbers DEF BlockEnd, n
    <3> QED BY <1>6, <3>1 DEF Ends
  <2>5. OnOneLine(close)
    <3>1. Breaks \intersect ToSet(close) = {}
      BY DelimitersAssumption DEF Breaks
    <3>2. \A i \in 1..Len(close) : close[i] \in ToSet(close)
      BY <1>2 DEF ToSet
    <3> QED BY <3>1, <3>2 DEF OnOneLine
  <2> HIDE DEF end
  <2>6. Placed(u) /\ Moved(u, first)
    BY <1>2, <1>6, <2>1, <2>2, <2>4, <2>5, ThroughFits
  <2>7. u.start \in Nat /\ (u.tokens = <<>> => u.prev_token_line = -1)
    BY <2>1, <2>6 DEF Moved
  <2> HIDE DEF u
  <2> QED BY <1>1, <1>6, <2>6, <2>7, CommentFits
<1> QED BY <1>3, <1>4, <1>5, <1>6

-----------------------------------------------------------------------------
(* Numbers and names                                                       *)

(* A run of characters ends before white space.                            *)
LEMMA RunOnOneLine ==
  ASSUME Size \in Nat, NEW p \in Nat, NEW singles
  PROVE  \A x \in (p + 1)..RunEnd(p, singles) : At(x) \notin Breaks
<1> DEFINE T == {q \in p..Size : Stops(At(q + 1), singles)}
           m == RunEnd(p, singles)
<1>1. m = First(T, p)
  BY DEF RunEnd
<1>2. T \subseteq p..Size /\ p \in Int /\ Size \in Int /\ \A q \in p..Size : q \notin T => At(q + 1) \notin Breaks
  <2>1. ASSUME NEW c, c \in Breaks PROVE Stops(c, singles)
    BY <2>1 DEF Stops, Spaces
  <2> QED BY <2>1
<1> HIDE DEF T, m
<1>3. /\ T = {} => First(T, p) = p
      /\ T # {} => First(T, p) \in T /\ \A x \in T : First(T, p) <= x
      /\ First(T, p) \in Int
  BY <1>2, FirstIsIn, Zenon
<1>4. ASSUME NEW x \in (p + 1)..m PROVE At(x) \notin Breaks
  <2>1. T # {}
    BY <1>1, <1>3, <1>4
  <2>2. m \in p..Size /\ \A y \in T : m <= y
    BY <1>1, <1>2, <1>3, <2>1
  <2>3. x - 1 \in p..Size /\ x - 1 \notin T /\ x - 1 + 1 = x
    BY <2>2, <1>4
  <2> QED BY <1>2, <2>3
<1> QED BY <1>4 DEF m

(* A number ends with a character of it.                                   *)
LEMMA NumberEndsInLine ==
  ASSUME Size \in Nat, NEW p \in Nat, NumberEnd(p) > p
  PROVE  At(NumberEnd(p)) \notin Breaks
<1> DEFINE goesOn(q) ==
             LET peek == At(q + 1)
                 read == {At(r) : r \in (p + 1)..q}
             IN \/ peek \in Digits
                \/ peek = "." /\ "." \notin read /\ LastType # "PARAMETER"
                \/ peek \in {"-", "+"} /\ "E" \in read /\ {"-", "+"} \intersect read = {}
                \/ peek = "E" /\ "E" \notin read
           T == {q \in p..Size : ~goesOn(q)}
           m == NumberEnd(p)
<1>1. m = First(T, Size)
  BY DEF NumberEnd
<1>2. \A q : goesOn(q) => At(q + 1) \notin Breaks
  <2>1. ASSUME NEW q, goesOn(q) PROVE At(q + 1) \in Digits \union {".", "-", "+", "E"}
    BY <2>1
  <2> HIDE DEF goesOn
  <2>2. Breaks \intersect Digits = {}
    BY AlnumAssumption DEF Breaks
  <2>3. Breaks \intersect {".", "-", "+", "E"} = {}
    BY DEF Breaks
  <2> QED BY <2>1, <2>2, <2>3
<1>3. T \subseteq p..Size /\ p \in Int /\ Size \in Int /\ \A q \in p..Size : q \notin T => At(q + 1) \notin Breaks
  <2> HIDE DEF goesOn
  <2> QED BY <1>2
<1> HIDE DEF T, m
<1>4. /\ T = {} => First(T, Size) = Size
      /\ T # {} => First(T, Size) \in T /\ \A x \in T : First(T, Size) <= x
      /\ First(T, Size) \in Int
  BY <1>3, FirstIsIn, Zenon
<1>5. m \in p..Size /\ m > p
  <2>1. m > p /\ m \in Int
    BY <1>1, <1>4 DEF m
  <2>2. m <= Size
    BY <1>1, <1>3, <1>4
  <2> QED BY <2>1, <2>2
<1>6. m - 1 \in p..Size /\ m - 1 \notin T /\ m - 1 + 1 = m
  <2>1. m - 1 \in p..Size /\ m - 1 + 1 = m
    BY <1>5
  <2>2. ASSUME m - 1 \in T PROVE FALSE
    BY <1>1, <1>4, <1>5, <2>2
  <2> QED BY <2>1, <2>2
<1>7. At(m) \notin Breaks
  BY <1>3, <1>6
<1> QED BY <1>7 DEF m

LEMMA WalkAddFits ==
  ASSUME Size \in Nat, NEW t, Placed(t), t.start \in Nat, NEW p \in Int, NEW type \in TokenTypes, Add(Walk(t, p), type)
  PROVE  Fits(self')
<1> DEFINE u == Walk(t, p)
<1>1. Placed(u) /\ u.start \in Nat
  BY WalkFits DEF Moved
<1> HIDE DEF u
<1>2. Add(u, type)
  BY DEF u
<1> QED BY <1>1, <1>2, AddFits

LEMMA ScanVarFits ==
  ASSUME Size \in Nat, NEW t, Placed(t), t.start \in Nat, ScanVar(t)
  PROVE  Fits(self')
<1> DEFINE end == RunEnd(t.current, DOMAIN Singles \ VarSingles)
           word == SubSeq(sql, t.start, end)
           type == IF LastType # "PARAMETER" /\ word \in DOMAIN Keywords THEN Keywords[word] ELSE "VAR"
<1>1. end \in Int
  BY StateFields, RunEndIsLater DEF Placed
<1>2. Add(Walk(t, end), type)
  BY DEF ScanVar
<1>3. type \in TokenTypes
  BY DEF TokenTypes
<1> HIDE DEF end, type
<1> QED BY <1>1, <1>2, <1>3, WalkAddFits

LEMMA ScanRadixFits ==
  ASSUME Size \in Nat, NEW t, Placed(t), t.start \in Nat, NEW letter \in DOMAIN Radixes, ScanRadix(t, Radixes[letter])
  PROVE  Fits(self')
<1> DEFINE radix == Radixes[letter]
           end == RunEnd(t.current + 1, DOMAIN Singles)
           value == SubSeq(sql, t.current + 2, end)
           valid == value # <<>> /\ ToSet(value) \subseteq radix.digits
           type == IF valid THEN radix.type ELSE "IDENTIFIER"
<1>1. end \in Int
  <2>1. t.current + 1 \in Nat
    BY StateFields DEF Placed
  <2> QED BY <2>1, RunEndIsLater
<1>2. Add(Walk(t, end), type)
  BY DEF ScanRadix
<1>3. type \in TokenTypes
  <2> HIDE DEF valid
  <2> QED BY DEF TokenTypes
<1> HIDE DEF end, type
<1> QED BY <1>1, <1>2, <1>3, WalkAddFits

LEMMA NumberWithLiteralFits ==
  ASSUME sql \in Seq(STRING), Size \in Nat, NEW t, Placed(t), t.start \in Nat, NEW q \in Int, q >= t.current,
         q = t.current \/ q <= Size, \A x \in t.current..q : At(x) \notin Breaks, NumberWithLiteral(t, q)
  PROVE  Fits(self')
<1> DEFINE literal == SubSeq(sql, t.current + 1, q)
           after == Walk(t, q)
           number == Added(after, "NUMBER", t.start, t.current)
           cast == Added(number, "DCOLON", t.current + 1, t.current)
           back == GiveBack(after, literal)
<1>1. t.current \in Nat /\ t.current + 1 \in Nat /\ q \in Nat
  <2>1. t.current \in Nat
    BY StateFields DEF Placed
  <2> QED BY <2>1
<1>2. \/ literal \in DOMAIN NumericSuffixes /\ self' = Added(cast, NumericSuffixes[literal], t.current + 1, q)
      \/ Add(after, "NUMBER")
      \/ Add(after, "VAR")
      \/ self' = Added(back, "NUMBER", t.start, t.current)
  BY DEF NumberWithLiteral
<1>3. "NUMBER" \in TokenTypes /\ "VAR" \in TokenTypes /\ "DCOLON" \in TokenTypes
  BY DEF TokenTypes
<1>4. Placed(after) /\ after.current = q
  <2>1. Placed(after) /\ after.current = IF q <= t.current THEN t.current ELSE q
    BY WalkFits
  <2> HIDE DEF after
  <2> QED BY <1>1, <2>1
<1>5. CASE literal \in DOMAIN NumericSuffixes /\ self' = Added(cast, NumericSuffixes[literal], t.current + 1, q)
  <2>1. NumericSuffixes[literal] \in TokenTypes
    BY <1>5 DEF TokenTypes
  <2> HIDE DEF after, literal
  <2>2. Placed(number)
    BY <1>1, <1>3, <1>4, AddPlaces
  <2> HIDE DEF number
  <2>3. Placed(cast)
    BY <1>1, <1>3, <2>2, AddPlaces
  <2> HIDE DEF cast
  <2> QED BY <1>1, <1>5, <2>1, <2>3, AddPlaces, PlacedFits
<1>6. CASE Add(after, "NUMBER")
  BY <1>3, <1>6, WalkAddFits
<1>7. CASE Add(after, "VAR")
  BY <1>3, <1>7, WalkAddFits
<1>8. CASE self' = Added(back, "NUMBER", t.start, t.current)
  <2> DEFINE n == Len(literal)
  <2>1. n \in Nat /\ n = q - t.current
    <3>1. t.current + 1 \in Nat \ {0} /\ (t.current + 1 <= q => q <= Size)
      BY <1>1
    <3>2. n = IF t.current + 1 <= q THEN q - (t.current + 1) + 1 ELSE 0
      BY <3>1, SliceFacts
    <3> HIDE DEF n
    <3> QED BY <1>1, <3>2
  <2>2. back = Advance(after, -n)
    BY DEF GiveBack
  <2> HIDE DEF n, after, back
  <2>3. after.current - n = t.current
    BY <1>1, <1>4, <2>1
  <2>4. \A x \in (after.current - n)..after.current : At(x) \notin Breaks
    BY <1>4, <2>3
  <2>5. Placed(back)
    BY <1>1, <1>4, <2>1, <2>2, <2>3, <2>4, BackFits
  <2> QED BY <1>1, <1>3, <1>8, <2>5, AddPlaces, PlacedFits
<1> QED BY <1>2, <1>5, <1>6, <1>7, <1>8

LEMMA ScanNumberFits ==
  ASSUME sql \in Seq(STRING), Size \in Nat, NEW t, Placed(t), t.start \in Nat, At(t.current) \notin Spaces,
         ScanNumber(t)
  PROVE  Fits(self')
<1> DEFINE end == NumberEnd(t.current)
           number == Walk(t, end)
           radix == IF At(t.current) = "0" THEN At(t.current + 1) ELSE ""
           q == RunEnd(number.current, DOMAIN Singles)
<1>1. end \in Int /\ t.current \in Nat /\ (end > t.current => At(end) \notin Breaks) /\ At(t.current) \notin Breaks
  <2>1. t.current \in Nat
    BY StateFields DEF Placed
  <2> QED BY <2>1, NumberEndIsNumber, NumberEndsInLine DEF Spaces
<1>2. \/ radix \in DOMAIN Radixes /\ ScanRadix(t, Radixes[radix])
      \/ Add(t, "NUMBER")
      \/ Add(number, "NUMBER")
      \/ NumberWithLiteral(number, q)
  BY DEF ScanNumber
<1>3. "NUMBER" \in TokenTypes
  BY DEF TokenTypes
<1> HIDE DEF radix, end
<1>4. CASE radix \in DOMAIN Radixes /\ ScanRadix(t, Radixes[radix])
  BY <1>4, ScanRadixFits
<1>5. CASE Add(t, "NUMBER")
  BY <1>3, <1>5, AddFits
<1>6. CASE Add(number, "NUMBER")
  BY <1>1, <1>3, <1>6, WalkAddFits
<1>7. CASE NumberWithLiteral(number, q)
  <2> DEFINE p == number.current
  <2>1. Placed(number) /\ Moved(number, t) /\ p = IF end <= t.current THEN t.current ELSE end
    BY <1>1, WalkFits
  <2>2. number.start \in Nat /\ p \in Nat
    BY <2>1, StateFields DEF Placed
  <2> HIDE DEF number
  <2>3. At(p) \notin Breaks
    <3> HIDE DEF p
    <3> QED BY <1>1, <2>1
  <2>4. q \in Int /\ q >= p /\ (q = p \/ q <= Size) /\ \A x \in (p + 1)..q : At(x) \notin Breaks
    BY <2>2, RunEndIsLater, RunOnOneLine
  <2> HIDE DEF q
  <2>5. \A x \in p..q : At(x) \notin Breaks
    <3>1. \A x \in p..q : x = p \/ x \in (p + 1)..q
      BY <2>2, <2>4
    <3> QED BY <2>3, <2>4, <3>1
  <2> QED BY <1>7, <2>1, <2>2, <2>4, <2>5, NumberWithLiteralFits
<1> QED BY <1>2, <1>4, <1>5, <1>6, <1>7

-----------------------------------------------------------------------------
(* Keywords                                                                *)

(* The word met at p is among what has been read from p on.                *)
Met(p, chars, N, X) ==
  /\ N \in Nat /\ N = Size + 1 - p /\ Blank \in X /\ Reading(chars, p, N, X)
  /\ \E W \in 0..N : Followed(p).word = chars[W]

LEMMA WordMet ==
  ASSUME Size \in Nat, NEW p \in 1..Size
  PROVE  \E chars, N, X : Met(p, chars, N, X)
<1> DEFINE N == Size + 1 - p
           X == {Blank} \union {At(q) : q \in Int}
           chars == CharsRead(p)
           met == {n \in 1..N : chars[n] \in TriePrefixes}
           words == {n \in met : chars[n] \in TrieWords /\ chars[n] # chars[n - 1]}
           Latest(places) == IF places = {} THEN 0 ELSE Max(places)
           W == Latest(words)
<1>1. N \in Nat /\ p \in Nat
  OBVIOUS
<1>2. Blank \in X /\ \A q \in Int : At(q) \in X
  OBVIOUS
<1>3. Reading(chars, p, N, X)
  <2> HIDE DEF X
  <2> QED BY <1>1, <1>2, CharsReadFacts
<1>4. Followed(p).word = chars[W]
  BY DEF Followed
<1>5. W \in 0..N
  <2>1. words \subseteq 1..N
    OBVIOUS
  <2> HIDE DEF words
  <2>2. CASE words = {}
    BY <1>1, <2>2
  <2>3. CASE words # {}
    <3>1. N \in Int /\ 1 \in Int
      BY <1>1
    <3> HIDE DEF N
    <3>2. Max(words) \in words
      BY <2>1, <2>3, <3>1, MaxOfInterval, Zenon
    <3>3. W = Max(words)
      BY <2>3
    <3>4. W \in words
      BY <3>2, <3>3
    <3> HIDE DEF W
    <3> QED BY <1>1, <2>1, <3>1, <3>4
  <2> QED BY <2>2, <2>3
<1> HIDE DEF chars, W, X
<1>6. Met(p, chars, N, X)
  BY <1>1, <1>2, <1>3, <1>4, <1>5 DEF Met
<1> QED BY <1>6

(* What is met without a blank is what stands at p.                        *)
Stands(chars, p, n) ==
  \/ \E i \in 1..Len(chars[n]) : chars[n][i] = Blank
  \/ /\ Len(chars[n]) = n
     /\ \A i \in 1..n : At(p + i - 1) \notin Spaces /\ chars[n][i] = At(p + i - 1)

LEMMA WordStands ==
  ASSUME NEW chars, NEW p \in Nat, NEW N \in Nat, NEW X, Blank \in X, Reading(chars, p, N, X)
  PROVE  \A n \in 0..N : Stands(chars, p, n)
<1> DEFINE blank(n) == \E i \in 1..Len(chars[n]) : chars[n][i] = Blank
           stands(n) == /\ Len(chars[n]) = n
                        /\ \A i \in 1..n : At(p + i - 1) \notin Spaces /\ chars[n][i] = At(p + i - 1)
           P == {n \in 0..N : Stands(chars, p, n)}
<1>1. \A n : Stands(chars, p, n) <=> blank(n) \/ stands(n)
  BY DEF Stands
<1>2. \A n \in 0..N : chars[n] \in Seq(X)
  BY DEF Reading
<1>3. 0 \in P
  <2>1. chars[0] = <<>> /\ 0 \in 0..N
    BY DEF Reading
  <2>2. stands(0)
    BY <2>1
  <2> HIDE DEF blank, stands
  <2> QED BY <1>1, <2>1, <2>2
<1>4. ASSUME NEW n \in 1..N, n - 1 \in P PROVE n \in P
  <2>1. n \in 0..N /\ n - 1 \in 0..N
    OBVIOUS
  <2>2. chars[n] \in Seq(X) /\ chars[n - 1] \in Seq(X)
    BY <1>2, <2>1
  <2>3. \/ At(p + n - 1) \in Spaces /\ chars[n] = chars[n - 1] /\ n > 1 /\ At(p + (n - 1) - 1) \in Spaces
        \/ At(p + n - 1) \in Spaces /\ chars[n] = Append(chars[n - 1], Blank)
        \/ At(p + n - 1) \notin Spaces /\ chars[n] = Append(chars[n - 1], At(p + n - 1))
    BY DEF Reading
  <2>4. ASSUME NEW s \in Seq(X), NEW x
        PROVE  /\ Len(Append(s, x)) = Len(s) + 1 /\ Append(s, x)[Len(s) + 1] = x
               /\ \A i \in 1..Len(s) : Append(s, x)[i] = s[i]
    OBVIOUS
  <2>5. CASE blank(n - 1)
    <3>1. PICK i \in 1..Len(chars[n - 1]) : chars[n - 1][i] = Blank
      BY <2>5
    <3>2. i \in 1..Len(chars[n]) /\ chars[n][i] = Blank
      BY <2>2, <2>3, <2>4, <3>1
    <3>3. blank(n)
      BY <3>2
    <3> HIDE DEF blank, stands
    <3> QED BY <1>1, <2>1, <3>3
  <2>6. CASE stands(n - 1)
    <3>1. /\ Len(chars[n - 1]) = n - 1
          /\ \A i \in 1..(n - 1) : At(p + i - 1) \notin Spaces /\ chars[n - 1][i] = At(p + i - 1)
      BY <2>6
    <3>2. ~(n > 1 /\ At(p + (n - 1) - 1) \in Spaces)
      <4>1. n > 1 => n - 1 \in 1..(n - 1)
        OBVIOUS
      <4> QED BY <3>1, <4>1
    <3>3. CASE chars[n] = Append(chars[n - 1], Blank)
      <4>1. n \in 1..Len(chars[n]) /\ chars[n][n] = Blank
        BY <2>2, <2>4, <3>1, <3>3
      <4>2. blank(n)
        BY <4>1
      <4> HIDE DEF blank, stands
      <4> QED BY <1>1, <2>1, <4>2
    <3>4. CASE At(p + n - 1) \notin Spaces /\ chars[n] = Append(chars[n - 1], At(p + n - 1))
      <4>1. Len(chars[n]) = n /\ chars[n][n] = At(p + n - 1) /\ \A i \in 1..(n - 1) : chars[n][i] = chars[n - 1][i]
        BY <2>2, <2>4, <3>1, <3>4
      <4>2. ASSUME NEW i \in 1..n PROVE At(p + i - 1) \notin Spaces /\ chars[n][i] = At(p + i - 1)
        <5>1. i \in 1..(n - 1) \/ i = n
          OBVIOUS
        <5> QED BY <3>1, <3>4, <4>1, <5>1
      <4>3. stands(n)
        BY <4>1, <4>2
      <4> HIDE DEF blank, stands
      <4> QED BY <1>1, <2>1, <4>3
    <3> QED BY <2>3, <3>2, <3>3, <3>4
  <2>7. blank(n - 1) \/ stands(n - 1)
    <3> HIDE DEF blank, stands
    <3> QED BY <1>1, <1>4
  <2> QED BY <2>5, <2>6, <2>7
<1>5. \A n \in 0..N : n \in P
  <2> HIDE DEF P
  <2> QED BY <1>3, <1>4, UpTo
<1> QED BY <1>5

(* What opens a string or a comment stands on one line.                    *)
LEMMA OpeningOnOneLine ==
  ASSUME Size \in Nat, NEW p \in 1..Size, Followed(p).word \in DOMAIN Strings \union DOMAIN Comments
  PROVE  \A i \in 1..Len(Followed(p).word) : At(p + i - 1) \notin Breaks
<1> DEFINE word == Followed(p).word
<1>1. word \in Seq(STRING) /\ Blank \notin ToSet(word)
  <2>1. word \in Seq(STRING)
    BY WordsAssumption
  <2>2. Blank \notin ToSet(word)
    BY DelimitersAssumption, Zenon DEF Blank
  <2> QED BY <2>1, <2>2
<1>2. ~\E i \in 1..Len(word) : word[i] = Blank
  BY <1>1 DEF ToSet
<1> HIDE DEF word
<1>3. PICK chars, N, X : Met(p, chars, N, X)
  BY WordMet
<1>4. PICK W \in 0..N : word = chars[W]
  BY <1>3 DEF word, Met
<1>5. p \in Nat /\ N \in Nat /\ Blank \in X /\ Reading(chars, p, N, X)
  BY <1>3 DEF Met
<1>6. Len(word) = W /\ \A i \in 1..W : At(p + i - 1) \notin Spaces
  <2>1. Stands(chars, p, W)
    BY <1>5, WordStands
  <2> QED BY <1>2, <1>4, <2>1 DEF Stands
<1> QED BY <1>6 DEF word, Spaces

(* So does what opens a heredoc.                                           *)
LEMMA HeredocStands ==
  ASSUME Size \in Nat, NEW p \in 1..Size, Followed(p).word = <<Heredoc>>, At(p) \notin Spaces
  PROVE  Heredoc = At(p)
<1>1. PICK chars, N, X : Met(p, chars, N, X)
  BY WordMet
<1>2. PICK W \in 0..N : <<Heredoc>> = chars[W]
  BY <1>1 DEF Met
<1>3. p \in Nat /\ p + 1 - 1 = p /\ N \in Nat /\ Reading(chars, p, N, X)
  BY <1>1 DEF Met
<1>4. chars[0] = <<>> /\ <<Heredoc>> # <<>> /\ <<Heredoc>>[1] = Heredoc /\ Len(<<Heredoc>>) = 1
  BY <1>3 DEF Reading
<1>5. 1 \in 1..N /\ 1 \in 0..N /\ 1 - 1 = 0 /\ 1 <= W
  <2>1. W # 0
    BY <1>2, <1>4
  <2> QED BY <1>3, <2>1
<1>6. chars[1] = Append(<<>>, At(p))
  BY <1>3, <1>4, <1>5 DEF Reading
<1>7. Before(chars[1], chars[W])
  BY <1>3, <1>5, ReadingGrows
<1>8. Len(chars[1]) = 1 /\ chars[1][1] = At(p)
  BY <1>6
<1>9. chars[1][1] = chars[W][1]
  BY <1>7, <1>8 DEF Before
<1> QED BY <1>2, <1>4, <1>8, <1>9

LEMMA ScanKeywordsFits ==
  ASSUME ~BreakPassed, sql \in Seq(STRING), Size \in Nat, self \in State, InPlace(self.tokens),
         NEW t, Placed(t), t.start \in Nat, t.tokens = <<>> => t.prev_token_line = -1,
         t.current \in 1..Size, At(t.current) \notin Spaces, ScanKeywords(t)
  PROVE  Fits(self')
<1> DEFINE p == t.current
           followed == Followed(p)
           word == followed.word
           end == followed.end
           after == Advance(t, end - p)
<1>1. \/ word \in DOMAIN Strings /\ ScanString(t, word)
      \/ word = <<Heredoc>> /\ ScanHeredoc(t)
      \/ word \in DOMAIN Comments /\ ScanComment(t, word)
      \/ word \in DOMAIN Keywords /\ self' = Added(after, Keywords[word], t.start, followed.last)
      \/ At(p) \in DOMAIN Singles /\ Add(t, Singles[At(p)])
      \/ ScanVar(t)
  BY DEF ScanKeywords
<1>2. CASE word \in DOMAIN Strings /\ ScanString(t, word)
  <2>1. \A i \in 1..Len(word) : At(t.current + i - 1) \notin Breaks
    BY <1>2, OpeningOnOneLine
  <2> HIDE DEF word
  <2> QED BY <1>2, <2>1, ScanStringFits
<1>3. CASE word = <<Heredoc>> /\ ScanHeredoc(t)
  <2>1. Heredoc = At(p)
    BY <1>3, HeredocStands
  <2>2. Heredoc = sql[p] /\ p \in DOMAIN sql
    BY <2>1 DEF At, Size
  <2>3. Heredoc \in ToSet(sql)
    BY <2>2 DEF ToSet
  <2>4. Breaks \intersect ToSet(sql) = {}
    BY <2>3 DEF BreakPassed
  <2>5. ASSUME NEW q PROVE At(q) \notin Breaks
    <3>1. CASE q \in 1..Size
      <4>1. At(q) = sql[q] /\ q \in DOMAIN sql
        BY <3>1 DEF At, Size
      <4>2. At(q) \in ToSet(sql)
        BY <4>1 DEF ToSet
      <4> QED BY <2>4, <4>2
    <3>2. CASE q \notin 1..Size
      BY <3>2 DEF At, Breaks
    <3> QED BY <3>1, <3>2
  <2> QED BY <1>3, <2>5, ScanHeredocFits
<1>4. CASE word \in DOMAIN Comments /\ ScanComment(t, word)
  <2>1. \A i \in 1..Len(word) : At(t.current + i - 1) \notin Breaks
    BY <1>4, OpeningOnOneLine
  <2> HIDE DEF word
  <2> QED BY <1>4, <2>1, ScanCommentFits
<1>5. CASE word \in DOMAIN Keywords /\ self' = Added(after, Keywords[word], t.start, followed.last)
  <2> DEFINE last == followed.last
             i == end - p
             type == Keywords[word]
  <2>1. p \in Nat /\ last \in Nat /\ end \in Nat /\ p <= last /\ last <= end
    BY <1>5, SpacesAfterKeyword
  <2>2. \A q \in (p + 1)..(end - 1) : At(q) \notin Breaks
    BY <1>5 DEF BreakPassed
  <2>3. type \in TokenTypes
    BY <1>5 DEF TokenTypes
  <2> HIDE DEF followed, word, end, last, type
  <2>4. i \in Nat /\ p + i - 1 = end - 1
    BY <2>1
  <2>5. At(t.current) \notin Breaks
    BY DEF Spaces
  <2> HIDE DEF i
  <2>6. \A q \in (t.current + 1)..(t.current + i - 1) : At(q) \notin Breaks
    BY <2>2, <2>4
  <2>7. Placed(Advance(t, i))
    BY <2>4, <2>5, <2>6, AdvanceFits
  <2>8. Placed(Added(Advance(t, i), type, t.start, last))
    BY <2>1, <2>3, <2>7, AddPlaces
  <2>9. self' = Added(Advance(t, i), type, t.start, last)
    BY <1>5 DEF type, last, i
  <2> QED BY <2>8, <2>9, PlacedFits
<1>6. CASE At(p) \in DOMAIN Singles /\ Add(t, Singles[At(p)])
  <2>1. Singles[At(p)] \in TokenTypes
    BY <1>6 DEF TokenTypes
  <2> QED BY <1>6, <2>1, AddFits
<1>7. CASE ScanVar(t)
  BY <1>7, ScanVarFits
<1> QED BY <1>1, <1>2, <1>3, <1>4, <1>5, <1>6, <1>7

-----------------------------------------------------------------------------
(* Lines and columns of the specification                                  *)

LEMMA TurnFits ==
  ASSUME Size \in Nat, Placed(self), self.current < Size
  PROVE  Placed(Turn) /\ Turn.current \in Nat /\ Turn.current >= 1 /\ Turn.start \in Nat
<1> DEFINE p == self.current
           T == {q \in p..Size : At(q + 1) \notin Blanks}
           blanks == First(T, p) - p
           offset == IF blanks > 0 THEN blanks ELSE 1
           start == p + blanks + 1
           begun == [self EXCEPT !.start = start]
<1>1. p \in Nat /\ Turn = Advance(begun, offset) /\ self \in State
  BY StateFields DEF Turn, Placed
<1>2. blanks \in Nat /\ \A q \in (p + 1)..(p + blanks) : At(q) \notin Breaks
  <2>1. T \subseteq p..Size /\ p \in Int /\ Size \in Int
    BY <1>1
  <2>2. \A q \in p..Size : q \notin T => At(q + 1) \notin Breaks
    <3>1. ASSUME NEW c \in Blanks PROVE c \notin Breaks
      BY Zenon DEF Blanks, Breaks
    <3> QED BY <3>1
  <2> HIDE DEF T
  <2> DEFINE m == First(T, p)
  <2>3. \/ T = {} /\ m = p
        \/ m \in T /\ \A q \in T : m <= q
    BY <2>1, FirstIsIn, Zenon
  <2> HIDE DEF m, p
  <2>4. CASE T = {} /\ m = p
    BY <1>1, <2>4 DEF m, p
  <2>5. CASE m \in T /\ \A q \in T : m <= q
    <3>1. m \in p..Size
      BY <2>1, <2>5
    <3>2. ASSUME NEW q \in (p + 1)..m PROVE At(q) \notin Breaks
      <4>1. q - 1 \in p..Size /\ ~(m <= q - 1) /\ q - 1 + 1 = q
        BY <1>1, <3>1
      <4> QED BY <2>2, <2>5, <4>1
    <3>3. blanks \in Nat /\ p + blanks = m
      BY <1>1, <3>1 DEF m
    <3> QED BY <3>2, <3>3
  <2> QED BY <2>3, <2>4, <2>5
<1> HIDE DEF blanks
<1>3. begun \in State /\ begun.current = p /\ begun.line = self.line /\ begun.col = self.col
      /\ begun.tokens = self.tokens /\ begun.start = start
  <2>1. start \in Nat
    BY <1>1, <1>2
  <2> HIDE DEF start, p
  <2> QED BY <1>1, <2>1 DEF State, p
<1> HIDE DEF begun, start
<1>4. Placed(begun)
  BY <1>3, SameGood DEF Placed
<1>5. offset \in Nat /\ offset >= 1 /\ \A q \in (begun.current + 1)..(begun.current + offset - 1) : At(q) \notin Breaks
  <2>1. offset \in Nat /\ offset >= 1 /\ (offset = 1 \/ offset = blanks)
    BY <1>2
  <2> HIDE DEF offset, p
  <2>2. ASSUME NEW q \in (begun.current + 1)..(begun.current + offset - 1) PROVE At(q) \notin Breaks
    <3>1. q \in (p + 1)..(p + blanks)
      BY <1>1, <1>2, <1>3, <2>1
    <3> QED BY <1>2, <3>1
  <2> QED BY <2>1, <2>2
<1> HIDE DEF offset, p
<1>6. /\ Placed(Advance(begun, offset)) /\ Moved(Advance(begun, offset), begun)
      /\ Advance(begun, offset).current = p + offset
  <2>1. offset # 0
    BY <1>5
  <2> QED BY <1>3, <1>4, <1>5, <2>1, AdvanceFits
<1> QED BY <1>1, <1>3, <1>5, <1>6, StateFields DEF Moved

LEMMA ScanFits ==
  ASSUME ~BreakPassed, IInv, Fits(self), Scan
  PROVE  Fits(self')
<1>1. /\ sql \in Seq(STRING) /\ self \in State /\ self.status = "scan" /\ ScanInv(self, self.current)
      /\ ~(self.current >= Size) /\ InPlace(self.tokens) /\ Placed(self)
  BY DEF IInv, TypeOK, Scan, Ended, Fits, Placed
<1>2. Size \in Nat /\ self.current \in Nat
  BY <1>1, SizeIsNumber, StateFields
<1>3. self.current < Size
  BY <1>1, <1>2
<1> DEFINE t == Turn
<1>4. Placed(t) /\ t.current \in Nat /\ t.current >= 1 /\ t.start \in Nat
  BY <1>1, <1>2, <1>3, TurnFits
<1>5. t.current <= Size /\ (At(t.current) \notin Spaces => Begun(t))
  BY <1>1, <1>2, <1>3, TurnFacts
<1>6. \/ At(t.current) \in Spaces /\ self' = t
      \/ At(t.current) \notin Spaces /\ (ScanNumber(t) \/ ScanIdentifier(t) \/ ScanKeywords(t))
  BY DEF Scan
<1> HIDE DEF t
<1>7. CASE At(t.current) \in Spaces /\ self' = t
  BY <1>4, <1>7, PlacedFits
<1>8. CASE At(t.current) \notin Spaces /\ ScanNumber(t)
  BY <1>1, <1>2, <1>4, <1>8, ScanNumberFits
<1>9. CASE At(t.current) \notin Spaces /\ ScanIdentifier(t)
  BY <1>1, <1>2, <1>4, <1>9, ScanIdentifierFits
<1>10. CASE At(t.current) \notin Spaces /\ ScanKeywords(t)
  <2>1. t.tokens = <<>> => t.prev_token_line = -1
    BY <1>5, <1>10 DEF Begun, ScanInv, CommentInv, WaitingInv
  <2>2. t.current \in 1..Size
    BY <1>2, <1>4, <1>5
  <2> QED BY <1>1, <1>2, <1>4, <1>10, <2>1, <2>2, ScanKeywordsFits
<1> QED BY <1>6, <1>7, <1>8, <1>9, <1>10

LEMMA WithWaitingPlaces ==
  ASSUME NEW t \in State, InPlace(t.tokens)
  PROVE  InPlace(WithWaiting(t))
BY StateFields, ExtendedPlaces DEF WithWaiting

LEMMA CutPlaces ==
  ASSUME NEW t, Placed(t), t.frames # <<>>, NEW n \in DOMAIN t.tokens, n = t.frames[Len(t.frames)].tokens
  PROVE  Placed(Cut(t))
<1> DEFINE W == WithWaiting(t)
           u == Cut(t)
           tokens == SubSeq(W, 1, n)
           frames == Front(t.frames)
<1>1. t \in State /\ u \in State
  BY CutFields DEF Placed
<1>2. W \in Seq(Token) /\ DOMAIN W = DOMAIN t.tokens /\ InPlace(W)
  BY <1>1, WithWaitingFacts, WithWaitingPlaces DEF Placed
<1>3. u = [t EXCEPT !.tokens = tokens, !.frames = frames]
  BY DEF Cut
<1> HIDE DEF W
<1>4. n \in Nat /\ n \in 1..Len(W)
  BY <1>2
<1>5. DOMAIN tokens = 1..n /\ \A i \in 1..n : i \in DOMAIN W /\ tokens[i] = W[i]
  BY <1>2, <1>4
<1> HIDE DEF tokens, frames, u
<1>6. u.tokens = tokens /\ u.line = t.line /\ u.col = t.col /\ u.current = t.current
  BY <1>1, <1>3 DEF State
<1>7. InPlace(tokens)
  BY <1>2, <1>5 DEF InPlace
<1>8. Good(u)
  BY <1>6, SameGood DEF Placed
<1> QED BY <1>1, <1>6, <1>7, <1>8 DEF Placed, u

LEMMA EndCommandFits ==
  ASSUME IInv, Fits(self), EndCommand
  PROVE  Fits(self')
<1> DEFINE frame == Last(self.frames)
           text == {q \in (frame.start + 1)..self.current : At(q) \notin Spaces}
           n == self.frames[Len(self.frames)].tokens
<1>1. self \in State /\ self.frames # <<>> /\ self.status = "scan" /\ ScanInv(self, self.current)
      /\ self.current \in Nat /\ Placed(self)
  BY StateFields DEF IInv, TypeOK, EndCommand, CommandEnds, Placed, Fits
<1>2. self' = IF text = {} THEN Cut(self) ELSE Added(Cut(self), "STRING", Min(text), Max(text))
  BY DEF EndCommand, Cut, Last
<1>3. Len(self.frames) \in DOMAIN self.frames
  <2>1. self.frames \in Seq(Frame)
    BY <1>1, StateFields
  <2> QED BY <1>1, <2>1
<1>4. n \in DOMAIN self.tokens
  BY <1>1, <1>3 DEF ScanInv, FramesInv
<1>5. Placed(Cut(self))
  BY <1>1, <1>4, CutPlaces
<1>6. frame.start \in Nat
  BY <1>1, <1>3, FrameFields DEF Last
<1>7. CASE text = {}
  BY <1>2, <1>5, <1>7, PlacedFits
<1>8. CASE text # {}
  <2>1. text \subseteq (frame.start + 1)..self.current /\ frame.start + 1 \in Int /\ self.current \in Int
    BY <1>1, <1>6
  <2> HIDE DEF text
  <2>2. Min(text) \in text /\ Max(text) \in text
    BY <1>8, <2>1, MaxOfInterval, Zenon
  <2>3. Min(text) \in Nat /\ Max(text) \in Nat
    <3> HIDE DEF frame
    <3>1. \A q \in text : q \in Nat
      BY <1>6, <2>1
    <3> QED BY <2>2, <3>1, Zenon
  <2>4. "STRING" \in TokenTypes
    BY DEF TokenTypes
  <2> QED BY <1>2, <1>5, <1>8, <2>3, <2>4, AddPlaces, PlacedFits
<1> QED BY <1>7, <1>8

LEMMA FinishFits ==
  ASSUME IInv, Fits(self), Finish
  PROVE  Fits(self')
<1>1. self \in State /\ InPlace(WithWaiting(self))
  BY WithWaitingPlaces DEF IInv, TypeOK, Fits
<1> DEFINE tokens == WithWaiting(self)
<1>2. self' = [self EXCEPT !.tokens = tokens, !.status = "done"]
  BY DEF Finish
<1> HIDE DEF tokens
<1>3. self'.tokens = tokens /\ self'.status = "done"
  BY <1>1, <1>2 DEF State
<1> QED BY <1>1, <1>3 DEF Fits, tokens

(* The places are true as long as no line break is passed unseen.          *)
PlacesInv == IInv /\ (~BreakPassed => Fits(self))

LEMMA PlacesInit ==
  ASSUME Init
  PROVE  PlacesInv
<1>1. IInv
  BY InvInit
<1>2. self.tokens = <<>> /\ self.line = 1 /\ self.col = 0 /\ self.current = 0
  BY DEF Init
<1>3. Size \in Nat
  BY <1>1, SizeIsNumber DEF IInv, TypeOK
<1>4. LinesFrom(1, 0) = {} /\ Cardinality(LinesFrom(1, 0)) = 0
  BY NoLines
<1>5. Column(0) = 0 /\ LinesBefore(0) = LinesFrom(1, 0)
  <2>1. /\ LinesBefore(0) = LinesFrom(1, 0) /\ LineStart(0) = 0
        /\ Column(0) = (0 - LineStart(0)) - Cardinality(FirstsFrom(LineStart(0) + 1, 0))
    BY <1>3, LineStartFacts
  <2>2. Cardinality(FirstsFrom(1, 0)) = 0
    BY NoLines
  <2> QED BY <2>1, <2>2
<1>6. Good(self)
  BY <1>2, <1>4, <1>5 DEF Good
<1>7. InPlace(self.tokens)
  BY <1>2 DEF InPlace
<1> QED BY <1>1, <1>6, <1>7 DEF PlacesInv, Fits

(* What is so for the text that was is so for the text that is.            *)
LEMMA PlacesStay ==
  ASSUME sql' = sql
  PROVE  BreakPassed' = BreakPassed /\ (Fits(self') => Fits(self)')
<1>1. BreakPassed' = BreakPassed
  BY DEF BreakPassed, Followed, CharsRead, At, Size
<1>2. \A q : At(q)' = At(q)
  BY DEF At, Size
<1>3. \A q : FirstOfTwo(q)' = FirstOfTwo(q)
  BY <1>2 DEF FirstOfTwo
<1>4. \A p : LinesBefore(p)' = LinesBefore(p)
  BY <1>2, <1>3 DEF LinesBefore
<1>5. \A p : LineStart(p)' = LineStart(p)
  BY <1>4 DEF LineStart
<1>6. \A p : Column(p)' = Column(p)
  BY <1>3, <1>5 DEF Column
<1>7. Fits(self') => Fits(self)'
  BY <1>4, <1>6 DEF Fits, InPlace, Good
<1> QED BY <1>1, <1>7

LEMMA PlacesNext ==
  ASSUME PlacesInv, [Next]_vars
  PROVE  PlacesInv'
<1>1. sql' = sql
  BY DEF Next, Scan, EndCommand, Finish, Stopped, vars
<1>2. IInv /\ IInv'
  BY InvNext DEF PlacesInv
<1>3. ASSUME ~BreakPassed PROVE Fits(self')
  <2>1. Fits(self)
    BY <1>3 DEF PlacesInv
  <2>2. CASE Scan
    BY <1>2, <1>3, <2>1, <2>2, ScanFits
  <2>3. CASE EndCommand
    BY <1>2, <2>1, <2>3, EndCommandFits
  <2>4. CASE Finish
    BY <1>2, <2>1, <2>4, FinishFits
  <2>5. CASE UNCHANGED vars
    <3>1. self' = self
      BY <2>5 DEF vars
    <3> QED BY <2>1, <3>1
  <2> QED BY <2>2, <2>3, <2>4, <2>5 DEF Next, Stopped
<1> QED BY <1>1, <1>2, <1>3, PlacesStay DEF PlacesInv

(* Every token has the line it ends on and the column it ends in, \r\n     *)
(* counted as one character: what _advance counts for one character, for   *)
(* several, for letters and digits at once and for characters that it      *)
(* gives back stays true, as long as no keyword stands on two lines and no *)
(* heredoc gives a line break back.                                        *)
THEOREM Placing == Spec => []PlacesTrueOnLines
<1>1. Init => PlacesInv
  BY PlacesInit
<1>2. PlacesInv /\ [Next]_vars => PlacesInv'
  BY PlacesNext
<1>3. PlacesInv => PlacesTrueOnLines
  BY DEF PlacesInv, PlacesTrueOnLines, Fits, InPlace
<1> QED BY <1>1, <1>2, <1>3, PTL DEF Spec
=============================================================================
