---------------------------- MODULE LexerProofs ----------------------------
(***************************************************************************)
(* Proofs about Lexer, for inputs of every length: the order of the table  *)
(* of patterns gives the longest match, every token carries the position   *)
(* of its first character, and nothing of the input is lost.               *)
(***************************************************************************)
EXTENDS Lexer, SequenceTheorems, FiniteSetTheorems, FunctionTheorems,
        NaturalsInduction, WellFoundedInduction, TLAPS

-----------------------------------------------------------------------------
(* Least and greatest elements *)

\* A set of naturals that is not empty has a least element.
LEMMA LeastElement ==
  ASSUME NEW S \in SUBSET Nat, S # {}
  PROVE  Min(S) \in S /\ \A y \in S : Min(S) <= y
<1> DEFINE R == OpToRel(<, Nat)
<1>1. IsWellFoundedOn(R, Nat)
  BY NatLessThanWellFounded
<1>2. \A x, y \in Nat : <<x, y>> \in R <=> x < y
  BY DEF OpToRel
<1> HIDE DEF R
<1>3. PICK x \in S : \A y \in S : ~(<<y, x>> \in R)
  BY <1>1, WFMin
<1>4. ASSUME NEW y \in S PROVE x <= y
  <2>1. x \in Nat /\ y \in Nat /\ ~(<<y, x>> \in R)
    BY <1>3
  <2>2. ~(y < x)
    BY <1>2, <2>1
  <2> QED
    BY <2>1, <2>2
<1> QED
  BY <1>4 DEF Min

\* A set of naturals up to n that is not empty has a greatest element.
LEMMA GreatestElement ==
  ASSUME NEW n \in Nat, NEW S \in SUBSET (0 .. n), S # {}
  PROVE  Max(S) \in S /\ \A y \in S : y <= Max(S)
<1> DEFINE T == {k \in 0 .. n : n - k \in S}
<1>1. \A y \in S : n - y \in T
  <2> SUFFICES ASSUME NEW y \in S PROVE n - y \in T
    OBVIOUS
  <2>1. y \in 0 .. n /\ n - (n - y) = y /\ n - y \in 0 .. n
    OBVIOUS
  <2> QED
    BY <2>1
<1>2. T \in SUBSET Nat /\ T # {}
  <2>1. PICK y : y \in S
    OBVIOUS
  <2>2. n - y \in T
    BY <1>1, <2>1
  <2> QED
    BY <2>2
<1>3. Min(T) \in T /\ \A y \in T : Min(T) <= y
  <2> HIDE DEF T
  <2> QED
    BY <1>2, LeastElement
<1>4. PICK g : g = n - Min(T)
  OBVIOUS
<1>5. g \in S /\ Min(T) \in 0 .. n
  BY <1>3, <1>4
<1>6. ASSUME NEW y \in S PROVE g >= y
  <2>1. Min(T) <= n - y /\ y \in 0 .. n
    BY <1>1, <1>3
  <2> QED
    BY <1>4, <1>5, <2>1
<1>7. \A y \in S : Max(S) \in S /\ Max(S) >= y
  BY <1>5, <1>6 DEF Max
<1>8. Max(S) \in S
  BY <1>7
<1>9. ASSUME NEW y \in S PROVE y <= Max(S)
  <2>1. Max(S) \in 0 .. n /\ y \in 0 .. n /\ Max(S) >= y
    BY <1>7, <1>8
  <2> QED
    BY <2>1
<1> QED
  BY <1>8, <1>9

-----------------------------------------------------------------------------
(* The table of patterns *)

\* The rows of the table.
LEMMA Rows ==
  /\ DOMAIN Types = 1 .. 15
  /\ Types[1] = "NUMBER" /\ Types[2] = "COMMENT" /\ Types[3] = "KW_IF"
  /\ Types[4] = "STRING" /\ Types[5] = "CHAR_LITERAL" /\ Types[6] = "EQ_EQ"
  /\ Types[7] = "GT_EQ" /\ Types[8] = "GT" /\ Types[9] = "MINUS_ASSIGN"
  /\ Types[10] = "ARROW" /\ Types[11] = "ASSIGN" /\ Types[12] = "IDENTIFIER"
  /\ Types[13] = "MINUS" /\ Types[14] = "SLASH" /\ Types[15] = "WHITESPACE"
BY DEF Types

\* The characters that the matches of a row begin with.
Starts ==
  <<{"1", "."}, {"/"}, {"i"}, {"q"}, {"a"}, {"="}, {">"}, {">"}, {"-"}, {"-"},
    {"="}, {"i", "f", "w"}, {"-"}, {"/"}, {"s", "n"}>>

\* Read off the definition.
LEMMA StartsOf ==
  /\ Starts[1] = {"1", "."} /\ Starts[2] = {"/"} /\ Starts[3] = {"i"} /\ Starts[4] = {"q"}
  /\ Starts[5] = {"a"} /\ Starts[6] = {"="} /\ Starts[7] = {">"} /\ Starts[8] = {">"}
  /\ Starts[9] = {"-"} /\ Starts[10] = {"-"} /\ Starts[11] = {"="}
  /\ Starts[12] = {"i", "f", "w"} /\ Starts[13] = {"-"} /\ Starts[14] = {"/"}
  /\ Starts[15] = {"s", "n"}
BY DEF Starts

\* The text of an operator is its match.
LEMMA OpMatches ==
  ASSUME NEW s \in Seq(Chars), NEW i \in 1 .. Len(s), NEW n \in Lengths(s, i), NEW a, NEW b
  PROVE  /\ SubSeq(s, i, i + n - 1) = <<a>> => n = 1 /\ s[i] = a
         /\ SubSeq(s, i, i + n - 1) = <<a, b>> => n = 2 /\ s[i] = a /\ s[i + 1] = b
<1>1. n \in 1 .. Len(s) - i + 1 /\ Len(s) \in Nat
  BY DEF Lengths
<1>2. PICK m : m = i + n - 1
  OBVIOUS
<1>3. m \in Int /\ i <= m /\ m <= Len(s) /\ m - i + 1 = n /\ i \in Int
  BY <1>1, <1>2
<1>4. /\ Len(SubSeq(s, i, m)) = n
      /\ \A k \in 1 .. n : SubSeq(s, i, m)[k] = s[i + k - 1]
  <2>1. \A k \in i .. m : s[k] \in Chars
    BY <1>1, <1>3
  <2> QED
    BY <1>3, <2>1, SubSeqProperties
<1>5. ASSUME SubSeq(s, i, m) = <<a>> PROVE n = 1 /\ s[i] = a
  <2>1. Len(<<a>>) = 1 /\ <<a>>[1] = a
    OBVIOUS
  <2>2. n = 1
    BY <1>4, <1>5, <2>1
  <2> QED
    BY <1>3, <1>4, <1>5, <2>1, <2>2
<1>6. ASSUME SubSeq(s, i, m) = <<a, b>> PROVE n = 2 /\ s[i] = a /\ s[i + 1] = b
  <2>1. Len(<<a, b>>) = 2 /\ <<a, b>>[1] = a /\ <<a, b>>[2] = b
    OBVIOUS
  <2>2. n = 2
    BY <1>4, <1>6, <2>1
  <2>3. i + 1 - 1 = i /\ i + 2 - 1 = i + 1
    OBVIOUS
  <2> QED
    BY <1>3, <1>4, <1>6, <2>1, <2>2, <2>3
<1> QED
  BY <1>2, <1>5, <1>6

\* What a row of the table looks for.
LEMMA PatternOf ==
  ASSUME NEW s, NEW i
  PROVE  /\ Pattern(Types[1], s, i) = NumberLengths(s, i)
         /\ Pattern(Types[2], s, i) = CommentLengths(s, i)
         /\ Pattern(Types[3], s, i) = KeywordLengths(s, i)
         /\ Pattern(Types[4], s, i) = StringLengths(s, i)
         /\ Pattern(Types[5], s, i) = CharLengths(s, i)
         /\ Pattern(Types[6], s, i) = OpLengths(s, i, <<"=", "=">>)
         /\ Pattern(Types[7], s, i) = OpLengths(s, i, <<">", "=">>)
         /\ Pattern(Types[8], s, i) = OpLengths(s, i, <<">">>)
         /\ Pattern(Types[9], s, i) = OpLengths(s, i, <<"-", "=">>)
         /\ Pattern(Types[10], s, i) = OpLengths(s, i, <<"-", ">">>)
         /\ Pattern(Types[11], s, i) = OpLengths(s, i, <<"=">>)
         /\ Pattern(Types[12], s, i) = IdentifierLengths(s, i)
         /\ Pattern(Types[13], s, i) = OpLengths(s, i, <<"-">>)
         /\ Pattern(Types[14], s, i) = OpLengths(s, i, <<"/">>)
         /\ Pattern(Types[15], s, i) = WhitespaceLengths(s, i)
<1>1. /\ DOMAIN Ops = {"EQ_EQ", "GT_EQ", "GT", "MINUS_ASSIGN", "ARROW", "ASSIGN", "MINUS", "SLASH"}
      /\ Ops["EQ_EQ"] = <<"=", "=">> /\ Ops["GT_EQ"] = <<">", "=">> /\ Ops["GT"] = <<">">>
      /\ Ops["MINUS_ASSIGN"] = <<"-", "=">> /\ Ops["ARROW"] = <<"-", ">">>
      /\ Ops["ASSIGN"] = <<"=">> /\ Ops["MINUS"] = <<"-">> /\ Ops["SLASH"] = <<"/">>
  BY DEF Ops
<1> QED
  BY <1>1, Rows DEF Pattern

\* A match is a stretch of the input from i on, and begins with a character that
\* its row looks for.
LEMMA PatternStarts ==
  ASSUME NEW s \in Seq(Chars), NEW i \in 1 .. Len(s), NEW t \in 1 .. 15,
         NEW n \in Pattern(Types[t], s, i)
  PROVE  n \in 1 .. Len(s) - i + 1 /\ s[i] \in Starts[t]
<1>1. n \in Lengths(s, i)
  BY PatternOf DEF NumberLengths, CommentLengths, KeywordLengths, StringLengths, CharLengths,
     OpLengths, IdentifierLengths, WhitespaceLengths
<1>2. n \in 1 .. Len(s) - i + 1
  BY <1>1 DEF Lengths
<1>3. i + n - 1 \in Int /\ i \in i .. i + n - 1
  BY <1>2
<1> SUFFICES s[i] \in Starts[t]
  BY <1>2
<1>4. CASE t = 1
  <2>1. n \in NumberLengths(s, i)
    BY <1>4, PatternOf
  <2>2. CASE AllIn(s, i, n, {"1"})
    BY <1>3, <1>4, <2>2, StartsOf DEF AllIn
  <2>3. CASE \E d \in 0 .. n - 2 : AllIn(s, i, d, {"1"}) /\ s[i + d] = "."
    <3>1. PICK d \in 0 .. n - 2 : AllIn(s, i, d, {"1"}) /\ s[i + d] = "."
      BY <2>3
    <3>2. d = 0 \/ i \in i .. i + d - 1
      BY <1>2, <3>1
    <3> QED
      <4>1. s[i] \in {"1", "."}
        BY <3>1, <3>2 DEF AllIn
      <4> QED
        BY <1>4, <4>1, StartsOf
  <2> QED
    BY <2>1, <2>2, <2>3 DEF NumberLengths
<1>5. CASE t = 2
  <2>1. AllIn(s, i, 2, {"/"}) /\ i \in i .. i + 2 - 1
    BY <1>5, PatternOf DEF CommentLengths
  <2> QED
    BY <1>5, <2>1, StartsOf DEF AllIn
<1>6. CASE t \in {4, 5, 12}
  <2>1. /\ t = 4 => s[i] = "q"
        /\ t = 5 => s[i] = "a"
        /\ t = 12 => s[i] \in {"i", "f", "w"}
    <3>1. /\ t = 4 => n \in StringLengths(s, i)
          /\ t = 5 => n \in CharLengths(s, i)
          /\ t = 12 => n \in IdentifierLengths(s, i)
      BY PatternOf
    <3> QED
      BY <3>1 DEF StringLengths, CharLengths, IdentifierLengths, Letters
  <2> QED
    BY <1>6, <2>1, StartsOf
<1>7. CASE t = 15
  <2>1. s[i] \in {"s", "n"}
    BY <1>3, <1>7, PatternOf DEF WhitespaceLengths, AllIn
  <2> QED
    BY <1>7, <2>1, StartsOf
<1>8. CASE t \in {3, 6, 7, 8, 9, 10, 11, 13, 14}
  <2>1. PICK m : m = SubSeq(s, i, i + n - 1)
    OBVIOUS
  <2>2. /\ (t = 3 => m = <<"i", "f">>) /\ (t = 6 => m = <<"=", "=">>) /\ (t = 7 => m = <<">", "=">>)
        /\ (t = 8 => m = <<">">>) /\ (t = 9 => m = <<"-", "=">>) /\ (t = 10 => m = <<"-", ">">>)
        /\ (t = 11 => m = <<"=">>) /\ (t = 13 => m = <<"-">>) /\ (t = 14 => m = <<"/">>)
    <3>1. /\ (t = 3 => n \in KeywordLengths(s, i))
          /\ (t = 6 => n \in OpLengths(s, i, <<"=", "=">>))
          /\ (t = 7 => n \in OpLengths(s, i, <<">", "=">>))
          /\ (t = 8 => n \in OpLengths(s, i, <<">">>))
          /\ (t = 9 => n \in OpLengths(s, i, <<"-", "=">>))
          /\ (t = 10 => n \in OpLengths(s, i, <<"-", ">">>))
          /\ (t = 11 => n \in OpLengths(s, i, <<"=">>))
          /\ (t = 13 => n \in OpLengths(s, i, <<"-">>))
          /\ (t = 14 => n \in OpLengths(s, i, <<"/">>))
      BY PatternOf
    <3>2. \A op : n \in OpLengths(s, i, op) => m = op
      BY <2>1 DEF OpLengths
    <3>3. n \in KeywordLengths(s, i) => m = <<"i", "f">>
      BY <2>1 DEF KeywordLengths
    <3> QED
      BY <3>1, <3>2, <3>3
  <2>3. \A a, b : /\ m = <<a>> => s[i] = a
                  /\ m = <<a, b>> => s[i] = a
    BY <1>1, <2>1, OpMatches
  <2>4. /\ (t = 3 => s[i] = "i") /\ (t = 6 => s[i] = "=") /\ (t = 7 => s[i] = ">")
        /\ (t = 8 => s[i] = ">") /\ (t = 9 => s[i] = "-") /\ (t = 10 => s[i] = "-")
        /\ (t = 11 => s[i] = "=") /\ (t = 13 => s[i] = "-") /\ (t = 14 => s[i] = "/")
    BY <2>2, <2>3
  <2> QED
    BY <1>8, <2>4, StartsOf
<1> QED
  BY <1>2, <1>4, <1>5, <1>6, <1>7, <1>8

\* The longest match of the first row that matches is as long as any match of
\* any row; a keyword's row comes before that of identifiers.
LEMMA FirstIsLongest ==
  ASSUME NEW s \in Seq(Chars), NEW i \in 1 .. Len(s), Matching(s, i) # {}
  PROVE  /\ Found(s, i).type \in ToSet(Types)
         /\ Found(s, i).length \in Pattern(Found(s, i).type, s, i)
         /\ Found(s, i).length \in 1 .. Len(s) - i + 1
         /\ \A type \in ToSet(Types) : \A n \in Pattern(type, s, i) : n <= Found(s, i).length
         /\ Found(s, i).type = "IDENTIFIER" => KeywordLengths(s, i) = {}
<1>a. PICK r, len : r = Min(Matching(s, i)) /\ len = Max(Pattern(Types[r], s, i))
  OBVIOUS
<1>b. Found(s, i).type = Types[r] /\ Found(s, i).length = len
  BY <1>a DEF Found
<1>1. r \in Matching(s, i) /\ \A t \in Matching(s, i) : r <= t
  <2>1. Matching(s, i) \in SUBSET Nat
    BY Rows DEF Matching
  <2> QED
    BY <1>a, <2>1, LeastElement
<1>2. r \in 1 .. 15 /\ Pattern(Types[r], s, i) # {}
  BY <1>1, Rows DEF Matching
<1>3. \A t \in 1 .. 15 : \A n \in Pattern(Types[t], s, i) :
        n \in 1 .. Len(s) - i + 1 /\ s[i] \in Starts[t] /\ r <= t
  BY <1>1, PatternStarts, Rows DEF Matching
<1>4. /\ len \in Pattern(Types[r], s, i) /\ len \in 1 .. Len(s) - i + 1
      /\ \A n \in Pattern(Types[r], s, i) : n <= len
  <2>1. PICK N : N = Len(s) - i + 1
    OBVIOUS
  <2>2. N \in Nat
    BY <2>1
  <2>3. \A n \in Pattern(Types[r], s, i) : n \in 1 .. N /\ n \in 0 .. N
    <3> SUFFICES ASSUME NEW n \in Pattern(Types[r], s, i) PROVE n \in 1 .. N /\ n \in 0 .. N
      OBVIOUS
    <3>1. n \in 1 .. N
      BY <1>2, <1>3, <2>1
    <3> QED
      BY <2>2, <3>1
  <2>4. Pattern(Types[r], s, i) \in SUBSET (0 .. N)
    BY <2>3
  <2> QED
    BY <1>a, <1>2, <1>3, <2>2, <2>4, GreatestElement
<1>5. ASSUME NEW t \in 1 .. 15, NEW n \in Pattern(Types[t], s, i)
      PROVE  n <= len /\ (r = 12 => t # 3)
  <2>1. s[i] \in Starts[t] /\ s[i] \in Starts[r] /\ r <= t /\ n \in 1 .. Len(s) - i + 1
    BY <1>2, <1>3, <1>4
  <2>2. \/ t = r
        \/ r = 2 /\ t = 14
        \/ r = 3 /\ t = 12
        \/ r = 6 /\ t = 11
        \/ r = 7 /\ t = 8
        \/ r = 9 /\ t \in {10, 13}
        \/ r = 10 /\ t = 13
    <3>1. PICK c : c = s[i]
      OBVIOUS
    <3>2. /\ c \in Starts[t] /\ c \in Starts[r]
      BY <2>1, <3>1
    <3>3. CASE c \in {"1", ".", "q", "a", "s", "n"}
      BY <1>2, <3>2, <3>3, StartsOf
    <3>4. CASE c = "/"
      BY <1>2, <2>1, <3>2, <3>4, StartsOf
    <3>5. CASE c \in {"i", "f", "w"}
      BY <1>2, <2>1, <3>2, <3>5, StartsOf
    <3>6. CASE c \in {"=", ">"}
      BY <1>2, <2>1, <3>2, <3>6, StartsOf
    <3>7. CASE c = "-"
      BY <1>2, <2>1, <3>2, <3>7, StartsOf
    <3>8. c \in {"1", ".", "q", "a", "s", "n", "/", "i", "f", "w", "=", ">", "-"}
      BY <3>2, StartsOf
    <3> QED
      BY <3>3, <3>4, <3>5, <3>6, <3>7, <3>8
  <2>3. n \in Lengths(s, i) /\ len \in Lengths(s, i)
    BY <1>4, <2>1 DEF Lengths
  <2>4. CASE t = r
    BY <1>4, <2>4
  <2>5. CASE r = 2 /\ t = 14
    <3>1. n \in OpLengths(s, i, <<"/">>) /\ len \in CommentLengths(s, i)
      BY <1>4, <2>5, PatternOf
    <3>2. n = 1
      BY <2>3, <3>1, OpMatches DEF OpLengths
    <3>3. len >= 2
      BY <3>1 DEF CommentLengths
    <3> QED
      BY <1>4, <2>5, <3>2, <3>3
  <2>6. CASE r = 3 /\ t = 12
    <3>1. n \in IdentifierLengths(s, i) /\ len \in KeywordLengths(s, i)
      BY <1>4, <2>6, PatternOf
    <3>2. len = 2 /\ (i + len > Len(s) \/ s[i + len] \notin WordChar)
      BY <2>3, <3>1, OpMatches DEF KeywordLengths
    <3>3. AllIn(s, i, n, WordChar)
      BY <3>1 DEF IdentifierLengths
    <3>4. ASSUME ~(n <= len) PROVE FALSE
      <4>1. i + 2 \in i .. i + n - 1 /\ ~(i + 2 > Len(s))
        BY <1>4, <2>1, <3>2, <3>4
      <4> QED
        BY <3>2, <3>3, <4>1 DEF AllIn
    <3> QED
      BY <2>6, <3>4
  <2>7. CASE \/ r = 6 /\ t = 11
             \/ r = 7 /\ t = 8
             \/ r = 9 /\ t \in {10, 13}
             \/ r = 10 /\ t = 13
    <3>1. \/ len \in OpLengths(s, i, <<"=", "=">>)
          \/ len \in OpLengths(s, i, <<">", "=">>)
          \/ len \in OpLengths(s, i, <<"-", "=">>)
          \/ len \in OpLengths(s, i, <<"-", ">">>)
      BY <1>4, <2>7, PatternOf
    <3>2. len = 2
      BY <2>3, <3>1, OpMatches DEF OpLengths
    <3>3. \/ n \in OpLengths(s, i, <<"=">>)
          \/ n \in OpLengths(s, i, <<">">>)
          \/ n \in OpLengths(s, i, <<"-">>)
          \/ n \in OpLengths(s, i, <<"-", ">">>)
      BY <2>7, PatternOf
    <3>4. n \in {1, 2}
      BY <2>3, <3>3, OpMatches DEF OpLengths
    <3> QED
      BY <2>7, <3>2, <3>4
  <2> QED
    BY <2>2, <2>4, <2>5, <2>6, <2>7
<1>6. \A type \in ToSet(Types) : \E t \in 1 .. 15 : type = Types[t]
  BY Rows DEF ToSet
<1>7. Types[r] = "IDENTIFIER" => r = 12
  BY <1>2, Rows
<1>8. r = 12 => KeywordLengths(s, i) = {}
  <2>1. KeywordLengths(s, i) = Pattern(Types[3], s, i)
    BY PatternOf
  <2> QED
    BY <1>5, <2>1
<1>9. Types[r] \in ToSet(Types)
  BY <1>2, Rows DEF ToSet
<1> QED
  BY <1>b, <1>4, <1>5, <1>6, <1>7, <1>8, <1>9

-----------------------------------------------------------------------------
(* Lines and columns *)

\* The line breaks among the first k characters.
Breaks(s, k) == {j \in 1 .. k : s[j] = "n"}

\* The position of the character after the first k.
LineAt(s, k)   == 1 + Cardinality(Breaks(s, k))
ColumnAt(s, k) == k + 1 - Max({0} \cup Breaks(s, k))

\* The last line break, or the start of the text.
LEMMA LastBreak ==
  ASSUME NEW s, NEW k \in Nat, NEW S, S = {0} \cup Breaks(s, k)
  PROVE  /\ Max(S) \in S /\ \A y \in S : y <= Max(S)
         /\ Max(S) \in 0 .. k
         /\ IsFiniteSet(Breaks(s, k)) /\ Cardinality(Breaks(s, k)) \in Nat
<1>1. S \in SUBSET (0 .. k) /\ S # {}
  BY DEF Breaks
<1>2. Max(S) \in S /\ \A y \in S : y <= Max(S)
  BY <1>1, GreatestElement
<1>3. Max(S) \in 0 .. k
  BY <1>1, <1>2
<1>4. IsFiniteSet(1 .. k) /\ Breaks(s, k) \subseteq 1 .. k
  BY FS_Interval DEF Breaks
<1>5. IsFiniteSet(Breaks(s, k))
  BY <1>4, FS_Subset
<1> QED
  BY <1>2, <1>3, <1>5, FS_CardinalityType

\* Shifting a set of numbers keeps its size.
LEMMA ShiftedSize ==
  ASSUME NEW c \in Nat, NEW B \in SUBSET Nat, IsFiniteSet(B), NEW T,
         \A k \in B : c + k \in T,
         \A j \in T : j \in Int /\ j - c \in B
  PROVE  IsFiniteSet(T) /\ Cardinality(T) = Cardinality(B)
<1> DEFINE f == [k \in B |-> c + k]
<1>1. f \in [B -> T]
  OBVIOUS
<1>2. \A a, b \in B : f[a] = f[b] => a = b
  OBVIOUS
<1>3. \A j \in T : \E k \in B : f[k] = j
  <2> SUFFICES ASSUME NEW j \in T PROVE f[j - c] = j /\ j - c \in B
    OBVIOUS
  <2>1. j \in Int /\ j - c \in B /\ c + (j - c) = j
    OBVIOUS
  <2> QED
    BY <2>1
<1> HIDE DEF f
<1>4. f \in Injection(B, T)
  BY <1>1, <1>2 DEF Injection, IsInjective
<1>5. f \in Surjection(B, T)
  BY <1>1, <1>3 DEF Surjection
<1>6. ExistsBijection(B, T)
  BY <1>4, <1>5 DEF Bijection, ExistsBijection
<1> QED
  BY <1>6, FS_Bijection

\* The loop over the matched characters moves line and column to the character
\* after them.
LEMMA PositionMoves ==
  ASSUME NEW s \in Seq(Chars), NEW c \in 0 .. Len(s), NEW n \in 1 .. Len(s) - c,
         NEW text, text = SubSeq(s, c + 1, c + n)
  PROVE  /\ PositionAfter(LineAt(s, c), ColumnAt(s, c), text).line = LineAt(s, c + n)
         /\ PositionAfter(LineAt(s, c), ColumnAt(s, c), text).column = ColumnAt(s, c + n)
<1>0. Len(s) \in Nat /\ c \in Nat /\ n \in Nat \ {0} /\ c + n \in Nat /\ c + n <= Len(s)
  OBVIOUS
<1> DEFINE B == {k \in DOMAIN text : text[k] = "n"}
           S0 == {0} \cup Breaks(s, c)
           S1 == {0} \cup Breaks(s, c + n)
           T == {j \in c + 1 .. c + n : s[j] = "n"}
<1>1. Len(text) = n /\ DOMAIN text = 1 .. n /\ \A k \in 1 .. n : text[k] = s[c + k]
  <2>1. /\ c + 1 \in Int /\ c + n \in Int /\ c + 1 <= c + n /\ (c + n) - (c + 1) + 1 = n
        /\ \A k \in c + 1 .. c + n : s[k] \in Chars
        /\ \A k \in 1 .. n : (c + 1) + k - 1 = c + k
    BY <1>0
  <2>2. /\ text \in Seq(Chars) /\ Len(text) = n
        /\ \A k \in 1 .. n : text[k] = s[(c + 1) + k - 1]
    BY <2>1, SubSeqProperties
  <2> QED
    BY <2>1, <2>2
<1>2. B = {k \in 1 .. n : s[c + k] = "n"} /\ B \in SUBSET Nat /\ B \in SUBSET (0 .. n)
  BY <1>0, <1>1
<1>3. IsFiniteSet(B)
  <2>1. IsFiniteSet(1 .. n) /\ B \subseteq 1 .. n
    BY <1>0, <1>2, FS_Interval
  <2> QED
    BY <2>1, FS_Subset
<1>4. /\ \A k \in B : c + k \in T
      /\ \A j \in T : j \in Int /\ j - c \in B
  <2>1. ASSUME NEW k \in B PROVE c + k \in T
    BY <1>0, <1>2
  <2>2. ASSUME NEW j \in T PROVE j \in Int /\ j - c \in B
    <3>1. j \in Int /\ j - c \in 1 .. n /\ c + (j - c) = j /\ s[j] = "n"
      BY <1>0
    <3> QED
      BY <1>2, <3>1
  <2> QED
    BY <2>1, <2>2
<1>5. Breaks(s, c + n) = Breaks(s, c) \cup T /\ Breaks(s, c) \cap T = {}
  BY <1>0 DEF Breaks
<1>6. /\ PositionAfter(LineAt(s, c), ColumnAt(s, c), text).line = LineAt(s, c) + Cardinality(B)
      /\ PositionAfter(LineAt(s, c), ColumnAt(s, c), text).column
           = IF B = {} THEN ColumnAt(s, c) + n ELSE n - Max(B) + 1
  BY <1>1 DEF PositionAfter
<1>7. /\ Max(S0) \in S0 /\ Max(S0) \in 0 .. c
      /\ Max(S1) \in S1 /\ \A y \in S1 : y <= Max(S1)
      /\ IsFiniteSet(Breaks(s, c)) /\ Cardinality(Breaks(s, c)) \in Nat
      /\ IsFiniteSet(Breaks(s, c + n)) /\ Max(S1) \in 0 .. c + n
  BY <1>0, LastBreak
<1>8. Cardinality(Breaks(s, c + n)) = Cardinality(Breaks(s, c)) + Cardinality(B)
  <2> HIDE DEF B, T
  <2>1. IsFiniteSet(T) /\ Cardinality(T) = Cardinality(B)
    BY <1>0, <1>2, <1>3, <1>4, ShiftedSize
  <2>2. Cardinality(B) \in Nat /\ Cardinality({}) = 0
    BY <1>3, FS_CardinalityType, FS_EmptySet
  <2>3. Cardinality(Breaks(s, c) \cup T)
          = Cardinality(Breaks(s, c)) + Cardinality(T) - Cardinality(Breaks(s, c) \cap T)
    BY <1>7, <2>1, FS_Union
  <2>4. PICK x, y, z : /\ x = Cardinality(Breaks(s, c)) /\ y = Cardinality(B)
                       /\ z = Cardinality(Breaks(s, c + n))
    OBVIOUS
  <2>5. x \in Nat /\ y \in Nat /\ z = x + y - 0
    BY <1>5, <1>7, <2>1, <2>2, <2>3, <2>4
  <2> QED
    BY <2>4, <2>5
<1>9. LineAt(s, c) + Cardinality(B) = LineAt(s, c + n)
  <2>1. Cardinality(B) \in Nat
    BY <1>3, FS_CardinalityType
  <2>2. LineAt(s, c) = 1 + Cardinality(Breaks(s, c)) /\ LineAt(s, c + n) = 1 + Cardinality(Breaks(s, c + n))
    BY DEF LineAt
  <2>3. PICK x, y, z : /\ x = Cardinality(Breaks(s, c)) /\ y = Cardinality(B)
                       /\ z = Cardinality(Breaks(s, c + n))
    OBVIOUS
  <2>4. x \in Nat /\ y \in Nat /\ z = x + y
    BY <1>7, <1>8, <2>1, <2>3
  <2> HIDE DEF B
  <2> QED
    BY <2>2, <2>3, <2>4
<1>10. CASE B = {}
  <2>1. S1 = S0
    BY <1>4, <1>5, <1>10
  <2>2. ColumnAt(s, c) = c + 1 - Max(S0) /\ ColumnAt(s, c + n) = c + n + 1 - Max(S1)
    BY DEF ColumnAt
  <2>3. ColumnAt(s, c) + n = ColumnAt(s, c + n)
    <3>1. PICK g : g = Max(S0)
      OBVIOUS
    <3>2. g \in 0 .. c /\ ColumnAt(s, c) = c + 1 - g /\ ColumnAt(s, c + n) = c + n + 1 - g
      BY <1>7, <2>1, <2>2, <3>1
    <3> QED
      BY <1>0, <3>2
  <2> HIDE DEF B
  <2> QED
    BY <1>6, <1>9, <1>10, <2>3
<1>11. CASE B # {}
  <2>a. PICK g, h : g = Max(B) /\ h = Max(S1)
    OBVIOUS
  <2>1. g \in B /\ (\A y \in B : y <= g) /\ g \in 1 .. n
    <3> HIDE DEF B
    <3>1. g \in B /\ \A y \in B : y <= g
      BY <1>0, <1>2, <1>11, <2>a, GreatestElement
    <3> QED
      BY <1>2, <3>1
  <2>2. c + g \in S1 /\ c + g \in T
    BY <1>4, <1>5, <2>1
  <2>3. h \in S1 /\ c + g <= h /\ h \in 0 .. c + n
    BY <1>7, <2>a, <2>2
  <2>4. h \in T
    <3>1. h \notin S0
      <4>1. \A y \in S0 : y \in 0 .. c
        BY <1>0 DEF Breaks
      <4> QED
        BY <1>0, <2>1, <2>3, <4>1
    <3> QED
      BY <1>5, <2>3, <3>1
  <2>5. h - c <= g
    BY <1>4, <2>1, <2>4
  <2>6. h = c + g
    BY <1>0, <2>1, <2>3, <2>5
  <2>7. ColumnAt(s, c + n) = c + n + 1 - h
    BY <2>a DEF ColumnAt
  <2>8. n - g + 1 = ColumnAt(s, c + n)
    BY <1>0, <2>1, <2>6, <2>7
  <2> HIDE DEF B
  <2> QED
    BY <1>6, <1>9, <1>11, <2>a, <2>8
<1> QED
  BY <1>10, <1>11

-----------------------------------------------------------------------------
(* The invariant *)

TokenRecord == [type : ToSet(Types) \cup {"EOF"}, at : Nat, length : Nat, line : Nat \ {0}, column : Nat \ {0}]

\* What is known of a token of the list: it ends before the cursor, its position
\* is that of its first character, and no pattern matched more.
TokenTrue(t) ==
  /\ t.at >= 1 /\ t.at + t.length <= cursor + 1
  /\ t.line = LineAt(input, t.at - 1) /\ t.column = ColumnAt(input, t.at - 1)
  /\ t.type # "EOF" =>
       /\ \A type \in ToSet(Types) : \A n \in Pattern(type, input, t.at) : n <= t.length
       /\ t.type = "IDENTIFIER" => KeywordLengths(input, t.at) = {}

TokensTrue == \A k \in DOMAIN tokens : TokenTrue(tokens[k])

\* The inductive invariant: line and column are those of the character at the
\* cursor, and every token is right.
LexerInv ==
  /\ TypeOK
  /\ line = LineAt(input, cursor) /\ column = ColumnAt(input, cursor)
  /\ TokensTrue
  /\ NothingLost
  /\ status = "reading" => cursor = 0 /\ tokens = <<>>

\* The types, read out of the invariant.
LEMMA TypeFacts ==
  ASSUME TypeOK
  PROVE  /\ input \in Seq(Chars) /\ Len(input) \in Nat
         /\ cursor \in 0 .. Len(input) /\ cursor \in Nat
         /\ line \in Nat \ {0} /\ column \in Nat \ {0}
         /\ tokens \in Seq(TokenRecord) /\ Len(tokens) \in Nat
         /\ DOMAIN tokens = 1 .. Len(tokens)
         /\ \A k \in DOMAIN tokens : tokens[k] \in TokenRecord
<1>1. /\ input \in Seq(Chars) /\ cursor \in 0 .. Len(input)
      /\ line \in Nat \ {0} /\ column \in Nat \ {0}
      /\ tokens \in Seq(TokenRecord)
  BY DEF TypeOK, TokenRecord
<1> QED
  BY <1>1

\* A character is covered by a token that holds it.
LEMMA CoveredBy ==
  ASSUME NEW k
  PROVE  k \in Covered <=> \E i \in DOMAIN tokens : k \in tokens[i].at .. tokens[i].at + tokens[i].length - 1
BY DEF Covered, ToSet

\* No token reaches past the cursor.
LEMMA CoveredBefore ==
  ASSUME LexerInv, NEW k \in Covered
  PROVE  k \in 1 .. cursor
<1>1. PICK i \in DOMAIN tokens : k \in tokens[i].at .. tokens[i].at + tokens[i].length - 1
  BY CoveredBy
<1>2. /\ tokens[i].at >= 1 /\ tokens[i].at + tokens[i].length <= cursor + 1
  BY DEF LexerInv, TokensTrue, TokenTrue
<1>3. TypeOK
  BY DEF LexerInv
<1>4. tokens[i].at \in Nat /\ tokens[i].length \in Nat /\ cursor \in Nat
  BY <1>3, TypeFacts DEF TokenRecord
<1> QED
  BY <1>1, <1>2, <1>4

\* A token that starts at the cursor is appended.
LEMMA TokenAppended ==
  ASSUME LexerInv, NEW t \in TokenRecord, t.at = cursor + 1, tokens' = Append(tokens, t),
         input' = input, NEW n \in Nat, n = t.length, cursor' = cursor + n, TokenTrue(t)'
  PROVE  /\ tokens' \in Seq(TokenRecord)
         /\ TokensTrue'
         /\ NothingLost'
<1>0. TypeOK /\ NothingLost
  BY DEF LexerInv
<1>1. /\ tokens \in Seq(TokenRecord) /\ Len(tokens) \in Nat /\ DOMAIN tokens = 1 .. Len(tokens)
      /\ cursor \in Nat /\ cursor' \in Nat
  BY <1>0, TypeFacts
<1>2. /\ tokens' \in Seq(TokenRecord) /\ DOMAIN tokens' = 1 .. Len(tokens) + 1
      /\ tokens'[Len(tokens) + 1] = t
      /\ \A k \in DOMAIN tokens : tokens'[k] = tokens[k]
  BY <1>1, AppendProperties
<1>3. ASSUME NEW k \in DOMAIN tokens' PROVE TokenTrue(tokens[k])'
  <2>1. CASE k = Len(tokens) + 1
    <3>1. tokens'[k] = t
      BY <1>2, <2>1
    <3> QED
      BY <3>1 DEF TokenTrue
  <2>2. CASE k \in DOMAIN tokens
    <3>1. TokenTrue(tokens[k])
      BY <2>2 DEF LexerInv, TokensTrue
    <3>2. tokens[k] \in TokenRecord
      BY <1>1, <2>2
    <3>3. tokens[k].at \in Nat /\ tokens[k].length \in Nat
      BY <3>2 DEF TokenRecord
    <3>4. tokens[k].at + tokens[k].length <= cursor' + 1
      <4>1. PICK a, b : a = tokens[k].at /\ b = tokens[k].length
        OBVIOUS
      <4>2. a + b <= cursor + 1 /\ a \in Nat /\ b \in Nat
        BY <3>1, <3>3, <4>1 DEF TokenTrue
      <4>3. a + b <= cursor + n + 1
        BY <1>1, <4>2
      <4> QED
        BY <4>1, <4>3
    <3>5. PICK u : u = tokens[k]
      OBVIOUS
    <3>6. tokens'[k] = u /\ TokenTrue(u) /\ u.at + u.length <= cursor' + 1
      BY <1>2, <2>2, <3>1, <3>4, <3>5
    <3>7. TokenTrue(u)'
      BY <3>6 DEF TokenTrue
    <3> QED
      BY <3>6, <3>7 DEF TokenTrue
  <2> QED
    BY <1>1, <1>2, <2>1, <2>2
<1>4. ASSUME NEW i \in DOMAIN tokens', NEW j \in DOMAIN tokens', i < j
      PROVE  tokens'[i].at + tokens'[i].length <= tokens'[j].at
  <2>1. i \in DOMAIN tokens
    BY <1>1, <1>2, <1>4
  <2>2. CASE j \in DOMAIN tokens
    BY <1>0, <1>2, <1>4, <2>1, <2>2 DEF NothingLost
  <2>3. CASE j = Len(tokens) + 1
    <3>1. TokenTrue(tokens[i])
      BY <2>1 DEF LexerInv, TokensTrue
    <3> QED
      BY <1>2, <2>1, <2>3, <3>1 DEF TokenTrue
  <2> QED
    BY <1>1, <1>2, <2>2, <2>3
<1>5. \A k : k \in Covered' <=> k \in Covered \/ k \in cursor + 1 .. cursor + n
  <2> SUFFICES ASSUME NEW k PROVE k \in Covered' <=> k \in Covered \/ k \in cursor + 1 .. cursor + n
    OBVIOUS
  <2>1. k \in Covered' <=> \E i \in DOMAIN tokens' :
                             k \in tokens'[i].at .. tokens'[i].at + tokens'[i].length - 1
    BY DEF Covered, ToSet
  <2>2. DOMAIN tokens' = DOMAIN tokens \cup {Len(tokens) + 1}
    BY <1>1, <1>2
  <2>3. t.at .. t.at + t.length - 1 = cursor + 1 .. cursor + n
    BY <1>1
  <2> QED
    BY <1>2, <2>1, <2>2, <2>3, CoveredBy
<1>6. ASSUME NEW k \in 1 .. cursor' PROVE k \in Covered' \/ Dropped(k)'
  <2>1. CASE k \in cursor + 1 .. cursor'
    BY <1>5, <2>1
  <2>2. CASE k \in 1 .. cursor
    <3>1. \A m \in 1 .. k : m \notin cursor + 1 .. cursor + n
      BY <1>1, <2>2
    <3>2. k \in Covered \/ Dropped(k)
      BY <1>0, <2>2 DEF NothingLost
    <3>3. ASSUME Dropped(k) PROVE Dropped(k)'
      <4>1. ASSUME NEW j \in 1 .. k, NEW m \in j .. k, m \notin Covered PROVE m \notin Covered'
        <5>1. m \in 1 .. k
          BY <1>1, <2>2
        <5> QED
          BY <1>5, <3>1, <4>1, <5>1
      <4> QED
        BY <3>3, <4>1 DEF Dropped
    <3> QED
      BY <1>5, <3>2, <3>3
  <2> QED
    BY <1>1, <2>1, <2>2
<1>7. NothingLost'
  BY <1>4, <1>6 DEF NothingLost
<1> QED
  BY <1>2, <1>3, <1>7 DEF TokensTrue

\* A line and a column are positive.
LEMMA PositionTyped ==
  ASSUME NEW s, NEW k \in Nat
  PROVE  LineAt(s, k) \in Nat \ {0} /\ ColumnAt(s, k) \in Nat \ {0}
<1>1. Max({0} \cup Breaks(s, k)) \in 0 .. k /\ Cardinality(Breaks(s, k)) \in Nat
  BY LastBreak
<1> QED
  BY <1>1 DEF LineAt, ColumnAt

\* A round of lexerScan that drops white space or a comment.
LEMMA DroppedStep ==
  ASSUME LexerInv, cursor < Len(input), NEW type \in {"WHITESPACE", "COMMENT"},
         NEW n \in Pattern(type, input, cursor + 1), n \in Nat,
         cursor' = cursor + n, UNCHANGED <<input, tokens>>
  PROVE  TokensTrue' /\ NothingLost'
<1>0. TypeOK /\ NothingLost
  BY DEF LexerInv
<1>1. /\ cursor \in Nat /\ Len(input) \in Nat /\ input \in Seq(Chars)
      /\ \A k \in DOMAIN tokens : tokens[k] \in TokenRecord
  BY <1>0, TypeFacts
<1>2. ASSUME NEW k \in DOMAIN tokens PROVE TokenTrue(tokens[k])'
  <2>1. PICK a, b : a = tokens[k].at /\ b = tokens[k].length
    OBVIOUS
  <2>2. a \in Nat /\ b \in Nat /\ TokenTrue(tokens[k])
    BY <1>1, <2>1 DEF TokenRecord, LexerInv, TokensTrue
  <2>3. a + b <= cursor + 1
    BY <2>1, <2>2 DEF TokenTrue
  <2>4. a + b <= cursor' + 1
    BY <1>1, <2>2, <2>3
  <2> QED
    BY <2>1, <2>2, <2>4 DEF TokenTrue
<1>3. Covered' = Covered /\ \A k : Dropped(k)' <=> Dropped(k)
  BY DEF Covered, Dropped
<1>4. ASSUME NEW k \in cursor + 1 .. cursor + n PROVE Dropped(k)
  <2>1. CASE type = "WHITESPACE"
    <3>1. Pattern(type, input, cursor + 1) = WhitespaceLengths(input, cursor + 1)
      BY <2>1, PatternOf, Rows
    <3>2. k \in cursor + 1 .. (cursor + 1) + n - 1
      BY <1>1
    <3> QED
      BY <3>1, <3>2 DEF WhitespaceLengths, AllIn, Dropped
  <2>2. CASE type = "COMMENT"
    <3>1. n \in CommentLengths(input, cursor + 1)
      BY <2>2, PatternOf, Rows
    <3>2. /\ n \in 1 .. Len(input) - (cursor + 1) + 1 /\ n >= 2
          /\ AllIn(input, cursor + 1, 2, {"/"})
          /\ AllIn(input, (cursor + 1) + 2, n - 2, Chars \ {"n"})
      BY <3>1 DEF CommentLengths, Lengths
    <3>a. PICK j : j = cursor + 1
      OBVIOUS
    <3>3. j \in 1 .. k /\ j < Len(input) /\ j \in Nat /\ k \in Nat
      BY <1>1, <3>a, <3>2
    <3>4. input[j] = "/" /\ input[j + 1] = "/"
      <4>1. j \in j .. j + 2 - 1 /\ j + 1 \in j .. j + 2 - 1
        BY <3>3
      <4> QED
        BY <3>a, <3>2, <4>1 DEF AllIn
    <3>5. ASSUME NEW m \in j .. k PROVE input[m] # "n" /\ m \notin Covered
      <4>1. m \in j .. j + 2 - 1 \/ m \in j + 2 .. j + 2 + (n - 2) - 1
        BY <1>1, <3>a, <3>2, <3>3
      <4>2. input[m] # "n"
        BY <3>a, <3>2, <4>1 DEF AllIn
      <4>3. m \notin 1 .. cursor
        BY <1>1, <3>a
      <4> QED
        BY <4>2, <4>3, CoveredBefore
    <3> QED
      BY <3>3, <3>4, <3>5 DEF Dropped
  <2> QED
    BY <2>1, <2>2
<1>5. \A k \in 1 .. cursor' : k \in 1 .. cursor \/ k \in cursor + 1 .. cursor + n
  BY <1>1
<1>6. \A k \in 1 .. cursor : k \in Covered \/ Dropped(k)
  BY <1>0 DEF NothingLost
<1>7. NothingLost'
  BY <1>0, <1>3, <1>4, <1>5, <1>6 DEF NothingLost
<1> QED
  BY <1>2, <1>7 DEF TokensTrue

\* A round of lexerScan keeps the invariant.
LEMMA ScanStep == ASSUME LexerInv, Scan PROVE LexerInv'
<1>0. TypeOK
  BY DEF LexerInv
<1>1. /\ input \in Seq(Chars) /\ Len(input) \in Nat /\ cursor \in Nat /\ cursor \in 0 .. Len(input)
      /\ line \in Nat \ {0} /\ column \in Nat \ {0} /\ tokens \in Seq(TokenRecord)
  BY <1>0, TypeFacts
<1>a. PICK found, text : /\ found = Found(input, cursor + 1)
                         /\ text = SubSeq(input, cursor + 1, cursor + found.length)
  OBVIOUS
<1>b. PICK n, type, t : n = found.length /\ type = found.type /\ t = Token(type, cursor + 1, n)
  OBVIOUS
<1>2. /\ status = "scanning" /\ cursor < Len(input) /\ Matching(input, cursor + 1) # {}
      /\ tokens' = IF type \in {"WHITESPACE", "COMMENT"} THEN tokens ELSE Append(tokens, t)
      /\ line' = PositionAfter(line, column, text).line
      /\ column' = PositionAfter(line, column, text).column
      /\ cursor' = cursor + n
      /\ UNCHANGED <<input, status>>
  BY <1>a, <1>b DEF Scan
<1>3. cursor + 1 \in 1 .. Len(input)
  BY <1>1, <1>2
<1>4. /\ type \in ToSet(Types) /\ n \in Pattern(type, input, cursor + 1)
      /\ n \in 1 .. Len(input) - (cursor + 1) + 1
      /\ \A ty \in ToSet(Types) : \A m \in Pattern(ty, input, cursor + 1) : m <= n
      /\ type = "IDENTIFIER" => KeywordLengths(input, cursor + 1) = {}
  BY <1>a, <1>b, <1>1, <1>2, <1>3, FirstIsLongest
<1>5. n \in 1 .. Len(input) - cursor /\ n \in Nat /\ cursor' \in 0 .. Len(input) /\ cursor' \in Nat
  BY <1>1, <1>2, <1>4
<1>6. type \in ToSet(Types) \cup {"EOF"}
  BY <1>4
<1>7. line = LineAt(input, cursor) /\ column = ColumnAt(input, cursor)
  BY DEF LexerInv
<1>8. line' = LineAt(input, cursor + n) /\ column' = ColumnAt(input, cursor + n)
  <2>1. text = SubSeq(input, cursor + 1, cursor + n)
    BY <1>a, <1>b
  <2>2. /\ PositionAfter(line, column, text).line = LineAt(input, cursor + n)
        /\ PositionAfter(line, column, text).column = ColumnAt(input, cursor + n)
    BY <1>1, <1>5, <1>7, <2>1, PositionMoves
  <2> QED
    BY <1>2, <2>2
<1>9. line' \in Nat \ {0} /\ column' \in Nat \ {0}
  BY <1>2, <1>5, <1>8, PositionTyped
<1>10. t \in TokenRecord /\ t.at = cursor + 1 /\ t.length = n /\ t.type = type
       /\ t.line = line /\ t.column = column
  BY <1>b, <1>1, <1>5, <1>6 DEF Token, TokenRecord
<1>11. TokensTrue' /\ NothingLost' /\ tokens' \in Seq(TokenRecord)
  <2>1. CASE type \in {"WHITESPACE", "COMMENT"}
    BY <1>1, <1>2, <1>4, <1>5, <2>1, DroppedStep
  <2>2. CASE type \notin {"WHITESPACE", "COMMENT"}
    <3>1. TokenTrue(t)'
      <4>1. t.at >= 1 /\ t.at + t.length <= cursor' + 1 /\ t.at - 1 = cursor
        BY <1>1, <1>2, <1>5, <1>10
      <4> QED
        BY <1>2, <1>4, <1>7, <1>10, <4>1 DEF TokenTrue
    <3> QED
      BY <1>2, <1>5, <1>10, <2>2, <3>1, TokenAppended
  <2> QED
    BY <2>1, <2>2
<1>12. TypeOK'
  BY <1>0, <1>2, <1>5, <1>9, <1>11 DEF TypeOK, TokenRecord
<1> QED
  BY <1>2, <1>8, <1>11, <1>12 DEF LexerInv

\* The end of the input keeps the invariant.
LEMMA FinishStep == ASSUME LexerInv, Finish PROVE LexerInv'
<1>0. TypeOK
  BY DEF LexerInv
<1>1. /\ cursor \in Nat /\ line \in Nat \ {0} /\ column \in Nat \ {0}
  BY <1>0, TypeFacts
<1>2. PICK t : t = Token("EOF", cursor + 1, 0)
  OBVIOUS
<1>3. /\ tokens' = Append(tokens, t) /\ status' = "done"
      /\ UNCHANGED <<input, cursor, line, column>>
  BY <1>2 DEF Finish
<1>4. /\ t \in TokenRecord /\ t.at = cursor + 1 /\ t.length = 0 /\ t.type = "EOF"
      /\ t.line = line /\ t.column = column
  <2>1. "EOF" \in ToSet(Types) \cup {"EOF"} /\ cursor + 1 \in Nat /\ 0 \in Nat
    BY <1>1
  <2> QED
    BY <1>1, <1>2, <2>1 DEF Token, TokenRecord
<1>5. line = LineAt(input, cursor) /\ column = ColumnAt(input, cursor)
  BY DEF LexerInv
<1>6. TokenTrue(t)'
  <2>1. t.at >= 1 /\ t.at + t.length <= cursor' + 1 /\ t.at - 1 = cursor
    BY <1>1, <1>3, <1>4
  <2> QED
    BY <1>3, <1>4, <1>5, <2>1 DEF TokenTrue
<1>7. TokensTrue' /\ NothingLost' /\ tokens' \in Seq(TokenRecord)
  <2>1. 0 \in Nat /\ cursor' = cursor + 0
    BY <1>1, <1>3
  <2> QED
    BY <1>3, <1>4, <1>6, <2>1, TokenAppended
<1>8. TypeOK'
  BY <1>0, <1>3, <1>7 DEF TypeOK, TokenRecord
<1> QED
  BY <1>3, <1>5, <1>7, <1>8 DEF LexerInv

\* Reading the input keeps the invariant.
LEMMA ReadStep == ASSUME LexerInv, Read PROVE LexerInv'
<1>1. /\ status = "reading" /\ status' = "scanning"
      /\ UNCHANGED <<cursor, line, column, tokens>>
  BY DEF Read
<1>2. PICK n \in 0 .. MaxLength : input' \in [1 .. n -> Chars]
  BY DEF Read
<1>3. TypeOK /\ cursor = 0 /\ tokens = <<>> /\ line = LineAt(input, cursor) /\ column = ColumnAt(input, cursor)
  BY <1>1 DEF LexerInv
<1>4. input' \in Seq(Chars) /\ Len(input') \in Nat
  <2>1. n \in Nat
    BY <1>2, MaxLengthAssumption
  <2>2. input' \in Seq(Chars)
    BY <1>2, <2>1, SeqDef
  <2> QED
    BY <2>2
<1>5. Breaks(input', 0) = Breaks(input, 0)
  BY DEF Breaks
<1>6. line' = LineAt(input', cursor') /\ column' = ColumnAt(input', cursor')
  BY <1>1, <1>3, <1>5 DEF LineAt, ColumnAt
<1>7. TypeOK'
  BY <1>1, <1>3, <1>4 DEF TypeOK
<1>8. DOMAIN tokens' = {} /\ cursor' = 0
  BY <1>1, <1>3
<1>9. TokensTrue' /\ NothingLost'
  BY <1>8 DEF TokensTrue, NothingLost
<1> QED
  BY <1>1, <1>6, <1>7, <1>9 DEF LexerInv

\* Every step of the scanner keeps the invariant.
LEMMA LexerStep == LexerInv /\ [Next]_vars => LexerInv'
<1> SUFFICES ASSUME LexerInv, [Next]_vars PROVE LexerInv'
  OBVIOUS
<1>1. CASE Read
  BY <1>1, ReadStep
<1>2. CASE Scan
  BY <1>2, ScanStep
<1>3. CASE Finish
  BY <1>3, FinishStep
<1>4. CASE Exit \/ Over \/ UNCHANGED vars
  <2>1. /\ UNCHANGED <<input, cursor, line, column, tokens>>
        /\ status' = status \/ status' = "exited"
    BY <1>4 DEF Exit, Over, vars
  <2>2. TypeOK'
    BY <2>1 DEF LexerInv, TypeOK
  <2>3. TokensTrue' /\ NothingLost'
    BY <2>1 DEF LexerInv, TokensTrue, TokenTrue, NothingLost, Covered, Dropped
  <2> QED
    BY <2>1, <2>2, <2>3 DEF LexerInv
<1> QED
  BY <1>1, <1>2, <1>3, <1>4 DEF Next

\* lexerInit establishes it.
LEMMA LexerStarts == Init => LexerInv
<1> SUFFICES ASSUME Init PROVE LexerInv
  OBVIOUS
<1>1. /\ input = <<>> /\ cursor = 0 /\ line = 1 /\ column = 1 /\ tokens = <<>> /\ status = "reading"
  BY DEF Init
<1>2. Breaks(input, 0) = {}
  BY DEF Breaks
<1>3. Max({0} \cup Breaks(input, 0)) = 0
  <2>1. Max({0} \cup Breaks(input, 0)) \in 0 .. 0
    BY LastBreak
  <2> QED
    BY <2>1
<1>4. line = LineAt(input, cursor) /\ column = ColumnAt(input, cursor)
  BY <1>1, <1>2, <1>3, FS_EmptySet DEF LineAt, ColumnAt
<1>5. TypeOK
  <2>1. \A S : <<>> \in Seq(S) /\ Len(<<>>) = 0
    BY EmptySeq
  <2> QED
    BY <1>1, <2>1 DEF TypeOK
<1>6. DOMAIN tokens = {}
  BY <1>1
<1> QED
  BY <1>1, <1>4, <1>5, <1>6 DEF LexerInv, TokensTrue, NothingLost

\* The invariant of the scanner holds for inputs of every length.
THEOREM LexerInvariant == Spec => []LexerInv
<1> QED
  BY LexerStarts, LexerStep, PTL DEF Spec

\* Whatever the input and its length, the tokens of lexerScan are in order,
\* do not overlap, and leave out white space and comments only.
THEOREM NothingIsLost == Spec => []NothingLost
<1>1. LexerInv => NothingLost
  BY DEF LexerInv
<1> QED
  BY <1>1, LexerInvariant, PTL

\* The order of the rows of types never costs a token a longer match, and no
\* keyword comes out as an identifier.
THEOREM FirstMatchIsLongest == Spec => []LongestMatch
<1>1. LexerInv => LongestMatch
  <2> SUFFICES ASSUME LexerInv, NEW t \in ToSet(tokens), t.type # "EOF"
               PROVE  /\ \A type \in ToSet(Types) : \A n \in Pattern(type, input, t.at) : n <= t.length
                      /\ t.type = "IDENTIFIER" => KeywordLengths(input, t.at) = {}
    BY DEF LongestMatch
  <2>1. TokenTrue(t)
    BY DEF ToSet, LexerInv, TokensTrue
  <2> QED
    BY <2>1 DEF TokenTrue
<1> QED
  BY <1>1, LexerInvariant, PTL

\* The line and column that every message of the compiler is given are those of
\* the first character of its token.
THEOREM PositionsAlwaysTrue == Spec => []PositionsTrue
<1>1. LexerInv => PositionsTrue
  <2> SUFFICES ASSUME LexerInv, NEW t \in ToSet(tokens)
               PROVE  LET breaks == {k \in 1 .. t.at - 1 : input[k] = "n"}
                      IN  /\ t.line = 1 + Cardinality(breaks)
                          /\ t.column = t.at - Max({0} \cup breaks)
    BY DEF PositionsTrue, LexerInv
  <2>1. PICK i \in DOMAIN tokens : t = tokens[i]
    BY DEF ToSet
  <2>2. TypeOK /\ TokenTrue(t)
    BY <2>1 DEF LexerInv, TokensTrue
  <2>3. t.at \in Nat /\ (t.at - 1) + 1 = t.at
    <3>1. t \in TokenRecord
      BY <2>1, <2>2, TypeFacts
    <3>2. t.at \in Nat
      BY <3>1 DEF TokenRecord
    <3> QED
      BY <3>2
  <2>4. PICK k : k = t.at - 1
    OBVIOUS
  <2>5. /\ t.line = 1 + Cardinality(Breaks(input, k))
        /\ t.column = t.at - Max({0} \cup Breaks(input, k))
    <3>1. /\ t.line = LineAt(input, k) /\ t.column = ColumnAt(input, k) /\ k + 1 = t.at
      BY <2>2, <2>3, <2>4 DEF TokenTrue
    <3>2. /\ LineAt(input, k) = 1 + Cardinality(Breaks(input, k))
          /\ ColumnAt(input, k) = k + 1 - Max({0} \cup Breaks(input, k))
      BY DEF LineAt, ColumnAt
    <3>3. PICK g : g = Max({0} \cup Breaks(input, k))
      OBVIOUS
    <3>4. k \in Nat /\ t.at \in Nat /\ g \in Int
      <4>1. k \in Nat /\ t.at \in Nat
        BY <2>2, <2>3, <2>4 DEF TokenTrue
      <4>2. g \in 0 .. k
        BY <3>3, <4>1, LastBreak
      <4> QED
        BY <4>1, <4>2
    <3>5. t.column = t.at - g
      BY <3>1, <3>2, <3>3, <3>4
    <3> QED
      BY <3>1, <3>2, <3>3, <3>5
  <2>6. Breaks(input, k) = {j \in 1 .. t.at - 1 : input[j] = "n"}
    BY <2>4 DEF Breaks
  <2> QED
    BY <2>5, <2>6
<1> QED
  BY <1>1, LexerInvariant, PTL
=============================================================================
