----------------------------- MODULE JsonProofs -----------------------------
(***************************************************************************)
(* Proofs about Json.tla: for any keys, any characters, any depth of       *)
(* nesting and any length of input.                                        *)
(*                                                                         *)
(* The parser (JsonInv).  As long as parse has thrown nothing, the tokens  *)
(* on its stack and the final value spell what was read, commas left out   *)
(* (Kept), and the grammar's view of what was read has a level for every   *)
(* list and object on the stack, each waiting for what the stack is open   *)
(* to (Corresponds).  The lexer ends a token where the grammar says that   *)
(* the lexeme ends, but for an escaped quotation mark.                     *)
(*                                                                         *)
(* The writer (WriterInv).  While no list was written into a pair and no   *)
(* object into a list, what was written so far leads the grammar to a view *)
(* that the open calls of write and the top of the formatter's state       *)
(* describe together (Describes); what the parser has read is a beginning  *)
(* of it.  The formatter never pops the state of a list or an object, and  *)
(* this is why the nesting must be uniform: then what lies on top when one *)
(* ends is of the kind that is needed below.                               *)
(***************************************************************************)
EXTENDS Json, FiniteSetTheorems, SequenceTheorems, WellFoundedInduction, TLAPS

-----------------------------------------------------------------------------
(* Sequences. *)

\* A set of naturals that is not empty has a least element: induction over the
\* naturals, by the least one a claim fails for.
LEMMA Least ==
  ASSUME NEW S \in SUBSET Nat, S # {}
  PROVE  \E x \in S : \A y \in S : x <= y
<1> DEFINE R == OpToRel(<, Nat)
<1>1. IsWellFoundedOn(R, Nat)
  BY NatLessThanWellFounded, Zenon
<1>2. \A x, y \in Nat : x < y => <<x, y>> \in R
  BY DEF OpToRel
<1> HIDE DEF R
<1>3. PICK x \in S : \A y \in S : <<y, x>> \notin R
  BY <1>1, WFMin
<1>4. ASSUME NEW y \in S PROVE x <= y
  <2>1. x \in Nat /\ y \in Nat /\ ~(y < x)
    BY <1>2, <1>3
  <2> QED  BY <2>1
<1> QED  BY <1>4

\* The equations of FlattenSeq, for its first n sequences.
Flattens(f, s, n) == f = [i \in 1 .. n |-> IF i = 1 THEN s[i] ELSE f[i - 1] \o s[i]]

\* The same, one by one.
FlattenSteps(f, s, n) == \A i \in 1 .. n : f[i] = IF i = 1 THEN s[i] ELSE f[i - 1] \o s[i]

\* The function satisfies its equations.
LEMMA FlattensAt ==
  ASSUME NEW s, NEW n, NEW f, Flattens(f, s, n)
  PROVE  FlattenSteps(f, s, n)
<1> DEFINE h == [k \in 1 .. n |-> IF k = 1 THEN s[k] ELSE f[k - 1] \o s[k]]
<1>1. f = h
  BY DEF Flattens
<1>2. \A i \in 1 .. n : h[i] = IF i = 1 THEN s[i] ELSE f[i - 1] \o s[i]
  OBVIOUS
<1> HIDE DEF h
<1> QED  BY <1>1, <1>2 DEF FlattenSteps

\* They have a solution, and its values are sequences.
LEMMA FlattenExists ==
  ASSUME NEW S, NEW s \in Seq(Seq(S)), NEW n \in 0 .. Len(s)
  PROVE  \E f \in [1 .. n -> Seq(S)] : Flattens(f, s, n)
<1> DEFINE Claim(m) == \E f \in [1 .. m -> Seq(S)] : Flattens(f, s, m)
           T == {m \in 0 .. Len(s) : ~Claim(m)}
<1>1. SUFFICES ASSUME T # {} PROVE FALSE
  OBVIOUS
<1>2. Len(s) \in Nat /\ T \in SUBSET Nat
  OBVIOUS
<1> HIDE DEF Claim
<1>3. PICK m \in T : \A k \in T : m <= k
  BY <1>1, <1>2, Least
<1>4. m \in 0 .. Len(s) /\ m \in Nat
  BY <1>2, <1>3
<1>5. CASE m = 0
  <2> DEFINE e == [i \in 1 .. 0 |-> s[i]]
  <2>1. e \in [1 .. 0 -> Seq(S)] /\ Flattens(e, s, 0)
    BY DEF Flattens
  <2> QED  BY <2>1, <1>3, <1>5 DEF Claim
<1>6. CASE m # 0
  <2>1. m - 1 \in 0 .. Len(s) /\ m - 1 \notin T /\ m \in 1 .. Len(s)
    BY <1>2, <1>3, <1>4, <1>6
  <2>2. PICK f \in [1 .. (m - 1) -> Seq(S)] : Flattens(f, s, m - 1)
    BY <2>1 DEF Claim
  <2>2a. FlattenSteps(f, s, m - 1)
    BY <2>2, FlattensAt
  <2> DEFINE g == [i \in 1 .. m |-> IF i < m THEN f[i]
                                    ELSE IF m = 1 THEN s[1] ELSE f[m - 1] \o s[m]]
  <2>3. \A i \in 1 .. m : s[i] \in Seq(S)
    BY <2>1
  <2>4. m # 1 => f[m - 1] \in Seq(S)
    BY <1>4, <1>6
  <2>5. m # 1 => f[m - 1] \o s[m] \in Seq(S)
    BY <2>3, <2>4, <1>4, <1>6, ConcatProperties
  <2>6. g \in [1 .. m -> Seq(S)]
    BY <2>3, <2>5, <1>4, <1>6
  <2>7. \A i \in 1 .. m : g[i] = IF i = 1 THEN s[i] ELSE g[i - 1] \o s[i]
    <3> SUFFICES ASSUME NEW i \in 1 .. m
                 PROVE  g[i] = IF i = 1 THEN s[i] ELSE g[i - 1] \o s[i]
      OBVIOUS
    <3>1. CASE i < m
      <4>1. f[i] = IF i = 1 THEN s[i] ELSE f[i - 1] \o s[i]
        <5>1. i \in 1 .. (m - 1)
          BY <3>1, <1>4
        <5> QED  BY <5>1, <1>4, <2>2a DEF FlattenSteps
      <4>2. i # 1 => g[i - 1] = f[i - 1]
        BY <3>1, <1>4
      <4> QED  BY <4>1, <4>2, <3>1, <1>4
    <3>2. CASE i = m
      BY <3>2, <1>4, <1>6
    <3> QED  BY <3>1, <3>2, <1>4
  <2> HIDE DEF g
  <2>8. Flattens(g, s, m)
    BY <2>6, <2>7 DEF Flattens
  <2> QED  BY <2>6, <2>8, <1>3 DEF Claim
<1> QED  BY <1>5, <1>6

\* Two solutions agree where both are defined.
LEMMA FlattenUnique ==
  ASSUME NEW s, NEW n \in Nat, NEW m \in Nat, n <= m,
         NEW f, FlattenSteps(f, s, n), NEW g, FlattenSteps(g, s, m)
  PROVE  \A i \in 1 .. n : f[i] = g[i]
<1> DEFINE T == {i \in 1 .. n : f[i] # g[i]}
<1>1. SUFFICES ASSUME T # {} PROVE FALSE
  OBVIOUS
<1>2. T \in SUBSET Nat
  OBVIOUS
<1>2a. PICK i \in T : \A k \in T : i <= k
  BY <1>1, <1>2, Least
<1>3. /\ i \in 1 .. n /\ i \in 1 .. m /\ f[i] # g[i]
      /\ i # 1 => i - 1 \in 1 .. n /\ i - 1 \notin T
  BY <1>2a
<1>4. f[i] = IF i = 1 THEN s[i] ELSE f[i - 1] \o s[i]
  BY <1>3 DEF FlattenSteps
<1>5. g[i] = IF i = 1 THEN s[i] ELSE g[i - 1] \o s[i]
  BY <1>3 DEF FlattenSteps
<1> QED  BY <1>3, <1>4, <1>5

\* What FlattenSeq is.
LEMMA FlattenValue ==
  ASSUME NEW S, NEW s \in Seq(Seq(S)), s # <<>>
  PROVE  \E f \in [1 .. Len(s) -> Seq(S)] :
           FlattenSteps(f, s, Len(s)) /\ FlattenSeq(s) = f[Len(s)]
<1> DEFINE F == CHOOSE f : Flattens(f, s, Len(s))
<1>1. Len(s) \in Nat /\ Len(s) # 0
  OBVIOUS
<1>2. PICK f \in [1 .. Len(s) -> Seq(S)] : Flattens(f, s, Len(s))
  BY <1>1, FlattenExists
<1>3. Flattens(F, s, Len(s))
  BY <1>2
<1>3a. FlattenSteps(f, s, Len(s)) /\ FlattenSteps(F, s, Len(s))
  BY <1>2, <1>3, FlattensAt
<1>4. FlattenSeq(s) = F[Len(s)]
  BY <1>1 DEF FlattenSeq, Flattens
<1> HIDE DEF F
<1>5. \A i \in 1 .. Len(s) : f[i] = F[i]
  <2>1. Len(s) <= Len(s)
    BY <1>1
  <2> QED  BY <2>1, <1>1, <1>3a, FlattenUnique
<1>6. Len(s) \in 1 .. Len(s)
  BY <1>1
<1>7. FlattenSeq(s) = f[Len(s)]
  BY <1>4, <1>5, <1>6, Zenon
<1> QED  BY <1>3a, <1>7, Zenon

\* FlattenSeq by its last sequence.
LEMMA FlattenAppend ==
  ASSUME NEW S, NEW s \in Seq(Seq(S)), NEW x \in Seq(S)
  PROVE  /\ FlattenSeq(<<>>) = <<>>
         /\ FlattenSeq(s) \in Seq(S)
         /\ FlattenSeq(Append(s, x)) = FlattenSeq(s) \o x
<1> DEFINE t == Append(s, x)
<1>1. FlattenSeq(<<>>) = <<>>
  BY DEF FlattenSeq
<1>2. /\ t \in Seq(Seq(S)) /\ t # <<>> /\ Len(t) = Len(s) + 1 /\ Len(s) \in Nat
      /\ \A i \in 1 .. Len(s) : t[i] = s[i]
      /\ t[Len(s) + 1] = x
  BY AppendProperties
<1> HIDE DEF t
<1>3. PICK g \in [1 .. Len(t) -> Seq(S)] :
             FlattenSteps(g, t, Len(t)) /\ FlattenSeq(t) = g[Len(t)]
  BY <1>2, FlattenValue
<1>4. g[Len(t)] = IF Len(t) = 1 THEN t[Len(t)] ELSE g[Len(t) - 1] \o t[Len(t)]
  <2>1. Len(t) \in 1 .. Len(t)
    BY <1>2
  <2> QED  BY <2>1, <1>3 DEF FlattenSteps
<1>5. CASE s = <<>>
  <2>1. FlattenSeq(t) = x
    BY <1>2, <1>3, <1>4, <1>5
  <2>2. <<>> \o x = x
    BY ConcatEmptySeq
  <2>3. <<>> \in Seq(S)
    BY EmptySeq
  <2> QED  BY <1>1, <1>5, <2>1, <2>2, <2>3 DEF t
<1>6. CASE s # <<>>
  <2>1. PICK f \in [1 .. Len(s) -> Seq(S)] :
               FlattenSteps(f, s, Len(s)) /\ FlattenSeq(s) = f[Len(s)]
    BY <1>6, FlattenValue
  <2>2. Len(s) # 0
    BY <1>6
  <2>3. FlattenSteps(f, t, Len(s))
    BY <2>1, <1>2 DEF FlattenSteps
  <2>4. \A i \in 1 .. Len(s) : f[i] = g[i]
    <3>1. Len(s) <= Len(t) /\ Len(t) \in Nat /\ Len(s) \in Nat
      BY <1>2
    <3>2. FlattenSteps(g, t, Len(t))
      BY <1>3
    <3> HIDE DEF FlattenSteps
    <3> QED  BY <2>3, <3>1, <3>2, FlattenUnique
  <2>5. f[Len(s)] = g[Len(s)] /\ Len(t) - 1 = Len(s) /\ Len(t) # 1
    BY <2>2, <2>4, <1>2
  <2>6. FlattenSeq(t) = f[Len(s)] \o x
    BY <1>2, <1>3, <1>4, <2>5
  <2>7. FlattenSeq(s) \in Seq(S)
    BY <2>1, <2>2, <1>2
  <2> QED  BY <1>1, <2>1, <2>6, <2>7 DEF t
<1> QED  BY <1>5, <1>6

-----------------------------------------------------------------------------
(* Lexemes. *)

Symbol == STRING \cup Char \cup Digit \cup Sign
            \cup {Quote, Backslash, "n", "a", "{", "}", "[", "]", ":", ",", ".", "e",
                  "null", "true", "false", "6", "nan"}

Word == Seq(Symbol)

\* What begins with a quotation mark also ends with one.
Lexeme == {w \in Word : w # <<>> /\ (w[1] = Quote => Len(w) >= 2 /\ w[Len(w)] = Quote)}

\* Sequences of one and of two.
LEMMA ShortSeq ==
  ASSUME NEW S, NEW x \in S, NEW y \in S
  PROVE  /\ <<x>> \in Seq(S) /\ Len(<<x>>) = 1 /\ <<x>>[1] = x
         /\ <<x, y>> \in Seq(S)
OBVIOUS

\* A string in its quotation marks.
LEMMA QuotedFacts ==
  ASSUME NEW s \in Word
  PROVE  Quoted(s) \in Lexeme /\ Quoted(s)[1] = Quote
<1> DEFINE parts == [i \in DOMAIN s |-> PutChar(s[i])]
           body == FlattenSeq(parts)
<1>1. Quote \in Symbol /\ Backslash \in Symbol /\ "n" \in Symbol
  BY DEF Symbol
<1>2. ASSUME NEW c \in Symbol PROVE PutChar(c) \in Word
  BY <1>1, ShortSeq DEF PutChar, Word
<1>3. \A i \in 1 .. Len(s) : s[i] \in Symbol
  BY DEF Word
<1>4. parts \in [1 .. Len(s) -> Word] /\ Len(s) \in Nat
  BY <1>2, <1>3 DEF Word
<1>5. parts \in Seq(Word)
  <2> HIDE DEF parts
  <2> QED  BY <1>4
<1>6. body \in Word
  <2>1. <<>> \in Word
    BY DEF Word
  <2> HIDE DEF parts
  <2> QED  BY <1>5, <2>1, FlattenAppend DEF Word
<1>7. Quoted(s) = <<Quote>> \o body \o <<Quote>>
  BY DEF Quoted
<1> HIDE DEF body
<1>8. <<Quote>> \in Word /\ Len(<<Quote>>) = 1 /\ <<Quote>>[1] = Quote
  BY <1>1, ShortSeq DEF Word
<1> DEFINE q == <<Quote>>
<1> HIDE DEF q
<1>9. /\ q \o body \o q \in Word /\ Len(q \o body \o q) = Len(body) + 2 /\ Len(body) \in Nat
      /\ (q \o body \o q)[1] = Quote /\ (q \o body \o q)[Len(body) + 2] = Quote
  BY <1>6, <1>8 DEF Word, q
<1>10. q \o body \o q = Quoted(s)
  BY <1>7 DEF q
<1> DEFINE w == q \o body \o q
<1>11. w \in Word /\ Len(w) >= 2 /\ w[1] = Quote /\ w[Len(w)] = Quote
  BY <1>9
<1> HIDE DEF w
<1>12. w # <<>>
  BY <1>11
<1>13. w \in Lexeme
  BY <1>11, <1>12 DEF Lexeme
<1> QED  BY <1>10, <1>11, <1>13 DEF w

\* What WithoutCommas does with one more lexeme.
LEMMA CommasAppend ==
  ASSUME NEW s \in Seq(Lexeme), NEW w \in Lexeme
  PROVE  /\ WithoutCommas(<<>>) = <<>>
         /\ WithoutCommas(s) \in Seq(Lexeme)
         /\ WithoutCommas(Append(s, w)) =
              IF w = <<",">> THEN WithoutCommas(s) ELSE Append(WithoutCommas(s), w)
<1> DEFINE e(x) == IF x = <<",">> THEN <<>> ELSE <<x>>
           p(t) == [i \in DOMAIN t |-> e(t[i])]
<1>1. ASSUME NEW x \in Lexeme PROVE e(x) \in Seq(Lexeme)
  <2>1. <<>> \in Seq(Lexeme) /\ <<x>> \in Seq(Lexeme)
    BY ShortSeq, EmptySeq, Zenon
  <2> QED  BY <2>1
<1>2. \A t : WithoutCommas(t) = FlattenSeq(p(t))
  BY DEF WithoutCommas
<1>3. p(<<>>) = <<>>
  OBVIOUS
<1>4. p(s) \in Seq(Seq(Lexeme)) /\ Len(p(s)) = Len(s)
  <2>1. \A i \in 1 .. Len(s) : s[i] \in Lexeme
    OBVIOUS
  <2> HIDE DEF e
  <2>2. p(s) \in [1 .. Len(s) -> Seq(Lexeme)] /\ Len(s) \in Nat
    BY <1>1, <2>1
  <2> HIDE DEF p
  <2> QED  BY <2>2
<1>5. p(Append(s, w)) = Append(p(s), e(w))
  <2>1. /\ Append(s, w) \in Seq(Lexeme) /\ Len(Append(s, w)) = Len(s) + 1
        /\ \A i \in 1 .. Len(s) : Append(s, w)[i] = s[i]
        /\ Append(s, w)[Len(s) + 1] = w
        /\ DOMAIN Append(s, w) = 1 .. (Len(s) + 1) /\ DOMAIN s = 1 .. Len(s)
        /\ Len(s) \in Nat
    OBVIOUS
  <2> HIDE DEF e
  <2>2. p(s) \in Seq(Seq(Lexeme)) /\ Len(p(s)) = Len(s) /\ e(w) \in Seq(Lexeme)
    BY <1>1, <1>4, <2>1
  <2>3. /\ Append(p(s), e(w)) \in Seq(Seq(Lexeme))
        /\ Len(Append(p(s), e(w))) = Len(s) + 1
        /\ \A i \in 1 .. Len(s) : Append(p(s), e(w))[i] = p(s)[i]
        /\ Append(p(s), e(w))[Len(s) + 1] = e(w)
    BY <2>2, AppendProperties
  <2>4. p(Append(s, w)) \in Seq(Seq(Lexeme)) /\ Len(p(Append(s, w))) = Len(s) + 1
    <3>1. \A i \in 1 .. (Len(s) + 1) : e(Append(s, w)[i]) \in Seq(Lexeme)
      BY <1>1, <2>1
    <3> QED  BY <2>1, <3>1
  <2>5. \A i \in 1 .. (Len(s) + 1) : p(Append(s, w))[i] = Append(p(s), e(w))[i]
    BY <2>1, <2>3
  <2> QED  BY <2>3, <2>4, <2>5, SeqEqual
<1> HIDE DEF p
<1>6. e(w) \in Seq(Lexeme)
  BY <1>1
<1>7. /\ FlattenSeq(p(s)) \in Seq(Lexeme)
      /\ FlattenSeq(Append(p(s), e(w))) = FlattenSeq(p(s)) \o e(w)
      /\ FlattenSeq(<<>>) = <<>>
  <2> HIDE DEF e
  <2> QED  BY <1>4, <1>6, FlattenAppend
<1>8. FlattenSeq(p(s)) \o <<>> = FlattenSeq(p(s))
  BY <1>7, ConcatEmptySeq
<1>9. FlattenSeq(p(s)) \o <<w>> = Append(FlattenSeq(p(s)), w)
  BY <1>7, AppendIsConcat
<1> QED  BY <1>2, <1>3, <1>5, <1>7, <1>8, <1>9

\* The least element of a set of naturals.
LEMMA MinFacts ==
  ASSUME NEW S \in SUBSET Nat, S # {}
  PROVE  Min(S) \in S /\ \A y \in S : Min(S) <= y
BY Least DEF Min

\* How numbers and keywords begin.
LEMMA NumberBegins ==
  ASSUME NEW w \in Word, w # <<>>
  PROVE  /\ \A type : IsNumber(w, type) => w[1] \in Digit \cup Sign
         /\ w \in Keyword => w[1] \in {"true", "false", "null"}
<1>1. ASSUME NEW type, IsNumber(w, type) PROVE w[1] \in Digit \cup Sign
  <2>1. PICK i \in {0, 1}, j \in 1 .. Len(w) :
          /\ i = 1 => w[1] \in Sign
          /\ i < j /\ \A k \in i + 1 .. j : w[k] \in Digit
    BY <1>1 DEF IsNumber
  <2>2. CASE i = 0
    BY <2>1, <2>2
  <2>3. CASE i = 1
    BY <2>1, <2>3
  <2> QED  BY <2>1, <2>2, <2>3
<1>2. /\ <<"true">>[1] = "true" /\ <<"false">>[1] = "false" /\ <<"null">>[1] = "null"
  OBVIOUS
<1>3. w \in Keyword => w[1] \in {"true", "false", "null"}
  BY <1>2 DEF Keyword
<1> QED  BY <1>1, <1>3

\* What class a lexeme is of.
LEMMA ClassFacts ==
  ASSUME NEW w \in Lexeme
  PROVE  /\ w[1] = Quote <=> Class(w) = "string"
         /\ w = <<"{">> <=> Class(w) = "{"
         /\ w = <<"}">> <=> Class(w) = "}"
         /\ w = <<"[">> <=> Class(w) = "["
         /\ w = <<"]">> <=> Class(w) = "]"
         /\ w = <<":">> <=> Class(w) = ":"
         /\ w = <<",">> <=> Class(w) = ","
         /\ Class(w) = "scalar" =>
              w \in Keyword \/ IsNumber(w, "INTEGER") \/ IsNumber(w, "FLOAT")
         /\ Class(w) \in {"{", "}", "[", "]", ":", ",", "string", "scalar", "unknown"}
<1>1. /\ <<"{">>[1] = "{" /\ <<"}">>[1] = "}" /\ <<"[">>[1] = "[" /\ <<"]">>[1] = "]"
      /\ <<":">>[1] = ":" /\ <<",">>[1] = ","
  OBVIOUS
<1>2. Quote \notin {"{", "}", "[", "]", ":", ","}
  BY DEF Quote
<1>2a. w[1] \in {"{", "}", "[", "]", ":", ",", Quote} =>
         /\ w \notin Keyword /\ ~IsNumber(w, "INTEGER") /\ ~IsNumber(w, "FLOAT")
  <2>1. w \in Word /\ w # <<>>
    BY DEF Lexeme
  <2>2. \A c \in {"{", "}", "[", "]", ":", ",", Quote} :
          c \notin Digit \cup Sign \cup {"true", "false", "null"}
    BY DEF Quote, Digit, Sign
  <2> QED  BY <2>1, <2>2, NumberBegins
<1>3. CASE w = <<"{">>
  BY <1>1, <1>2, <1>2a, <1>3 DEF Class
<1>4. CASE w = <<"}">>
  BY <1>1, <1>2, <1>2a, <1>4 DEF Class
<1>5. CASE w = <<"[">>
  BY <1>1, <1>2, <1>2a, <1>5 DEF Class
<1>6. CASE w = <<"]">>
  BY <1>1, <1>2, <1>2a, <1>6 DEF Class
<1>7. CASE w = <<":">>
  BY <1>1, <1>2, <1>2a, <1>7 DEF Class
<1>8. CASE w = <<",">>
  BY <1>1, <1>2, <1>2a, <1>8 DEF Class
<1>9. CASE w \notin {<<"{">>, <<"}">>, <<"[">>, <<"]">>, <<":">>, <<",">>}
  <2>1. CASE w[1] = Quote
    <3>1. Class(w) = "string"
      BY <1>9, <1>2a, <2>1 DEF Class
    <3> QED  BY <1>9, <2>1, <3>1
  <2>2. CASE w[1] # Quote
    <3>1. /\ Class(w) \in {"scalar", "unknown"}
          /\ Class(w) = "scalar" =>
               w \in Keyword \/ IsNumber(w, "INTEGER") \/ IsNumber(w, "FLOAT")
      BY <1>9, <2>2 DEF Class
    <3> QED  BY <1>9, <2>2, <3>1
  <2> QED  BY <2>1, <2>2
<1> QED  BY <1>3, <1>4, <1>5, <1>6, <1>7, <1>8, <1>9

\* _parse_string ends at the first quotation mark after the one it began with.
LEMMA ParseStringFacts ==
  ASSUME NEW w \in Lexeme, w[1] = Quote
  PROVE  /\ ParseString(w).type = "STRING"
         /\ ParseString(w).last \in 2 .. Len(w)
         /\ ParseString(w).last = Len(w) <=> ~EscapedQuote(w)
<1> DEFINE I == {i \in 2 .. Len(w) : w[i] = Quote}
<1>1. Len(w) \in Nat /\ Len(w) >= 2 /\ w[Len(w)] = Quote
  BY DEF Lexeme, Word
<1>2. I \in SUBSET Nat /\ I # {} /\ Len(w) \in I
  BY <1>1
<1>3. Min(I) \in I /\ \A y \in I : Min(I) <= y
  BY <1>2, MinFacts
<1>4. SelectInSubSeq(w, 2, Len(w), LAMBDA c : c = Quote) = Min(I)
  BY <1>2 DEF SelectInSubSeq
<1> DEFINE m == Min(I)
<1>5. m \in 2 .. Len(w) /\ w[m] = Quote /\ \A i \in 2 .. Len(w) : w[i] = Quote => m <= i
  BY <1>3
<1>6. ParseString(w) = Lexed("STRING", m)
  <2>1. m # 0
    BY <1>5, <1>1
  <2> HIDE DEF m
  <2> QED  BY <1>4, <2>1 DEF ParseString, m
<1> HIDE DEF m
<1>7. m = Len(w) <=> ~EscapedQuote(w)
  BY <1>1, <1>5 DEF EscapedQuote
<1> QED  BY <1>5, <1>6, <1>7 DEF Lexed

\* _parse_number: where the digits begin, what ends them, and its points.
FirstDigit(w) == IF w[1] \in Sign THEN 2 ELSE 1
Others(w) == {k \in FirstDigit(w) .. Len(w) : w[k] \notin Digit \cup {"."}}
Points(w) == {k \in FirstDigit(w) .. Len(w) : w[k] = "."}

\* What _parse_number takes when nothing is left over.
TakesAll(w) ==
  /\ FirstDigit(w) <= Len(w) /\ Others(w) = {}
  /\ w[FirstDigit(w)] \in Digit
  /\ w[FirstDigit(w)] = "0" /\ FirstDigit(w) < Len(w) => w[FirstDigit(w) + 1] \notin Digit
  /\ w[Len(w)] # "."

\* The points of a number are none, one or several.
LEMMA PointsFacts ==
  ASSUME NEW w \in Word
  PROVE  /\ Cardinality(Points(w)) \in Nat
         /\ Cardinality(Points(w)) = 0 <=> Points(w) = {}
         /\ Cardinality(Points(w)) = 1 <=> \E p : Points(w) = {p}
<1>1. FirstDigit(w) \in Int /\ Len(w) \in Int
  BY DEF FirstDigit, Word
<1>2. IsFiniteSet(FirstDigit(w) .. Len(w))
  BY <1>1, FS_Interval
<1>3. IsFiniteSet(Points(w))
  <2>1. Points(w) \in SUBSET (FirstDigit(w) .. Len(w))
    BY DEF Points
  <2> QED  BY <1>2, <2>1, FS_Subset
<1> QED  BY <1>3, FS_CardinalityType, FS_EmptySet, FS_Singleton

\* A word it takes to the end is a number, and of the type it says, if it has no
\* second point.
LEMMA TakesNumbers ==
  ASSUME NEW w \in Word, w # <<>>, TakesAll(w)
  PROVE  /\ Points(w) = {} => IsNumber(w, "INTEGER")
         /\ (\E p : Points(w) = {p}) => IsNumber(w, "FLOAT")
<1> DEFINE f == FirstDigit(w)
           n == Len(w)
<1>1. /\ f \in {1, 2} /\ n \in Nat /\ f <= n /\ n # 0
      /\ f = 2 => w[1] \in Sign
  BY DEF FirstDigit, TakesAll, Word
<1>2. \A k \in f .. n : w[k] \in Digit \cup {"."}
  BY DEF TakesAll, Others
<1>3. /\ w[f] \in Digit /\ w[n] # "."
      /\ w[f] = "0" /\ f < n => w[f + 1] \notin Digit
  BY DEF TakesAll
<1>4. "." \notin Digit
  BY DEF Digit
<1>5. \A k \in f .. n : k \in Points(w) <=> w[k] = "."
  BY DEF Points
<1>5a. Points(w) \subseteq f .. n
  BY DEF Points
<1> HIDE DEF f, n
<1>6. ASSUME Points(w) = {} PROVE IsNumber(w, "INTEGER")
  <2>1. f - 1 \in {0, 1} /\ n \in 1 .. n
    BY <1>1
  <2>2. \A k \in (f - 1) + 1 .. n : w[k] \in Digit
    BY <1>1, <1>2, <1>5, <1>6
  <2>3. w[(f - 1) + 1] = "0" => n = (f - 1) + 1
    <3>1. (f - 1) + 1 = f
      BY <1>1
    <3>2. ASSUME w[f] = "0", n # f PROVE FALSE
      <4>1. f < n /\ f + 1 \in f .. n
        BY <1>1, <3>2
      <4> QED  BY <4>1, <3>2, <1>2, <1>3, <1>5, <1>6
    <3> QED  BY <3>1, <3>2
  <2>4. (f - 1 = 1 => w[1] \in Sign) /\ f - 1 < n
    BY <1>1
  <2> QED  BY <2>1, <2>2, <2>3, <2>4 DEF IsNumber, n
<1>7. ASSUME NEW p, Points(w) = {p} PROVE IsNumber(w, "FLOAT")
  <2>1. p \in f .. n /\ w[p] = "." /\ p # f /\ p # n /\ p \in Nat
    BY <1>1, <1>3, <1>4, <1>5, <1>5a, <1>7
  <2>2. f - 1 \in {0, 1} /\ p - 1 \in 1 .. n /\ f - 1 < p - 1 /\ (p - 1) + 2 <= n
    BY <1>1, <2>1
  <2>3. ASSUME NEW k \in f .. n, k # p PROVE w[k] \in Digit
    BY <1>2, <1>5, <1>7, <2>3
  <2>4. \A k \in (f - 1) + 1 .. p - 1 : w[k] \in Digit
    BY <1>1, <2>1, <2>3
  <2>5. \A k \in (p - 1) + 2 .. n : w[k] \in Digit
    BY <1>1, <2>1, <2>3
  <2>6. w[(f - 1) + 1] = "0" => p - 1 = (f - 1) + 1
    <3>1. (f - 1) + 1 = f
      BY <1>1
    <3>2. ASSUME w[f] = "0", p # f + 1 PROVE FALSE
      <4>1. f < n /\ f + 1 \in f .. n
        BY <1>1, <2>1
      <4> QED  BY <4>1, <3>2, <1>3, <2>3
    <3> QED  BY <3>1, <3>2, <1>1, <2>1
  <2>7. (f - 1 = 1 => w[1] \in Sign) /\ w[(p - 1) + 1] = "."
    BY <1>1, <2>1
  <2> QED  BY <2>2, <2>4, <2>5, <2>6, <2>7 DEF IsNumber, n
<1> QED  BY <1>6, <1>7

\* The other way round.
LEMMA NumbersAreTaken ==
  ASSUME NEW w \in Word, w # <<>>, NEW type \in {"INTEGER", "FLOAT"}, IsNumber(w, type)
  PROVE  /\ TakesAll(w)
         /\ type = "INTEGER" => Points(w) = {}
         /\ type = "FLOAT" => \E p : Points(w) = {p}
<1> DEFINE n == Len(w)
<1>1. n \in Nat /\ n # 0
  BY DEF Word
<1>2. PICK i \in {0, 1}, j \in 1 .. n :
        /\ i = 1 => w[1] \in Sign
        /\ i < j /\ \A k \in i + 1 .. j : w[k] \in Digit
        /\ w[i + 1] = "0" => j = i + 1
        /\ \/ type = "INTEGER" /\ j = n
           \/ /\ type = "FLOAT" /\ j + 2 <= n /\ w[j + 1] = "."
              /\ \A k \in j + 2 .. n : w[k] \in Digit
  BY DEF IsNumber
<1>3. Digit \cap Sign = {} /\ "." \notin Digit
  BY DEF Digit, Sign
<1>4. FirstDigit(w) = i + 1
  <2>1. CASE i = 0
    BY <1>1, <1>2, <1>3, <2>1 DEF FirstDigit
  <2>2. CASE i = 1
    BY <1>2, <2>2 DEF FirstDigit
  <2> QED  BY <2>1, <2>2
<1> HIDE DEF n
<1>5. CASE type = "INTEGER"
  <2>1. j = n /\ \A k \in i + 1 .. n : w[k] \in Digit
    BY <1>2, <1>5
  <2>2. Points(w) = {} /\ Others(w) = {}
    BY <1>3, <1>4, <2>1 DEF Points, Others, n
  <2>3. w[n] \in Digit /\ w[i + 1] \in Digit /\ i + 1 <= n
    BY <1>1, <1>2, <2>1
  <2>4. w[i + 1] = "0" /\ i + 1 < n => w[(i + 1) + 1] \notin Digit
    BY <1>1, <1>2, <2>1
  <2> QED  BY <1>3, <1>4, <1>5, <2>2, <2>3, <2>4 DEF TakesAll, n
<1>6. CASE type = "FLOAT"
  <2>1. /\ j + 2 <= n /\ w[j + 1] = "."
        /\ \A k \in i + 1 .. n : k # j + 1 => w[k] \in Digit
    BY <1>1, <1>2, <1>6
  <2>2. j + 1 \in i + 1 .. n
    BY <1>1, <1>2, <2>1
  <2>3. Points(w) = {j + 1} /\ Others(w) = {}
    BY <1>3, <1>4, <2>1, <2>2 DEF Points, Others, n
  <2>4. w[n] \in Digit /\ w[i + 1] \in Digit /\ i + 1 <= n
    BY <1>1, <1>2, <2>1
  <2>5. w[i + 1] = "0" => w[(i + 1) + 1] \notin Digit
    BY <1>2, <1>3, <2>1
  <2> QED  BY <1>3, <1>4, <1>6, <2>3, <2>4, <2>5 DEF TakesAll, n
<1> QED  BY <1>5, <1>6

\* What _parse_number makes of a word.
LEMMA ParseNumberFacts ==
  ASSUME NEW w \in Word, w # <<>>
  PROVE  /\ \A type \in {"INTEGER", "FLOAT"} :
              IsNumber(w, type) => ParseNumber(w) = Lexed(type, Len(w))
         /\ ParseNumber(w).type # "bad" /\ ~(ParseNumber(w).last < Len(w)) =>
              /\ ParseNumber(w).last = Len(w)
              /\ ParseNumber(w).type \in {"INTEGER", "FLOAT"}
              /\ IsNumber(w, ParseNumber(w).type)
<1> DEFINE f == FirstDigit(w)
           stop == SelectInSubSeq(w, f, Len(w), LAMBDA c : c \notin Digit \cup {"."})
           last == IF stop = 0 THEN Len(w) ELSE stop - 1
           points == Cardinality({k \in f .. last : w[k] = "."})
           Bad == \/ f > Len(w) \/ w[f] \notin Digit
                  \/ w[f] = "0" /\ f < Len(w) /\ w[f + 1] \in Digit
                  \/ points > 1 \/ w[last] = "."
<1>1. ParseNumber(w) = IF Bad THEN Lexed("bad", 0)
                       ELSE Lexed(IF points = 1 THEN "FLOAT" ELSE "INTEGER", last)
  BY DEF ParseNumber, FirstDigit
<1>2. f \in {1, 2} /\ Len(w) \in Nat /\ Len(w) # 0
  BY DEF FirstDigit, Word
<1>3. Others(w) \in SUBSET Nat
  BY <1>2 DEF Others
<1>4. stop = IF Others(w) # {} THEN Min(Others(w)) ELSE 0
  BY DEF SelectInSubSeq, Others
<1> HIDE DEF stop
<1>5. CASE Others(w) = {}
  <2>1. last = Len(w)
    BY <1>4, <1>5
  <2>2. points = Cardinality(Points(w))
    BY <2>1 DEF Points
  <2> HIDE DEF points, last
  <2>3. Bad <=> ~TakesAll(w) \/ points > 1
    <3> HIDE DEF f
    <3>1. Bad <=> \/ f > Len(w) \/ w[f] \notin Digit
                  \/ w[f] = "0" /\ f < Len(w) /\ w[f + 1] \in Digit
                  \/ points > 1 \/ w[Len(w)] = "."
      BY <2>1
    <3>2. f > Len(w) <=> ~(f <= Len(w))
      BY <1>2
    <3>3. TakesAll(w) <=> /\ f <= Len(w) /\ w[f] \in Digit
                          /\ w[f] = "0" /\ f < Len(w) => w[f + 1] \notin Digit
                          /\ w[Len(w)] # "."
      BY <1>5 DEF TakesAll, f
    <3> HIDE DEF Bad
    <3> QED  BY <3>1, <3>2, <3>3
  <2> HIDE DEF Bad
  <2>4. ASSUME NEW type \in {"INTEGER", "FLOAT"}, IsNumber(w, type)
        PROVE  ParseNumber(w) = Lexed(type, Len(w))
    <3>1. TakesAll(w) /\ points = (IF type = "FLOAT" THEN 1 ELSE 0)
      BY <2>2, <2>4, NumbersAreTaken, PointsFacts
    <3>2. ~Bad
      BY <2>3, <3>1
    <3> QED  BY <1>1, <2>1, <3>1, <3>2, <2>4
  <2>5. ASSUME ParseNumber(w).type # "bad"
        PROVE  /\ ParseNumber(w).last = Len(w)
               /\ ParseNumber(w).type \in {"INTEGER", "FLOAT"}
               /\ IsNumber(w, ParseNumber(w).type)
    <3>1. ~Bad
      BY <1>1, <2>5 DEF Lexed
    <3>2. /\ ParseNumber(w).last = Len(w)
          /\ ParseNumber(w).type = IF points = 1 THEN "FLOAT" ELSE "INTEGER"
      BY <1>1, <2>1, <3>1 DEF Lexed
    <3>3. TakesAll(w) /\ ~(points > 1) /\ points \in Nat
      BY <2>2, <2>3, <3>1, PointsFacts
    <3>4. points = 0 \/ points = 1
      BY <3>3
    <3>5. /\ points = 0 => IsNumber(w, "INTEGER")
          /\ points = 1 => IsNumber(w, "FLOAT")
      BY <2>2, <3>3, TakesNumbers, PointsFacts
    <3> QED  BY <3>2, <3>4, <3>5
  <2> QED  BY <2>4, <2>5
<1>6. CASE Others(w) # {}
  <2>1. stop \in Others(w)
    BY <1>3, <1>4, <1>6, MinFacts
  <2>2. stop \in Nat /\ stop # 0 /\ stop <= Len(w)
    BY <1>2, <2>1 DEF Others
  <2>3. last < Len(w) /\ 0 < Len(w)
    BY <1>2, <2>2
  <2> HIDE DEF last, points, Bad
  <2>4. ParseNumber(w).type # "bad" => ParseNumber(w).last < Len(w)
    BY <1>1, <2>3 DEF Lexed
  <2>5. \A type \in {"INTEGER", "FLOAT"} : ~IsNumber(w, type)
    BY <1>6, NumbersAreTaken DEF TakesAll
  <2> QED  BY <2>4, <2>5
<1> QED  BY <1>5, <1>6

\* What the parser takes to the end: of the strings and scalars all but those
\* with an escaped quotation mark, and nothing else.
LEMMA LexFacts ==
  ASSUME NEW w \in Lexeme
  PROVE  /\ Class(w) \in {"string", "scalar"} /\ ~EscapedQuote(w) =>
              Lex(w).type # "bad" /\ Lex(w).last = Len(w)
         /\ Lex(w).type # "bad" /\ ~(Lex(w).last < Len(w)) =>
              /\ Lex(w).last = Len(w) /\ ~EscapedQuote(w)
              /\ Lex(w).type \in {"STRING", "NUL", "BOOLEAN", "INTEGER", "FLOAT"}
              /\ Lex(w).type = "STRING" <=> w[1] = Quote
              /\ Lex(w).type \in {"INTEGER", "FLOAT"} => IsNumber(w, Lex(w).type)
<1>1. w \in Word /\ w # <<>>
  BY DEF Lexeme
<1>2. Quote \notin Digit \cup Sign \cup {"true", "false", "null"}
  BY DEF Quote, Digit, Sign
<1>3. CASE w[1] = Quote
  <2>1. w \notin Keyword
    BY <1>1, <1>2, <1>3, NumberBegins
  <2>2. Lex(w) = ParseString(w)
    BY <1>3, <2>1 DEF Lex
  <2>3. Len(w) \in Nat
    BY <1>1 DEF Word
  <2>4. ParseString(w).last = Len(w) \/ ParseString(w).last < Len(w)
    BY <1>3, <2>3, ParseStringFacts
  <2> QED  BY <1>3, <2>2, <2>4, ParseStringFacts
<1>4. CASE w[1] # Quote /\ w \in Keyword
  <2>1. Lex(w) = ParseKeyword(w)
    BY <1>4 DEF Lex
  <2>2. Len(w) = 1
    BY <1>4 DEF Keyword
  <2>3. Lex(w).type \in {"NUL", "BOOLEAN"} /\ Lex(w).last = 1
    BY <2>1 DEF ParseKeyword, Lexed
  <2>4. ~EscapedQuote(w)
    BY <1>4 DEF EscapedQuote
  <2> QED  BY <1>4, <2>2, <2>3, <2>4
<1>5. CASE w[1] # Quote /\ w \notin Keyword
  <2>1. Lex(w) = ParseNumber(w)
    BY <1>5 DEF Lex
  <2>2. Class(w) \in {"string", "scalar"} => IsNumber(w, "INTEGER") \/ IsNumber(w, "FLOAT")
    BY <1>5, ClassFacts
  <2>3. ~EscapedQuote(w)
    BY <1>5 DEF EscapedQuote
  <2>4. Class(w) \in {"string", "scalar"} => Lex(w).type # "bad" /\ Lex(w).last = Len(w)
    BY <1>1, <2>1, <2>2, ParseNumberFacts DEF Lexed
  <2>5. ~(Lex(w).last < Len(w)) /\ Lex(w).type # "bad" =>
          /\ Lex(w).last = Len(w) /\ Lex(w).type \in {"INTEGER", "FLOAT"}
          /\ IsNumber(w, Lex(w).type)
    BY <1>1, <2>1, ParseNumberFacts
  <2> QED  BY <1>5, <2>3, <2>4, <2>5
<1> QED  BY <1>3, <1>4, <1>5

-----------------------------------------------------------------------------
(* The grammar. *)

Nesting == {"[0", "[v", "[,", "{0", "{v", "{,", "{k", "{:"}
Contexts == Nesting \cup {"value", "done", "wrong"}
ValueTops == {"value", "[0", "[,", "{:"}

\* What may come next at the innermost level, and how the rest looks.
Grammars ==
  {g \in Seq(Contexts) : /\ g # <<>> /\ g[1] \in {"value", "done", "wrong"}
                         /\ Len(g) > 1 => g[1] = "done"
                         /\ \A i \in 2 .. Len(g) : g[i] \in Nesting}

\* g with another context at its innermost level.
Inner(g, context) == Append(Front(g), context)

\* The cases of Advance.
LEMMA AdvanceFacts ==
  ASSUME NEW g, NEW w
  PROVE  /\ Class(w) \in {"string", "scalar"} /\ Last(g) \in ValueTops =>
              Advance(g, w) = Inner(g, After[Last(g)])
         /\ Class(w) = "string" /\ Last(g) \in {"{0", "{,"} => Advance(g, w) = Inner(g, "{k")
         /\ Class(w) = ":" /\ Last(g) = "{k" => Advance(g, w) = Inner(g, "{:")
         /\ Class(w) = "[" /\ Last(g) \in ValueTops =>
              Advance(g, w) = Inner(g, After[Last(g)]) \o <<"[0">>
         /\ Class(w) = "{" /\ Last(g) \in ValueTops =>
              Advance(g, w) = Inner(g, After[Last(g)]) \o <<"{0">>
         /\ Class(w) = "]" /\ Last(g) \in {"[0", "[v"} => Advance(g, w) = Front(g)
         /\ Class(w) = "}" /\ Last(g) \in {"{0", "{v"} => Advance(g, w) = Front(g)
         /\ Class(w) = "," /\ Last(g) = "[v" => Advance(g, w) = Inner(g, "[,")
         /\ Class(w) = "," /\ Last(g) = "{v" => Advance(g, w) = Inner(g, "{,")
         /\ \/ Advance(g, w) = Wrong
            \/ Class(w) \in {"string", "scalar", "[", "{"} /\ Last(g) \in ValueTops
            \/ Class(w) = "string" /\ Last(g) \in {"{0", "{,"}
            \/ Class(w) = ":" /\ Last(g) = "{k"
            \/ Class(w) = "]" /\ Last(g) \in {"[0", "[v"}
            \/ Class(w) = "}" /\ Last(g) \in {"{0", "{v"}
            \/ Class(w) = "," /\ Last(g) \in {"[v", "{v"}
<1> DEFINE c == Class(w)
           top == Last(g)
           next == Inner(g, After[top])
<1>1. DOMAIN After = ValueTops
  BY DEF After, ValueTops
<1>2. Advance(g, w) =
        CASE c \in {"string", "scalar"} /\ top \in ValueTops -> next
          [] c = "string" /\ top \in {"{0", "{,"}   -> Inner(g, "{k")
          [] c = ":" /\ top = "{k"                  -> Inner(g, "{:")
          [] c = "[" /\ top \in ValueTops           -> next \o <<"[0">>
          [] c = "{" /\ top \in ValueTops           -> next \o <<"{0">>
          [] c = "]" /\ top \in {"[0", "[v"}        -> Front(g)
          [] c = "}" /\ top \in {"{0", "{v"}        -> Front(g)
          [] c = "," /\ top = "[v"                  -> Inner(g, "[,")
          [] c = "," /\ top = "{v"                  -> Inner(g, "{,")
          [] OTHER                                  -> Wrong
  BY <1>1, Zenon DEF Advance, Inner
<1> HIDE DEF c, top, next
<1>3. /\ c \in {"string", "scalar"} /\ top \in ValueTops => Advance(g, w) = next
      /\ c = "string" /\ top \in {"{0", "{,"} => Advance(g, w) = Inner(g, "{k")
      /\ c = ":" /\ top = "{k" => Advance(g, w) = Inner(g, "{:")
  BY <1>2 DEF ValueTops
<1>4. /\ c = "[" /\ top \in ValueTops => Advance(g, w) = next \o <<"[0">>
      /\ c = "{" /\ top \in ValueTops => Advance(g, w) = next \o <<"{0">>
      /\ c = "]" /\ top \in {"[0", "[v"} => Advance(g, w) = Front(g)
      /\ c = "}" /\ top \in {"{0", "{v"} => Advance(g, w) = Front(g)
  BY <1>2 DEF ValueTops
<1>5. /\ c = "," /\ top = "[v" => Advance(g, w) = Inner(g, "[,")
      /\ c = "," /\ top = "{v" => Advance(g, w) = Inner(g, "{,")
  BY <1>2 DEF ValueTops
<1>6. \/ Advance(g, w) = Wrong
      \/ c \in {"string", "scalar", "[", "{"} /\ top \in ValueTops
      \/ c = "string" /\ top \in {"{0", "{,"}
      \/ c = ":" /\ top = "{k"
      \/ c = "]" /\ top \in {"[0", "[v"}
      \/ c = "}" /\ top \in {"{0", "{v"}
      \/ c = "," /\ top \in {"[v", "{v"}
  BY <1>2 DEF ValueTops
<1> QED  BY <1>3, <1>4, <1>5, <1>6 DEF c, top, next

\* A sequence without its last element.
LEMMA FrontFacts ==
  ASSUME NEW S, NEW s \in Seq(S), s # <<>>
  PROVE  /\ Len(s) \in Nat \ {0} /\ Last(s) = s[Len(s)] /\ Last(s) \in S
         /\ Front(s) \in Seq(S) /\ Len(Front(s)) = Len(s) - 1
         /\ \A i \in 1 .. Len(s) - 1 : Front(s)[i] = s[i]
<1>1. Len(s) \in Nat \ {0} /\ Last(s) = s[Len(s)] /\ Last(s) \in S
  BY EmptySeq DEF Last
<1>2. /\ Front(s) \in Seq(S) /\ Len(Front(s)) = Len(s) - 1
      /\ \A i \in 1 .. Len(s) - 1 : Front(s)[i] = s[i]
  <2>1. \A i \in 1 .. Len(s) - 1 : s[i] \in S
    BY <1>1
  <2>2. 1 \in Int /\ Len(s) - 1 \in Int
    BY <1>1
  <2>3. /\ SubSeq(s, 1, Len(s) - 1) \in Seq(S)
        /\ Len(SubSeq(s, 1, Len(s) - 1)) =
             IF 1 <= Len(s) - 1 THEN (Len(s) - 1) - 1 + 1 ELSE 0
        /\ \A i \in 1 .. (Len(s) - 1) - 1 + 1 : SubSeq(s, 1, Len(s) - 1)[i] = s[1 + i - 1]
    BY <2>1, <2>2, SubSeqProperties
  <2> DEFINE p == SubSeq(s, 1, Len(s) - 1)
  <2> HIDE DEF p
  <2>4. \A i \in 1 .. Len(s) - 1 : i \in 1 .. (Len(s) - 1) - 1 + 1 /\ 1 + i - 1 = i
    BY <1>1
  <2>5. /\ Len(p) = IF 1 <= Len(s) - 1 THEN (Len(s) - 1) - 1 + 1 ELSE 0
        /\ \A i \in 1 .. (Len(s) - 1) - 1 + 1 : p[i] = s[1 + i - 1]
    BY <2>3 DEF p
  <2>6. Len(p) = Len(s) - 1
    <3>1. Len(p) = IF 1 <= Len(s) - 1 THEN (Len(s) - 1) - 1 + 1 ELSE 0
      BY <2>5
    <3>2. Len(s) \in Nat \ {0}
      BY <1>1
    <3>3. \A n \in Nat \ {0} : (IF 1 <= n - 1 THEN (n - 1) - 1 + 1 ELSE 0) = n - 1
      OBVIOUS
    <3> QED  BY <3>1, <3>2, <3>3, Zenon
  <2>7. \A i \in 1 .. Len(s) - 1 : p[i] = s[i]
    BY <2>4, <2>5
  <2>8. p = Front(s)
    BY DEF p, Front
  <2> QED  BY <2>3, <2>6, <2>7, <2>8 DEF p
<1> QED  BY <1>1, <1>2

\* A sequence with another last element.
LEMMA InnerFacts ==
  ASSUME NEW S, NEW s \in Seq(S), s # <<>>, NEW x \in S
  PROVE  /\ Inner(s, x) \in Seq(S) /\ Len(Inner(s, x)) = Len(s) /\ Inner(s, x) # <<>>
         /\ \A i \in 1 .. Len(s) - 1 : Inner(s, x)[i] = s[i]
         /\ Inner(s, x)[Len(s)] = x /\ Last(Inner(s, x)) = x
<1>1. Len(s) \in Nat \ {0}
  BY FrontFacts
<1>2. /\ Front(s) \in Seq(S) /\ Len(Front(s)) = Len(s) - 1
      /\ \A i \in 1 .. Len(s) - 1 : Front(s)[i] = s[i]
  BY FrontFacts
<1> DEFINE f == Front(s)
<1> HIDE DEF f
<1>3. /\ Append(f, x) \in Seq(S) /\ Len(Append(f, x)) = Len(s)
      /\ \A i \in 1 .. Len(s) - 1 : Append(f, x)[i] = f[i]
      /\ Append(f, x)[Len(s)] = x /\ Append(f, x) # <<>>
  <2>1. f \in Seq(S) /\ Len(f) = Len(s) - 1
    BY <1>2 DEF f
  <2> QED  BY <1>1, <2>1, AppendProperties
<1> QED  BY <1>1, <1>2, <1>3 DEF f, Inner, Last

-----------------------------------------------------------------------------
(* How the grammar's view g, of n levels, and the parser's stack s, of m tokens,    *)
(* correspond.                                                                      *)

\* A level that is not the innermost one: a list, or an object with the key and the
\* colon of the value that is being read.
Outer(g, s, pos, i) ==
  \/ /\ g[i] = "[v" /\ s[pos[i]].kind = "list"
     /\ pos[i + 1] = pos[i] + 1
  \/ /\ g[i] = "{v" /\ s[pos[i]].kind = "object"
     /\ s[pos[i] + 1].kind = "scalar" /\ s[pos[i] + 2].kind = "colon"
     /\ pos[i + 1] = pos[i] + 3

\* pos gives the place on the stack of each level; the outer ones are as they should be.
Levels(g, n, s, pos) ==
  /\ \A i \in 2 .. n : pos[i] \in Nat /\ pos[i] > 0
  /\ pos[2] = 1
  /\ \A i, j \in 2 .. n : i < j => pos[i] < pos[j]
  /\ \A i \in 2 .. n - 1 : Outer(g, s, pos, i)

\* The innermost level, at place p.
Innermost(top, s, m, p) ==
  \/ top \in {"[0", "[v", "[,"} /\ m = p /\ s[p].kind = "list"
  \/ top \in {"{0", "{v", "{,"} /\ m = p /\ s[p].kind = "object"
  \/ top = "{k" /\ m = p + 1 /\ s[p].kind = "object" /\ s[p + 1].kind = "scalar"
  \/ /\ top = "{:" /\ m = p + 2 /\ s[p].kind = "object"
     /\ s[p + 1].kind = "scalar" /\ s[p + 2].kind = "colon"

\* An innermost level that waits for a value, after which the grammar is at top.
Waits(top, s, m, p) ==
  \/ top = "[v" /\ m = p /\ s[p].kind = "list"
  \/ /\ top = "{v" /\ m = p + 2 /\ s[p].kind = "object"
     /\ s[p + 1].kind = "scalar" /\ s[p + 2].kind = "colon"

\* A list or an object without any values.
Opened(top, token) ==
  \/ top = "[0" /\ token.kind = "list"
  \/ top = "{0" /\ token.kind = "object"

\* A list or an object that may end.
CanEnd(top) == top \in {"[0", "[v", "{0", "{v"}

\* A key or its colon is next, and goes on the stack.
KeyRead(top, next, token) ==
  \/ top \in {"{0", "{,"} /\ next = "{k" /\ token.kind = "scalar"
  \/ top = "{k" /\ next = "{:" /\ token.kind = "colon"

\* What a key or its colon goes on.
KeyBase(top, token) == token.kind = IF top = "{k" THEN "scalar" ELSE "object"

\* The context behind a comma.
BehindComma(top, c) ==
  \/ top = "[v" /\ c = "[,"
  \/ top = "{v" /\ c = "{,"

\* t is s with the object, the key and the colon replaced by an object.
Replaces(t, s, m) == t[m - 2].kind = "object" /\ \A k \in 1 .. m - 3 : t[k] = s[k]

\* A list or an object.
Compound(t) == t.kind \in {"list", "object"}

Nested(g, n, s, m)  == \E pos : Levels(g, n, s, pos) /\ Innermost(g[n], s, m, pos[n])
Waiting(g, n, s, m) == \E pos : Levels(g, n, s, pos) /\ Waits(g[n], s, m, pos[n])

\* The places of a level that waits for a value.
LEMMA WaitsFacts ==
  ASSUME NEW top, NEW s, NEW m, NEW p, Waits(top, s, m, p)
  PROVE  /\ m = p \/ m = p + 2
         /\ top = "[v" => m = p
         /\ top # "[v" => m = p + 2
BY DEF Waits

\* Where the levels are.
LEMMA LevelsFacts ==
  ASSUME NEW g, NEW n \in Nat, n > 1, NEW s, NEW pos, Levels(g, n, s, pos)
  PROVE  /\ pos[n] \in Nat /\ pos[n] > 0
         /\ \A i \in 2 .. n - 1 : /\ i \in 2 .. n /\ i + 1 \in 2 .. n
                                  /\ pos[i + 1] \in Nat /\ pos[i + 1] <= pos[n]
                                  /\ pos[i] \in Nat /\ pos[i] > 0
<1>1. n \in 2 .. n
  OBVIOUS
<1>2. ASSUME NEW i \in 2 .. n - 1
      PROVE  /\ i \in 2 .. n /\ i + 1 \in 2 .. n
             /\ pos[i + 1] \in Nat /\ pos[i + 1] <= pos[n]
             /\ pos[i] \in Nat /\ pos[i] > 0
  <2>1. i \in 2 .. n /\ i + 1 \in 2 .. n /\ (i + 1 = n \/ i + 1 < n)
    OBVIOUS
  <2>2. pos[i] \in Nat /\ pos[i] > 0 /\ pos[i + 1] \in Nat /\ pos[n] \in Nat
    BY <1>1, <2>1 DEF Levels
  <2>3. i + 1 = n \/ pos[i + 1] < pos[n]
    BY <1>1, <2>1 DEF Levels
  <2> QED  BY <2>1, <2>2, <2>3
<1> QED  BY <1>1, <1>2 DEF Levels

\* Levels looks at the outer levels and at the stack below the innermost one only.
LEMMA LevelsStable ==
  ASSUME NEW g, NEW n \in Nat, n > 1, NEW s, NEW pos, Levels(g, n, s, pos),
         NEW h, \A i \in 1 .. n - 1 : h[i] = g[i],
         NEW t, \A k \in 1 .. pos[n] - 1 : t[k] = s[k]
  PROVE  Levels(h, n, t, pos)
<1>1. ASSUME NEW i \in 2 .. n - 1 PROVE Outer(h, t, pos, i)
  <2>1. pos[i] \in Nat /\ pos[i] > 0 /\ pos[i + 1] \in Nat /\ pos[n] \in Nat /\ pos[i + 1] <= pos[n]
    BY LevelsFacts
  <2>2. Outer(g, s, pos, i) /\ h[i] = g[i]
    BY DEF Levels
  <2>3. CASE g[i] = "[v"
    <3>1. s[pos[i]].kind = "list" /\ pos[i + 1] = pos[i] + 1
      BY <2>2, <2>3 DEF Outer
    <3>2. pos[i] \in 1 .. pos[n] - 1
      BY <2>1, <3>1
    <3> QED  BY <2>2, <2>3, <3>1, <3>2 DEF Outer
  <2>4. CASE g[i] # "[v"
    <3>1. /\ g[i] = "{v" /\ s[pos[i]].kind = "object" /\ pos[i + 1] = pos[i] + 3
          /\ s[pos[i] + 1].kind = "scalar" /\ s[pos[i] + 2].kind = "colon"
      BY <2>2, <2>4 DEF Outer
    <3>2. /\ pos[i] \in 1 .. pos[n] - 1 /\ pos[i] + 1 \in 1 .. pos[n] - 1
          /\ pos[i] + 2 \in 1 .. pos[n] - 1
      <4>1. pos[i + 1] = pos[i] + 3
        BY <3>1
      <4> QED  BY <2>1, <4>1
    <3>3. t[pos[i]] = s[pos[i]] /\ t[pos[i] + 1] = s[pos[i] + 1] /\ t[pos[i] + 2] = s[pos[i] + 2]
      BY <3>2
    <3> QED  BY <2>2, <3>1, <3>3 DEF Outer
  <2> QED  BY <2>3, <2>4
<1> QED  BY <1>1 DEF Levels

\* A level that waits for a value is an outer one for what is opened on top of it, and
\* the other way round.
LEMMA LevelsGrow ==
  ASSUME NEW g, NEW n \in Nat, n > 1, NEW s, NEW m \in Nat, Waiting(g, n, s, m),
         NEW h, \A i \in 1 .. n : h[i] = g[i],
         NEW t, \A k \in 1 .. m : t[k] = s[k],
         Opened(h[n + 1], t[m + 1])
  PROVE  Nested(h, n + 1, t, m + 1)
<1>1. PICK pos : Levels(g, n, s, pos) /\ Waits(g[n], s, m, pos[n])
  BY DEF Waiting
<1> DEFINE q == [i \in 2 .. n + 1 |-> IF i <= n THEN pos[i] ELSE m + 1]
<1>2. q[n + 1] = m + 1 /\ \A i \in 2 .. n : q[i] = pos[i]
  OBVIOUS
<1> HIDE DEF q
<1>3. pos[n] \in Nat /\ pos[n] > 0 /\ pos[n] <= m
  <2>1. pos[n] \in Nat /\ pos[n] > 0
    BY <1>1, LevelsFacts
  <2>2. m = pos[n] \/ m = pos[n] + 2
    BY <1>1, WaitsFacts
  <2> QED  BY <2>1, <2>2
<1>4. Levels(h, n, t, pos)
  <2>1. \A k \in 1 .. pos[n] - 1 : t[k] = s[k]
    BY <1>3
  <2>2. \A i \in 1 .. n - 1 : h[i] = g[i]
    OBVIOUS
  <2> QED  BY <1>1, <2>1, <2>2, LevelsStable
<1>5. h[n] = g[n] /\ Waits(h[n], t, m, pos[n])
  <2>1. h[n] = g[n]
    OBVIOUS
  <2>2. CASE g[n] = "[v"
    <3>1. m = pos[n] /\ s[pos[n]].kind = "list"
      BY <1>1, <2>2 DEF Waits
    <3>2. t[pos[n]] = s[pos[n]]
      BY <1>3
    <3> QED  BY <2>1, <2>2, <3>1, <3>2 DEF Waits
  <2>3. CASE g[n] # "[v"
    <3>1. /\ g[n] = "{v" /\ m = pos[n] + 2 /\ s[pos[n]].kind = "object"
          /\ s[pos[n] + 1].kind = "scalar" /\ s[pos[n] + 2].kind = "colon"
      BY <1>1, <2>3 DEF Waits
    <3>2. pos[n] \in 1 .. m /\ pos[n] + 1 \in 1 .. m /\ pos[n] + 2 \in 1 .. m
      <4>1. m = pos[n] + 2
        BY <3>1
      <4> QED  BY <1>3, <4>1
    <3>3. t[pos[n]] = s[pos[n]] /\ t[pos[n] + 1] = s[pos[n] + 1] /\ t[pos[n] + 2] = s[pos[n] + 2]
      BY <3>2
    <3> QED  BY <2>1, <3>1, <3>3 DEF Waits
  <2> QED  BY <2>2, <2>3
<1>6. ASSUME NEW i \in 2 .. (n + 1) - 1 PROVE Outer(h, t, q, i)
  <2>1. CASE i = n
    <3>1. n \in 2 .. n /\ q[n] = pos[n] /\ q[n + 1] = m + 1
      BY <1>2
    <3>2. CASE h[n] = "[v"
      BY <1>3, <1>5, <2>1, <3>1, <3>2 DEF Waits, Outer
    <3>3. CASE h[n] # "[v"
      <4>1. q[n + 1] = q[n] + 3
        <5>1. m = pos[n] + 2
          BY <1>5, <3>3, WaitsFacts
        <5> QED  BY <1>3, <3>1, <5>1
      <4> QED  BY <1>5, <2>1, <3>1, <3>3, <4>1 DEF Waits, Outer
    <3> QED  BY <3>2, <3>3
  <2>2. CASE i # n
    <3>1. i \in 2 .. n - 1 /\ i \in 2 .. n /\ i + 1 \in 2 .. n
      BY <2>2
    <3>2. q[i] = pos[i] /\ q[i + 1] = pos[i + 1]
      BY <1>2, <3>1
    <3>3. Outer(h, t, pos, i)
      BY <1>4, <3>1 DEF Levels
    <3> QED  BY <3>2, <3>3 DEF Outer
  <2> QED  BY <2>1, <2>2
<1>7. \A i \in 2 .. n + 1 : q[i] \in Nat /\ q[i] > 0
  <2>1. \A i \in 2 .. n : q[i] \in Nat /\ q[i] > 0
    BY <1>1, <1>2 DEF Levels
  <2> QED  BY <1>2, <2>1
<1>8. ASSUME NEW i \in 2 .. n + 1, NEW j \in 2 .. n + 1, i < j PROVE q[i] < q[j]
  <2>1. i \in 2 .. n /\ q[i] = pos[i] /\ pos[i] \in Nat
    BY <1>1, <1>2, <1>8 DEF Levels
  <2>2. CASE j = n + 1
    <3>1. i = n \/ pos[i] < pos[n]
      BY <1>1, <2>1 DEF Levels
    <3> QED  BY <1>2, <1>3, <2>1, <2>2, <3>1
  <2>3. CASE j # n + 1
    <3>1. j \in 2 .. n /\ q[j] = pos[j]
      BY <1>2, <2>3
    <3> QED  BY <1>1, <1>8, <2>1, <3>1 DEF Levels
  <2> QED  BY <2>2, <2>3
<1>9. q[2] = 1
  BY <1>1, <1>2 DEF Levels
<1>10. Levels(h, n + 1, t, q)
  BY <1>6, <1>7, <1>8, <1>9 DEF Levels
<1>11. Innermost(h[n + 1], t, m + 1, q[n + 1])
  BY <1>2 DEF Innermost, Opened
<1> QED  BY <1>10, <1>11 DEF Nested

\* The same at the outermost level.
LEMMA LevelsBegin ==
  ASSUME NEW h, NEW t, Opened(h[2], t[1])
  PROVE  Nested(h, 2, t, 1)
<1> DEFINE q == [i \in 2 .. 2 |-> 1]
<1>1. q[2] = 1 /\ \A i \in 2 .. 2 : q[i] = 1
  OBVIOUS
<1> HIDE DEF q
<1>2. Levels(h, 2, t, q)
  BY <1>1 DEF Levels
<1>3. Innermost(h[2], t, 1, q[2])
  BY <1>1 DEF Innermost, Opened
<1> QED  BY <1>2, <1>3 DEF Nested

\* Where a value is due the stack waits for it.
LEMMA ValueIsAwaited ==
  ASSUME NEW g, NEW n \in Nat, n > 1, NEW s, NEW m, Nested(g, n, s, m), g[n] \in {"[0", "[,", "{:"},
         NEW h, \A i \in 1 .. n - 1 : h[i] = g[i], h[n] = After[g[n]]
  PROVE  Waiting(h, n, s, m)
<1>1. PICK pos : Levels(g, n, s, pos) /\ Innermost(g[n], s, m, pos[n])
  BY DEF Nested
<1>2. Levels(h, n, s, pos)
  BY <1>1, LevelsStable
<1>3. Waits(h[n], s, m, pos[n])
  BY <1>1 DEF After, Innermost, Waits
<1> QED  BY <1>2, <1>3 DEF Waiting

\* Where a list or an object may end it is on top of the stack, which below it waits
\* for the value.
LEMMA LevelsShrink ==
  ASSUME NEW g, NEW n \in Nat, n > 1, NEW s, NEW m, Nested(g, n, s, m),
         CanEnd(g[n])
  PROVE  /\ m \in Nat /\ m > 0
         /\ s[m].kind = IF g[n] \in {"[0", "[v"} THEN "list" ELSE "object"
         /\ n = 2 => m = 1
         /\ n # 2 => Waiting(g, n - 1, s, m - 1)
<1>1. PICK pos : Levels(g, n, s, pos) /\ Innermost(g[n], s, m, pos[n])
  BY DEF Nested
<1>2. pos[n] \in Nat /\ pos[n] > 0
  BY <1>1, LevelsFacts
<1>3. m = pos[n] /\ s[m].kind = IF g[n] \in {"[0", "[v"} THEN "list" ELSE "object"
  BY <1>1 DEF Innermost, CanEnd
<1>4. n = 2 => m = 1
  BY <1>1, <1>3 DEF Levels
<1>5. ASSUME n # 2 PROVE Waiting(g, n - 1, s, m - 1)
  <2>1. n - 1 \in 2 .. n - 1 /\ (n - 1) + 1 = n
    BY <1>5
  <2>2. Levels(g, n - 1, s, pos)
    <3>1. \A i \in 2 .. n - 1 : i \in 2 .. n
      OBVIOUS
    <3>2. \A i \in 2 .. (n - 1) - 1 : i \in 2 .. n - 1
      OBVIOUS
    <3> QED  BY <1>1, <3>1, <3>2 DEF Levels
  <2>3. Outer(g, s, pos, n - 1) /\ pos[n - 1] \in Nat /\ pos[n] = m
    BY <1>1, <1>3, <2>1, LevelsFacts DEF Levels
  <2>4. Waits(g[n - 1], s, m - 1, pos[n - 1])
    <3>1. CASE g[n - 1] = "[v"
      <4>1. s[pos[n - 1]].kind = "list" /\ m = pos[n - 1] + 1
        BY <2>1, <2>3, <3>1 DEF Outer
      <4>2. m = pos[n - 1] + 1
        BY <4>1
      <4>3. m - 1 = pos[n - 1]
        BY <2>3, <4>2
      <4> QED  BY <3>1, <4>1, <4>3 DEF Waits
    <3>2. CASE g[n - 1] # "[v"
      <4>1. /\ g[n - 1] = "{v" /\ s[pos[n - 1]].kind = "object"
            /\ s[pos[n - 1] + 1].kind = "scalar" /\ s[pos[n - 1] + 2].kind = "colon"
            /\ m = pos[n - 1] + 3
        BY <2>1, <2>3, <3>2 DEF Outer
      <4>2. m = pos[n - 1] + 3
        BY <4>1
      <4>3. m - 1 = pos[n - 1] + 2
        BY <2>3, <4>2
      <4> QED  BY <4>1, <4>3 DEF Waits
    <3> QED  BY <3>1, <3>2
  <2> QED  BY <2>2, <2>4 DEF Waiting
<1> QED  BY <1>2, <1>3, <1>4, <1>5

\* A stack that waits for a value has a list or a colon on top, the latter on a key and
\* an object; with the value in the list or the object, grammar and stack correspond.
LEMMA ValueIsTaken ==
  ASSUME NEW g, NEW n \in Nat, n > 1, NEW s, NEW m \in Nat, Waiting(g, n, s, m)
  PROVE  /\ s[m].kind \in {"list", "colon"} /\ m > 0
         /\ s[m].kind = "list" =>
              \A t : t[m].kind = "list" /\ (\A k \in 1 .. m - 1 : t[k] = s[k]) => Nested(g, n, t, m)
         /\ s[m].kind = "colon" =>
              /\ m > 2 /\ s[m - 1].kind = "scalar" /\ s[m - 2].kind = "object"
              /\ \A t : Replaces(t, s, m) => Nested(g, n, t, m - 2)
<1>1. PICK pos : Levels(g, n, s, pos) /\ Waits(g[n], s, m, pos[n])
  BY DEF Waiting
<1>2. pos[n] \in Nat /\ pos[n] > 0
  BY <1>1, LevelsFacts
<1>3. CASE g[n] = "[v"
  <2>1. m = pos[n]
    BY <1>1, <1>3, WaitsFacts
  <2>2. s[m].kind = "list"
    BY <1>1, <1>3, <2>1 DEF Waits
  <2>3. ASSUME NEW t, t[m].kind = "list", \A k \in 1 .. m - 1 : t[k] = s[k]
        PROVE  Nested(g, n, t, m)
    <3>1. Levels(g, n, t, pos)
      <4>1. \A k \in 1 .. pos[n] - 1 : t[k] = s[k]
        BY <2>1, <2>3
      <4> QED  BY <1>1, <4>1, LevelsStable
    <3>2. Innermost(g[n], t, m, pos[n])
      BY <1>3, <2>1, <2>3 DEF Innermost
    <3> QED  BY <3>1, <3>2 DEF Nested
  <2>4. m > 0
    BY <1>2, <2>1
  <2> QED  BY <2>2, <2>3, <2>4
<1>4. CASE g[n] # "[v"
  <2> DEFINE p == pos[n]
  <2> HIDE DEF p
  <2>1. m = p + 2 /\ p \in Nat /\ p > 0
    BY <1>1, <1>2, <1>4, WaitsFacts DEF p
  <2>2. /\ g[n] = "{v" /\ s[p].kind = "object" /\ s[p + 1].kind = "scalar"
        /\ s[p + 2].kind = "colon"
    BY <1>1, <1>4 DEF Waits, p
  <2>3. m - 1 = p + 1 /\ m - 2 = p /\ m > 2 /\ m > 0 /\ m - 3 = p - 1
    BY <2>1
  <2>4. ASSUME NEW t, Replaces(t, s, m) PROVE Nested(g, n, t, m - 2)
    <3>1. Levels(g, n, t, pos)
      <4>1. \A k \in 1 .. pos[n] - 1 : t[k] = s[k]
        BY <2>3, <2>4 DEF p, Replaces
      <4> QED  BY <1>1, <4>1, LevelsStable
    <3>2. Innermost(g[n], t, m - 2, pos[n])
      BY <2>2, <2>3, <2>4 DEF Innermost, p, Replaces
    <3> QED  BY <3>1, <3>2 DEF Nested
  <2>5. /\ s[m].kind = "colon" /\ s[m - 1].kind = "scalar" /\ s[m - 2].kind = "object"
    BY <2>1, <2>2, <2>3
  <2> QED  BY <2>3, <2>4, <2>5
<1> QED  BY <1>3, <1>4

\* A comma is expected behind a value only, and changes nothing on the stack.
LEMMA CommaIsTaken ==
  ASSUME NEW g, NEW n \in Nat, n > 1, NEW s, NEW m, Nested(g, n, s, m),
         NEW h, \A i \in 1 .. n - 1 : h[i] = g[i], BehindComma(g[n], h[n])
  PROVE  m \in Nat /\ m > 0 /\ Compound(s[m]) /\ Nested(h, n, s, m)
<1>1. PICK pos : Levels(g, n, s, pos) /\ Innermost(g[n], s, m, pos[n])
  BY DEF Nested
<1>2. pos[n] \in Nat /\ pos[n] > 0
  BY <1>1, LevelsFacts
<1>3. Levels(h, n, s, pos)
  BY <1>1, LevelsStable
<1>4. m = pos[n] /\ Compound(s[m]) /\ Innermost(h[n], s, m, pos[n])
  BY <1>1 DEF Innermost, BehindComma, Compound
<1> QED  BY <1>2, <1>3, <1>4 DEF Nested

\* A key and its colon go on top of the object.
LEMMA KeyIsTaken ==
  ASSUME NEW g, NEW n \in Nat, n > 1, NEW s, NEW m, Nested(g, n, s, m),
         NEW h, \A i \in 1 .. n - 1 : h[i] = g[i],
         NEW t, \A k \in 1 .. m : t[k] = s[k], KeyRead(g[n], h[n], t[m + 1])
  PROVE  m \in Nat /\ m > 0 /\ KeyBase(g[n], s[m]) /\ Nested(h, n, t, m + 1)
<1>1. PICK pos : Levels(g, n, s, pos) /\ Innermost(g[n], s, m, pos[n])
  BY DEF Nested
<1> DEFINE p == pos[n]
<1>2. p \in Nat /\ p > 0
  BY <1>1, LevelsFacts
<1>3. CASE g[n] = "{k"
  <2>1. m = p + 1
    BY <1>1, <1>3 DEF Innermost
  <2>2. s[p].kind = "object" /\ s[p + 1].kind = "scalar"
    BY <1>1, <1>3 DEF Innermost
  <2>3. m \in Nat /\ m > 0 /\ m + 1 = p + 2 /\ p \in 1 .. m /\ p + 1 \in 1 .. m
    <3> HIDE DEF p
    <3> QED  BY <1>2, <2>1
  <2>4. t[p] = s[p] /\ t[p + 1] = s[p + 1]
    BY <2>3
  <2>5. \A k \in 1 .. p - 1 : t[k] = s[k]
    <3>1. \A k \in 1 .. p - 1 : k \in 1 .. m
      <4> HIDE DEF p
      <4> QED  BY <1>2, <2>1
    <3> QED  BY <3>1
  <2>6. Levels(h, n, t, pos)
    BY <1>1, <2>5, LevelsStable
  <2>7. Innermost(h[n], t, m + 1, p)
    BY <1>3, <2>2, <2>3, <2>4 DEF Innermost, KeyRead
  <2> QED  BY <1>3, <2>1, <2>2, <2>3, <2>6, <2>7 DEF Nested, KeyBase
<1>4. CASE g[n] # "{k"
  <2>1. m = p
    BY <1>1, <1>4 DEF Innermost, KeyRead
  <2>2. s[p].kind = "object"
    BY <1>1, <1>4 DEF Innermost, KeyRead
  <2>3. m \in Nat /\ m > 0 /\ p \in 1 .. m
    <3> HIDE DEF p
    <3> QED  BY <1>2, <2>1
  <2>4. t[p] = s[p]
    BY <2>3
  <2>5. \A k \in 1 .. p - 1 : t[k] = s[k]
    <3>1. \A k \in 1 .. p - 1 : k \in 1 .. m
      <4> HIDE DEF p
      <4> QED  BY <1>2, <2>1
    <3> QED  BY <3>1
  <2>6. Levels(h, n, t, pos)
    BY <1>1, <2>5, LevelsStable
  <2>7. Innermost(h[n], t, m + 1, p)
    BY <1>4, <2>1, <2>2, <2>4 DEF Innermost, KeyRead
  <2> QED  BY <1>4, <2>1, <2>2, <2>3, <2>6, <2>7 DEF Nested, KeyBase
<1> QED  BY <1>3, <1>4

-----------------------------------------------------------------------------
(* Tokens and their text. *)

Text == Seq(Lexeme)

Token ==
  [kind : {"scalar"}, text : Text, type : {"STRING", "NUL", "BOOLEAN", "INTEGER", "FLOAT"}]
    \cup [kind : {"list"}, text : Text, size : Nat]
    \cup [kind : {"object"}, text : Text, keys : SUBSET Word]
    \cup [kind : {"colon"}, text : Text]

\* The lexemes of a sequence of tokens.
Texts(s) == FlattenSeq([i \in DOMAIN s |-> s[i].text])

\* What every token has.
LEMMA TokenFacts ==
  ASSUME NEW t \in Token
  PROVE  t.text \in Text /\ t.kind \in {"scalar", "list", "object", "colon"}
<1>1. CASE t \in [kind : {"scalar"}, text : Text,
                  type : {"STRING", "NUL", "BOOLEAN", "INTEGER", "FLOAT"}]
  BY <1>1
<1>2. CASE t \in [kind : {"list"}, text : Text, size : Nat]
  BY <1>2
<1>3. CASE t \in [kind : {"object"}, text : Text, keys : SUBSET Word]
  BY <1>3
<1>4. CASE t \in [kind : {"colon"}, text : Text]
  BY <1>4
<1> QED  BY <1>1, <1>2, <1>3, <1>4 DEF Token

\* What the kind of a token says about it.
LEMMA TokenKind ==
  ASSUME NEW t \in Token
  PROVE  /\ t.kind = "list" => t \in [kind : {"list"}, text : Text, size : Nat]
         /\ t.kind = "object" => t \in [kind : {"object"}, text : Text, keys : SUBSET Word]
         /\ t.kind = "scalar" =>
              t \in [kind : {"scalar"}, text : Text,
                     type : {"STRING", "NUL", "BOOLEAN", "INTEGER", "FLOAT"}]
<1>1. CASE t \in [kind : {"scalar"}, text : Text,
                  type : {"STRING", "NUL", "BOOLEAN", "INTEGER", "FLOAT"}]
  <2>1. t.kind = "scalar"
    BY <1>1
  <2> QED  BY <1>1, <2>1
<1>2. CASE t \in [kind : {"list"}, text : Text, size : Nat]
  <2>1. t.kind = "list"
    BY <1>2
  <2> QED  BY <1>2, <2>1
<1>3. CASE t \in [kind : {"object"}, text : Text, keys : SUBSET Word]
  <2>1. t.kind = "object"
    BY <1>3
  <2> QED  BY <1>3, <2>1
<1>4. CASE t \in [kind : {"colon"}, text : Text]
  <2>1. t.kind = "colon"
    BY <1>4
  <2> QED  BY <1>4, <2>1
<1> QED  BY <1>1, <1>2, <1>3, <1>4 DEF Token

\* Punctuation is made of lexemes.
LEMMA PunctuationFacts ==
  /\ <<"{">> \in Lexeme /\ <<"}">> \in Lexeme /\ <<"[">> \in Lexeme /\ <<"]">> \in Lexeme
  /\ <<":">> \in Lexeme /\ <<",">> \in Lexeme
<1>1. ASSUME NEW c \in {"{", "}", "[", "]", ":", ","} PROVE <<c>> \in Lexeme
  <2>1. c \in Symbol
    BY DEF Symbol
  <2>2. <<c>> \in Word /\ Len(<<c>>) = 1 /\ <<c>>[1] = c
    BY <2>1, ShortSeq DEF Word
  <2>3. c # Quote /\ <<c>> # <<>>
    BY <2>2 DEF Quote
  <2> QED  BY <2>2, <2>3 DEF Lexeme
<1> QED  BY <1>1

\* The tokens that are pushed for punctuation.
LEMMA NewTokens ==
  /\ ListToken \in Token /\ ListToken.kind = "list" /\ ListToken.text = <<<<"[">>>>
  /\ ObjectToken \in Token /\ ObjectToken.kind = "object" /\ ObjectToken.text = <<<<"{">>>>
  /\ ObjectToken.keys = {}
  /\ ColonToken \in Token /\ ColonToken.kind = "colon" /\ ColonToken.text = <<<<":">>>>
<1>1. <<<<"{">>>> \in Text /\ <<<<"[">>>> \in Text /\ <<<<":">>>> \in Text
  BY PunctuationFacts, ShortSeq DEF Text
<1>2. ListToken \in [kind : {"list"}, text : Text, size : Nat]
  BY <1>1 DEF ListToken
<1>3. ObjectToken \in [kind : {"object"}, text : Text, keys : SUBSET Word]
  BY <1>1 DEF ObjectToken
<1>4. ColonToken \in [kind : {"colon"}, text : Text]
  BY <1>1 DEF ColonToken
<1>5. /\ ListToken.kind = "list" /\ ListToken.text = <<<<"[">>>>
      /\ ObjectToken.kind = "object" /\ ObjectToken.text = <<<<"{">>>>
      /\ ObjectToken.keys = {}
      /\ ColonToken.kind = "colon" /\ ColonToken.text = <<<<":">>>>
  BY DEF ListToken, ObjectToken, ColonToken
<1> QED  BY <1>2, <1>3, <1>4, <1>5 DEF Token

\* A scalar.
LEMMA ScalarTokenFacts ==
  ASSUME NEW w \in Lexeme, NEW type \in {"STRING", "NUL", "BOOLEAN", "INTEGER", "FLOAT"}
  PROVE  /\ ScalarToken(type, <<w>>) \in Token /\ ScalarToken(type, <<w>>).kind = "scalar"
         /\ ScalarToken(type, <<w>>).text = <<w>> /\ ScalarToken(type, <<w>>).type = type
<1>1. <<w>> \in Text
  BY ShortSeq DEF Text
<1>2. ScalarToken(type, <<w>>) \in
        [kind : {"scalar"}, text : Text, type : {"STRING", "NUL", "BOOLEAN", "INTEGER", "FLOAT"}]
  BY <1>1 DEF ScalarToken
<1> QED  BY <1>2 DEF ScalarToken, Token

\* A list or an object that ends.
LEMMA EndedFacts ==
  ASSUME NEW t \in Token, t.kind \in {"list", "object"}, NEW w \in Lexeme
  PROVE  LET e == [t EXCEPT !.text = Append(@, w)]
         IN  e \in Token /\ e.kind = t.kind /\ e.text = Append(t.text, w)
<1>1. t.text \in Text
  BY TokenFacts
<1>2. Append(t.text, w) \in Text
  BY <1>1, AppendProperties DEF Text
<1>3. CASE t.kind = "list"
  <2>1. t \in [kind : {"list"}, text : Text, size : Nat]
    BY <1>3, TokenKind
  <2>2. [t EXCEPT !.text = Append(@, w)] \in [kind : {"list"}, text : Text, size : Nat]
    BY <1>2, <2>1
  <2> QED  BY <2>1, <2>2 DEF Token
<1>4. CASE t.kind = "object"
  <2>1. t \in [kind : {"object"}, text : Text, keys : SUBSET Word]
    BY <1>4, TokenKind
  <2>2. [t EXCEPT !.text = Append(@, w)] \in [kind : {"object"}, text : Text, keys : SUBSET Word]
    BY <1>2, <2>1
  <2> QED  BY <2>1, <2>2 DEF Token
<1> QED  BY <1>3, <1>4

\* push_back.
LEMMA PushBackFacts ==
  ASSUME NEW t \in Token, t.kind = "list", NEW v \in Token
  PROVE  /\ PushBack(t, v) \in Token /\ PushBack(t, v).kind = "list"
         /\ PushBack(t, v).text = t.text \o v.text
<1>1. t.text \in Text /\ v.text \in Text
  BY TokenFacts
<1>2. t.text \o v.text \in Text
  BY <1>1, ConcatProperties DEF Text
<1>3. t \in [kind : {"list"}, text : Text, size : Nat]
  BY TokenKind
<1> DEFINE x == t.text \o v.text
           n == t.size + 1
<1>3a. n \in Nat /\ x \in Text /\ PushBack(t, v) = [t EXCEPT !.text = x, !.size = n]
  BY <1>2, <1>3 DEF PushBack
<1> HIDE DEF x, n
<1>4. PushBack(t, v) \in [kind : {"list"}, text : Text, size : Nat]
  BY <1>3, <1>3a
<1>5. PushBack(t, v).text = t.text \o v.text /\ PushBack(t, v).kind = "list"
  BY <1>3 DEF PushBack
<1> QED  BY <1>4, <1>5 DEF Token

\* insert.
LEMMA InsertFacts ==
  ASSUME NEW t \in Token, t.kind = "object", NEW k \in Token, RawKey(k) \in Word, NEW v \in Token
  PROVE  /\ Insert(t, k, v) \in Token /\ Insert(t, k, v).kind = "object"
         /\ Insert(t, k, v).text = t.text \o k.text \o <<<<":">>>> \o v.text
         /\ Insert(t, k, v).keys = t.keys \cup {RawKey(k)}
<1>1. t.text \in Text /\ v.text \in Text /\ k.text \in Text /\ <<<<":">>>> \in Text
  BY TokenFacts, PunctuationFacts, ShortSeq DEF Text
<1> DEFINE x == t.text \o k.text \o <<<<":">>>> \o v.text
<1>2. x \in Text
  BY <1>1, ConcatProperties DEF Text
<1>3. t \in [kind : {"object"}, text : Text, keys : SUBSET Word]
  BY TokenKind
<1>4. Insert(t, k, v) = [t EXCEPT !.text = x, !.keys = t.keys \cup {RawKey(k)}]
  BY <1>3 DEF Insert
<1> HIDE DEF x
<1>5. Insert(t, k, v) \in [kind : {"object"}, text : Text, keys : SUBSET Word]
  BY <1>2, <1>3, <1>4
<1>6. /\ Insert(t, k, v).text = x /\ Insert(t, k, v).kind = "object"
      /\ Insert(t, k, v).keys = t.keys \cup {RawKey(k)}
  BY <1>3, <1>4
<1> QED  BY <1>5, <1>6 DEF Token, x

\* The same of the keys.
LEMMA InsertKeys ==
  ASSUME NEW t \in Token, t.kind = "object", NEW k \in Token, RawKey(k) \in Word, NEW v \in Token
  PROVE  Insert(t, k, v).kind = "object" /\ Insert(t, k, v).keys = t.keys \cup {RawKey(k)}
BY InsertFacts

\* The lexemes of one token more.
LEMMA TextsAppend ==
  ASSUME NEW s \in Seq(Token), NEW t \in Token
  PROVE  /\ Texts(<<>>) = <<>>
         /\ Texts(s) \in Text
         /\ Texts(Append(s, t)) = Texts(s) \o t.text
<1> DEFINE p(u) == [i \in DOMAIN u |-> u[i].text]
<1>1. \A x \in Token : x.text \in Text
  BY TokenFacts
<1>2. \A u : Texts(u) = FlattenSeq(p(u))
  BY DEF Texts
<1>3. p(<<>>) = <<>>
  OBVIOUS
<1>4. p(s) \in Seq(Text) /\ Len(p(s)) = Len(s)
  <2>1. \A i \in 1 .. Len(s) : s[i] \in Token
    OBVIOUS
  <2>2. p(s) \in [1 .. Len(s) -> Text] /\ Len(s) \in Nat
    BY <1>1, <2>1
  <2> HIDE DEF p
  <2> QED  BY <2>2
<1>5. p(Append(s, t)) = Append(p(s), t.text)
  <2>1. /\ Append(s, t) \in Seq(Token) /\ Len(Append(s, t)) = Len(s) + 1
        /\ \A i \in 1 .. Len(s) : Append(s, t)[i] = s[i]
        /\ Append(s, t)[Len(s) + 1] = t
        /\ DOMAIN Append(s, t) = 1 .. (Len(s) + 1) /\ DOMAIN s = 1 .. Len(s)
        /\ Len(s) \in Nat
    OBVIOUS
  <2>2. p(s) \in Seq(Text) /\ Len(p(s)) = Len(s) /\ t.text \in Text
    BY <1>1, <1>4, <2>1
  <2>3. /\ Append(p(s), t.text) \in Seq(Text)
        /\ Len(Append(p(s), t.text)) = Len(s) + 1
        /\ \A i \in 1 .. Len(s) : Append(p(s), t.text)[i] = p(s)[i]
        /\ Append(p(s), t.text)[Len(s) + 1] = t.text
    BY <2>2, AppendProperties
  <2>4. p(Append(s, t)) \in Seq(Text) /\ Len(p(Append(s, t))) = Len(s) + 1
    <3>1. \A i \in 1 .. (Len(s) + 1) : Append(s, t)[i].text \in Text
      BY <1>1, <2>1
    <3>2. p(Append(s, t)) \in [1 .. Len(s) + 1 -> Text] /\ Len(s) + 1 \in Nat
      BY <2>1, <3>1
    <3> HIDE DEF p
    <3> QED  BY <3>2
  <2>5. \A i \in 1 .. (Len(s) + 1) : p(Append(s, t))[i] = Append(p(s), t.text)[i]
    BY <2>1, <2>3
  <2> QED  BY <2>3, <2>4, <2>5, SeqEqual
<1> HIDE DEF p
<1>6. t.text \in Text
  BY <1>1
<1>7. /\ FlattenSeq(p(s)) \in Text
      /\ FlattenSeq(Append(p(s), t.text)) = FlattenSeq(p(s)) \o t.text
      /\ FlattenSeq(<<>>) = <<>>
  BY <1>4, <1>6, FlattenAppend DEF Text
<1> QED  BY <1>2, <1>3, <1>5, <1>7

\* Texts are closed under concatenation,
LEMMA TextConcat ==
  ASSUME NEW p \in Text, NEW q \in Text
  PROVE  p \o q \in Text
BY ConcatProperties DEF Text

\* which is associative,
LEMMA TextAssociative ==
  ASSUME NEW p \in Text, NEW q \in Text, NEW r \in Text
  PROVE  (p \o q) \o r = p \o (q \o r)
BY ConcatAssociative DEF Text

Joined(p, q) == p \o q

\* as an operator that the provers do not know,
LEMMA JoinedFacts ==
  /\ \A p, q \in Text : Joined(p, q) \in Text
  /\ \A p, q, r \in Text : Joined(Joined(p, q), r) = Joined(p, Joined(q, r))
BY TextConcat, TextAssociative DEF Joined

\* and which is used four times when a value is inserted into an object.
LEMMA TextsRegrouped ==
  ASSUME NEW p \in Text, NEW q \in Text, NEW r \in Text, NEW u \in Text, NEW x \in Text
  PROVE  Joined(p, Joined(Joined(Joined(q, r), u), x)) =
           Joined(Joined(Joined(Joined(p, q), r), u), x)
<1>1. PICK d \in Text : d = Joined(q, r)
  BY JoinedFacts
<1>2. PICK e \in Text : e = Joined(d, u)
  BY JoinedFacts
<1>3. Joined(p, d) = Joined(Joined(p, q), r)
  BY <1>1, JoinedFacts
<1>4. Joined(p, e) = Joined(Joined(p, d), u)
  BY <1>2, JoinedFacts
<1>5. Joined(p, Joined(e, x)) = Joined(Joined(p, e), x)
  BY JoinedFacts
<1> QED  BY <1>1, <1>2, <1>3, <1>4, <1>5, Zenon

\* The beginning of a sequence.
LEMMA PrefixFacts ==
  ASSUME NEW S, NEW s \in Seq(S), NEW n \in 0 .. Len(s)
  PROVE  /\ SubSeq(s, 1, n) \in Seq(S) /\ Len(SubSeq(s, 1, n)) = n
         /\ \A i \in 1 .. n : SubSeq(s, 1, n)[i] = s[i]
<1>1. 1 \in Int /\ n \in Int /\ n \in Nat /\ \A i \in 1 .. n : s[i] \in S
  OBVIOUS
<1>2. /\ SubSeq(s, 1, n) \in Seq(S)
      /\ Len(SubSeq(s, 1, n)) = (IF 1 <= n THEN n - 1 + 1 ELSE 0)
      /\ \A i \in 1 .. n - 1 + 1 : SubSeq(s, 1, n)[i] = s[1 + i - 1]
  BY <1>1, SubSeqProperties
<1> DEFINE p == SubSeq(s, 1, n)
<1> HIDE DEF p
<1>3. (IF 1 <= n THEN n - 1 + 1 ELSE 0) = n /\ \A i \in 1 .. n : i \in 1 .. n - 1 + 1 /\ 1 + i - 1 = i
  BY <1>1
<1>4. Len(p) = n
  <2>1. Len(p) = (IF 1 <= n THEN n - 1 + 1 ELSE 0)
    BY <1>2 DEF p
  <2> QED  BY <1>3, <2>1
<1>5. \A i \in 1 .. n : p[i] = s[i]
  <2>1. \A i \in 1 .. n - 1 + 1 : p[i] = s[1 + i - 1]
    BY <1>2 DEF p
  <2> QED  BY <1>3, <2>1
<1> QED  BY <1>2, <1>4, <1>5 DEF p

\* A sequence is its front and its last element.
LEMMA FrontLast ==
  ASSUME NEW S, NEW s \in Seq(S), s # <<>>
  PROVE  s = Append(Front(s), Last(s)) /\ Front(s) \in Seq(S) /\ Last(s) \in S
<1>1. /\ Len(s) \in Nat \ {0} /\ Last(s) = s[Len(s)] /\ Last(s) \in S
      /\ Front(s) \in Seq(S)
  BY FrontFacts
<1>2. /\ Inner(s, Last(s)) \in Seq(S) /\ Len(Inner(s, Last(s))) = Len(s)
      /\ \A i \in 1 .. Len(s) - 1 : Inner(s, Last(s))[i] = s[i]
      /\ Inner(s, Last(s))[Len(s)] = Last(s)
  <2> DEFINE x == Last(s)
  <2>1. x \in S
    BY <1>1
  <2> HIDE DEF x
  <2>2. /\ Inner(s, x) \in Seq(S) /\ Len(Inner(s, x)) = Len(s)
        /\ \A i \in 1 .. Len(s) - 1 : Inner(s, x)[i] = s[i]
        /\ Inner(s, x)[Len(s)] = x
    BY <2>1, InnerFacts
  <2> QED  BY <2>2 DEF x
<1>3. \A i \in 1 .. Len(s) : Inner(s, Last(s))[i] = s[i]
  <2>1. \A i \in 1 .. Len(s) : i = Len(s) \/ i \in 1 .. Len(s) - 1
    BY <1>1
  <2> QED  BY <1>1, <1>2, <2>1
<1>4. Inner(s, Last(s)) = s
  <2> DEFINE r == Inner(s, Last(s))
  <2> HIDE DEF r
  <2>1. r \in Seq(S) /\ Len(r) = Len(s) /\ \A i \in 1 .. Len(r) : r[i] = s[i]
    BY <1>2, <1>3 DEF r
  <2>2. r = s
    BY <2>1, SeqEqual
  <2> QED  BY <2>2 DEF r
<1> QED  BY <1>1, <1>4 DEF Inner

\* A value that ends below holds what was read as much as the value did: pushed to
\* a list,
LEMMA TextsPushBack ==
  ASSUME NEW b \in Seq(Token), b # <<>>, Last(b).kind = "list", NEW v \in Token
  PROVE  /\ Inner(b, PushBack(Last(b), v)) \in Seq(Token)
         /\ Texts(Inner(b, PushBack(Last(b), v))) = Texts(b) \o v.text
<1>1. b = Append(Front(b), Last(b)) /\ Front(b) \in Seq(Token) /\ Last(b) \in Token
  BY FrontLast
<1> DEFINE p == PushBack(Last(b), v)
           f == Front(b)
           l == Last(b)
<1>2. p \in Token /\ p.text = l.text \o v.text
  BY <1>1, PushBackFacts
<1>3. f \in Seq(Token) /\ l \in Token /\ b = Append(f, l) /\ Inner(b, p) = Append(f, p)
  BY <1>1 DEF Inner
<1> HIDE DEF p, f, l
<1>4. Texts(b) = Texts(f) \o l.text /\ Texts(Append(f, p)) = Texts(f) \o (l.text \o v.text)
  BY <1>2, <1>3, TextsAppend
<1>5. Texts(f) \in Text /\ l.text \in Text /\ v.text \in Text
  BY <1>3, TokenFacts, TextsAppend
<1>6. Texts(f) \o (l.text \o v.text) = (Texts(f) \o l.text) \o v.text
  BY <1>5, TextAssociative
<1>7. Append(f, p) \in Seq(Token)
  BY <1>2, <1>3, AppendProperties
<1> QED  BY <1>3, <1>4, <1>6, <1>7 DEF p

\* and inserted into an object, in the place of the key and the colon.
LEMMA TextsInsert ==
  ASSUME NEW b \in Seq(Token), Len(b) > 2, b[Len(b)].text = <<<<":">>>>,
         b[Len(b) - 2].kind = "object", RawKey(b[Len(b) - 1]) \in Word, NEW v \in Token
  PROVE  LET a == SubSeq(b, 1, Len(b) - 3)
             o == Insert(b[Len(b) - 2], b[Len(b) - 1], v)
         IN  /\ Append(a, o) \in Seq(Token) /\ Texts(Append(a, o)) = Texts(b) \o v.text
             /\ Len(Append(a, o)) = Len(b) - 2 /\ Append(a, o)[Len(b) - 2] = o
             /\ \A i \in 1 .. Len(b) - 3 : Append(a, o)[i] = b[i]
             /\ a \in Seq(Token) /\ o \in Token
<1> DEFINE n == Len(b)
           a == SubSeq(b, 1, n - 3)
           t == b[n - 2]
           k == b[n - 1]
           c == b[n]
           o == Insert(t, k, v)
<1>1. n \in Nat /\ n > 2 /\ \A i \in 1 .. n : b[i] \in Token
  OBVIOUS
<1>1a. n - 3 \in 0 .. Len(b)
  BY <1>1
<1>1b. t.kind = "object" /\ RawKey(k) \in Word /\ c.text = <<<<":">>>>
  OBVIOUS
<1>2. t \in Token /\ k \in Token /\ c \in Token
  <2>1. n \in 1 .. n /\ n - 1 \in 1 .. n /\ n - 2 \in 1 .. n
    BY <1>1
  <2> QED  BY <1>1, <2>1
<1>3. /\ a \in Seq(Token) /\ Len(a) = n - 3
      /\ \A i \in 1 .. n - 3 : a[i] = b[i]
  BY <1>1a, PrefixFacts
<1>4. /\ o \in Token /\ o.text = t.text \o k.text \o <<<<":">>>> \o v.text
  <2> HIDE DEF t, k
  <2>1. t.kind = "object" /\ RawKey(k) \in Word /\ t \in Token /\ k \in Token
    BY <1>1b, <1>2
  <2> QED  BY <2>1, InsertFacts
<1>5. b = Append(Append(Append(a, t), k), c)
  <2> DEFINE d == Append(Append(Append(a, t), k), c)
  <2>1. /\ Append(a, t) \in Seq(Token) /\ Len(Append(a, t)) = n - 2
        /\ \A i \in 1 .. n - 3 : Append(a, t)[i] = b[i]
        /\ Append(a, t)[n - 2] = t
    <3> HIDE DEF a, t, n
    <3>1. (n - 3) + 1 = n - 2
      BY <1>1
    <3> QED  BY <1>2, <1>3, <3>1, AppendProperties
  <2> DEFINE x == Append(a, t)
  <2> HIDE DEF x
  <2>2. /\ Append(x, k) \in Seq(Token) /\ Len(Append(x, k)) = n - 1
        /\ \A i \in 1 .. n - 2 : Append(x, k)[i] = x[i]
        /\ Append(x, k)[n - 1] = k
    <3> HIDE DEF k, n
    <3>1. x \in Seq(Token) /\ Len(x) = n - 2 /\ (n - 2) + 1 = n - 1
      BY <1>1, <2>1 DEF x
    <3> QED  BY <1>2, <3>1, AppendProperties
  <2> DEFINE y == Append(x, k)
  <2> HIDE DEF y
  <2>3. /\ Append(y, c) \in Seq(Token) /\ Len(Append(y, c)) = n
        /\ \A i \in 1 .. n - 1 : Append(y, c)[i] = y[i]
        /\ Append(y, c)[n] = c
    <3> HIDE DEF c, n
    <3>1. y \in Seq(Token) /\ Len(y) = n - 1 /\ (n - 1) + 1 = n
      BY <1>1, <2>2 DEF y
    <3> QED  BY <1>2, <3>1, AppendProperties
  <2> DEFINE z == Append(y, c)
  <2> HIDE DEF z
  <2>4. ASSUME NEW i \in 1 .. n PROVE z[i] = b[i]
    <3>1. CASE i = n
      BY <2>3, <3>1 DEF z
    <3>2. CASE i = n - 1
      <4>1. i \in 1 .. n - 1
        BY <1>1, <3>2
      <4> QED  BY <2>2, <2>3, <3>2, <4>1 DEF z, y
    <3>3. CASE i = n - 2
      <4>1. i \in 1 .. n - 1 /\ i \in 1 .. n - 2
        BY <1>1, <3>3
      <4> QED  BY <2>1, <2>2, <2>3, <3>3, <4>1 DEF z, y, x
    <3>4. CASE i \in 1 .. n - 3
      <4>1. i \in 1 .. n - 1 /\ i \in 1 .. n - 2
        BY <1>1, <3>4
      <4> QED  BY <2>1, <2>2, <2>3, <3>4, <4>1 DEF z, y, x
    <3>5. i = n \/ i = n - 1 \/ i = n - 2 \/ i \in 1 .. n - 3
      BY <1>1
    <3> QED  BY <3>1, <3>2, <3>3, <3>4, <3>5
  <2>5. z \in Seq(Token) /\ Len(z) = Len(b) /\ \A i \in 1 .. Len(z) : z[i] = b[i]
    BY <2>3, <2>4 DEF z
  <2>6. z = b
    BY <2>5, SeqEqual
  <2> QED  BY <2>6 DEF z, y, x
<1>6. c.text = <<<<":">>>>
  OBVIOUS
<1> HIDE DEF a, t, k, c, o
<1>12. Texts(Append(a, o)) = Texts(b) \o v.text
  <2> DEFINE p == Texts(a)
             q == t.text
             r == k.text
             u == c.text
             x == v.text
  <2>1. p \in Text /\ q \in Text /\ r \in Text /\ u \in Text /\ x \in Text
    BY <1>2, <1>3, TokenFacts, TextsAppend
  <2>2. Append(a, t) \in Seq(Token) /\ Append(Append(a, t), k) \in Seq(Token)
    BY <1>2, <1>3, AppendProperties
  <2>3. Texts(Append(a, t)) = p \o q
    BY <1>2, <1>3, TextsAppend
  <2>4. Texts(Append(Append(a, t), k)) = Texts(Append(a, t)) \o r
    BY <1>2, <2>2, TextsAppend
  <2>5. Texts(Append(Append(Append(a, t), k), c)) = Texts(Append(Append(a, t), k)) \o u
    BY <1>2, <2>2, TextsAppend
  <2>6. Texts(Append(a, o)) = p \o (((q \o r) \o u) \o x)
    BY <1>3, <1>4, <1>6, TextsAppend
  <2> HIDE DEF p, q, r, u, x
  <2>7. p \o (((q \o r) \o u) \o x) = (((p \o q) \o r) \o u) \o x
    <3>1. Joined(p, Joined(Joined(Joined(q, r), u), x)) =
            Joined(Joined(Joined(Joined(p, q), r), u), x)
      BY <2>1, TextsRegrouped
    <3> QED  BY <3>1, Zenon DEF Joined
  <2>14. Texts(Append(a, o)) = Texts(Append(Append(Append(a, t), k), c)) \o x
    BY <2>3, <2>4, <2>5, <2>6, <2>7, Zenon
  <2> QED  BY <1>5, <2>14 DEF x
<1>13. /\ Append(a, o) \in Seq(Token) /\ Len(Append(a, o)) = n - 2 /\ Append(a, o)[n - 2] = o
       /\ \A i \in 1 .. n - 3 : Append(a, o)[i] = b[i]
  <2> HIDE DEF n
  <2>1. (n - 3) + 1 = n - 2
    BY <1>1
  <2> QED  BY <1>3, <1>4, <2>1, AppendProperties
<1> QED  BY <1>3, <1>4, <1>12, <1>13 DEF a, o, t, k

-----------------------------------------------------------------------------
(* What the parser has kept of what it read. *)

\* The lexeme at a is a key, for the colon behind it.
KeyAt(inp, a) == inp[a][1] = Quote /\ inp[a + 1] = <<":">>

\* A lexeme without its first and last character.
Between(w) == SubSeq(w, 2, Len(w) - 1)

\* The keys all were read before b.
KeysSeen(keys, inp, b) ==
  \A k \in keys : \E a \in 1 .. b - 1 : KeyAt(inp, a) /\ k = Between(inp[a])

\* The key at i - 1 and the colon behind it were read, and the keys of the object
\* below came before.
ColonHeld(s, i, inp) ==
  \E b \in 1 .. Len(inp) - 1 :
    KeyAt(inp, b) /\ s[i - 1].text = <<inp[b]>> /\ KeysSeen(s[i - 2].keys, inp, b)

\* A scalar on the stack is a key on its object, a colon is on a key.
Held(s, i, inp) ==
  /\ s[i].kind = "object" => KeysSeen(s[i].keys, inp, Len(inp))
  /\ s[i].kind = "scalar" => i > 1 /\ s[i - 1].kind = "object" /\ s[i].type = "STRING"
  /\ s[i].kind = "colon" =>
       /\ i > 2 /\ s[i].text = <<<<":">>>> /\ s[i - 1].kind = "scalar" /\ s[i - 2].kind = "object"
       /\ ColonHeld(s, i, inp)

\* A key on top of the stack was read last.
TopKey(s, inp) ==
  s # <<>> /\ Last(s).kind = "scalar" =>
    Len(inp) > 0 /\ Last(s).text = <<inp[Len(inp)]>> /\ inp[Len(inp)][1] = Quote

\* A scalar that is a number is one of its type.
NumberHeld(v) ==
  v.kind = "scalar" /\ v.type \in {"INTEGER", "FLOAT"} => IsNumber(v.text[1], v.type)

\* The stack and the final value hold what was read.
Kept(s, f, inp) ==
  /\ s \in Seq(Token) /\ f \in Seq(Token)
  /\ \A i \in 1 .. Len(s) : Held(s, i, inp)
  /\ TopKey(s, inp)
  /\ f = <<>> => Texts(s) = WithoutCommas(inp)
  /\ f # <<>> => /\ s = <<>> /\ Len(f) = 1 /\ NumberHeld(f[1])
                 /\ f[1].text = WithoutCommas(inp)

\* A key came twice.
Repeats(inp) ==
  \E a, b \in 1 .. Len(inp) - 1 : a < b /\ KeyAt(inp, a) /\ KeyAt(inp, b) /\ inp[a] = inp[b]

\* What was read before stays where it is.
LEMMA ReadAppend ==
  ASSUME NEW inp \in Text, NEW w \in Lexeme
  PROVE  /\ Append(inp, w) \in Text /\ Len(inp) \in Nat
         /\ Len(Append(inp, w)) = Len(inp) + 1
         /\ \A a \in 1 .. Len(inp) : Append(inp, w)[a] = inp[a]
         /\ Append(inp, w)[Len(inp) + 1] = w
         /\ \A a \in 1 .. Len(inp) - 1 : KeyAt(Append(inp, w), a) = KeyAt(inp, a)
<1>1. /\ Append(inp, w) \in Text /\ Len(inp) \in Nat
      /\ Len(Append(inp, w)) = Len(inp) + 1
      /\ \A a \in 1 .. Len(inp) : Append(inp, w)[a] = inp[a]
      /\ Append(inp, w)[Len(inp) + 1] = w
  BY AppendProperties, LenProperties DEF Text
<1>2. ASSUME NEW a \in 1 .. Len(inp) - 1 PROVE KeyAt(Append(inp, w), a) = KeyAt(inp, a)
  <2>1. a \in 1 .. Len(inp) /\ a + 1 \in 1 .. Len(inp)
    BY <1>1
  <2>2. Append(inp, w)[a] = inp[a] /\ Append(inp, w)[a + 1] = inp[a + 1]
    BY <1>1, <2>1
  <2> QED  BY <2>2 DEF KeyAt
<1> QED  BY <1>1, <1>2

\* Keys that were seen stay so.
LEMMA KeysStay ==
  ASSUME NEW inp \in Text, NEW w \in Lexeme, NEW b \in Nat, b <= Len(inp), NEW keys,
         KeysSeen(keys, inp, b)
  PROVE  KeysSeen(keys, Append(inp, w), b) /\ KeysSeen(keys, Append(inp, w), Len(Append(inp, w)))
<1> DEFINE r == Append(inp, w)
<1>1. /\ Len(inp) \in Nat /\ Len(r) = Len(inp) + 1
      /\ \A a \in 1 .. Len(inp) : r[a] = inp[a]
      /\ \A a \in 1 .. Len(inp) - 1 : KeyAt(r, a) = KeyAt(inp, a)
  BY ReadAppend
<1> HIDE DEF r
<1>2. ASSUME NEW k \in keys
      PROVE  \E a \in 1 .. b - 1 : a \in 1 .. Len(r) - 1 /\ KeyAt(r, a) /\ k = Between(r[a])
  <2>1. PICK a \in 1 .. b - 1 : KeyAt(inp, a) /\ k = Between(inp[a])
    BY DEF KeysSeen
  <2>2. a \in 1 .. Len(inp) - 1 /\ a \in 1 .. Len(inp) /\ a \in 1 .. Len(r) - 1
    BY <1>1
  <2>3. KeyAt(r, a) /\ r[a] = inp[a]
    BY <1>1, <2>1, <2>2
  <2> QED  BY <2>1, <2>2, <2>3
<1> QED  BY <1>2 DEF KeysSeen, r

\* What a token holds depends on what is below it, and is not lost by reading.
LEMMA HeldStays ==
  ASSUME NEW inp \in Text, NEW w \in Lexeme, NEW s, NEW t, NEW i \in Nat, i > 0,
         \A k \in 1 .. i : t[k] = s[k], Held(s, i, inp)
  PROVE  Held(t, i, Append(inp, w))
<1> DEFINE r == Append(inp, w)
<1>1. /\ Len(inp) \in Nat /\ Len(r) = Len(inp) + 1
      /\ \A a \in 1 .. Len(inp) : r[a] = inp[a]
      /\ \A a \in 1 .. Len(inp) - 1 : KeyAt(r, a) = KeyAt(inp, a)
  BY ReadAppend
<1>2. t[i] = s[i] /\ (i > 1 => t[i - 1] = s[i - 1]) /\ (i > 2 => t[i - 2] = s[i - 2])
  <2>1. i \in 1 .. i /\ (i > 1 => i - 1 \in 1 .. i) /\ (i > 2 => i - 2 \in 1 .. i)
    OBVIOUS
  <2> QED  BY <2>1
<1>3. s[i].kind = "object" => KeysSeen(s[i].keys, r, Len(r))
  <2>1. KeysSeen(s[i].keys, inp, Len(inp)) => KeysSeen(s[i].keys, r, Len(r))
    BY <1>1, KeysStay
  <2> QED  BY <2>1 DEF Held
<1> HIDE DEF r
<1>4. ASSUME i > 2, ColonHeld(s, i, inp) PROVE ColonHeld(t, i, r)
  <2>1. PICK b \in 1 .. Len(inp) - 1 :
          KeyAt(inp, b) /\ s[i - 1].text = <<inp[b]>> /\ KeysSeen(s[i - 2].keys, inp, b)
    BY <1>4 DEF ColonHeld
  <2>2. b \in 1 .. Len(inp) /\ b \in 1 .. Len(r) - 1 /\ b \in Nat /\ b <= Len(inp)
    BY <1>1
  <2>3. KeysSeen(s[i - 2].keys, r, b)
    BY <2>1, <2>2, KeysStay DEF r
  <2>4. KeyAt(r, b) /\ r[b] = inp[b]
    BY <1>1, <2>1, <2>2
  <2> QED  BY <1>2, <1>4, <2>1, <2>2, <2>3, <2>4 DEF ColonHeld
<1> QED  BY <1>2, <1>3, <1>4 DEF Held, r

\* The same without reading.
LEMMA HeldBelow ==
  ASSUME NEW inp, NEW s, NEW t, NEW i \in Nat, i > 0, \A k \in 1 .. i : t[k] = s[k],
         Held(s, i, inp)
  PROVE  Held(t, i, inp)
<1>1. t[i] = s[i] /\ (i > 1 => t[i - 1] = s[i - 1]) /\ (i > 2 => t[i - 2] = s[i - 2])
  <2>1. i \in 1 .. i /\ (i > 1 => i - 1 \in 1 .. i) /\ (i > 2 => i - 2 \in 1 .. i)
    OBVIOUS
  <2> QED  BY <2>1
<1> QED  BY <1>1 DEF Held, ColonHeld

\* A string without its quotation marks.
LEMMA BetweenFacts ==
  ASSUME NEW w \in Lexeme, w[1] = Quote
  PROVE  /\ Len(w) \in Nat /\ Len(w) >= 2 /\ w[Len(w)] = Quote /\ w \in Word
         /\ Between(w) \in Word /\ Len(Between(w)) = Len(w) - 2
         /\ \A i \in 2 .. Len(w) - 1 : Between(w)[i - 1] = w[i]
<1>1. Len(w) \in Nat /\ Len(w) >= 2 /\ w[Len(w)] = Quote /\ w \in Word
  BY LenProperties DEF Lexeme, Word
<1> DEFINE n == Len(w)
<1>2. w \in Seq(Symbol) /\ 2 \in Int /\ n - 1 \in Int /\ \A i \in 2 .. n - 1 : w[i] \in Symbol
  <2>1. w \in Seq(Symbol)
    BY <1>1 DEF Word
  <2>2. \A i \in 2 .. n - 1 : i \in 1 .. n
    BY <1>1
  <2> QED  BY <1>1, <2>1, <2>2
<1>3. /\ SubSeq(w, 2, n - 1) \in Seq(Symbol)
      /\ Len(SubSeq(w, 2, n - 1)) = (IF 2 <= n - 1 THEN (n - 1) - 2 + 1 ELSE 0)
      /\ \A i \in 1 .. (n - 1) - 2 + 1 : SubSeq(w, 2, n - 1)[i] = w[2 + i - 1]
  BY <1>2, SubSeqProperties
<1> HIDE DEF n
<1>4. n \in Nat /\ n >= 2
  BY <1>1 DEF n
<1>5. (IF 2 <= n - 1 THEN (n - 1) - 2 + 1 ELSE 0) = n - 2
  BY <1>4
<1>6. \A i \in 2 .. n - 1 : i - 1 \in 1 .. (n - 1) - 2 + 1 /\ 2 + (i - 1) - 1 = i
  BY <1>4
<1>7. \A i \in 2 .. n - 1 : SubSeq(w, 2, n - 1)[i - 1] = w[i]
  BY <1>3, <1>6
<1> QED  BY <1>1, <1>3, <1>5, <1>7 DEF Between, Word, n

\* Two strings with the same characters are the same lexeme.
LEMMA SameKey ==
  ASSUME NEW u \in Lexeme, u[1] = Quote, NEW v \in Lexeme, v[1] = Quote, Between(u) = Between(v)
  PROVE  u = v
<1> DEFINE m == Len(u)
           n == Len(v)
<1>1. /\ m \in Nat /\ m >= 2 /\ u[m] = Quote /\ u \in Seq(Symbol) /\ Len(Between(u)) = m - 2
      /\ \A i \in 2 .. m - 1 : Between(u)[i - 1] = u[i]
  BY BetweenFacts DEF Word
<1>2. /\ n \in Nat /\ n >= 2 /\ v[n] = Quote /\ v \in Seq(Symbol) /\ Len(Between(v)) = n - 2
      /\ \A i \in 2 .. n - 1 : Between(v)[i - 1] = v[i]
  BY BetweenFacts DEF Word
<1> HIDE DEF m, n
<1>3. m = n
  <2>1. m - 2 = n - 2
    BY <1>1, <1>2
  <2> QED  BY <1>1, <1>2, <2>1
<1>4. \A i \in 1 .. m : i = 1 \/ i = m \/ i \in 2 .. m - 1
  BY <1>1
<1>5. \A i \in 1 .. m : u[i] = v[i]
  BY <1>1, <1>2, <1>3, <1>4
<1> QED  BY <1>1, <1>2, <1>3, <1>5, SeqEqual DEF m, n

\* A value v that ends over the stack b with the lexeme w.
Ready(b, v, inp, w) ==
  /\ b \in Seq(Token) /\ \A i \in 1 .. Len(b) : Held(b, i, inp)
  /\ v \in Token /\ NumberHeld(v)
  /\ v.kind = "scalar" => v.text = <<w>> /\ (v.type = "STRING" => w[1] = Quote)
  /\ Texts(b) \o v.text = WithoutCommas(Append(inp, w))

\* It is kept: as the final value,
LEMMA KeptFinal ==
  ASSUME NEW inp \in Text, NEW w \in Lexeme, NEW v, Ready(<<>>, v, inp, w)
  PROVE  Kept(<<>>, <<v>>, Append(inp, w))
<1>1. v \in Token /\ NumberHeld(v) /\ Texts(<<>>) \o v.text = WithoutCommas(Append(inp, w))
  BY DEF Ready
<1>2. Texts(<<>>) = <<>> /\ v.text \in Text
  <2>1. <<>> \in Seq(Token)
    OBVIOUS
  <2> QED  BY <1>1, <2>1, TokenFacts, TextsAppend
<1>3. v.text = WithoutCommas(Append(inp, w))
  BY <1>1, <1>2, ConcatEmptySeq DEF Text
<1>4. <<>> \in Seq(Token) /\ <<v>> \in Seq(Token) /\ <<v>> # <<>> /\ Len(<<v>>) = 1 /\ <<v>>[1] = v
  BY <1>1, ShortSeq
<1>5. \A i \in 1 .. Len(<<>>) : Held(<<>>, i, Append(inp, w))
  OBVIOUS
<1> QED  BY <1>1, <1>3, <1>4, <1>5 DEF Kept, TopKey

\* in the list below,
LEMMA KeptInList ==
  ASSUME NEW inp \in Text, NEW w \in Lexeme, NEW b, NEW v, Ready(b, v, inp, w), b # <<>>,
         Last(b).kind = "list"
  PROVE  Kept(Inner(b, PushBack(Last(b), v)), <<>>, Append(inp, w))
<1> DEFINE p == PushBack(Last(b), v)
           t == Inner(b, p)
           r == Append(inp, w)
<1>1. b \in Seq(Token) /\ v \in Token /\ (\A i \in 1 .. Len(b) : Held(b, i, inp))
  BY DEF Ready
<1>2. Last(b) \in Token /\ Len(b) \in Nat \ {0}
  BY <1>1, FrontFacts
<1>3. p \in Token /\ p.kind = "list"
  BY <1>1, <1>2, PushBackFacts
<1>4. t \in Seq(Token) /\ Texts(t) = Texts(b) \o v.text
  BY <1>1, TextsPushBack
<1>5. /\ Len(t) = Len(b) /\ (\A i \in 1 .. Len(b) - 1 : t[i] = b[i])
      /\ t[Len(b)] = p /\ Last(t) = p
  <2> HIDE DEF p
  <2> QED  BY <1>1, <1>3, InnerFacts
<1> HIDE DEF p, t, r
<1>6. ASSUME NEW i \in 1 .. Len(t) PROVE Held(t, i, r)
  <2>1. CASE i = Len(b)
    BY <1>3, <1>5, <2>1 DEF Held
  <2>2. CASE i # Len(b)
    <3>1. i \in 1 .. Len(b) /\ i \in Nat /\ i > 0 /\ \A k \in 1 .. i : k \in 1 .. Len(b) - 1
      BY <1>2, <1>5, <2>2
    <3>2. \A k \in 1 .. i : t[k] = b[k]
      BY <1>5, <3>1
    <3> QED  BY <1>1, <3>1, <3>2, HeldStays DEF r
  <2> QED  BY <2>1, <2>2
<1>7. TopKey(t, r)
  BY <1>3, <1>5 DEF TopKey
<1>8. Texts(t) = WithoutCommas(r)
  BY <1>4 DEF Ready, r
<1> QED  BY <1>4, <1>6, <1>7, <1>8 DEF Kept, p, t, r

\* as a key on the object below,
LEMMA KeptKey ==
  ASSUME NEW inp \in Text, NEW w \in Lexeme, NEW b, NEW v, Ready(b, v, inp, w), b # <<>>,
         Last(b).kind = "object", v.kind = "scalar", v.type = "STRING"
  PROVE  Kept(Append(b, v), <<>>, Append(inp, w))
<1> DEFINE t == Append(b, v)
           r == Append(inp, w)
<1>1. b \in Seq(Token) /\ v \in Token /\ (\A i \in 1 .. Len(b) : Held(b, i, inp))
  BY DEF Ready
<1>2. Last(b) = b[Len(b)] /\ Len(b) \in Nat \ {0}
  BY <1>1, FrontFacts
<1>3. /\ t \in Seq(Token) /\ Len(t) = Len(b) + 1 /\ t # <<>>
      /\ (\A i \in 1 .. Len(b) : t[i] = b[i]) /\ t[Len(b) + 1] = v
  BY <1>1, AppendProperties
<1>4. Texts(t) = WithoutCommas(r)
  BY <1>1, TextsAppend DEF Ready
<1>5. Len(r) = Len(inp) + 1 /\ Len(inp) \in Nat /\ r[Len(inp) + 1] = w
  BY ReadAppend
<1> HIDE DEF t, r
<1>5a. Len(r) > 0 /\ r[Len(r)] = w /\ Last(t) = v
  BY <1>2, <1>3, <1>5 DEF Last
<1>6. ASSUME NEW i \in 1 .. Len(t) PROVE Held(t, i, r)
  <2>1. CASE i = Len(b) + 1
    <3>1. i > 1 /\ i - 1 = Len(b) /\ Len(b) \in 1 .. Len(b)
      BY <1>2, <2>1
    <3>2. t[i] = v /\ t[i - 1] = Last(b)
      BY <1>2, <1>3, <2>1, <3>1
    <3> QED  BY <3>1, <3>2 DEF Held
  <2>2. CASE i # Len(b) + 1
    <3>1. i \in 1 .. Len(b) /\ i \in Nat /\ i > 0 /\ \A k \in 1 .. i : k \in 1 .. Len(b)
      BY <1>2, <1>3, <2>2
    <3>2. \A k \in 1 .. i : t[k] = b[k]
      BY <1>3, <3>1
    <3> QED  BY <1>1, <3>1, <3>2, HeldStays DEF r
  <2> QED  BY <2>1, <2>2
<1>7. TopKey(t, r)
  BY <1>5a DEF TopKey, Ready
<1> QED  BY <1>3, <1>4, <1>6, <1>7 DEF Kept, t, r

\* or in the object whose key and colon are below.
LEMMA ColonFacts ==
  ASSUME NEW inp \in Text, NEW b \in Seq(Token), b # <<>>, Last(b).kind = "colon",
         \A i \in 1 .. Len(b) : Held(b, i, inp)
  PROVE  /\ Len(b) \in Nat /\ Len(b) > 2 /\ b[Len(b)].text = <<<<":">>>>
         /\ b[Len(b) - 2].kind = "object" /\ b[Len(b) - 2] \in Token
         /\ b[Len(b) - 1] \in Token /\ RawKey(b[Len(b) - 1]) \in Word
         /\ \E a \in 1 .. Len(inp) - 1 : /\ KeyAt(inp, a) /\ inp[a] \in Lexeme
                                         /\ RawKey(b[Len(b) - 1]) = Between(inp[a])
                                         /\ KeysSeen(b[Len(b) - 2].keys, inp, a)
<1> DEFINE n == Len(b)
<1>1. n \in Nat \ {0} /\ Last(b) = b[n]
  BY FrontFacts
<1>2. n \in 1 .. n
  BY <1>1
<1>3. Held(b, n, inp) /\ b[n].kind = "colon"
  BY <1>1, <1>2
<1>4. n > 2 /\ b[n].text = <<<<":">>>> /\ b[n - 2].kind = "object" /\ ColonHeld(b, n, inp)
  BY <1>3 DEF Held
<1>4a. n > 2
  BY <1>4
<1>5. n - 2 \in 1 .. n /\ n - 1 \in 1 .. n
  BY <1>1, <1>4a
<1>6. b[n - 2] \in Token /\ b[n - 1] \in Token
  BY <1>5
<1>7. PICK a \in 1 .. Len(inp) - 1 :
        KeyAt(inp, a) /\ b[n - 1].text = <<inp[a]>> /\ KeysSeen(b[n - 2].keys, inp, a)
  BY <1>4 DEF ColonHeld
<1>8. inp[a] \in Lexeme
  <2>1. Len(inp) \in Nat /\ inp \in Seq(Lexeme)
    BY DEF Text
  <2>2. a \in 1 .. Len(inp)
    BY <2>1
  <2> QED  BY <2>1, <2>2
<1>9. b[n - 1].text[1] = inp[a]
  BY <1>7, <1>8, ShortSeq
<1>10. RawKey(b[n - 1]) = Between(inp[a])
  BY <1>9 DEF RawKey, Between
<1>11. Between(inp[a]) \in Word
  BY <1>7, <1>8, BetweenFacts DEF KeyAt
<1> QED  BY <1>1, <1>4, <1>6, <1>7, <1>8, <1>10, <1>11

\* A key that the object has was read before.
LEMMA KeyRepeats ==
  ASSUME NEW inp \in Text, NEW w \in Lexeme, NEW b \in Seq(Token), b # <<>>,
         Last(b).kind = "colon", \A i \in 1 .. Len(b) : Held(b, i, inp),
         HasKey(b[Len(b) - 2], RawKey(b[Len(b) - 1]))
  PROVE  Repeats(Append(inp, w))
<1> DEFINE n == Len(b)
           r == Append(inp, w)
<1>1. PICK c \in 1 .. Len(inp) - 1 : /\ KeyAt(inp, c) /\ inp[c] \in Lexeme
                                     /\ RawKey(b[n - 1]) = Between(inp[c])
                                     /\ KeysSeen(b[n - 2].keys, inp, c)
  BY ColonFacts
<1>2. RawKey(b[n - 1]) \in b[n - 2].keys
  BY DEF HasKey
<1>3. PICK a \in 1 .. c - 1 : KeyAt(inp, a) /\ RawKey(b[n - 1]) = Between(inp[a])
  BY <1>1, <1>2 DEF KeysSeen
<1>4. /\ Len(inp) \in Nat /\ Len(r) = Len(inp) + 1
      /\ \A i \in 1 .. Len(inp) : r[i] = inp[i]
      /\ \A i \in 1 .. Len(inp) - 1 : KeyAt(r, i) = KeyAt(inp, i)
  BY ReadAppend
<1>5. /\ a < c /\ a \in 1 .. Len(inp) - 1 /\ a \in 1 .. Len(inp) /\ c \in 1 .. Len(inp)
      /\ a \in 1 .. Len(r) - 1 /\ c \in 1 .. Len(r) - 1
  BY <1>4
<1>6. inp[a] \in Lexeme
  <2>1. inp \in Seq(Lexeme)
    BY DEF Text
  <2> QED  BY <1>5, <2>1
<1>7. inp[a] = inp[c]
  <2>1. inp[a][1] = Quote /\ inp[c][1] = Quote /\ Between(inp[a]) = Between(inp[c])
    BY <1>1, <1>3 DEF KeyAt
  <2> QED  BY <1>1, <1>6, <2>1, SameKey
<1>8. KeyAt(r, a) /\ KeyAt(r, c) /\ r[a] = r[c]
  BY <1>1, <1>3, <1>4, <1>5, <1>7
<1> QED  BY <1>5, <1>8 DEF Repeats

\* A value for a key that the object does not have.
LEMMA KeptInObject ==
  ASSUME NEW inp \in Text, NEW w \in Lexeme, NEW b, NEW v, Ready(b, v, inp, w), b # <<>>,
         Last(b).kind = "colon"
  PROVE  LET n == Len(b)
         IN  Kept(Append(SubSeq(b, 1, n - 3), Insert(b[n - 2], b[n - 1], v)), <<>>,
                  Append(inp, w))
<1> DEFINE n == Len(b)
           o == Insert(b[n - 2], b[n - 1], v)
           t == Append(SubSeq(b, 1, n - 3), o)
           r == Append(inp, w)
<1>1. b \in Seq(Token) /\ v \in Token /\ (\A i \in 1 .. Len(b) : Held(b, i, inp))
  BY DEF Ready
<1>2. /\ n \in Nat /\ n > 2 /\ b[n].text = <<<<":">>>> /\ b[n - 2].kind = "object"
      /\ b[n - 2] \in Token /\ b[n - 1] \in Token /\ RawKey(b[n - 1]) \in Word
  BY <1>1, ColonFacts
<1>3. /\ t \in Seq(Token) /\ Texts(t) = Texts(b) \o v.text
      /\ Len(t) = n - 2 /\ t[n - 2] = o /\ \A i \in 1 .. n - 3 : t[i] = b[i]
  BY <1>1, <1>2, TextsInsert
<1>4. o.kind = "object" /\ o.keys = b[n - 2].keys \cup {RawKey(b[n - 1])}
  <2> DEFINE x == b[n - 2]
             y == b[n - 1]
  <2>1. x \in Token /\ x.kind = "object" /\ y \in Token /\ RawKey(y) \in Word /\ v \in Token
    BY <1>1, <1>2
  <2> HIDE DEF x, y
  <2>2. Insert(x, y, v).kind = "object" /\ Insert(x, y, v).keys = x.keys \cup {RawKey(y)}
    BY <2>1, InsertKeys
  <2> QED  BY <2>2 DEF x, y
<1>5. /\ Len(inp) \in Nat /\ Len(r) = Len(inp) + 1
      /\ \A i \in 1 .. Len(inp) : r[i] = inp[i]
      /\ \A i \in 1 .. Len(inp) - 1 : KeyAt(r, i) = KeyAt(inp, i)
  BY ReadAppend
<1>6. PICK a \in 1 .. Len(inp) - 1 : /\ KeyAt(inp, a) /\ inp[a] \in Lexeme
                                     /\ RawKey(b[n - 1]) = Between(inp[a])
                                     /\ KeysSeen(b[n - 2].keys, inp, a)
  BY <1>1, ColonFacts
<1>7. a \in Nat /\ a <= Len(inp) /\ a \in 1 .. Len(inp) /\ a \in 1 .. Len(r) - 1
  BY <1>5
<1>8. KeysSeen(b[n - 2].keys, r, Len(r))
  BY <1>6, <1>7, KeysStay
<1>9. KeyAt(r, a) /\ RawKey(b[n - 1]) = Between(r[a])
  BY <1>5, <1>6, <1>7
<1>10. KeysSeen(o.keys, r, Len(r))
  BY <1>4, <1>7, <1>8, <1>9 DEF KeysSeen
<1>11. Texts(t) = WithoutCommas(r)
  BY <1>3 DEF Ready
<1>12. n \in Nat /\ n > 2
  BY <1>2
<1> HIDE DEF t, r, o, n
<1>13. ASSUME NEW i \in 1 .. Len(t) PROVE Held(t, i, r)
  <2>1. CASE i = n - 2
    <3>1. t[i] = o
      BY <1>3, <2>1
    <3> QED  BY <1>4, <1>10, <3>1 DEF Held
  <2>2. CASE i # n - 2
    <3>1. i \in 1 .. n /\ i \in Nat /\ i > 0 /\ \A k \in 1 .. i : k \in 1 .. n - 3
      <4>1. Len(t) = n - 2
        BY <1>3
      <4> QED  BY <1>12, <2>2, <4>1
    <3>2. \A k \in 1 .. i : t[k] = b[k]
      BY <1>3, <3>1
    <3>3. Held(b, i, inp)
      BY <1>1, <3>1 DEF n
    <3> QED  BY <3>1, <3>2, <3>3, HeldStays DEF r
  <2> QED  BY <2>1, <2>2
<1>14. TopKey(t, r)
  <2>1. Len(t) = n - 2 /\ t[n - 2] = o
    BY <1>3
  <2>2. Last(t) = o
    BY <2>1 DEF Last
  <2> QED  BY <1>4, <2>2 DEF TopKey
<1> QED  BY <1>3, <1>11, <1>13, <1>14 DEF Kept, t, o, r, n

NoComma(w) == w # <<",">>

\* The text of a lexeme that is read and no comma.
LEMMA TextRead ==
  ASSUME NEW inp \in Text, NEW w \in Lexeme, NoComma(w), NEW s \in Seq(Token),
         Texts(s) = WithoutCommas(inp)
  PROVE  /\ Texts(s) \o <<w>> = WithoutCommas(Append(inp, w))
         /\ Append(Texts(s), w) = WithoutCommas(Append(inp, w))
<1>1. WithoutCommas(Append(inp, w)) = Append(WithoutCommas(inp), w)
  BY CommasAppend DEF Text, NoComma
<1>2. Texts(s) \in Seq(Lexeme)
  <2>1. ListToken \in Token
    BY NewTokens
  <2> QED  BY <2>1, TextsAppend DEF Text
<1>3. Append(Texts(s), w) = Texts(s) \o <<w>>
  BY <1>2, AppendIsConcat
<1> QED  BY <1>1, <1>3

\* A token for punctuation.
Punctuates(t, w) == t.text = <<w>> /\ t.kind # "scalar"

\* What is read to its end as a scalar.
LexesAll(w) == Lex(w).type # "bad" /\ ~(Lex(w).last < Len(w))

\* One token more.
LEMMA PushedFacts ==
  ASSUME NEW s \in Seq(Token), NEW t \in Token
  PROVE  /\ Append(s, t) \in Seq(Token) /\ Len(Append(s, t)) = Len(s) + 1 /\ Len(s) \in Nat
         /\ (\A i \in 1 .. Len(s) : Append(s, t)[i] = s[i]) /\ Append(s, t)[Len(s) + 1] = t
         /\ Append(s, t) # <<>> /\ Last(Append(s, t)) = t
<1>1. /\ Append(s, t) \in Seq(Token) /\ Len(Append(s, t)) = Len(s) + 1 /\ Len(s) \in Nat
      /\ (\A i \in 1 .. Len(s) : Append(s, t)[i] = s[i]) /\ Append(s, t)[Len(s) + 1] = t
      /\ Append(s, t) # <<>>
  BY AppendProperties
<1> QED  BY <1>1 DEF Last

\* A token that is pushed keeps what was read when it is where it should be.
LEMMA KeptPushed ==
  ASSUME NEW inp \in Text, NEW w \in Lexeme, NoComma(w), NEW s, Kept(s, <<>>, inp),
         NEW t \in Token, Punctuates(t, w),
         Held(Append(s, t), Len(s) + 1, Append(inp, w))
  PROVE  Kept(Append(s, t), <<>>, Append(inp, w))
<1> DEFINE u == Append(s, t)
           r == Append(inp, w)
<1>1. s \in Seq(Token) /\ (\A i \in 1 .. Len(s) : Held(s, i, inp)) /\ Texts(s) = WithoutCommas(inp)
  BY DEF Kept
<1>2. /\ u \in Seq(Token) /\ Len(u) = Len(s) + 1 /\ Len(s) \in Nat
      /\ (\A i \in 1 .. Len(s) : u[i] = s[i]) /\ u[Len(s) + 1] = t
  BY <1>1, PushedFacts
<1>3. Texts(u) = WithoutCommas(r)
  BY <1>1, TextsAppend, TextRead DEF Punctuates
<1> HIDE DEF u, r
<1>4. ASSUME NEW i \in 1 .. Len(u) PROVE Held(u, i, r)
  <2>1. CASE i = Len(s) + 1
    BY <2>1 DEF u, r
  <2>2. CASE i # Len(s) + 1
    <3>1. i \in 1 .. Len(s) /\ i \in Nat /\ i > 0 /\ \A k \in 1 .. i : k \in 1 .. Len(s)
      BY <1>2, <2>2
    <3>2. \A k \in 1 .. i : u[k] = s[k]
      BY <1>2, <3>1
    <3> QED  BY <1>1, <3>1, <3>2, HeldStays DEF r
  <2> QED  BY <2>1, <2>2
<1>5. TopKey(u, r)
  <2>1. Last(u) = t
    BY <1>2 DEF Last
  <2> QED  BY <2>1 DEF TopKey, Punctuates
<1> QED  BY <1>2, <1>3, <1>4, <1>5 DEF Kept, u, r

\* A list or an object begins.
LEMMA KeptOpened ==
  ASSUME NEW inp \in Text, NEW w \in {<<"{">>, <<"[">>}, NEW s, Kept(s, <<>>, inp)
  PROVE  Kept(Append(s, IF w = <<"{">> THEN ObjectToken ELSE ListToken), <<>>, Append(inp, w))
<1> DEFINE t == IF w = <<"{">> THEN ObjectToken ELSE ListToken
<1>1. w \in Lexeme /\ NoComma(w)
  <2>1. <<"{">> # <<",">> /\ <<"[">> # <<",">>
    OBVIOUS
  <2> QED  BY <2>1, PunctuationFacts DEF NoComma
<1>2. /\ t \in Token /\ t.text = <<w>>
      /\ t.kind = "list" \/ (t.kind = "object" /\ t.keys = {})
  BY NewTokens
<1> HIDE DEF t
<1>3. s \in Seq(Token)
  BY DEF Kept
<1>4. Append(s, t)[Len(s) + 1] = t
  BY <1>2, <1>3, PushedFacts
<1>5. Held(Append(s, t), Len(s) + 1, Append(inp, w))
  BY <1>2, <1>4 DEF Held, KeysSeen
<1>6. Punctuates(t, w)
  BY <1>2 DEF Punctuates
<1>7. Kept(Append(s, t), <<>>, Append(inp, w))
  BY <1>1, <1>2, <1>5, <1>6, KeptPushed
<1> QED  BY <1>7 DEF t

\* A colon on a key.
LEMMA KeptColon ==
  ASSUME NEW inp \in Text, NEW s, Kept(s, <<>>, inp), s # <<>>, Last(s).kind = "scalar"
  PROVE  Kept(Append(s, ColonToken), <<>>, Append(inp, <<":">>))
<1> DEFINE c == <<":">>
           t == ColonToken
           n == Len(s)
           r == Append(inp, c)
           u == Append(s, t)
<1>1. c \in Lexeme /\ NoComma(c) /\ t \in Token /\ t.text = <<c>> /\ t.kind = "colon"
  BY PunctuationFacts, NewTokens DEF NoComma
<1>2. s \in Seq(Token) /\ (\A i \in 1 .. n : Held(s, i, inp)) /\ TopKey(s, inp)
  BY DEF Kept
<1>3. n \in Nat \ {0} /\ Last(s) = s[n]
  BY <1>2, FrontFacts
<1>4. Held(s, n, inp)
  BY <1>2, <1>3
<1>5. n > 1 /\ s[n - 1].kind = "object"
  BY <1>3, <1>4 DEF Held
<1>5a. n > 1
  BY <1>5
<1>6. n - 1 \in 1 .. n /\ n \in 1 .. n
  BY <1>3, <1>5a
<1>7. KeysSeen(s[n - 1].keys, inp, Len(inp))
  BY <1>2, <1>5, <1>6 DEF Held
<1>8. Len(inp) > 0 /\ s[n].text = <<inp[Len(inp)]>> /\ inp[Len(inp)][1] = Quote
  BY <1>2, <1>3 DEF TopKey
<1>9. /\ Len(inp) \in Nat /\ Len(r) = Len(inp) + 1 /\ r[Len(inp) + 1] = c
      /\ \A i \in 1 .. Len(inp) : r[i] = inp[i]
  BY <1>1, ReadAppend
<1>10. KeysSeen(s[n - 1].keys, r, Len(inp))
  <2>1. Len(inp) \in Nat /\ Len(inp) <= Len(inp)
    BY <1>9
  <2> QED  BY <1>1, <1>7, <2>1, KeysStay
<1>11. u[n + 1] = t /\ u[n] = s[n] /\ u[n - 1] = s[n - 1]
  <2> HIDE DEF t
  <2> QED  BY <1>1, <1>2, <1>3, <1>6, AppendProperties
<1> HIDE DEF c, t, n, r, u
<1>12. Len(inp) \in 1 .. Len(r) - 1 /\ Len(inp) \in 1 .. Len(inp)
  <2>1. Len(inp) > 0
    BY <1>8
  <2> QED  BY <1>9, <2>1
<1>13. KeyAt(r, Len(inp)) /\ r[Len(inp)] = inp[Len(inp)]
  BY <1>8, <1>9, <1>12 DEF KeyAt, c
<1>14. (n + 1) - 1 = n /\ (n + 1) - 2 = n - 1 /\ n + 1 > 2
  BY <1>3, <1>5a
<1>15. ColonHeld(u, n + 1, r)
  BY <1>8, <1>10, <1>11, <1>12, <1>13, <1>14 DEF ColonHeld
<1>16. Held(u, n + 1, r)
  BY <1>1, <1>3, <1>5, <1>11, <1>14, <1>15 DEF Held, c
<1>17. Punctuates(t, c)
  BY <1>1 DEF Punctuates
<1>18. Kept(u, <<>>, r)
  BY <1>1, <1>16, <1>17, KeptPushed DEF u, n, r
<1> QED  BY <1>18 DEF u, t, r, c

\* A comma is not kept.
LEMMA KeptComma ==
  ASSUME NEW inp \in Text, NEW s, Kept(s, <<>>, inp), s # <<>>, Compound(Last(s))
  PROVE  Kept(s, <<>>, Append(inp, <<",">>))
<1> DEFINE c == <<",">>
           r == Append(inp, c)
<1>1. c \in Lexeme
  BY PunctuationFacts
<1>2. s \in Seq(Token) /\ (\A i \in 1 .. Len(s) : Held(s, i, inp)) /\ Texts(s) = WithoutCommas(inp)
  BY DEF Kept
<1>3. Texts(s) = WithoutCommas(r)
  BY <1>1, <1>2, CommasAppend DEF Text
<1>4. ASSUME NEW i \in 1 .. Len(s) PROVE Held(s, i, r)
  <2>1. i \in Nat /\ i > 0 /\ Held(s, i, inp)
    BY <1>2
  <2> QED  BY <1>1, <2>1, HeldStays
<1>5. TopKey(s, r)
  BY DEF TopKey, Compound
<1> QED  BY <1>2, <1>3, <1>4, <1>5 DEF Kept

\* A scalar that was read to its end is ready,
LEMMA ReadyScalar ==
  ASSUME NEW inp \in Text, NEW w \in Lexeme, NoComma(w), NEW s, Kept(s, <<>>, inp),
         LexesAll(w)
  PROVE  LET t == ScalarToken(Lex(w).type, <<SubSeq(w, 1, Lex(w).last)>>)
         IN  /\ Ready(s, t, inp, w) /\ t.kind = "scalar" /\ t.text = <<w>>
             /\ t.type = "STRING" <=> w[1] = Quote
             /\ ~EscapedQuote(w)
<1> DEFINE type == Lex(w).type
           t == ScalarToken(type, <<w>>)
<1>1. /\ Lex(w).last = Len(w) /\ ~EscapedQuote(w)
      /\ type \in {"STRING", "NUL", "BOOLEAN", "INTEGER", "FLOAT"}
      /\ type = "STRING" <=> w[1] = Quote
      /\ type \in {"INTEGER", "FLOAT"} => IsNumber(w, type)
  BY LexFacts DEF LexesAll
<1>2. SubSeq(w, 1, Len(w)) = w
  <2>0. w \in Seq(Symbol) /\ Len(w) \in Nat
    BY LenProperties DEF Lexeme, Word
  <2>1. w \in Seq(Symbol) /\ Len(w) \in 0 .. Len(w)
    BY <2>0
  <2>2. /\ SubSeq(w, 1, Len(w)) \in Seq(Symbol) /\ Len(SubSeq(w, 1, Len(w))) = Len(w)
        /\ \A i \in 1 .. Len(w) : SubSeq(w, 1, Len(w))[i] = w[i]
    BY <2>1, PrefixFacts
  <2> DEFINE p == SubSeq(w, 1, Len(w))
  <2> HIDE DEF p
  <2>3. p \in Seq(Symbol) /\ Len(p) = Len(w) /\ \A i \in 1 .. Len(p) : p[i] = w[i]
    BY <2>2 DEF p
  <2>4. p = w
    BY <2>1, <2>3, SeqEqual
  <2> QED  BY <2>4 DEF p
<1>3. ScalarToken(Lex(w).type, <<SubSeq(w, 1, Lex(w).last)>>) = t
  BY <1>1, <1>2
<1>4. t \in Token /\ t.kind = "scalar" /\ t.text = <<w>> /\ t.type = type
  <2> HIDE DEF type
  <2> QED  BY <1>1, ScalarTokenFacts
<1> HIDE DEF t, type
<1>5. s \in Seq(Token) /\ (\A i \in 1 .. Len(s) : Held(s, i, inp)) /\ Texts(s) = WithoutCommas(inp)
  BY DEF Kept
<1>6. Texts(s) \o t.text = WithoutCommas(Append(inp, w))
  BY <1>4, <1>5, TextRead
<1>7. t.text[1] = w
  BY <1>4, ShortSeq
<1>8. Ready(s, t, inp, w)
  BY <1>1, <1>4, <1>5, <1>6, <1>7 DEF Ready, NumberHeld
<1> QED  BY <1>1, <1>3, <1>4, <1>8

\* and so is a list or an object that ended.
LEMMA ReadyEnded ==
  ASSUME NEW inp \in Text, NEW w \in Lexeme, NoComma(w), NEW s, Kept(s, <<>>, inp), s # <<>>,
         Compound(Last(s))
  PROVE  LET t == [Last(s) EXCEPT !.text = Append(@, w)]
         IN  Ready(Front(s), t, inp, w) /\ t.kind = Last(s).kind
<1> DEFINE f == Front(s)
           l == Last(s)
           t == [l EXCEPT !.text = Append(@, w)]
<1>1. s \in Seq(Token) /\ (\A i \in 1 .. Len(s) : Held(s, i, inp)) /\ Texts(s) = WithoutCommas(inp)
  BY DEF Kept
<1>2. s = Append(f, l) /\ f \in Seq(Token) /\ l \in Token
  BY <1>1, FrontLast
<1>3. /\ Len(s) \in Nat \ {0} /\ Len(f) = Len(s) - 1
      /\ \A i \in 1 .. Len(s) - 1 : f[i] = s[i]
  BY <1>1, FrontFacts
<1>4. Compound(l)
  OBVIOUS
<1> HIDE DEF f, l
<1>5. t \in Token /\ t.kind = l.kind /\ t.text = Append(l.text, w)
  BY <1>2, <1>4, EndedFacts DEF Compound
<1> HIDE DEF t
<1>6. Texts(f) \o t.text = WithoutCommas(Append(inp, w))
  <2>1. Texts(s) = Texts(f) \o l.text /\ Texts(f) \in Text /\ l.text \in Text /\ <<w>> \in Text
    BY <1>2, TextsAppend, TokenFacts, ShortSeq DEF Text
  <2>2. t.text = l.text \o <<w>>
    BY <1>5, <2>1, AppendIsConcat DEF Text
  <2>3. Texts(f) \o (l.text \o <<w>>) = (Texts(f) \o l.text) \o <<w>>
    <3>1. Joined(Texts(f), Joined(l.text, <<w>>)) = Joined(Joined(Texts(f), l.text), <<w>>)
      BY <2>1, JoinedFacts
    <3> QED  BY <3>1, Zenon DEF Joined
  <2>4. Texts(s) \o <<w>> = WithoutCommas(Append(inp, w))
    BY <1>1, TextRead
  <2> QED  BY <2>1, <2>2, <2>3, <2>4, Zenon
<1>7. ASSUME NEW i \in 1 .. Len(f) PROVE Held(f, i, inp)
  <2>1. i \in 1 .. Len(s) /\ i \in Nat /\ i > 0 /\ \A k \in 1 .. i : k \in 1 .. Len(s) - 1
    BY <1>3
  <2>2. \A k \in 1 .. i : f[k] = s[k]
    BY <1>3, <2>1
  <2>3. Held(s, i, inp)
    BY <1>1, <2>1
  <2> QED  BY <2>1, <2>2, <2>3, HeldBelow
<1> QED  BY <1>2, <1>4, <1>5, <1>6, <1>7 DEF Ready, NumberHeld, Compound, f, l, t

-----------------------------------------------------------------------------
(* The grammar's views. *)

Outermost == {"value", "done", "wrong"}

\* What may be the innermost context of g.
Fits(g, context) == IF Len(g) = 1 THEN context \in Outermost ELSE context \in Nesting

\* The parts of a view.
LEMMA GrammarFacts ==
  ASSUME NEW g \in Grammars
  PROVE  /\ g \in Seq(Contexts) /\ g # <<>> /\ Len(g) \in Nat /\ Len(g) > 0
         /\ Last(g) = g[Len(g)] /\ Fits(g, Last(g))
         /\ g[1] \in Outermost /\ (Len(g) > 1 => g[1] = "done")
         /\ \A i \in 2 .. Len(g) : g[i] \in Nesting
<1>1. /\ g \in Seq(Contexts) /\ g # <<>> /\ g[1] \in Outermost /\ (Len(g) > 1 => g[1] = "done")
      /\ \A i \in 2 .. Len(g) : g[i] \in Nesting
  BY DEF Grammars, Outermost
<1>2. Len(g) \in Nat /\ Len(g) > 0 /\ Last(g) = g[Len(g)]
  <2>1. g \in Seq(Contexts) /\ g # <<>>
    BY <1>1
  <2>2. Len(g) \in Nat \ {0} /\ Last(g) = g[Len(g)]
    BY <2>1, FrontFacts
  <2>3. Len(g) \in Nat \ {0}
    BY <2>2
  <2> QED  BY <2>2, <2>3
<1>3. Len(g) # 1 => Len(g) \in 2 .. Len(g)
  <2>1. Len(g) \in Nat /\ Len(g) > 0
    BY <1>2
  <2> QED  BY <2>1
<1>4. Fits(g, Last(g))
  BY <1>1, <1>2, <1>3 DEF Fits
<1> QED  BY <1>1, <1>2, <1>4

\* A view of the right shape.
LEMMA GrammarShape ==
  ASSUME NEW g \in Seq(Contexts), NEW n \in Nat, n = Len(g), n > 0, g[1] \in Outermost,
         n > 1 => g[1] = "done", \A i \in 2 .. n : g[i] \in Nesting
  PROVE  g \in Grammars
<1>1. g # <<>>
  OBVIOUS
<1> QED  BY <1>1 DEF Grammars, Outermost

\* Another innermost context,
LEMMA GrammarInner ==
  ASSUME NEW g \in Grammars, NEW c, Fits(g, c)
  PROVE  /\ Inner(g, c) \in Grammars /\ Len(Inner(g, c)) = Len(g)
         /\ (\A i \in 1 .. Len(g) - 1 : Inner(g, c)[i] = g[i])
         /\ Inner(g, c)[Len(g)] = c /\ Last(Inner(g, c)) = c
<1> DEFINE h == Inner(g, c)
           n == Len(g)
<1>1. /\ g \in Seq(Contexts) /\ g # <<>> /\ n \in Nat /\ n > 0
      /\ g[1] \in Outermost /\ (n > 1 => g[1] = "done")
      /\ \A i \in 2 .. n : g[i] \in Nesting
  BY GrammarFacts
<1>2. c \in Contexts
  BY DEF Fits, Contexts, Outermost
<1>3. /\ h \in Seq(Contexts) /\ Len(h) = n /\ Last(h) = c
      /\ (\A i \in 1 .. n - 1 : h[i] = g[i]) /\ h[n] = c
  BY <1>1, <1>2, InnerFacts
<1> HIDE DEF h, n
<1>4. \A i \in 2 .. n : h[i] \in Nesting
  <2>1. \A i \in 2 .. n : i = n \/ i \in 1 .. n - 1
    BY <1>1
  <2>2. n \in 2 .. n => n # 1
    BY <1>1
  <2> QED  BY <1>1, <1>3, <2>1, <2>2 DEF Fits, n
<1>5. n > 1 => h[1] = g[1]
  <2>1. n > 1 => 1 \in 1 .. n - 1
    BY <1>1
  <2> QED  BY <1>3, <2>1
<1>6. n = 1 => h[1] \in Outermost
  BY <1>3 DEF Fits, n
<1>7. n = 1 \/ n > 1
  BY <1>1
<1>8. h[1] \in Outermost /\ (n > 1 => h[1] = "done")
  <2>1. n > 1 => n # 1
    BY <1>1
  <2> QED  BY <1>1, <1>5, <1>6, <1>7, <2>1
<1>9. h \in Grammars
  BY <1>1, <1>3, <1>4, <1>8, GrammarShape
<1> QED  BY <1>3, <1>9 DEF h, n

\* one context more,
LEMMA GrammarPushed ==
  ASSUME NEW g \in Grammars, g[1] = "done", NEW c \in Nesting
  PROVE  /\ g \o <<c>> = Append(g, c) /\ Append(g, c) \in Grammars
         /\ Len(Append(g, c)) = Len(g) + 1 /\ Append(g, c)[Len(g) + 1] = c
         /\ (\A i \in 1 .. Len(g) : Append(g, c)[i] = g[i])
<1> DEFINE h == Append(g, c)
           n == Len(g)
<1>1. g \in Seq(Contexts) /\ n \in Nat /\ n > 0 /\ \A i \in 2 .. n : g[i] \in Nesting
  BY GrammarFacts
<1>2. c \in Contexts
  BY DEF Contexts
<1>3. /\ h \in Seq(Contexts) /\ Len(h) = n + 1 /\ h[n + 1] = c
      /\ (\A i \in 1 .. n : h[i] = g[i]) /\ g \o <<c>> = h
  BY <1>1, <1>2, AppendProperties, AppendIsConcat
<1> HIDE DEF h, n
<1>4. \A i \in 2 .. n + 1 : h[i] \in Nesting
  <2>1. \A i \in 2 .. n + 1 : i = n + 1 \/ (i \in 2 .. n /\ i \in 1 .. n)
    BY <1>1
  <2> QED  BY <1>1, <1>3, <2>1
<1>5. h[1] = "done" /\ "done" \in Outermost
  <2>1. 1 \in 1 .. n
    BY <1>1
  <2> QED  BY <1>3, <2>1 DEF Outermost
<1>6. n + 1 \in Nat /\ n + 1 > 0
  BY <1>1
<1>7. h \in Grammars
  BY <1>3, <1>4, <1>5, <1>6, GrammarShape
<1> QED  BY <1>3, <1>7 DEF h, n

\* one context less.
LEMMA GrammarFront ==
  ASSUME NEW g \in Grammars, Len(g) > 1
  PROVE  /\ Front(g) \in Grammars /\ Len(Front(g)) = Len(g) - 1
         /\ \A i \in 1 .. Len(g) - 1 : Front(g)[i] = g[i]
<1> DEFINE h == Front(g)
           n == Len(g)
<1>1. /\ g \in Seq(Contexts) /\ g # <<>> /\ n \in Nat /\ n > 1
      /\ g[1] = "done" /\ g[1] \in Outermost /\ \A i \in 2 .. n : g[i] \in Nesting
  BY GrammarFacts
<1>2. h \in Seq(Contexts) /\ Len(h) = n - 1 /\ \A i \in 1 .. n - 1 : h[i] = g[i]
  BY <1>1, FrontFacts
<1> HIDE DEF h, n
<1>3. \A i \in 2 .. n - 1 : h[i] \in Nesting
  <2>1. \A i \in 2 .. n - 1 : i \in 2 .. n /\ i \in 1 .. n - 1
    BY <1>1
  <2> QED  BY <1>1, <1>2, <2>1
<1>4. n - 1 \in Nat /\ n - 1 > 0 /\ 1 \in 1 .. n - 1
  BY <1>1
<1>5. h[1] = g[1]
  BY <1>2, <1>4
<1>6. h \in Grammars
  BY <1>1, <1>2, <1>3, <1>4, <1>5, GrammarShape
<1> QED  BY <1>2, <1>6 DEF h, n

\* A view of one context.
LEMMA GrammarSingle ==
  ASSUME NEW g \in Grammars, Len(g) = 1
  PROVE  g = <<g[1]>>
<1>1. g \in Seq(Contexts)
  BY GrammarFacts
<1> QED  BY <1>1

\* What follows a value fits where it was due.
LEMMA AfterFits ==
  ASSUME NEW g \in Grammars, Last(g) \in ValueTops
  PROVE  /\ Fits(g, After[Last(g)]) /\ After[Last(g)] \in {"done", "[v", "{v"}
         /\ Len(g) = 1 => g = Start /\ After[Last(g)] = "done"
         /\ Len(g) > 1 => Last(g) \in {"[0", "[,", "{:"}
<1>1. Fits(g, Last(g)) /\ Last(g) = g[Len(g)] /\ Len(g) \in Nat
  BY GrammarFacts
<1>2. CASE Len(g) = 1
  <2>1. Last(g) = "value" /\ g[1] = "value"
    BY <1>1, <1>2 DEF Fits, Outermost, ValueTops
  <2>2. g = Start
    BY <1>2, <2>1, GrammarSingle DEF Start
  <2> QED  BY <1>2, <2>1, <2>2 DEF Fits, Outermost, After
<1>3. CASE Len(g) # 1
  <2>1. Last(g) \in {"[0", "[,", "{:"}
    BY <1>1, <1>3 DEF Fits, Nesting, ValueTops
  <2> QED  BY <1>3, <2>1 DEF Fits, Nesting, After
<1> QED  BY <1>2, <1>3

\* The views are closed under Advance, and what is wrong stays so.
LEMMA AdvanceTyped ==
  ASSUME NEW g \in Grammars, NEW w
  PROVE  Advance(g, w) \in Grammars /\ (g = Wrong => Advance(g, w) = Wrong)
<1>1. Fits(g, Last(g)) /\ Len(g) \in Nat /\ Len(g) > 0 /\ Last(g) = g[Len(g)]
  BY GrammarFacts
<1>2. Len(g) = 1 \/ Len(g) > 1
  BY <1>1
<1>3. Wrong \in Grammars
  <2>1. "wrong" \in Contexts /\ "wrong" \in Outermost
    BY DEF Contexts, Outermost
  <2>2. Wrong \in Seq(Contexts) /\ Len(Wrong) = 1 /\ Wrong[1] = "wrong"
    BY <2>1 DEF Wrong
  <2>3. \A i \in 2 .. 1 : Wrong[i] \in Nesting
    OBVIOUS
  <2> QED  BY <2>1, <2>2, <2>3, GrammarShape
<1>4. CASE Last(g) \in ValueTops /\ Class(w) \in {"string", "scalar", "[", "{"}
  <2> DEFINE h == Inner(g, After[Last(g)])
  <2>1. Fits(g, After[Last(g)]) /\ (Len(g) = 1 => After[Last(g)] = "done")
    BY <1>4, AfterFits
  <2>2. h \in Grammars /\ Len(h) = Len(g) /\ Last(h) = After[Last(g)]
    BY <2>1, GrammarInner
  <2> HIDE DEF h
  <2>3. h[1] = "done"
    <3>1. CASE Len(g) = 1
      BY <2>1, <2>2, <3>1, GrammarFacts
    <3>2. CASE Len(g) > 1
      BY <2>2, <3>2, GrammarFacts
    <3> QED  BY <1>2, <3>1, <3>2
  <2>4. "[0" \in Nesting /\ "{0" \in Nesting
    BY DEF Nesting
  <2>5. h \o <<"[0">> \in Grammars /\ h \o <<"{0">> \in Grammars
    BY <2>2, <2>3, <2>4, GrammarPushed
  <2>6. Advance(g, w) \in {h, h \o <<"[0">>, h \o <<"{0">>}
    BY <1>4, AdvanceFacts DEF h
  <2>7. g # Wrong
    <3>1. ASSUME g = Wrong PROVE Last(g) = "wrong"
      BY <3>1 DEF Wrong, Last
    <3> QED  BY <1>4, <3>1 DEF ValueTops
  <2> QED  BY <2>2, <2>5, <2>6, <2>7
<1>5. ASSUME Last(g) \in Nesting PROVE Len(g) > 1 /\ g # Wrong
  <2>1. Len(g) # 1
    BY <1>1, <1>5 DEF Fits, Nesting, Outermost
  <2> QED  BY <1>2, <2>1 DEF Wrong
<1>6. ASSUME Last(g) \in Nesting, NEW c \in Nesting PROVE Inner(g, c) \in Grammars
  <2>1. Fits(g, c)
    BY <1>1, <1>5, <1>6 DEF Fits
  <2> QED  BY <2>1, GrammarInner
<1>7. CASE Advance(g, w) \in {Inner(g, "{k"), Inner(g, "{:"), Inner(g, "[,"), Inner(g, "{,")}
           /\ Last(g) \in Nesting
  <2>1. "{k" \in Nesting /\ "{:" \in Nesting /\ "[," \in Nesting /\ "{," \in Nesting
    BY DEF Nesting
  <2> QED  BY <1>5, <1>6, <1>7, <2>1
<1>8. CASE Advance(g, w) = Front(g) /\ Last(g) \in Nesting
  BY <1>5, <1>8, GrammarFront
<1>9. CASE Advance(g, w) = Wrong
  BY <1>3, <1>9
<1> QED  BY <1>4, <1>7, <1>8, <1>9, AdvanceFacts DEF Nesting

-----------------------------------------------------------------------------
(* Grammar and parser, step by step. *)

Corresponds(g, s, f) ==
  \/ g = Start /\ s = <<>> /\ f = <<>>
  \/ g = Complete /\ s = <<>> /\ f # <<>>
  \/ Len(g) > 1 /\ f = <<>> /\ Nested(g, Len(g), s, Len(s))

\* The stack b waits for the value after which the grammar is at h.
Receives(h, b) ==
  \/ h = Complete /\ b = <<>>
  \/ Len(h) > 1 /\ Waiting(h, Len(h), b, Len(b))

\* The views without any nesting.
LEMMA SingleLengths == Len(Start) = 1 /\ Len(Complete) = 1 /\ Len(Wrong) = 1
BY DEF Start, Complete, Wrong

\* Waiting looks at the n contexts and the m tokens only.
LEMMA WaitingStable ==
  ASSUME NEW g, NEW n \in Nat, n > 1, NEW s, NEW m \in Nat, Waiting(g, n, s, m),
         NEW h, \A i \in 1 .. n : h[i] = g[i],
         NEW t, \A k \in 1 .. m : t[k] = s[k]
  PROVE  Waiting(h, n, t, m)
<1>1. PICK pos : Levels(g, n, s, pos) /\ Waits(g[n], s, m, pos[n])
  BY DEF Waiting
<1>2. pos[n] \in Nat /\ pos[n] > 0 /\ pos[n] <= m
  <2>1. pos[n] \in Nat /\ pos[n] > 0
    BY <1>1, LevelsFacts
  <2>2. m = pos[n] \/ m = pos[n] + 2
    BY <1>1, WaitsFacts
  <2> QED  BY <2>1, <2>2
<1>3. Levels(h, n, t, pos)
  <2>1. \A k \in 1 .. pos[n] - 1 : t[k] = s[k]
    BY <1>2
  <2>2. \A i \in 1 .. n - 1 : h[i] = g[i]
    OBVIOUS
  <2> QED  BY <1>1, <2>1, <2>2, LevelsStable
<1>4. h[n] = g[n] /\ t[pos[n]] = s[pos[n]]
  BY <1>2
<1>5. CASE g[n] = "[v"
  BY <1>1, <1>3, <1>4, <1>5 DEF Waits, Waiting
<1>6. CASE g[n] # "[v"
  <2>1. m = pos[n] + 2
    BY <1>1, <1>6, WaitsFacts
  <2>2. pos[n] + 1 \in 1 .. m /\ pos[n] + 2 \in 1 .. m
    BY <1>2, <2>1
  <2>3. t[pos[n] + 1] = s[pos[n] + 1] /\ t[pos[n] + 2] = s[pos[n] + 2]
    BY <2>2
  <2>4. Waits(h[n], t, m, pos[n])
    BY <1>1, <1>4, <1>6, <2>3 DEF Waits
  <2> QED  BY <1>3, <2>4 DEF Waiting
<1> QED  BY <1>5, <1>6

\* Where a value is due.
LEMMA ReceivesValue ==
  ASSUME NEW g \in Grammars, NEW s \in Seq(Token), Corresponds(g, s, <<>>), Last(g) \in ValueTops
  PROVE  Receives(Inner(g, After[Last(g)]), s) /\ Inner(g, After[Last(g)]) \in Grammars
<1> DEFINE a == After[Last(g)]
           h == Inner(g, a)
           n == Len(g)
<1>1. /\ Fits(g, a) /\ (n = 1 => g = Start /\ a = "done")
      /\ n > 1 => Last(g) \in {"[0", "[,", "{:"}
  BY AfterFits
<1>2. n \in Nat /\ n > 0 /\ Last(g) = g[n]
  BY GrammarFacts
<1>3. /\ h \in Grammars /\ Len(h) = n /\ (\A i \in 1 .. n - 1 : h[i] = g[i])
      /\ h[n] = a
  <2> HIDE DEF a
  <2> QED  BY <1>1, GrammarInner
<1>4. CASE n = 1
  <2>1. h = Complete
    <3>1. h = <<h[1]>> /\ h[1] = "done"
      BY <1>1, <1>3, <1>4, GrammarSingle
    <3> QED  BY <3>1 DEF Complete
  <2>2. s = <<>>
    BY <1>4 DEF Corresponds
  <2> QED  BY <1>3, <2>1, <2>2 DEF Receives
<1>5. CASE n > 1
  <2>0. n # 1
    <3> HIDE DEF n
    <3> QED  BY <1>5
  <2>1. g # Start /\ g # Complete
    BY <2>0, SingleLengths
  <2>2. Nested(g, n, s, Len(s))
    BY <2>1 DEF Corresponds
  <2>3. g[n] \in {"[0", "[,", "{:"} /\ h[n] = After[g[n]]
    BY <1>1, <1>2, <1>3, <1>5
  <2> HIDE DEF h, n
  <2>4. Waiting(h, n, s, Len(s))
    BY <1>2, <1>3, <1>5, <2>2, <2>3, ValueIsAwaited
  <2> QED  BY <1>3, <1>5, <2>4 DEF Receives, h, n
<1>6. n = 1 \/ n > 1
  <2>1. n \in Nat /\ n > 0
    BY <1>2
  <2> HIDE DEF n
  <2> QED  BY <2>1
<1> QED  BY <1>4, <1>5, <1>6

\* A list or an object begins there.
LEMMA OpenedCorresponds ==
  ASSUME NEW h \in Grammars, NEW s \in Seq(Token), Receives(h, s), NEW c \in Nesting,
         NEW t \in Token, Opened(c, t)
  PROVE  h \o <<c>> = Append(h, c) /\ Corresponds(Append(h, c), Append(s, t), <<>>)
<1> DEFINE g == Append(h, c)
           n == Len(h)
           m == Len(s)
           u == Append(s, t)
<1>1. h[1] = "done"
  <2>1. CASE h = Complete
    BY <2>1 DEF Complete
  <2>2. CASE Len(h) > 1
    BY <2>2, GrammarFacts
  <2> QED  BY <2>1, <2>2 DEF Receives
<1>2. /\ h \o <<c>> = g /\ Len(g) = n + 1 /\ g[n + 1] = c
      /\ \A i \in 1 .. n : g[i] = h[i]
  BY <1>1, GrammarPushed
<1>3. n \in Nat /\ n > 0
  BY GrammarFacts
<1>4. /\ Len(u) = m + 1 /\ m \in Nat /\ u[m + 1] = t
      /\ \A i \in 1 .. m : u[i] = s[i]
  BY PushedFacts
<1>5. Opened(g[n + 1], u[m + 1])
  BY <1>2, <1>4
<1> HIDE DEF g, u
<1>6. CASE h = Complete /\ s = <<>>
  <2>1. n = 1 /\ m = 0
    BY <1>6 DEF Complete
  <2>2. n + 1 = 2 /\ m + 1 = 1
    BY <2>1
  <2>3. Nested(g, 2, u, 1)
    BY <1>5, <2>2, LevelsBegin
  <2> QED  BY <1>2, <1>4, <2>2, <2>3 DEF Corresponds, g, u
<1>7. CASE n > 1 /\ Waiting(h, n, s, m)
  <2> HIDE DEF n, m
  <2>1. Nested(g, n + 1, u, m + 1)
    BY <1>2, <1>3, <1>4, <1>5, <1>7, LevelsGrow
  <2>2. n + 1 > 1
    BY <1>3
  <2> QED  BY <1>2, <1>4, <2>1, <2>2 DEF Corresponds, g, u, n, m
<1> QED  BY <1>6, <1>7 DEF Receives

\* A list or an object that may end is on top of the stack.
LEMMA EndedCorresponds ==
  ASSUME NEW g \in Grammars, NEW s \in Seq(Token), Corresponds(g, s, <<>>), CanEnd(Last(g))
  PROVE  /\ s # <<>> /\ Front(g) \in Grammars /\ Receives(Front(g), Front(s))
         /\ Last(s).kind = IF Last(g) \in {"[0", "[v"} THEN "list" ELSE "object"
<1> DEFINE n == Len(g)
           m == Len(s)
           h == Front(g)
           f == Front(s)
<1>1. n \in Nat /\ n > 0 /\ Last(g) = g[n] /\ Fits(g, Last(g))
  BY GrammarFacts
<1>2. n # 1
  BY <1>1 DEF Fits, Outermost, CanEnd
<1>3. n > 1 /\ g # Start /\ g # Complete
  <2>1. g # Start /\ g # Complete
    BY <1>2 DEF Start, Complete
  <2>2. n > 1
    <3>1. n \in Nat /\ n > 0
      BY <1>1
    <3> HIDE DEF n
    <3> QED  BY <1>2, <3>1
  <2> QED  BY <2>1, <2>2
<1>4. Nested(g, n, s, m)
  BY <1>3 DEF Corresponds
<1>5. h \in Grammars /\ Len(h) = n - 1 /\ \A i \in 1 .. n - 1 : h[i] = g[i]
  BY <1>3, GrammarFront
<1>6. /\ m \in Nat /\ m > 0 /\ s[m].kind = (IF g[n] \in {"[0", "[v"} THEN "list" ELSE "object")
      /\ (n = 2 => m = 1) /\ (n # 2 => Waiting(g, n - 1, s, m - 1))
  <2>1. CanEnd(g[n])
    BY <1>1
  <2> HIDE DEF n, m
  <2> QED  BY <1>1, <1>3, <1>4, <2>1, LevelsShrink
<1>7. s # <<>>
  <2>1. m > 0
    BY <1>6
  <2> QED  BY <2>1
<1>8. /\ Last(s) = s[m] /\ f \in Seq(Token) /\ Len(f) = m - 1
      /\ \A i \in 1 .. m - 1 : f[i] = s[i]
  BY <1>7, FrontFacts
<1>9. Receives(h, f)
  <2>1. CASE n = 2
    <3>1. Len(h) = 1 /\ Len(f) = 0
      <4>1. m = 1 /\ Len(h) = n - 1 /\ Len(f) = m - 1
        BY <1>5, <1>6, <1>8, <2>1
      <4> HIDE DEF n, m, h, f
      <4> QED  BY <2>1, <4>1
    <3>2. f = <<>>
      <4> HIDE DEF f
      <4> QED  BY <1>8, <3>1
    <3>3. h[1] = "done"
      <4>1. 1 \in 1 .. n - 1
        <5> HIDE DEF n
        <5> QED  BY <2>1
      <4>2. g[1] = "done"
        BY <1>3, GrammarFacts
      <4> QED  BY <1>5, <4>1, <4>2
    <3>4. h = Complete
      <4> HIDE DEF h
      <4> QED  BY <1>5, <3>1, <3>3, GrammarSingle DEF Complete
    <3> QED  BY <3>2, <3>4 DEF Receives
  <2>2. CASE n # 2
    <3> HIDE DEF n, m, h, f
    <3>0. n \in Nat /\ n > 1 /\ m \in Nat /\ m > 0
      BY <1>1, <1>3, <1>6
    <3>1. n - 1 \in Nat /\ n - 1 > 1 /\ m - 1 \in Nat
      BY <2>2, <3>0
    <3>2. Waiting(g, n - 1, s, m - 1)
      BY <1>6, <2>2
    <3>3. Waiting(h, n - 1, f, m - 1)
      BY <1>5, <1>8, <3>1, <3>2, WaitingStable
    <3> QED  BY <1>5, <1>8, <3>1, <3>3 DEF Receives
  <2> QED  BY <2>1, <2>2
<1> QED  BY <1>1, <1>5, <1>6, <1>7, <1>8, <1>9

\* The value is taken: as the final one,
LEMMA TakenFinal ==
  ASSUME NEW h \in Grammars, Receives(h, <<>>), NEW v
  PROVE  Corresponds(h, <<>>, <<v>>)
<1>1. ~(Len(h) > 1 /\ Waiting(h, Len(h), <<>>, 0))
  <2> DEFINE n == Len(h)
             e == <<>>
  <2>1. n \in Nat
    BY GrammarFacts
  <2> HIDE DEF n, e
  <2>2. n > 1 /\ Waiting(h, n, e, 0) => 0 > 0
    BY <2>1, ValueIsTaken
  <2> QED  BY <2>2 DEF n, e
<1>2. h = Complete
  BY <1>1 DEF Receives
<1> QED  BY <1>2 DEF Corresponds

\* by a list or behind a colon,
LEMMA ReceivesTop ==
  ASSUME NEW h \in Grammars, NEW b \in Seq(Token), b # <<>>, Receives(h, b)
  PROVE  /\ Len(h) \in Nat /\ Len(h) > 1 /\ Len(b) \in Nat /\ Len(b) > 0
         /\ Last(b) = b[Len(b)] /\ Waiting(h, Len(h), b, Len(b))
         /\ b[Len(b)].kind \in {"list", "colon"}
<1> DEFINE n == Len(h)
           m == Len(b)
<1>1. n \in Nat
  BY GrammarFacts
<1>2. m \in Nat /\ m > 0 /\ Last(b) = b[m]
  <2>1. m \in Nat \ {0} /\ Last(b) = b[m]
    BY FrontFacts
  <2> QED  BY <2>1
<1>3. n > 1 /\ Waiting(h, n, b, m)
  BY DEF Receives
<1> HIDE DEF n, m
<1>4. b[m].kind \in {"list", "colon"}
  BY <1>1, <1>2, <1>3, ValueIsTaken
<1> QED  BY <1>1, <1>2, <1>3, <1>4 DEF n, m

\* into a list,
LEMMA TakenInList ==
  ASSUME NEW h \in Grammars, NEW b \in Seq(Token), b # <<>>, Receives(h, b),
         Last(b).kind = "list", NEW p \in Token, p.kind = "list"
  PROVE  Corresponds(h, Inner(b, p), <<>>)
<1> DEFINE n == Len(h)
           m == Len(b)
           t == Inner(b, p)
<1>1. n \in Nat /\ n > 1 /\ m \in Nat /\ m > 0 /\ Last(b) = b[m] /\ Waiting(h, n, b, m)
  BY ReceivesTop
<1>2. Len(t) = m /\ (\A i \in 1 .. m - 1 : t[i] = b[i]) /\ t[m] = p
  BY InnerFacts
<1>3. b[m].kind = "list" /\ t[m].kind = "list"
  BY <1>1, <1>2
<1> HIDE DEF n, m, t
<1>4. Nested(h, n, t, m)
  BY <1>1, <1>2, <1>3, ValueIsTaken
<1> QED  BY <1>1, <1>2, <1>4 DEF Corresponds, n, t

\* and into an object.
LEMMA TakenInObject ==
  ASSUME NEW h \in Grammars, NEW b \in Seq(Token), b # <<>>, Receives(h, b),
         Last(b).kind = "colon", NEW t \in Seq(Token), Len(t) = Len(b) - 2,
         Replaces(t, b, Len(b))
  PROVE  Corresponds(h, t, <<>>)
<1> DEFINE n == Len(h)
           m == Len(b)
<1>1. n \in Nat /\ n > 1 /\ m \in Nat /\ m > 0 /\ Last(b) = b[m] /\ Waiting(h, n, b, m)
  BY ReceivesTop
<1>2. b[m].kind = "colon" /\ Replaces(t, b, m)
  BY <1>1
<1> HIDE DEF n, m
<1>3. Nested(h, n, t, m - 2)
  BY <1>1, <1>2, ValueIsTaken
<1> QED  BY <1>1, <1>3 DEF Corresponds, n, m

\* A key, or the colon behind it.
LEMMA KeyCorresponds ==
  ASSUME NEW g \in Grammars, NEW s \in Seq(Token), Corresponds(g, s, <<>>), NEW c,
         NEW t \in Token, KeyRead(Last(g), c, t)
  PROVE  /\ s # <<>> /\ KeyBase(Last(g), Last(s))
         /\ Corresponds(Inner(g, c), Append(s, t), <<>>)
<1> DEFINE n == Len(g)
           m == Len(s)
           h == Inner(g, c)
           u == Append(s, t)
<1>1. n \in Nat /\ n > 0 /\ Last(g) = g[n] /\ Fits(g, Last(g))
  BY GrammarFacts
<1>2. n # 1
  BY <1>1 DEF Fits, Outermost, KeyRead
<1>3. n > 1
  <2>1. n \in Nat /\ n > 0
    BY <1>1
  <2> HIDE DEF n
  <2> QED  BY <1>2, <2>1
<1>4. Nested(g, n, s, m)
  <2>1. g # Start /\ g # Complete
    BY <1>2, SingleLengths
  <2> QED  BY <2>1 DEF Corresponds
<1>5. Fits(g, c)
  BY <1>2 DEF Fits, Nesting, KeyRead
<1>6. /\ Len(h) = n /\ (\A i \in 1 .. n - 1 : h[i] = g[i]) /\ h[n] = c
  BY <1>5, GrammarInner
<1>7. /\ Len(u) = m + 1 /\ m \in Nat /\ u[m + 1] = t
      /\ \A i \in 1 .. m : u[i] = s[i]
  BY PushedFacts
<1>8. KeyRead(g[n], h[n], u[m + 1])
  BY <1>1, <1>6, <1>7
<1> HIDE DEF n, m, h, u
<1>9. m > 0 /\ KeyBase(g[n], s[m]) /\ Nested(h, n, u, m + 1)
  BY <1>1, <1>3, <1>4, <1>6, <1>7, <1>8, KeyIsTaken
<1>10. s # <<>> /\ Last(s) = s[m]
  <2>1. m > 0
    BY <1>9
  <2>2. s # <<>>
    BY <2>1 DEF m
  <2> QED  BY <2>2, FrontFacts DEF m
<1>11. Corresponds(h, u, <<>>)
  BY <1>3, <1>6, <1>7, <1>9 DEF Corresponds
<1> QED  BY <1>1, <1>9, <1>10, <1>11 DEF n, h, u

\* A comma.
LEMMA CommaCorresponds ==
  ASSUME NEW g \in Grammars, NEW s \in Seq(Token), Corresponds(g, s, <<>>), NEW c,
         BehindComma(Last(g), c)
  PROVE  s # <<>> /\ Compound(Last(s)) /\ Corresponds(Inner(g, c), s, <<>>)
<1> DEFINE n == Len(g)
           m == Len(s)
           h == Inner(g, c)
<1>1. n \in Nat /\ n > 0 /\ Last(g) = g[n] /\ Fits(g, Last(g))
  BY GrammarFacts
<1>2. n # 1
  BY <1>1 DEF Fits, Outermost, BehindComma
<1>3. n > 1
  <2>1. n \in Nat /\ n > 0
    BY <1>1
  <2> HIDE DEF n
  <2> QED  BY <1>2, <2>1
<1>4. Nested(g, n, s, m)
  <2>1. g # Start /\ g # Complete
    BY <1>2, SingleLengths
  <2> QED  BY <2>1 DEF Corresponds
<1>5. Fits(g, c)
  BY <1>2 DEF Fits, Nesting, BehindComma
<1>6. /\ Len(h) = n /\ (\A i \in 1 .. n - 1 : h[i] = g[i]) /\ h[n] = c
  BY <1>5, GrammarInner
<1>7. BehindComma(g[n], h[n])
  BY <1>1, <1>6
<1> HIDE DEF n, m, h
<1>8. m > 0 /\ Compound(s[m]) /\ Nested(h, n, s, m)
  BY <1>1, <1>3, <1>4, <1>6, <1>7, CommaIsTaken
<1>9. s # <<>> /\ Last(s) = s[m]
  <2>1. m > 0
    BY <1>8
  <2>2. s # <<>>
    BY <2>1 DEF m
  <2> QED  BY <2>2, FrontFacts DEF m
<1>10. Corresponds(h, s, <<>>)
  BY <1>3, <1>6, <1>8 DEF Corresponds, m
<1> QED  BY <1>8, <1>9, <1>10 DEF h

\* Nothing may come behind the document.
LEMMA FinalCorresponds ==
  ASSUME NEW g \in Grammars, NEW s, NEW f, f # <<>>, Corresponds(g, s, f), NEW w
  PROVE  g = Complete /\ Advance(g, w) = Wrong
<1>1. g = Complete
  BY DEF Corresponds
<1>2. Last(g) = "done"
  BY <1>1 DEF Complete, Last
<1> QED  BY <1>1, <1>2, AdvanceFacts DEF ValueTops

-----------------------------------------------------------------------------
(* The parser's actions. *)

\* A string that the object below takes as a key.
IsNewKey(b, v) ==
  b # <<>> /\ Last(b).kind = "object" /\ v.kind = "scalar" /\ v.type = "STRING"

\* _pop_top keeps what was read, and follows the grammar where the stack waits for
\* the value; a key that came before is refused.
LEMMA PopTopKeeps ==
  ASSUME NEW inp \in Text, NEW w \in Lexeme, NEW b, NEW v, Ready(b, v, inp, w), final = <<>>,
         PopTop(b, v)
  PROVE  \/ /\ verdict' = verdict /\ Kept(stack', final', Append(inp, w))
            /\ \A h \in Grammars : Receives(h, b) => Corresponds(h, stack', final')
            /\ IsNewKey(b, v) => stack' = Append(b, v) /\ final' = <<>>
         \/ /\ verdict' = "duplicateKey" /\ Repeats(Append(inp, w))
            /\ ~IsNewKey(b, v)
         \/ /\ verdict' = "unexpected" /\ ~IsNewKey(b, v)
            /\ \A h \in Grammars : ~Receives(h, b)
<1> DEFINE n == Len(b)
           r == Append(inp, w)
<1>1. b \in Seq(Token) /\ v \in Token /\ (\A i \in 1 .. Len(b) : Held(b, i, inp))
  BY DEF Ready
<1>2. CASE b = <<>>
  <2>1. stack' = <<>> /\ final' = <<v>> /\ verdict' = verdict
    BY <1>2 DEF PopTop, Becomes
  <2>2. Kept(<<>>, <<v>>, r)
    BY <1>2, KeptFinal
  <2>3. \A h \in Grammars : Receives(h, b) => Corresponds(h, <<>>, <<v>>)
    BY <1>2, TakenFinal
  <2>4. ~IsNewKey(b, v)
    BY <1>2 DEF IsNewKey
  <2> QED  BY <2>1, <2>2, <2>3, <2>4
<1>3. CASE b # <<>> /\ Last(b).kind = "list"
  <2> DEFINE p == PushBack(Last(b), v)
             t == Inner(b, p)
  <2>1. stack' = t /\ final' = <<>> /\ verdict' = verdict
    BY <1>3 DEF PopTop, Becomes, Inner
  <2>2. Kept(t, <<>>, r)
    BY <1>3, KeptInList
  <2>3. p \in Token /\ p.kind = "list"
    BY <1>1, <1>3, FrontFacts, PushBackFacts
  <2> HIDE DEF p
  <2>4. \A h \in Grammars : Receives(h, b) => Corresponds(h, t, <<>>)
    BY <1>1, <1>3, <2>3, TakenInList
  <2>5. ~IsNewKey(b, v)
    BY <1>3 DEF IsNewKey
  <2> QED  BY <2>1, <2>2, <2>4, <2>5
<1>4. CASE b # <<>> /\ Last(b).kind = "object"
  <2>1. \A h \in Grammars : ~Receives(h, b)
    <3>1. ASSUME NEW h \in Grammars, Receives(h, b) PROVE FALSE
      <4>1. Last(b).kind \in {"list", "colon"}
        BY <1>1, <1>4, <3>1, ReceivesTop
      <4> QED  BY <1>4, <4>1
    <3> QED  BY <3>1
  <2>2. CASE v.kind = "scalar" /\ v.type = "STRING"
    <3>1. stack' = Append(b, v) /\ final' = <<>> /\ verdict' = verdict
      BY <1>4, <2>2 DEF PopTop, Becomes
    <3>2. Kept(Append(b, v), <<>>, r)
      BY <1>4, <2>2, KeptKey
    <3> QED  BY <2>1, <3>1, <3>2
  <2>3. CASE ~(v.kind = "scalar" /\ v.type = "STRING")
    <3>1. verdict' = "unexpected"
      BY <1>4, <2>3 DEF PopTop, Throws
    <3>2. ~IsNewKey(b, v)
      BY <2>3 DEF IsNewKey
    <3> QED  BY <2>1, <3>1, <3>2
  <2> QED  BY <2>2, <2>3
<1>5. CASE b # <<>> /\ Last(b).kind = "colon"
  <2> DEFINE o == Insert(b[n - 2], b[n - 1], v)
             t == Append(SubSeq(b, 1, n - 3), o)
  <2>0. ~IsNewKey(b, v)
    BY <1>5 DEF IsNewKey
  <2>1. CASE HasKey(b[n - 2], RawKey(b[n - 1]))
    <3>1. verdict' = "duplicateKey"
      BY <1>5, <2>1 DEF PopTop, Throws
    <3>2. Repeats(r)
      BY <1>1, <1>5, <2>1, KeyRepeats
    <3> QED  BY <2>0, <3>1, <3>2
  <2>2. CASE ~HasKey(b[n - 2], RawKey(b[n - 1]))
    <3>1. stack' = t /\ final' = <<>> /\ verdict' = verdict
      BY <1>5, <2>2 DEF PopTop, Becomes
    <3>2. Kept(t, <<>>, r)
      BY <1>5, KeptInObject
    <3>3. /\ n > 2 /\ b[n].text = <<<<":">>>> /\ b[n - 2].kind = "object"
          /\ b[n - 2] \in Token /\ b[n - 1] \in Token /\ RawKey(b[n - 1]) \in Word
      BY <1>1, <1>5, ColonFacts
    <3>4. /\ t \in Seq(Token) /\ Len(t) = n - 2 /\ t[n - 2] = o
          /\ \A i \in 1 .. n - 3 : t[i] = b[i]
      BY <1>1, <3>3, TextsInsert
    <3>5. o.kind = "object"
      <4> DEFINE x == b[n - 2]
                 y == b[n - 1]
      <4>1. x \in Token /\ x.kind = "object" /\ y \in Token /\ RawKey(y) \in Word /\ v \in Token
        BY <1>1, <3>3
      <4> HIDE DEF x, y
      <4>2. Insert(x, y, v).kind = "object"
        BY <4>1, InsertKeys
      <4> QED  BY <4>2 DEF x, y
    <3>6. Replaces(t, b, n)
      BY <3>4, <3>5 DEF Replaces
    <3> HIDE DEF t
    <3>7. \A h \in Grammars : Receives(h, b) => Corresponds(h, t, <<>>)
      BY <1>1, <1>5, <3>4, <3>6, TakenInObject
    <3> QED  BY <2>0, <3>1, <3>2, <3>7
  <2> QED  BY <2>1, <2>2
<1>6. CASE b # <<>> /\ Last(b).kind = "scalar"
  <2>1. verdict' = "unexpected"
    BY <1>6 DEF PopTop, Throws
  <2>2. \A h \in Grammars : ~Receives(h, b)
    <3>1. ASSUME NEW h \in Grammars, Receives(h, b) PROVE FALSE
      <4>1. Last(b).kind \in {"list", "colon"}
        BY <1>1, <1>6, <3>1, ReceivesTop
      <4> QED  BY <1>6, <4>1
    <3> QED  BY <3>1
  <2>3. ~IsNewKey(b, v)
    BY <1>6 DEF IsNewKey
  <2> QED  BY <2>1, <2>2, <2>3
<1>7. b # <<>> => Last(b).kind \in {"scalar", "list", "object", "colon"}
  <2>1. ASSUME b # <<>> PROVE Last(b) \in Token
    BY <1>1, <2>1, FrontFacts
  <2> QED  BY <2>1, TokenFacts
<1> QED  BY <1>2, <1>3, <1>4, <1>5, <1>6, <1>7

\* A string with an escaped quotation mark was read.
Escaped(inp) == \E i \in 1 .. Len(inp) : EscapedQuote(inp[i])

\* What is true of the parser when it has read inp: it goes on and holds what it read,
\* with the grammar; or it was given something else than a document, or a key twice.
Parsed(inp, g, s, f, v) ==
  /\ inp \in Text /\ g \in Grammars
  /\ v \in {"none", "accepted", "endOfInput"} =>
       Kept(s, f, inp) /\ ~Escaped(inp) /\ (g # Wrong => Corresponds(g, s, f))
  /\ v \in {"unexpected", "undefined"} => g = Wrong \/ Escaped(inp)
  /\ v = "duplicateKey" => Repeats(inp)
  /\ v = "accepted" => f # <<>>
  /\ g = Complete => v # "endOfInput"

ParserInv == Parsed(input, grammar, stack, final, verdict)

\* One lexeme more.
LEMMA EscapedAppend ==
  ASSUME NEW inp \in Text, NEW w \in Lexeme
  PROVE  Escaped(Append(inp, w)) <=> Escaped(inp) \/ EscapedQuote(w)
<1> DEFINE r == Append(inp, w)
           n == Len(inp)
<1>1. n \in Nat /\ Len(r) = n + 1 /\ (\A a \in 1 .. n : r[a] = inp[a]) /\ r[n + 1] = w
  BY ReadAppend
<1> HIDE DEF r, n
<1>2. \A i \in 1 .. n + 1 : i = n + 1 \/ i \in 1 .. n
  BY <1>1
<1>3. n + 1 \in 1 .. n + 1 /\ \A i \in 1 .. n : i \in 1 .. n + 1
  BY <1>1
<1> QED  BY <1>1, <1>2, <1>3 DEF Escaped, r, n

\* Punctuation is no string.
LEMMA PunctuationPlain ==
  ASSUME NEW w \in {<<"{">>, <<"}">>, <<"[">>, <<"]">>, <<":">>, <<",">>}
  PROVE  w \in Lexeme /\ ~EscapedQuote(w) /\ (w # <<",">> => NoComma(w))
<1>1. w \in Lexeme
  BY PunctuationFacts
<1>2. w[1] \in {"{", "}", "[", "]", ":", ","}
  <2>1. /\ <<"{">>[1] = "{" /\ <<"}">>[1] = "}" /\ <<"[">>[1] = "[" /\ <<"]">>[1] = "]"
        /\ <<":">>[1] = ":" /\ <<",">>[1] = ","
    OBVIOUS
  <2> QED  BY <2>1, Zenon
<1>3. w[1] # Quote
  BY <1>2 DEF Quote
<1> QED  BY <1>1, <1>3 DEF EscapedQuote, NoComma

\* What the actions that read have in common.
LEMMA ReadsFacts ==
  ASSUME ParserInv, NEW w \in Lexeme, Reads(w)
  PROVE  /\ verdict = "none" /\ input \in Text /\ grammar \in Grammars
         /\ Kept(stack, final, input) /\ ~Escaped(input)
         /\ grammar # Wrong => Corresponds(grammar, stack, final)
         /\ input' = Append(input, w) /\ grammar' = Advance(grammar, w)
         /\ input' \in Text /\ grammar' \in Grammars
         /\ grammar = Wrong => grammar' = Wrong
         /\ Escaped(input') <=> EscapedQuote(w)
<1>1. verdict = "none" /\ input' = Append(input, w) /\ grammar' = Advance(grammar, w)
  BY DEF Reads, Parsing
<1>2. /\ input \in Text /\ grammar \in Grammars
      /\ Kept(stack, final, input) /\ ~Escaped(input)
      /\ grammar # Wrong => Corresponds(grammar, stack, final)
  BY <1>1 DEF ParserInv, Parsed
<1>3. Append(input, w) \in Text
  BY <1>2, ReadAppend
<1>4. Advance(grammar, w) \in Grammars /\ (grammar = Wrong => Advance(grammar, w) = Wrong)
  BY <1>2, AdvanceTyped
<1>5. Escaped(Append(input, w)) <=> EscapedQuote(w)
  BY <1>2, EscapedAppend
<1> QED  BY <1>1, <1>2, <1>3, <1>4, <1>5

\* The ways a step may leave the parser.
LEMMA GoesOn ==
  ASSUME input' \in Text, grammar' \in Grammars, verdict' = "none",
         Kept(stack', final', input'), ~Escaped(input'),
         grammar' # Wrong => Corresponds(grammar', stack', final')
  PROVE  ParserInv'
BY DEF ParserInv, Parsed

\* It refuses what is no document.
LEMMA Refuses ==
  ASSUME input' \in Text, grammar' \in Grammars, verdict' \in {"unexpected", "undefined"},
         grammar' = Wrong \/ Escaped(input')
  PROVE  ParserInv'
BY DEF ParserInv, Parsed

\* Input after the document.
LEMMA AfterFinalStep ==
  ASSUME ParserInv, NEW w \in Lexeme, AfterFinal(w)
  PROVE  ParserInv'
<1>1. Reads(w) /\ final # <<>> /\ verdict' = "unexpected"
  BY DEF AfterFinal, Throws
<1>2. /\ grammar \in Grammars /\ (grammar # Wrong => Corresponds(grammar, stack, final))
      /\ grammar' = Advance(grammar, w) /\ input' \in Text /\ grammar' \in Grammars
      /\ grammar = Wrong => grammar' = Wrong
  BY <1>1, ReadsFacts
<1>3. grammar' = Wrong
  <2>1. CASE grammar # Wrong
    BY <1>1, <1>2, <2>1, FinalCorresponds
  <2> QED  BY <1>2, <2>1
<1> QED  BY <1>1, <1>2, <1>3, Refuses

\* The beginning of a list or an object.
LEMMA OpensStep ==
  ASSUME ParserInv, NEW w, Opens(w)
  PROVE  ParserInv'
<1> DEFINE t == IF w = <<"{">> THEN ObjectToken ELSE ListToken
           c == IF w = <<"{">> THEN "{0" ELSE "[0"
<1>1. /\ Reads(w) /\ final = <<>> /\ w \in {<<"{">>, <<"[">>} /\ verdict' = verdict
      /\ stack' = Append(stack, t) /\ final' = final
  BY DEF Opens, Becomes
<1>2. w \in Lexeme /\ ~EscapedQuote(w)
  BY <1>1, PunctuationPlain
<1>3. /\ verdict = "none" /\ input \in Text /\ grammar \in Grammars
      /\ Kept(stack, final, input)
      /\ grammar # Wrong => Corresponds(grammar, stack, final)
      /\ input' = Append(input, w) /\ grammar' = Advance(grammar, w)
      /\ input' \in Text /\ grammar' \in Grammars
      /\ grammar = Wrong => grammar' = Wrong
      /\ ~Escaped(input')
  BY <1>1, <1>2, ReadsFacts
<1>4. Kept(stack', final', input')
  BY <1>1, <1>3, KeptOpened
<1>5. ASSUME grammar' # Wrong PROVE Corresponds(grammar', stack', final')
  <2>1. Class(w) = IF w = <<"{">> THEN "{" ELSE "["
    BY <1>1, <1>2, ClassFacts
  <2>2. Last(grammar) \in ValueTops
    BY <1>3, <1>5, <2>1, AdvanceFacts
  <2> DEFINE h == Inner(grammar, After[Last(grammar)])
  <2>3. stack \in Seq(Token) /\ Corresponds(grammar, stack, <<>>)
    BY <1>1, <1>3, <1>5 DEF Kept
  <2>4. Receives(h, stack) /\ h \in Grammars
    BY <1>3, <2>2, <2>3, ReceivesValue
  <2>5. grammar' = h \o <<c>>
    BY <1>3, <2>1, <2>2, AdvanceFacts
  <2>6. c \in Nesting /\ t \in Token /\ Opened(c, t)
    BY NewTokens DEF Nesting, Opened
  <2> HIDE DEF h, c, t
  <2>7. h \o <<c>> = Append(h, c) /\ Corresponds(Append(h, c), Append(stack, t), <<>>)
    BY <2>3, <2>4, <2>6, OpenedCorresponds
  <2> QED  BY <1>1, <2>5, <2>7
<1> QED  BY <1>1, <1>3, <1>4, <1>5, GoesOn

\* A value that is handed down.
LEMMA PopTopStep ==
  ASSUME NEW inp \in Text, NEW w \in Lexeme, NEW b, NEW v, Ready(b, v, inp, w),
         final = <<>>, verdict = "none", PopTop(b, v), ~EscapedQuote(w), ~Escaped(inp),
         input' = Append(inp, w), grammar' \in Grammars,
         \/ grammar' = Wrong \/ Receives(grammar', b)
         \/ IsNewKey(b, v) /\ Corresponds(grammar', Append(b, v), <<>>)
  PROVE  ParserInv'
<1>1. input' \in Text /\ ~Escaped(input')
  BY ReadAppend, EscapedAppend
<1>2. CASE /\ verdict' = verdict /\ Kept(stack', final', Append(inp, w))
           /\ \A h \in Grammars : Receives(h, b) => Corresponds(h, stack', final')
           /\ IsNewKey(b, v) => stack' = Append(b, v) /\ final' = <<>>
  BY <1>1, <1>2, GoesOn
<1>3. CASE verdict' = "duplicateKey" /\ Repeats(Append(inp, w)) /\ ~IsNewKey(b, v)
  BY <1>1, <1>3 DEF ParserInv, Parsed
<1>4. CASE /\ verdict' = "unexpected" /\ ~IsNewKey(b, v)
           /\ \A h \in Grammars : ~Receives(h, b)
  BY <1>1, <1>4, Refuses
<1> QED  BY <1>2, <1>3, <1>4, PopTopKeeps

\* The end of a list or an object.
LEMMA ClosesStep ==
  ASSUME ParserInv, NEW w, Closes(w)
  PROVE  ParserInv'
<1> DEFINE k == IF w = <<"}">> THEN "object" ELSE "list"
           v == [Last(stack) EXCEPT !.text = Append(@, w)]
<1>1. Reads(w) /\ final = <<>> /\ w \in {<<"}">>, <<"]">>}
  BY DEF Closes
<1>2. w \in Lexeme /\ ~EscapedQuote(w) /\ NoComma(w)
  <2>1. <<"}">> # <<",">> /\ <<"]">> # <<",">>
    OBVIOUS
  <2> QED  BY <1>1, <2>1, PunctuationPlain
<1>3. /\ verdict = "none" /\ input \in Text /\ grammar \in Grammars
      /\ Kept(stack, final, input) /\ ~Escaped(input)
      /\ grammar # Wrong => Corresponds(grammar, stack, final)
      /\ input' = Append(input, w) /\ grammar' = Advance(grammar, w)
      /\ input' \in Text /\ grammar' \in Grammars
      /\ grammar = Wrong => grammar' = Wrong
  BY <1>1, <1>2, ReadsFacts
<1>4. Kept(stack, <<>>, input) /\ stack \in Seq(Token)
  BY <1>1, <1>3 DEF Kept
<1>5. ASSUME grammar' # Wrong
      PROVE  stack # <<>> /\ Last(stack).kind = k /\ Receives(grammar', Front(stack))
  <2>1. Class(w) = IF w = <<"}">> THEN "}" ELSE "]"
    BY <1>1, <1>2, ClassFacts
  <2>2. /\ CanEnd(Last(grammar)) /\ grammar' = Front(grammar)
        /\ k = IF Last(grammar) \in {"[0", "[v"} THEN "list" ELSE "object"
    BY <1>3, <1>5, <2>1, AdvanceFacts DEF CanEnd
  <2>3. Corresponds(grammar, stack, <<>>)
    BY <1>1, <1>3, <1>5
  <2> QED  BY <1>3, <1>4, <2>2, <2>3, EndedCorresponds
<1>6. CASE stack = <<>>
  <2>1. verdict' = "undefined"
    BY <1>6 DEF Closes, Throws
  <2> QED  BY <1>3, <1>5, <1>6, <2>1, Refuses
<1>7. CASE stack # <<>> /\ Last(stack).kind = k
  <2>1. PopTop(Front(stack), v)
    BY <1>7 DEF Closes
  <2>2. Compound(Last(stack))
    BY <1>7 DEF Compound
  <2>3. Ready(Front(stack), v, input, w)
    BY <1>2, <1>3, <1>4, <1>7, <2>2, ReadyEnded
  <2> HIDE DEF v
  <2> QED  BY <1>1, <1>2, <1>3, <1>5, <2>1, <2>3, PopTopStep
<1>8. CASE stack # <<>> /\ Last(stack).kind # k
  <2>1. verdict' = "unexpected"
    BY <1>8 DEF Closes, Throws
  <2> QED  BY <1>3, <1>5, <1>8, <2>1, Refuses
<1> QED  BY <1>6, <1>7, <1>8

\* A colon.
LEMMA ColonStep ==
  ASSUME ParserInv, NEW w, Colon(w)
  PROVE  ParserInv'
<1>1. Reads(w) /\ final = <<>> /\ w = <<":">>
  BY DEF Colon
<1>2. w \in Lexeme /\ ~EscapedQuote(w)
  BY <1>1, PunctuationPlain
<1>3. /\ verdict = "none" /\ input \in Text /\ grammar \in Grammars
      /\ Kept(stack, final, input) /\ ~Escaped(input)
      /\ grammar # Wrong => Corresponds(grammar, stack, final)
      /\ input' = Append(input, w) /\ grammar' = Advance(grammar, w)
      /\ input' \in Text /\ grammar' \in Grammars
      /\ grammar = Wrong => grammar' = Wrong
      /\ ~Escaped(input')
  BY <1>1, <1>2, ReadsFacts
<1>4. Kept(stack, <<>>, input) /\ stack \in Seq(Token)
  BY <1>1, <1>3 DEF Kept
<1>5. ASSUME grammar' # Wrong
      PROVE  /\ stack # <<>> /\ Last(stack).kind = "scalar"
             /\ Corresponds(grammar', Append(stack, ColonToken), <<>>)
  <2>1. Class(w) = ":"
    BY <1>1, <1>2, ClassFacts
  <2>2. Last(grammar) = "{k" /\ grammar' = Inner(grammar, "{:")
    BY <1>3, <1>5, <2>1, AdvanceFacts
  <2>3. Corresponds(grammar, stack, <<>>)
    BY <1>1, <1>3, <1>5
  <2>4. KeyRead(Last(grammar), "{:", ColonToken) /\ ColonToken \in Token
    BY <2>2, NewTokens DEF KeyRead
  <2>5. stack # <<>> /\ KeyBase(Last(grammar), Last(stack)) /\
        Corresponds(Inner(grammar, "{:"), Append(stack, ColonToken), <<>>)
    BY <1>3, <1>4, <2>3, <2>4, KeyCorresponds
  <2> QED  BY <2>2, <2>5 DEF KeyBase
<1>6. CASE stack # <<>> /\ Last(stack).kind = "scalar"
  <2>1. stack' = Append(stack, ColonToken) /\ final' = <<>> /\ verdict' = "none"
    BY <1>1, <1>3, <1>6 DEF Colon, Becomes
  <2>2. Kept(stack', final', input')
    BY <1>1, <1>3, <1>4, <1>6, <2>1, KeptColon
  <2> QED  BY <1>3, <1>5, <2>1, <2>2, GoesOn
<1>7. CASE ~(stack # <<>> /\ Last(stack).kind = "scalar")
  <2>1. verdict' = "unexpected"
    BY <1>7 DEF Colon, Throws
  <2> QED  BY <1>3, <1>5, <1>7, <2>1, Refuses
<1> QED  BY <1>6, <1>7

\* A comma.
LEMMA CommaStep ==
  ASSUME ParserInv, NEW w, Comma(w)
  PROVE  ParserInv'
<1>1. Reads(w) /\ final = <<>> /\ w = <<",">>
  BY DEF Comma
<1>2. w \in Lexeme /\ ~EscapedQuote(w)
  BY <1>1, PunctuationPlain
<1>3. /\ verdict = "none" /\ input \in Text /\ grammar \in Grammars
      /\ Kept(stack, final, input) /\ ~Escaped(input)
      /\ grammar # Wrong => Corresponds(grammar, stack, final)
      /\ input' = Append(input, w) /\ grammar' = Advance(grammar, w)
      /\ input' \in Text /\ grammar' \in Grammars
      /\ grammar = Wrong => grammar' = Wrong
      /\ ~Escaped(input')
  BY <1>1, <1>2, ReadsFacts
<1>4. Kept(stack, <<>>, input) /\ stack \in Seq(Token)
  BY <1>1, <1>3 DEF Kept
<1>5. ASSUME grammar' # Wrong
      PROVE  stack # <<>> /\ Compound(Last(stack)) /\ Corresponds(grammar', stack, <<>>)
  <2>1. Class(w) = ","
    BY <1>1, <1>2, ClassFacts
  <2> DEFINE c == IF Last(grammar) = "[v" THEN "[," ELSE "{,"
  <2>2. BehindComma(Last(grammar), c) /\ grammar' = Inner(grammar, c)
    <3>1. Last(grammar) \in {"[v", "{v"}
      BY <1>3, <1>5, <2>1, AdvanceFacts
    <3>2. CASE Last(grammar) = "[v"
      BY <1>3, <2>1, <3>2, AdvanceFacts DEF BehindComma
    <3>3. CASE Last(grammar) = "{v"
      BY <1>3, <2>1, <3>3, AdvanceFacts DEF BehindComma
    <3> QED  BY <3>1, <3>2, <3>3
  <2>3. Corresponds(grammar, stack, <<>>)
    BY <1>1, <1>3, <1>5
  <2> HIDE DEF c
  <2> QED  BY <1>3, <1>4, <2>2, <2>3, CommaCorresponds
<1>6. CASE stack # <<>> /\ Compound(Last(stack))
  <2>1. stack' = stack /\ final' = <<>> /\ verdict' = "none"
    BY <1>1, <1>3, <1>6 DEF Comma, Becomes, Compound
  <2>2. Kept(stack', final', input')
    BY <1>1, <1>3, <1>4, <1>6, <2>1, KeptComma
  <2> QED  BY <1>3, <1>5, <2>1, <2>2, GoesOn
<1>7. CASE ~(stack # <<>> /\ Compound(Last(stack)))
  <2>1. verdict' \in {"unexpected", "undefined"}
    BY <1>7 DEF Comma, Throws, Compound
  <2> QED  BY <1>3, <1>5, <1>7, <2>1, Refuses
<1> QED  BY <1>6, <1>7

\* A string, a keyword or a number.
LEMMA ParseScalarStep ==
  ASSUME ParserInv, NEW w \in Lexeme, ParseScalar(w)
  PROVE  ParserInv'
<1> DEFINE v == ScalarToken(Lex(w).type, <<SubSeq(w, 1, Lex(w).last)>>)
<1>1. Reads(w) /\ final = <<>> /\ Class(w) \in {"string", "scalar", "unknown"}
  BY DEF ParseScalar
<1>2. NoComma(w)
  BY <1>1, ClassFacts DEF NoComma
<1>3. /\ verdict = "none" /\ input \in Text /\ grammar \in Grammars
      /\ Kept(stack, final, input) /\ ~Escaped(input)
      /\ grammar # Wrong => Corresponds(grammar, stack, final)
      /\ input' = Append(input, w) /\ grammar' = Advance(grammar, w)
      /\ input' \in Text /\ grammar' \in Grammars
      /\ grammar = Wrong => grammar' = Wrong
      /\ Escaped(input') <=> EscapedQuote(w)
  BY <1>1, ReadsFacts
<1>4. Kept(stack, <<>>, input) /\ stack \in Seq(Token)
  BY <1>1, <1>3 DEF Kept
<1>5. CASE ~LexesAll(w)
  <2>1. verdict' = "unexpected"
    BY <1>5 DEF ParseScalar, Throws, LexesAll
  <2>2. EscapedQuote(w) \/ Class(w) = "unknown"
    <3>1. Len(w) \in Nat
      BY LenProperties DEF Lexeme, Word
    <3>2. ~(Len(w) < Len(w))
      BY <3>1
    <3> QED  BY <1>1, <1>5, <3>2, LexFacts DEF LexesAll
  <2>3. Class(w) = "unknown" => grammar' = Wrong
    BY <1>3, AdvanceFacts
  <2> QED  BY <1>3, <2>1, <2>2, <2>3, Refuses
<1>6. CASE LexesAll(w)
  <2>1. PopTop(stack, v)
    BY <1>6 DEF ParseScalar, LexesAll
  <2>2. /\ Ready(stack, v, input, w) /\ v.kind = "scalar"
        /\ v.type = "STRING" <=> w[1] = Quote
        /\ ~EscapedQuote(w)
    BY <1>2, <1>3, <1>4, <1>6, ReadyScalar
  <2> HIDE DEF v
  <2>3. v \in Token
    BY <2>2 DEF Ready
  <2>4. ASSUME grammar' # Wrong
        PROVE  \/ Receives(grammar', stack)
               \/ IsNewKey(stack, v) /\ Corresponds(grammar', Append(stack, v), <<>>)
    <3>1. Corresponds(grammar, stack, <<>>)
      BY <1>1, <1>3, <2>4
    <3>2. CASE Last(grammar) \in ValueTops
      <4>1. Class(w) \in {"string", "scalar"}
        BY <1>1, <1>3, <2>4, AdvanceFacts
      <4>2. grammar' = Inner(grammar, After[Last(grammar)])
        BY <1>3, <3>2, <4>1, AdvanceFacts
      <4> QED  BY <1>3, <1>4, <3>1, <3>2, <4>2, ReceivesValue
    <3>3. CASE Last(grammar) \notin ValueTops
      <4>1. Class(w) = "string" /\ Last(grammar) \in {"{0", "{,"}
        BY <1>1, <1>3, <2>4, <3>3, AdvanceFacts
      <4>2. grammar' = Inner(grammar, "{k")
        BY <1>3, <4>1, AdvanceFacts
      <4>3. KeyRead(Last(grammar), "{k", v)
        BY <2>2, <4>1 DEF KeyRead
      <4>4. /\ stack # <<>> /\ KeyBase(Last(grammar), Last(stack))
            /\ Corresponds(Inner(grammar, "{k"), Append(stack, v), <<>>)
        BY <1>3, <1>4, <2>3, <3>1, <4>3, KeyCorresponds
      <4>5. v.type = "STRING"
        BY <2>2, <4>1, ClassFacts
      <4> QED  BY <2>2, <4>1, <4>2, <4>4, <4>5 DEF KeyBase, IsNewKey
    <3> QED  BY <3>2, <3>3
  <2> QED  BY <1>1, <1>3, <2>1, <2>2, <2>4, PopTopStep
<1> QED  BY <1>5, <1>6

\* The end of the input.
LEMMA EndOfInputStep ==
  ASSUME ParserInv, EndOfInput
  PROVE  ParserInv'
<1>1. /\ verdict = "none" /\ UNCHANGED <<input, grammar, stack, final>>
      /\ verdict' = IF stack = <<>> /\ final # <<>> THEN "accepted" ELSE "endOfInput"
  BY DEF EndOfInput, Parsing
<1>2. /\ input \in Text /\ grammar \in Grammars
      /\ Kept(stack, final, input) /\ ~Escaped(input)
      /\ grammar # Wrong => Corresponds(grammar, stack, final)
  BY <1>1 DEF ParserInv, Parsed
<1>3. ASSUME grammar = Complete PROVE stack = <<>> /\ final # <<>>
  <2>1. grammar # Wrong /\ grammar # Start /\ ~(Len(grammar) > 1)
    BY <1>3 DEF Complete, Wrong, Start
  <2> QED  BY <1>2, <2>1 DEF Corresponds
<1>4. CASE stack = <<>> /\ final # <<>>
  BY <1>1, <1>2, <1>4 DEF ParserInv, Parsed
<1>5. CASE ~(stack = <<>> /\ final # <<>>)
  BY <1>1, <1>2, <1>3, <1>5 DEF ParserInv, Parsed
<1> QED  BY <1>4, <1>5

\* The keys that are written, and short sequences of characters, are words.
LEMMA KeysAreWords ==
  ASSUME NEW k \in Key
  PROVE  k \in Word
<1>1. k \in Seq(STRING) /\ STRING \subseteq Symbol
  BY KeyAssumption DEF Symbol
<1> QED  BY <1>1, SeqMonotonic DEF Word

\* The same for bounded sequences.
LEMMA BoundedWords ==
  ASSUME NEW S, S \subseteq Symbol, NEW n \in Nat, NEW w \in BoundedSeq(S, n)
  PROVE  w \in Word
<1>1. PICK m \in 0 .. n : w \in [1 .. m -> S]
  BY DEF BoundedSeq, SeqOf
<1>2. w \in Seq(S)
  BY <1>1
<1> QED  BY <1>2, SeqMonotonic DEF Word

\* What the parser is given.
LEMMA LexemesRead ==
  ASSUME out \in Text, NEW w \in NextLexemes
  PROVE  w \in Lexeme
<1>1. CASE world # "input"
  <2>1. PICK i \in DOMAIN out : w = out[i]
    BY <1>1 DEF NextLexemes
  <2> QED  BY <2>1 DEF Text
<1>2. CASE w \in InputLexeme
  <2>1. <<"1">> \in Lexeme
    <3>1. "1" \in Symbol /\ "1" # Quote
      BY DEF Symbol, Digit, Quote
    <3>2. <<"1">> \in Word /\ <<"1">>[1] # Quote /\ <<"1">> # <<>>
      BY <3>1, ShortSeq DEF Word
    <3> QED  BY <3>2 DEF Lexeme
  <2>2. ASSUME NEW k \in Key PROVE Quoted(k) \in Lexeme
    BY KeysAreWords, QuotedFacts
  <2> QED  BY <1>2, <2>1, <2>2, PunctuationFacts DEF InputLexeme
<1>3. CASE w \in NumberWord
  <2> DEFINE D == Digit \cup Sign \cup {".", "e"}
  <2>1. w \in BoundedSeq(D, MaxDigits) /\ w # <<>> /\ w[1] \in Digit \cup Sign
    BY <1>3 DEF NumberWord
  <2>2. D \subseteq Symbol
    BY DEF Symbol
  <2>3. w \in Word
    BY <2>1, <2>2, BoundedWords, BoundsAssumption
  <2>4. w[1] # Quote
    BY <2>1 DEF Digit, Sign, Quote
  <2> QED  BY <2>1, <2>3, <2>4 DEF Lexeme
<1> QED  BY <1>1, <1>2, <1>3 DEF NextLexemes

-----------------------------------------------------------------------------
(* What is written. *)

\* A set of places that is not empty has a last one.
LEMMA LastPlace ==
  ASSUME NEW n \in Nat, NEW S \in SUBSET (1 .. n), S # {}
  PROVE  Max(S) \in S
<1> DEFINE T == {m \in Nat : \A x \in S : x <= m}
<1>1. n \in T
  OBVIOUS
<1>2. PICK m \in T : \A k \in T : m <= k
  BY <1>1, Least
<1>3. m \in S
  <2>1. SUFFICES ASSUME m \notin S PROVE FALSE
    OBVIOUS
  <2>2. PICK x \in S : TRUE
    OBVIOUS
  <2>3. \A y \in S : y \in Nat /\ y <= m /\ y # m
    BY <1>2, <2>1
  <2>4. m - 1 \in Nat /\ \A y \in S : y <= m - 1
    BY <1>2, <2>2, <2>3
  <2>5. m - 1 \in T
    BY <2>4
  <2> QED  BY <1>2, <2>5
<1>4. \A y \in S : m >= y
  BY <1>2
<1> QED  BY <1>3, <1>4 DEF Max

\* What is shown of a numeral is a beginning of it.
LEMMA StreamedFacts ==
  ASSUME NEW d \in Word, d # <<>>, d[1] # Quote, d[1] # "."
  PROVE  Streamed(d) \in Lexeme
<1> DEFINE shown == {i \in Significant(d) : d[i] # "0"
                       /\ Cardinality(Significant(d) \cap 1 .. i) <= Precision}
           S == Whole(d) \cup shown
           m == Max(S)
<1>1. Len(d) \in Nat /\ 1 \in DOMAIN d /\ DOMAIN d = 1 .. Len(d)
  BY DEF Word
<1>2. S \subseteq 1 .. Len(d)
  BY <1>1 DEF Significant, Whole
<1>3. 1 \in S
  BY <1>1 DEF Whole
<1> HIDE DEF S
<1>4. m \in 1 .. Len(d)
  BY <1>1, <1>2, <1>3, LastPlace
<1>5. Streamed(d) = SubSeq(d, 1, m)
  BY DEF Streamed, S
<1> HIDE DEF m
<1>6. SubSeq(d, 1, m) \in Word /\ Len(SubSeq(d, 1, m)) = m /\ SubSeq(d, 1, m)[1] = d[1]
  BY <1>1, <1>4 DEF Word
<1>7. SubSeq(d, 1, m) # <<>>
  BY <1>4, <1>6
<1> QED  BY <1>5, <1>6, <1>7 DEF Lexeme

\* The scalars are lexemes.
LEMMA ScalarsAreLexemes ==
  ASSUME NEW v \in WrittenScalars
  PROVE  v.text \in Lexeme
<1>1. ASSUME NEW s \in BoundedSeq(Char, 2) PROVE Quoted(s) \in Lexeme
  <2>1. Char \subseteq Symbol
    BY DEF Symbol
  <2>2. s \in Word
    BY <2>1, BoundedWords
  <2> QED  BY <2>2, QuotedFacts
<1>2. ASSUME NEW c \in Char PROVE Quoted(<<c>>) \in Lexeme
  <2>1. c \in Symbol
    BY DEF Symbol
  <2>2. <<c>> \in Word
    BY <2>1, ShortSeq DEF Word
  <2> QED  BY <2>2, QuotedFacts
<1>3. ASSUME NEW x \in {"null", "true", "false", "0", "M", "nan"} PROVE <<x>> \in Lexeme
  <2>1. x \in Symbol /\ x # Quote
    BY DEF Symbol, Digit, Quote
  <2>2. <<x>> \in Word /\ <<x>>[1] = x /\ <<x>> # <<>>
    BY <2>1, ShortSeq DEF Word
  <2> QED  BY <2>1, <2>2 DEF Lexeme
<1>4. <<"-", "1">> \in Lexeme /\ <<"1", "e", "+", "0", "6">> \in Lexeme
  <2>1. /\ "-" \in Symbol /\ "1" \in Symbol /\ "e" \in Symbol /\ "+" \in Symbol /\ "0" \in Symbol
        /\ "6" \in Symbol /\ "-" # Quote /\ "1" # Quote
    BY DEF Symbol, Digit, Sign, Quote
  <2>2. <<"-", "1">> \in Seq(Symbol) /\ <<"1", "e", "+", "0", "6">> \in Seq(Symbol)
    BY <2>1
  <2>3. /\ <<"-", "1">>[1] = "-" /\ <<"1", "e", "+", "0", "6">>[1] = "1"
        /\ <<"-", "1">> # <<>> /\ <<"1", "e", "+", "0", "6">> # <<>>
    OBVIOUS
  <2> QED  BY <2>1, <2>2, <2>3 DEF Lexeme, Word
<1>9. ASSUME NEW d \in Doubles PROVE Streamed(d) \in Lexeme
  <2>1. /\ "-" \in Symbol /\ "1" \in Symbol /\ "0" \in Symbol /\ "." \in Symbol
        /\ "-" # Quote /\ "1" # Quote /\ "0" # Quote
    BY DEF Symbol, Digit, Sign, Quote
  <2>2. ASSUME NEW a \in {"-", "1", "0"}, NEW b \in Symbol, NEW c \in Symbol, NEW e \in Symbol,
               NEW f \in Symbol, NEW g \in Symbol, NEW h \in Symbol, NEW i \in Symbol, NEW j \in Symbol
        PROVE  \A w \in {<<a>>, <<a, b, c, e>>, <<a, b, c, e, f>>, <<a, b, c, e, f, g>>,
                          <<a, b, c, e, f, g, h, i>>, <<a, b, c, e, f, g, h, i, j>>} :
                 w \in Seq(Symbol) /\ w # <<>> /\ w[1] = a
    <3>1. a \in Symbol
      BY <2>1, <2>2
    <3>2. /\ <<a>> \in Seq(Symbol) /\ <<a, b, c, e>> \in Seq(Symbol)
          /\ <<a, b, c, e, f>> \in Seq(Symbol) /\ <<a, b, c, e, f, g>> \in Seq(Symbol)
          /\ <<a, b, c, e, f, g, h, i>> \in Seq(Symbol)
          /\ <<a, b, c, e, f, g, h, i, j>> \in Seq(Symbol)
      BY <3>1
    <3>3. /\ <<a>>[1] = a /\ <<a, b, c, e>>[1] = a /\ <<a, b, c, e, f>>[1] = a
          /\ <<a, b, c, e, f, g>>[1] = a /\ <<a, b, c, e, f, g, h, i>>[1] = a
          /\ <<a, b, c, e, f, g, h, i, j>>[1] = a
      OBVIOUS
    <3>4. /\ <<a>> # <<>> /\ <<a, b, c, e>> # <<>> /\ <<a, b, c, e, f>> # <<>>
          /\ <<a, b, c, e, f, g>> # <<>> /\ <<a, b, c, e, f, g, h, i>> # <<>>
          /\ <<a, b, c, e, f, g, h, i, j>> # <<>>
      OBVIOUS
    <3> QED  BY <3>2, <3>3, <3>4, Zenon
  <2>3. ASSUME NEW a \in {"-", "1", "0"}, d[1] = a PROVE d[1] # Quote /\ d[1] # "."
    BY <2>1, <2>3
  <2>4. d \in Seq(Symbol) /\ d # <<>> /\ d[1] \in {"-", "1", "0"}
    <3>1. CASE d = <<"1">>
      BY <2>1, <2>2, <3>1
    <3>2. CASE d = <<"-", "1", ".", "1">>
      BY <2>1, <2>2, <3>2
    <3>3. CASE d = <<"0", ".", "0", "0", "1">>
      BY <2>1, <2>2, <3>3
    <3>4. CASE d = <<"1", "0", "1", "0", "0", "0">>
      BY <2>1, <2>2, <3>4
    <3>5. CASE d = <<"1", ".", "0", "1", "0", "1", "0", "1">>
      BY <2>1, <2>2, <3>5
    <3>6. CASE d = <<"-", "1", ".", "0", "0", "0", "0", "0", "1">>
      BY <2>1, <2>2, <3>6
    <3> QED  BY <3>1, <3>2, <3>3, <3>4, <3>5, <3>6, Zenon DEF Doubles
  <2> QED  BY <2>3, <2>4, StreamedFacts DEF Word
<1>5. v \in {Scalar("string", s, Quoted(s)) : s \in BoundedSeq(Char, 2)} => v.text \in Lexeme
  BY <1>1 DEF Scalar
<1>6. ASSUME v \in {Scalar("char", <<c>>, Quoted(<<c>>)) : c \in Char} PROVE v.text \in Lexeme
  <2>1. PICK c \in Char : v = Scalar("char", <<c>>, Quoted(<<c>>))
    BY <1>6
  <2>2. v.text = Quoted(<<c>>)
    BY <2>1 DEF Scalar
  <2> QED  BY <1>2, <2>2
<1>7. \A as, x : Plain(as, x).text = x
  BY DEF Plain, Scalar
<1>8. CASE /\ v \notin {Scalar("string", s, Quoted(s)) : s \in BoundedSeq(Char, 2)}
           /\ v \notin {Scalar("char", <<c>>, Quoted(<<c>>)) : c \in Char}
  <2>1. \/ v \in {Plain("null", <<"null">>), Plain("boolean", <<"true">>),
                  Plain("boolean", <<"false">>)}
        \/ v \in {Plain("signed", <<"-", "1">>), Plain("signed", <<"0">>),
                  Plain("unsigned", <<"M">>)}
        \/ v \in {Scalar("floating", d, Streamed(d)) : d \in Doubles}
        \/ v \in {Scalar("floating", Million, <<"1", "e", "+", "0", "6">>), Plain("floating", <<"nan">>)}
    BY <1>8, Zenon DEF WrittenScalars
  <2>2. CASE v \in {Scalar("floating", d, Streamed(d)) : d \in Doubles}
    <3>1. PICK d \in Doubles : v = Scalar("floating", d, Streamed(d))
      BY <2>2
    <3>2. v.text = Streamed(d)
      BY <3>1 DEF Scalar
    <3> QED  BY <1>9, <3>2
  <2>3. CASE v = Scalar("floating", Million, <<"1", "e", "+", "0", "6">>)
    <3>1. v.text = <<"1", "e", "+", "0", "6">>
      BY <2>3 DEF Scalar
    <3> QED  BY <1>4, <3>1
  <2>4. CASE /\ v \notin {Scalar("floating", d, Streamed(d)) : d \in Doubles}
             /\ v # Scalar("floating", Million, <<"1", "e", "+", "0", "6">>)
    <3>1. v.text \in {<<"null">>, <<"true">>, <<"false">>, <<"-", "1">>, <<"0">>, <<"M">>, <<"nan">>}
      BY <1>7, <2>1, <2>4
    <3>2. /\ <<"null">> \in Lexeme /\ <<"true">> \in Lexeme /\ <<"false">> \in Lexeme
          /\ <<"0">> \in Lexeme /\ <<"M">> \in Lexeme /\ <<"nan">> \in Lexeme
      BY <1>3
    <3> QED  BY <1>4, <3>1, <3>2, Zenon
  <2> QED  BY <2>2, <2>3, <2>4
<1> QED  BY <1>5, <1>6, <1>8

\* The scalars of a document.
LEMMA DocumentScalars ==
  ASSUME NEW v \in {Plain("signed", <<"0">>), Scalar("string", <<"a">>, Quoted(<<"a">>))}
  PROVE  v.text \in Lexeme
<1>1. "0" \in Symbol /\ "a" \in Symbol /\ "0" # Quote
  BY DEF Symbol, Digit, Quote
<1>2. <<"0">> \in Word /\ <<"a">> \in Word /\ <<"0">>[1] = "0" /\ <<"0">> # <<>>
  BY <1>1, ShortSeq DEF Word
<1>3. <<"0">> \in Lexeme
  BY <1>1, <1>2 DEF Lexeme
<1>4. Quoted(<<"a">>) \in Lexeme
  BY <1>2, QuotedFacts
<1>5. v.text = <<"0">> \/ v.text = Quoted(<<"a">>)
  BY DEF Plain, Scalar
<1> QED  BY <1>3, <1>4, <1>5

\* And so is all that is written.
LEMMA OutTyped ==
  ASSUME out \in Text, [Next]_vars
  PROVE  out' \in Text
<1>1. /\ <<"{">> \in Lexeme /\ <<"}">> \in Lexeme /\ <<"[">> \in Lexeme /\ <<"]">> \in Lexeme
      /\ <<":">> \in Lexeme /\ <<",">> \in Lexeme
  BY PunctuationFacts
<1>2. ASSUME NEW x \in Lexeme PROVE <<x>> \in Text
  BY <1>2, ShortSeq DEF Text
<1>3. <<>> \in Text
  BY DEF Text
<1>4. MaybeComma(state) \in Text
  BY <1>1, <1>2, <1>3 DEF MaybeComma
<1>5. ASSUME NEW allowed, NEW x \in Text, NEW next, NEW error, Formats(allowed, x, next, error)
      PROVE  out' \in Text
  <2>1. out \o x \in Text
    BY <1>5, TextConcat
  <2> QED  BY <1>5, <2>1 DEF Formats
<1>6. ASSUME NEW x \in Lexeme PROVE MaybeComma(state) \o <<x>> \in Text
  BY <1>2, <1>4, <1>6, TextConcat
<1>7. ASSUME NEW v, v.text \in Lexeme, WriteScalar(v) PROVE out' \in Text
  BY <1>5, <1>6, <1>7 DEF WriteScalar
<1>8. CASE StartList
  BY <1>1, <1>5, <1>6, <1>8 DEF StartList
<1>9. CASE StartObject
  BY <1>1, <1>5, <1>6, <1>9 DEF StartObject
<1>10. CASE EndList
  BY <1>1, <1>2, <1>5, <1>10 DEF EndList
<1>11. CASE EndObject
  BY <1>1, <1>2, <1>5, <1>11 DEF EndObject
<1>12. CASE EndPair
  BY <1>3, <1>5, <1>12 DEF EndPair
<1>13. ASSUME NEW k \in Key, WriteKey(k) PROVE out' \in Text
  <2>1. Quoted(k) \in Lexeme
    BY <1>13, KeysAreWords, QuotedFacts
  <2>2. <<Quoted(k), <<":">>>> \in Text
    <3> DEFINE q == Quoted(k)
               c == <<":">>
    <3>1. q \in Lexeme /\ c \in Lexeme
      BY <1>1, <2>1
    <3> HIDE DEF q, c
    <3>2. <<q, c>> \in Text
      BY <3>1, ShortSeq DEF Text
    <3> QED  BY <3>2 DEF q, c
  <2>3. MaybeComma(state) \o <<Quoted(k), <<":">>>> \in Text
    BY <1>4, <2>2, TextConcat
  <2> QED  BY <1>5, <1>13, <2>3 DEF WriteKey
<1>14. CASE Parse
  <2>1. ASSUME NEW w, AfterFinal(w) \/ Opens(w) \/ Closes(w) \/ Colon(w) \/ Comma(w) \/ ParseScalar(w)
        PROVE  out' = out
    <3>1. Reads(w)
      BY <2>1 DEF AfterFinal, Opens, Closes, Colon, Comma, ParseScalar
    <3> QED  BY <3>1 DEF Reads, writerVars
  <2>2. EndOfInput => out' = out
    BY DEF EndOfInput, writerVars
  <2> QED  BY <1>14, <2>1, <2>2 DEF Parse
<1>15. CASE UNCHANGED vars
  BY <1>15 DEF vars, writerVars
<1>16. CASE world = "scalar" /\ \E v \in WrittenScalars : WriteScalar(v)
  BY <1>7, <1>16, ScalarsAreLexemes
<1>17. ASSUME NEW v \in {Plain("signed", <<"0">>), Scalar("string", <<"a">>, Quoted(<<"a">>))}
       PROVE  v.text \in Lexeme
  BY <1>17, DocumentScalars
<1>18. CASE Write
  BY <1>7, <1>8, <1>9, <1>10, <1>11, <1>12, <1>13, <1>16, <1>17, <1>18 DEF Write
<1> QED  BY <1>14, <1>15, <1>18 DEF Next

-----------------------------------------------------------------------------
(* The theorems. *)

\* The inductive invariant: the writer writes lexemes, and the parser holds what it
\* read and agrees with the grammar, or has stopped for a reason.
JsonInv == out \in Text /\ ParserInv

\* The grammar's first view is one.
LEMMA StartTyped == Start \in Grammars
<1>1. "value" \in Contexts /\ "value" \in Outermost
  BY DEF Contexts, Outermost
<1>2. Start \in Seq(Contexts) /\ Len(Start) = 1 /\ Start[1] = "value"
  BY <1>1 DEF Start
<1>3. Start # <<>> /\ \A i \in 2 .. Len(Start) : Start[i] \in Nesting
  BY <1>2
<1>4. ~(Len(Start) > 1)
  BY <1>2
<1> QED  BY <1>1, <1>2, <1>3, <1>4 DEF Grammars, Outermost

\* It holds at first,
LEMMA JsonInvInit == Init => JsonInv
<1> SUFFICES ASSUME Init PROVE JsonInv
  OBVIOUS
<1>1. /\ out = <<>> /\ input = <<>> /\ grammar = Start /\ stack = <<>> /\ final = <<>>
      /\ verdict = "none"
  BY DEF Init
<1>2. <<>> \in Text
  BY DEF Text
<1>3. Start \in Grammars
  BY StartTyped
<1>4. Kept(<<>>, <<>>, <<>>)
  <2>1. <<>> \in Seq(Token) /\ Len(<<>>) = 0
    OBVIOUS
  <2>2. Texts(<<>>) = <<>>
    BY <2>1, NewTokens, TextsAppend
  <2>3. WithoutCommas(<<>>) = <<>>
    BY <1>2, PunctuationFacts, CommasAppend DEF Text
  <2>4. \A i \in 1 .. Len(<<>>) : Held(<<>>, i, <<>>)
    OBVIOUS
  <2> QED  BY <2>1, <2>2, <2>3, <2>4 DEF Kept, TopKey
<1>5. ~Escaped(<<>>)
  BY DEF Escaped
<1>6. Corresponds(Start, <<>>, <<>>)
  BY DEF Corresponds
<1> QED  BY <1>1, <1>2, <1>3, <1>4, <1>5, <1>6 DEF JsonInv, ParserInv, Parsed

\* and is kept by every step.
LEMMA JsonInvStep == JsonInv /\ [Next]_vars => JsonInv'
<1> SUFFICES ASSUME JsonInv, [Next]_vars PROVE JsonInv'
  OBVIOUS
<1>1. out \in Text /\ ParserInv /\ out' \in Text
  BY OutTyped DEF JsonInv
<1>2. ASSUME UNCHANGED parserVars PROVE ParserInv'
  BY <1>1, <1>2 DEF ParserInv, parserVars
<1>3. CASE Write
  <2>1. UNCHANGED parserVars
    BY <1>3 DEF Write, WriteScalar, StartList, EndList, StartObject, EndObject, WriteKey, EndPair
  <2> QED  BY <1>1, <1>2, <2>1 DEF JsonInv
<1>4. CASE \E w \in NextLexemes :
             AfterFinal(w) \/ Opens(w) \/ Closes(w) \/ Colon(w) \/ Comma(w) \/ ParseScalar(w)
  <2>1. PICK w \in NextLexemes :
          AfterFinal(w) \/ Opens(w) \/ Closes(w) \/ Colon(w) \/ Comma(w) \/ ParseScalar(w)
    BY <1>4
  <2>2. w \in Lexeme
    BY <1>1, LexemesRead
  <2>3. ParserInv'
    BY <1>1, <2>1, <2>2, AfterFinalStep, OpensStep, ClosesStep, ColonStep, CommaStep,
       ParseScalarStep
  <2> QED  BY <1>1, <2>3 DEF JsonInv
<1>5. CASE EndOfInput
  BY <1>1, <1>5, EndOfInputStep DEF JsonInv
<1>6. CASE UNCHANGED vars
  BY <1>1, <1>2, <1>6 DEF JsonInv, vars
<1> QED  BY <1>3, <1>4, <1>5, <1>6 DEF Next, Parse

\* so it always holds.
THEOREM JsonInvHolds == Spec => []JsonInv
BY JsonInvInit, JsonInvStep, PTL DEF Spec

\* The parser neither loses nor reorders anything it has read, however much that is.
THEOREM ParserHoldsAllInput == Spec => []ParserHoldsInput
<1>1. JsonInv => ParserHoldsInput
  <2> SUFFICES ASSUME JsonInv, verdict \in {"none", "accepted"} PROVE
        LET tokens == stack \o final
        IN /\ FlattenSeq([i \in DOMAIN tokens |-> tokens[i].text]) = WithoutCommas(input)
           /\ \A i \in DOMAIN tokens :
                tokens[i].kind = "scalar" /\ tokens[i].type \in {"INTEGER", "FLOAT"} =>
                  IsNumber(tokens[i].text[1], tokens[i].type)
    BY DEF ParserHoldsInput
  <2>1. Kept(stack, final, input) /\ input \in Text
    BY DEF JsonInv, ParserInv, Parsed
  <2>2. stack \in Seq(Token) /\ final \in Seq(Token)
    BY <2>1 DEF Kept
  <2>3. \A t : FlattenSeq([i \in DOMAIN t |-> t[i].text]) = Texts(t)
    BY DEF Texts
  <2>4. CASE final = <<>>
    <3>1. stack \o final = stack
      BY <2>2, <2>4, ConcatEmptySeq
    <3>2. Texts(stack) = WithoutCommas(input)
      BY <2>1, <2>4 DEF Kept
    <3>3. ASSUME NEW i \in DOMAIN stack, stack[i].kind = "scalar"
          PROVE  stack[i].type \notin {"INTEGER", "FLOAT"}
      <4>1. Held(stack, i, input)
        BY <2>1, <2>2 DEF Kept
      <4> QED  BY <3>3, <4>1 DEF Held
    <3> QED  BY <2>3, <3>1, <3>2, <3>3
  <2>5. CASE final # <<>>
    <3>1. /\ stack = <<>> /\ Len(final) = 1 /\ NumberHeld(final[1])
          /\ final[1].text = WithoutCommas(input)
      BY <2>1, <2>5 DEF Kept
    <3>2. stack \o final = final
      BY <2>2, <3>1, ConcatEmptySeq
    <3>3. DOMAIN final = {1}
      BY <2>2, <3>1
    <3>4. Texts(final) = final[1].text
      <4>0. final[1] \in Token
        BY <2>2, <3>3
      <4>1. final[1] \in Token /\ final[1].text \in Text
        BY <4>0, TokenFacts
      <4> DEFINE e == <<>>
      <4>2. e \in Seq(Token) /\ Len(e) = 0
        OBVIOUS
      <4>3. final = Append(e, final[1])
        BY <2>2, <3>1
      <4>4. Texts(Append(e, final[1])) = Texts(e) \o final[1].text /\ Texts(e) = <<>>
        BY <4>1, <4>2, TextsAppend
      <4>5. <<>> \o final[1].text = final[1].text
        BY <4>1, ConcatEmptySeq DEF Text
      <4> QED  BY <4>3, <4>4, <4>5, Zenon
    <3>5. \A i \in DOMAIN final :
            final[i].kind = "scalar" /\ final[i].type \in {"INTEGER", "FLOAT"} =>
              IsNumber(final[i].text[1], final[i].type)
      BY <3>1, <3>3 DEF NumberHeld
    <3> QED  BY <2>3, <3>1, <3>2, <3>4, <3>5
  <2> QED  BY <2>4, <2>5
<1> QED  BY <1>1, JsonInvHolds, PTL

\* The parser accepts every document without an escaped quotation mark, and refuses
\* otherwise only a key that came before.
THEOREM AcceptsEveryDocument == Spec => []AcceptsDocuments
<1>1. JsonInv => AcceptsDocuments
  <2> SUFFICES ASSUME JsonInv PROVE AcceptsDocuments
    OBVIOUS
  <2>0. Parsed(input, grammar, stack, final, verdict)
    BY DEF JsonInv, ParserInv
  <2>1. input \in Text /\ DOMAIN input = 1 .. Len(input) /\ Len(input) \in Nat
    <3>1. input \in Text
      BY <2>0 DEF Parsed
    <3> QED  BY <3>1 DEF Text
  <2>2. grammar # Wrong /\ (\A i \in DOMAIN input : ~EscapedQuote(input[i])) =>
          verdict \notin {"unexpected", "undefined"}
    BY <2>0, <2>1 DEF Parsed, Escaped
  <2>3. grammar = Complete => verdict # "endOfInput"
    BY <2>0 DEF Parsed
  <2>4. ASSUME verdict = "duplicateKey"
        PROVE  \E i, j \in DOMAIN input : i < j /\ IsKey(i) /\ IsKey(j) /\ input[i] = input[j]
    <3>1. Repeats(input)
      BY <2>0, <2>4 DEF Parsed
    <3>2. PICK a \in 1 .. Len(input) - 1, b \in 1 .. Len(input) - 1 :
            a < b /\ KeyAt(input, a) /\ KeyAt(input, b) /\ input[a] = input[b]
      BY <3>1 DEF Repeats
    <3>3. ASSUME NEW i \in 1 .. Len(input) - 1, KeyAt(input, i)
          PROVE  i \in DOMAIN input /\ IsKey(i)
      <4>1. i \in 1 .. Len(input) /\ i < Len(input)
        BY <2>1
      <4>2. input[i] \in Lexeme
        BY <2>1, <4>1 DEF Text
      <4>3. Class(input[i]) = "string"
        BY <3>3, <4>2, ClassFacts DEF KeyAt
      <4> QED  BY <2>1, <3>3, <4>1, <4>3 DEF IsKey, KeyAt
    <3> QED  BY <3>2, <3>3
  <2> QED  BY <2>2, <2>3, <2>4 DEF AcceptsDocuments
<1> QED  BY <1>1, JsonInvHolds, PTL

-----------------------------------------------------------------------------
(* What the formatter writes: sequences that grow at their end. *)

\* The formatter's states, the calls and the grammar's contexts.
Name ==
  {"VALUE", "LIST", "LIST_VALUE", "OBJECT", "OBJECT_VALUE", "KEY_ENDED"}
    \cup {"list", "object", "key", "pair"}
    \cup {"value", "done", "[0", "[v", "[,", "{0", "{k", "{:", "{v", "{,"}

\* An element that is put on top.
LEMMA OnTop ==
  ASSUME NEW S, NEW s \in Seq(S), NEW x \in S
  PROVE  /\ Append(s, x) \in Seq(S) /\ Append(s, x) # <<>>
         /\ Last(Append(s, x)) = x /\ Front(Append(s, x)) = s
         /\ \A y : Inner(Append(s, x), y) = Append(s, y)
<1> DEFINE a == Append(s, x)
<1>1. /\ a \in Seq(S) /\ a # <<>> /\ Len(a) = Len(s) + 1 /\ Len(s) \in Nat
      /\ a[Len(s) + 1] = x
  BY AppendProperties
<1>2. a = Append(s, x)
  OBVIOUS
<1> HIDE DEF a
<1>3. Last(a) = x
  BY <1>1 DEF Last
<1>4. a = Append(Front(a), Last(a)) /\ Front(a) \in Seq(S) /\ Last(a) \in S
  BY <1>1, FrontLast
<1>5. Front(a) = s
  BY <1>2, <1>4, AppendInjective
<1> QED  BY <1>1, <1>2, <1>3, <1>5 DEF Inner

\* Two elements more.
LEMMA TwoMore ==
  ASSUME NEW S, NEW p \in Seq(S), NEW x \in S, NEW y \in S
  PROVE  p \o <<x, y>> = Append(Append(p, x), y)
<1> DEFINE e == <<x, y>>
           u == p \o e
           a == Append(p, x)
           v == Append(a, y)
<1>1. e \in Seq(S) /\ Len(e) = 2 /\ e[1] = x /\ e[2] = y /\ Len(p) \in Nat
  OBVIOUS
<1> HIDE DEF e
<1>2. /\ u \in Seq(S) /\ Len(u) = Len(p) + Len(e)
      /\ \A i \in 1 .. Len(p) + Len(e) : u[i] = IF i <= Len(p) THEN p[i] ELSE e[i - Len(p)]
  BY <1>1, ConcatProperties
<1>3. /\ a \in Seq(S) /\ Len(a) = Len(p) + 1
      /\ (\A i \in 1 .. Len(p) : a[i] = p[i]) /\ a[Len(p) + 1] = x
  BY AppendProperties
<1> HIDE DEF a
<1>4. /\ v \in Seq(S) /\ Len(v) = Len(a) + 1
      /\ (\A i \in 1 .. Len(a) : v[i] = a[i]) /\ v[Len(a) + 1] = y
  BY <1>3, AppendProperties
<1> HIDE DEF u, v
<1>5. ASSUME NEW i \in 1 .. Len(u) PROVE u[i] = v[i]
  <2>1. CASE i <= Len(p)
    BY <1>1, <1>2, <1>3, <1>4, <1>5, <2>1
  <2>2. CASE i = Len(p) + 1
    BY <1>1, <1>2, <1>3, <1>4, <2>2
  <2>3. CASE i = Len(p) + 2
    BY <1>1, <1>2, <1>3, <1>4, <2>3
  <2> QED  BY <1>1, <1>2, <1>5, <2>1, <2>2, <2>3
<1>6. Len(u) = Len(v)
  BY <1>1, <1>2, <1>3, <1>4
<1>7. u = v
  BY <1>2, <1>4, <1>5, <1>6, SeqEqual
<1> QED  BY <1>7 DEF u, v, a, e

\* The texts of the formatter's calls, after what is there.
LEMMA ThenWritten ==
  ASSUME NEW S, NEW t \in Seq(S), NEW m \in Seq(S), NEW x \in S, NEW y \in S
  PROVE  /\ t \o m \in Seq(S) /\ t \o <<x>> = Append(t, x) /\ t \o <<>> = t
         /\ t \o (m \o <<x>>) = Append(t \o m, x)
         /\ t \o (m \o <<x, y>>) = Append(Append(t \o m, x), y)
<1>1. t \o m \in Seq(S) /\ <<x>> \in Seq(S) /\ <<x, y>> \in Seq(S)
  BY ConcatProperties
<1>2. ASSUME NEW p \in Seq(S), NEW e \in S PROVE p \o <<e>> = Append(p, e)
  BY <1>2, AppendIsConcat
<1>4. t \o (m \o <<x>>) = (t \o m) \o <<x>>
  BY <1>1, ConcatAssociative
<1>5. t \o (m \o <<x, y>>) = (t \o m) \o <<x, y>>
  BY <1>1, ConcatAssociative
<1>6. (t \o m) \o <<x, y>> = Append(Append(t \o m, x), y)
  BY <1>1, TwoMore
<1>7. (t \o m) \o <<x>> = Append(t \o m, x)
  BY <1>1, <1>2
<1>9. t \o <<>> = t
  BY ConcatEmptySeq
<1>10. t \o <<x>> = Append(t, x)
  BY <1>2
<1>11. t \o (m \o <<x>>) = Append(t \o m, x)
  BY <1>4, <1>7, Zenon
<1>12. t \o (m \o <<x, y>>) = Append(Append(t \o m, x), y)
  BY <1>5, <1>6, Zenon
<1> QED  BY <1>1, <1>9, <1>10, <1>11, <1>12, Zenon

\* The same for what is written.
LEMMA TextWritten ==
  ASSUME NEW t \in Text, NEW m \in Text, NEW x \in Lexeme, NEW y \in Lexeme
  PROVE  /\ t \o m \in Text /\ <<x>> \in Text /\ <<>> \in Text
         /\ t \o <<x>> = Append(t, x) /\ t \o <<>> = t
         /\ t \o (m \o <<x>>) = Append(t \o m, x)
         /\ t \o (m \o <<x, y>>) = Append(Append(t \o m, x), y)
<1>1. <<x>> \in Text /\ <<>> \in Text
  BY ShortSeq DEF Text
<1>2. t \in Seq(Lexeme) /\ m \in Seq(Lexeme)
  BY DEF Text
<1>3. /\ t \o m \in Seq(Lexeme) /\ t \o <<x>> = Append(t, x) /\ t \o <<>> = t
      /\ t \o (m \o <<x>>) = Append(t \o m, x)
      /\ t \o (m \o <<x, y>>) = Append(Append(t \o m, x), y)
  BY <1>2, ThenWritten
<1> QED  BY <1>1, <1>3, Zenon DEF Text

\* A lexeme after what else is written.
LEMMA OneWritten ==
  ASSUME NEW t \in Text, NEW m \in Text, NEW x \in Lexeme
  PROVE  t \o m \in Text /\ t \o (m \o <<x>>) = Append(t \o m, x)
<1>1. t \in Seq(Lexeme) /\ m \in Seq(Lexeme)
  BY DEF Text
<1>2. t \o m \in Seq(Lexeme) /\ t \o (m \o <<x>>) = Append(t \o m, x)
  BY <1>1, ThenWritten
<1> QED  BY <1>2, Zenon DEF Text

\* One after nothing else.
LEMMA EmptyWritten ==
  ASSUME NEW t \in Text, NEW x \in Lexeme
  PROVE  t \o (<<>> \o <<x>>) = Append(t, x)
<1>1. <<>> \o <<x>> = <<x>>
  OBVIOUS
<1>2. t \o <<x>> = Append(t, x)
  BY AppendIsConcat DEF Text
<1> QED  BY <1>1, <1>2, Zenon

\* Two after what else is written.
LEMMA TwoWritten ==
  ASSUME NEW t \in Text, NEW m \in Text, NEW x \in Lexeme, NEW y \in Lexeme
  PROVE  /\ t \o m \in Text /\ Append(t \o m, x) \in Text
         /\ t \o (m \o <<x, y>>) = Append(Append(t \o m, x), y)
<1>0. t \in Seq(Lexeme) /\ m \in Seq(Lexeme)
  BY DEF Text
<1>1. t \o m \in Text /\ t \o (m \o <<x, y>>) = Append(Append(t \o m, x), y)
  <2>1. /\ t \o m \in Seq(Lexeme) /\ t \o <<x>> = Append(t, x) /\ t \o <<>> = t
        /\ t \o (m \o <<x>>) = Append(t \o m, x)
        /\ t \o (m \o <<x, y>>) = Append(Append(t \o m, x), y)
    BY <1>0, ThenWritten
  <2> QED  BY <2>1, Zenon DEF Text
<1>2. Append(t \o m, x) \in Text
  <2> DEFINE p == t \o m
  <2>1. p \in Text
    BY <1>1
  <2> HIDE DEF p
  <2>2. Append(p, x) \in Text
    BY <2>1, ReadAppend
  <2> QED  BY <2>2 DEF p
<1> QED  BY <1>1, <1>2, Zenon

\* Naturals.
LEMMA OneLess ==
  ASSUME NEW n \in Nat, NEW m, m = n + 1
  PROVE  m - 1 = n /\ m - 1 = n - 1 + 1
OBVIOUS

\* The grammar's view below the innermost level: d, and a v for every level.
Pile(b, v, d) ==
  b \in Seq(Name) /\ b # <<>> /\ b[1] = d /\ \A i \in 2 .. Len(b) : b[i] = v

\* The calls of a list in a list ...
ListFrames(fs, n, l) == fs \in Seq(Name) /\ Len(fs) = n /\ \A i \in 1 .. n : fs[i] = l

\* and those of an object in a pair of an object ...
KeyFrames(q, n, o, y) ==
  q \in Seq(Name) /\ Len(q) = 2 * n /\ \A i \in 1 .. n : q[2 * i - 1] = o /\ q[2 * i] = y

\* A pile has a level more or less.
LEMMA PileFacts ==
  ASSUME NEW b, NEW v \in Name, NEW d \in Name, Pile(b, v, d)
  PROVE  /\ b \in Seq(Name) /\ Len(b) \in Nat /\ Len(b) > 0
         /\ Pile(Append(b, v), v, d) /\ Len(Append(b, v)) = Len(b) + 1
         /\ Len(b) = 1 => b = <<d>>
         /\ Len(b) # 1 => \E a : Pile(a, v, d) /\ b = Append(a, v) /\ Len(b) = Len(a) + 1
<1>1. /\ b \in Seq(Name) /\ b # <<>> /\ b[1] = d /\ \A i \in 2 .. Len(b) : b[i] = v
  BY DEF Pile
<1>2. Len(b) \in Nat /\ Len(b) > 0
  BY <1>1, EmptySeq
<1>3. Pile(Append(b, v), v, d) /\ Len(Append(b, v)) = Len(b) + 1
  <2> DEFINE a == Append(b, v)
  <2>1. /\ a \in Seq(Name) /\ a # <<>> /\ Len(a) = Len(b) + 1
        /\ (\A i \in 1 .. Len(b) : a[i] = b[i]) /\ a[Len(b) + 1] = v
    BY <1>1, AppendProperties
  <2> HIDE DEF a
  <2>2. a[1] = d
    BY <1>1, <1>2, <2>1
  <2>3. ASSUME NEW i \in 2 .. Len(a) PROVE a[i] = v
    <3>1. CASE i = Len(b) + 1
      BY <2>1, <3>1
    <3>2. CASE i # Len(b) + 1
      <4>1. i \in 1 .. Len(b) /\ i \in 2 .. Len(b)
        BY <1>2, <2>1, <2>3, <3>2
      <4> QED  BY <1>1, <2>1, <4>1
    <3> QED  BY <3>1, <3>2
  <2>4. Pile(a, v, d)
    BY <2>1, <2>2, <2>3 DEF Pile
  <2> QED  BY <2>1, <2>4 DEF a
<1>4. ASSUME Len(b) = 1 PROVE b = <<d>>
  BY <1>1, <1>4
<1>5. ASSUME Len(b) # 1
      PROVE  \E a : Pile(a, v, d) /\ b = Append(a, v) /\ Len(b) = Len(a) + 1
  <2> DEFINE a == Front(b)
  <2>1. b = Append(a, Last(b)) /\ a \in Seq(Name)
    BY <1>1, FrontLast
  <2>2. Last(b) = b[Len(b)] /\ Len(a) = Len(b) - 1 /\ \A i \in 1 .. Len(b) - 1 : a[i] = b[i]
    BY <1>1, FrontFacts
  <2> HIDE DEF a
  <2>3. Last(b) = v
    BY <1>1, <1>2, <1>5, <2>2
  <2>4. Len(a) > 0 /\ Len(b) = Len(a) + 1 /\ Len(a) \in Nat
    BY <1>2, <1>5, <2>2
  <2>5. a[1] = d /\ a # <<>>
    BY <1>1, <2>1, <2>2, <2>4
  <2>6. \A i \in 2 .. Len(a) : a[i] = v
    BY <1>1, <2>2, <2>4
  <2> QED  BY <2>1, <2>3, <2>4, <2>5, <2>6 DEF Pile
<1> QED  BY <1>1, <1>2, <1>3, <1>4, <1>5

\* A higher one has a level below.
LEMMA PileLess ==
  ASSUME NEW b, NEW v \in Name, NEW d \in Name, Pile(b, v, d), Len(b) # 1
  PROVE  \E a : Pile(a, v, d) /\ b = Append(a, v) /\ Len(b) = Len(a) + 1
BY PileFacts

\* The lowest one.
LEMMA PileOfOne ==
  ASSUME NEW v \in Name, NEW d \in Name
  PROVE  Pile(<<d>>, v, d) /\ Len(<<d>>) = 1
BY DEF Pile

\* One list more or less.
LEMMA ListFrameFacts ==
  ASSUME NEW n \in Nat, NEW l \in Name, NEW fs, ListFrames(fs, n, l)
  PROVE  /\ fs \in Seq(Name) /\ ListFrames(Append(fs, l), n + 1, l)
         /\ n = 0 => fs = <<>>
         /\ n # 0 => \E p : p = Front(fs) /\ ListFrames(p, n - 1, l) /\ fs = Append(p, l)
<1>1. fs \in Seq(Name) /\ Len(fs) = n /\ \A i \in 1 .. n : fs[i] = l
  BY DEF ListFrames
<1>2. ListFrames(Append(fs, l), n + 1, l)
  <2> DEFINE a == Append(fs, l)
  <2>1. /\ a \in Seq(Name) /\ Len(a) = n + 1
        /\ (\A i \in 1 .. n : a[i] = fs[i]) /\ a[n + 1] = l
    BY <1>1, AppendProperties
  <2> HIDE DEF a
  <2>2. \A i \in 1 .. n + 1 : a[i] = l
    BY <1>1, <2>1
  <2>3. ListFrames(a, n + 1, l)
    BY <2>1, <2>2 DEF ListFrames
  <2> QED  BY <2>3 DEF a
<1>3. n = 0 => fs = <<>>
  BY <1>1, EmptySeq
<1>4. ASSUME n # 0
      PROVE  ListFrames(Front(fs), n - 1, l) /\ fs = Append(Front(fs), l)
  <2> DEFINE p == Front(fs)
  <2>0. fs # <<>>
    BY <1>1, <1>4
  <2>1. fs = Append(p, Last(fs)) /\ p \in Seq(Name)
    BY <1>1, <2>0, FrontLast
  <2>2. Last(fs) = fs[n] /\ Len(p) = n - 1 /\ \A i \in 1 .. n - 1 : p[i] = fs[i]
    BY <1>1, <2>0, FrontFacts
  <2> HIDE DEF p
  <2>3. Last(fs) = l /\ \A i \in 1 .. n - 1 : p[i] = l
    BY <1>1, <1>4, <2>2
  <2>4. ListFrames(p, n - 1, l)
    BY <2>1, <2>2, <2>3 DEF ListFrames
  <2> QED  BY <2>1, <2>3, <2>4 DEF p
<1> QED  BY <1>1, <1>2, <1>3, <1>4

\* The calls below the innermost one.
LEMMA ListFramesLess ==
  ASSUME NEW n \in Nat, n # 0, NEW l \in Name, NEW fs, ListFrames(fs, n, l)
  PROVE  /\ ListFrames(Front(fs), n - 1, l) /\ fs \in Seq(Name) /\ fs # <<>>
         /\ Last(fs) = l
<1>1. PICK p : p = Front(fs) /\ ListFrames(p, n - 1, l) /\ fs = Append(p, l)
  BY ListFrameFacts
<1>2. p \in Seq(Name)
  BY <1>1 DEF ListFrames
<1>3. fs = Append(p, l)
  BY <1>1
<1>4. fs \in Seq(Name) /\ fs # <<>> /\ Last(fs) = l
  BY <1>2, <1>3, OnTop
<1> QED  BY <1>1, <1>4, Zenon

\* One object with its key more,
LEMMA KeyFramesGrow ==
  ASSUME NEW n \in Nat, NEW o \in Name, NEW y \in Name, NEW q, KeyFrames(q, n, o, y)
  PROVE  q \in Seq(Name) /\ KeyFrames(Append(Append(q, o), y), n + 1, o, y)
<1>1. q \in Seq(Name) /\ Len(q) = 2 * n /\ \A i \in 1 .. n : q[2 * i - 1] = o /\ q[2 * i] = y
  BY DEF KeyFrames
<1> DEFINE a == Append(q, o)
<1>2. /\ a \in Seq(Name) /\ Len(a) = 2 * n + 1
      /\ (\A i \in 1 .. 2 * n : a[i] = q[i]) /\ a[2 * n + 1] = o
  BY <1>1, AppendProperties
<1> HIDE DEF a
<1> DEFINE e == Append(a, y)
<1>3. /\ e \in Seq(Name) /\ Len(e) = 2 * n + 2
      /\ (\A i \in 1 .. 2 * n + 1 : e[i] = a[i]) /\ e[2 * n + 2] = y
  <2>1. /\ e \in Seq(Name) /\ Len(e) = Len(a) + 1
        /\ (\A i \in 1 .. Len(a) : e[i] = a[i]) /\ e[Len(a) + 1] = y
    BY <1>2, AppendProperties
  <2>2. Len(a) + 1 = 2 * n + 2
    BY <1>2
  <2> QED  BY <1>2, <2>1, <2>2
<1> HIDE DEF e
<1>4. ASSUME NEW i \in 1 .. n + 1 PROVE e[2 * i - 1] = o /\ e[2 * i] = y
  <2>1. CASE i = n + 1
    <3>1. 2 * i - 1 = 2 * n + 1 /\ 2 * i = 2 * n + 2
      BY <2>1
    <3>2. e[2 * n + 1] = a[2 * n + 1]
      BY <1>3
    <3> QED  BY <1>2, <1>3, <3>1, <3>2
  <2>2. CASE i # n + 1
    <3>1. i \in 1 .. n
      BY <1>4, <2>2
    <3>2. 2 * i - 1 \in 1 .. 2 * n /\ 2 * i \in 1 .. 2 * n
      BY <3>1
    <3>3. 2 * i - 1 \in 1 .. 2 * n + 1 /\ 2 * i \in 1 .. 2 * n + 1
      BY <3>1
    <3>4. /\ e[2 * i - 1] = a[2 * i - 1] /\ e[2 * i] = a[2 * i]
          /\ a[2 * i - 1] = q[2 * i - 1] /\ a[2 * i] = q[2 * i]
      BY <1>2, <1>3, <3>2, <3>3
    <3> QED  BY <1>1, <3>1, <3>4
  <2> QED  BY <2>1, <2>2
<1>5. Len(e) = 2 * (n + 1)
  BY <1>3
<1>6. KeyFrames(e, n + 1, o, y)
  BY <1>3, <1>4, <1>5 DEF KeyFrames
<1> QED  BY <1>1, <1>6 DEF e, a

\* or less,
LEMMA KeyFramesLess ==
  ASSUME NEW n \in Nat, n # 0, NEW o \in Name, NEW y \in Name, NEW q, KeyFrames(q, n, o, y)
  PROVE  KeyFrames(Front(Front(q)), n - 1, o, y) /\ q = Append(Append(Front(Front(q)), o), y)
<1>0. q \in Seq(Name) /\ Len(q) = 2 * n /\ \A i \in 1 .. n : q[2 * i - 1] = o /\ q[2 * i] = y
  BY DEF KeyFrames
<1> DEFINE a == Front(q)
           p == Front(a)
<1>1. q # <<>>
  BY <1>0
<1>2. /\ q = Append(a, Last(q)) /\ a \in Seq(Name) /\ Last(q) = q[Len(q)]
      /\ Len(a) = Len(q) - 1 /\ \A i \in 1 .. Len(q) - 1 : a[i] = q[i]
  BY <1>0, <1>1, FrontLast, FrontFacts
<1>3. Len(a) = 2 * n - 1 /\ a # <<>>
  BY <1>0, <1>2
<1> HIDE DEF a
<1>4. /\ a = Append(p, Last(a)) /\ p \in Seq(Name) /\ Last(a) = a[Len(a)]
      /\ Len(p) = Len(a) - 1 /\ \A i \in 1 .. Len(a) - 1 : p[i] = a[i]
  BY <1>2, <1>3, FrontLast, FrontFacts
<1> HIDE DEF p
<1>5. Last(q) = y
  BY <1>0, <1>2
<1>6. Last(a) = o
  <2>1. a[2 * n - 1] = q[2 * n - 1]
    BY <1>0, <1>2
  <2> QED  BY <1>0, <1>3, <1>4, <2>1
<1>7. Len(p) = 2 * (n - 1)
  BY <1>3, <1>4
<1>8. ASSUME NEW i \in 1 .. n - 1 PROVE p[2 * i - 1] = o /\ p[2 * i] = y
  <2>1. 2 * i - 1 \in 1 .. 2 * n - 2 /\ 2 * i \in 1 .. 2 * n - 2 /\ i \in 1 .. n
    BY <1>8
  <2>2. \A j \in 1 .. 2 * n - 2 : p[j] = q[j]
    <3>1. \A j \in 1 .. 2 * n - 2 : j \in 1 .. Len(a) - 1 /\ j \in 1 .. Len(q) - 1
      BY <1>0, <1>3
    <3> QED  BY <1>2, <1>4, <3>1
  <2> QED  BY <1>0, <2>1, <2>2
<1>9. KeyFrames(p, n - 1, o, y)
  BY <1>4, <1>7, <1>8 DEF KeyFrames
<1>10. q = Append(Append(p, o), y)
  BY <1>2, <1>4, <1>5, <1>6, Zenon
<1> QED  BY <1>9, <1>10, Zenon DEF p, a

\* until none is left.
LEMMA KeyFramesNone ==
  ASSUME NEW o \in Name, NEW y \in Name, NEW q, KeyFrames(q, 0, o, y)
  PROVE  q = <<>>
<1>1. q \in Seq(Name) /\ Len(q) = 2 * 0
  BY DEF KeyFrames
<1>2. Len(q) = 0
  BY <1>1
<1> QED  BY <1>1, <1>2, EmptySeq

-----------------------------------------------------------------------------
(* What the grammar says of what was written. *)

\* The grammar's views of t, from the first to the last; none is wrong.
Follows(g, t) ==
  /\ g \in Seq(Seq(Name)) /\ Len(g) = Len(t) + 1 /\ g[1] = Start
  /\ \A i \in 1 .. Len(t) : g[i + 1] = Advance(g[i], t[i])
  /\ \A i \in 1 .. Len(g) : g[i] # Wrong

\* The last view of t is c, and the one of its beginning inp is v.
Leads(t, inp, v, c) ==
  \E g : Follows(g, t) /\ c = g[Len(t) + 1] /\ Len(inp) <= Len(t) /\ v = g[Len(inp) + 1]

\* One lexeme more is written.
LEMMA LeadsOn ==
  ASSUME NEW t \in Text, NEW inp \in Text, NEW v, NEW c, Leads(t, inp, v, c), NEW w \in Lexeme,
         NEW d \in Seq(Name), d = Advance(c, w), d # Wrong
  PROVE  Leads(Append(t, w), inp, v, d)
<1>1. PICK g : Follows(g, t) /\ c = g[Len(t) + 1] /\ Len(inp) <= Len(t) /\ v = g[Len(inp) + 1]
  BY DEF Leads
<1>2. /\ g \in Seq(Seq(Name)) /\ Len(g) = Len(t) + 1 /\ g[1] = Start
      /\ \A i \in 1 .. Len(t) : g[i + 1] = Advance(g[i], t[i])
      /\ \A i \in 1 .. Len(g) : g[i] # Wrong
  BY <1>1 DEF Follows
<1> DEFINE h == Append(g, d)
           u == Append(t, w)
<1>3. /\ h \in Seq(Seq(Name)) /\ Len(h) = Len(g) + 1
      /\ (\A i \in 1 .. Len(g) : h[i] = g[i]) /\ h[Len(g) + 1] = d
  BY <1>2, AppendProperties
<1>4. /\ Len(t) \in Nat /\ Len(inp) \in Nat /\ Len(u) = Len(t) + 1
      /\ (\A i \in 1 .. Len(t) : u[i] = t[i]) /\ u[Len(t) + 1] = w
  BY ReadAppend
<1> HIDE DEF h, u
<1>5. ASSUME NEW i \in 1 .. Len(u) PROVE h[i + 1] = Advance(h[i], u[i])
  <2>1. CASE i = Len(t) + 1
    <3>1. i \in 1 .. Len(g) /\ i + 1 = Len(g) + 1
      BY <1>2, <1>4, <2>1
    <3>2. h[i] = c /\ u[i] = w /\ h[i + 1] = d
      BY <1>1, <1>3, <1>4, <2>1, <3>1
    <3> QED  BY <3>2
  <2>2. CASE i # Len(t) + 1
    <3>1. i \in 1 .. Len(t) /\ i \in 1 .. Len(g) /\ i + 1 \in 1 .. Len(g)
      BY <1>2, <1>4, <1>5, <2>2
    <3>2. h[i] = g[i] /\ h[i + 1] = g[i + 1] /\ u[i] = t[i]
      BY <1>3, <1>4, <3>1
    <3> QED  BY <1>2, <3>1, <3>2
  <2> QED  BY <2>1, <2>2
<1>6. ASSUME NEW i \in 1 .. Len(h) PROVE h[i] # Wrong
  <2>1. i = Len(g) + 1 \/ i \in 1 .. Len(g)
    BY <1>2, <1>3, <1>4, <1>6
  <2> QED  BY <1>2, <1>3, <2>1
<1>7. Len(h) = Len(u) + 1
  BY <1>2, <1>3, <1>4
<1>8. h[1] = Start
  BY <1>2, <1>3, <1>4
<1>9. Follows(h, u)
  BY <1>3, <1>5, <1>6, <1>7, <1>8 DEF Follows
<1>10. h[Len(u) + 1] = d
  BY <1>2, <1>3, <1>4
<1>11. Len(inp) <= Len(u) /\ h[Len(inp) + 1] = v
  <2>1. Len(inp) + 1 \in 1 .. Len(g)
    BY <1>1, <1>2, <1>4
  <2> QED  BY <1>1, <1>3, <1>4, <2>1
<1>12. Leads(u, inp, v, d)
  BY <1>9, <1>10, <1>11 DEF Leads
<1> QED  BY <1>12 DEF u

\* One lexeme more is read.
LEMMA LeadsReader ==
  ASSUME NEW t \in Text, NEW inp \in Text, NEW v, NEW c, Leads(t, inp, v, c), NEW w \in Lexeme,
         Len(inp) + 1 \in 1 .. Len(t), w = t[Len(inp) + 1]
  PROVE  Leads(t, Append(inp, w), Advance(v, w), c)
<1>1. PICK g : Follows(g, t) /\ c = g[Len(t) + 1] /\ Len(inp) <= Len(t) /\ v = g[Len(inp) + 1]
  BY DEF Leads
<1>2. Len(inp) \in Nat /\ Len(Append(inp, w)) = Len(inp) + 1 /\ Len(t) \in Nat
  BY ReadAppend
<1>3. g[Len(inp) + 1 + 1] = Advance(v, w)
  BY <1>1 DEF Follows
<1>4. Len(Append(inp, w)) <= Len(t)
  BY <1>2
<1> QED  BY <1>1, <1>2, <1>3, <1>4 DEF Leads

\* The view of what was read is not wrong, and is the last one when all was read.
LEMMA LeadsFacts ==
  ASSUME NEW t \in Text, NEW inp \in Text, NEW v, NEW c, Leads(t, inp, v, c)
  PROVE  v # Wrong /\ (Len(inp) + 1 \notin 1 .. Len(t) => v = c)
<1>1. PICK g : Follows(g, t) /\ c = g[Len(t) + 1] /\ Len(inp) <= Len(t) /\ v = g[Len(inp) + 1]
  BY DEF Leads
<1>2. Len(inp) \in Nat /\ Len(t) \in Nat
  BY DEF Text
<1>3. Len(inp) + 1 \in 1 .. Len(g)
  BY <1>1, <1>2 DEF Follows
<1>4. v # Wrong
  BY <1>1, <1>3 DEF Follows
<1>5. Len(inp) + 1 \notin 1 .. Len(t) => Len(inp) = Len(t)
  BY <1>1, <1>2
<1> QED  BY <1>1, <1>4, <1>5

\* The views are different.
LEMMA ViewsDiffer ==
  /\ Start \in Seq(Name) /\ Complete \in Seq(Name) /\ Start # Wrong /\ Complete # Wrong
  /\ \A b \in Seq(Name), x \in Name : b # <<>> => Append(b, x) # Wrong
<1>1. "value" \in Name /\ "done" \in Name
  BY DEF Name
<1>2. Start \in Seq(Name) /\ Complete \in Seq(Name)
  <2>1. \A x \in Name : <<x>> \in Seq(Name)
    OBVIOUS
  <2> QED  BY <1>1, <2>1 DEF Start, Complete
<1>3. Start # Wrong /\ Complete # Wrong
  <2>1. Start[1] = "value" /\ Complete[1] = "done" /\ Wrong[1] = "wrong"
    BY DEF Start, Complete, Wrong
  <2> QED  BY <2>1
<1>4. ASSUME NEW b \in Seq(Name), NEW x \in Name, b # <<>> PROVE Append(b, x) # Wrong
  <2>1. Len(Append(b, x)) = Len(b) + 1
    BY AppendProperties
  <2>2. Len(b) \in Nat /\ Len(b) # 0
    BY <1>4, EmptySeq
  <2>3. Len(Append(b, x)) # 1
    BY <2>1, <2>2
  <2> QED  BY <2>3, SingleLengths
<1> QED  BY <1>2, <1>3, <1>4

\* Nothing was written yet.
LEMMA LeadsAtFirst == Leads(<<>>, <<>>, Start, Start)
<1> DEFINE g == <<Start>>
<1>1. g \in Seq(Seq(Name)) /\ Len(g) = 1 /\ g[1] = Start
  <2>1. Start \in Seq(Name)
    BY ViewsDiffer
  <2> QED  BY <2>1
<1> HIDE DEF g
<1>2. Len(<<>>) = 0
  OBVIOUS
<1>3. Start # Wrong
  BY ViewsDiffer
<1>4. Len(g) = Len(<<>>) + 1 /\ 1 .. Len(<<>>) = {} /\ 1 .. Len(g) = {1}
  BY <1>1, <1>2
<1>5. Follows(g, <<>>)
  BY <1>1, <1>3, <1>4 DEF Follows
<1>6. Len(<<>>) <= Len(<<>>) /\ Len(<<>>) + 1 = 1
  BY <1>2
<1> QED  BY <1>1, <1>5, <1>6 DEF Leads

-----------------------------------------------------------------------------
(* The formatter's states beside the grammar's views. *)

\* The names are what they are.
LEMMA NamesTyped ==
  /\ "VALUE" \in Name /\ "LIST" \in Name /\ "LIST_VALUE" \in Name /\ "OBJECT" \in Name
  /\ "OBJECT_VALUE" \in Name /\ "KEY_ENDED" \in Name /\ "list" \in Name /\ "object" \in Name
  /\ "key" \in Name /\ "pair" \in Name /\ "value" \in Name /\ "done" \in Name /\ "[0" \in Name
  /\ "[v" \in Name /\ "[," \in Name /\ "{0" \in Name /\ "{k" \in Name /\ "{:" \in Name
  /\ "{v" \in Name /\ "{," \in Name
BY DEF Name

\* The grammar goes on, by its innermost context.
LEMMA AdvanceAt ==
  ASSUME NEW b \in Seq(Name), NEW x \in Name, NEW w
  PROVE  /\ Class(w) \in {"string", "scalar"} /\ x \in {"[0", "[,"} =>
              Advance(Append(b, x), w) = Append(b, "[v")
         /\ Class(w) \in {"string", "scalar"} /\ x = "{:" =>
              Advance(Append(b, x), w) = Append(b, "{v")
         /\ Class(w) = "[" /\ x \in {"[0", "[,"} =>
              Advance(Append(b, x), w) = Append(Append(b, "[v"), "[0")
         /\ Class(w) = "{" /\ x = "{:" =>
              Advance(Append(b, x), w) = Append(Append(b, "{v"), "{0")
         /\ Class(w) = "]" /\ x \in {"[0", "[v"} => Advance(Append(b, x), w) = b
         /\ Class(w) = "}" /\ x \in {"{0", "{v"} => Advance(Append(b, x), w) = b
         /\ Class(w) = "," /\ x = "[v" => Advance(Append(b, x), w) = Append(b, "[,")
         /\ Class(w) = "," /\ x = "{v" => Advance(Append(b, x), w) = Append(b, "{,")
         /\ Class(w) = "string" /\ x \in {"{0", "{,"} => Advance(Append(b, x), w) = Append(b, "{k")
         /\ Class(w) = ":" /\ x = "{k" => Advance(Append(b, x), w) = Append(b, "{:")
<1> DEFINE g == Append(b, x)
<1>1. Last(g) = x /\ Front(g) = b /\ \A y : Inner(g, y) = Append(b, y)
  BY OnTop
<1>2. ASSUME NEW y \in Name, NEW z \in Name PROVE Append(b, y) \o <<z>> = Append(Append(b, y), z)
  <2>1. Append(b, y) \in Seq(Name)
    BY <1>2, OnTop
  <2> QED  BY <1>2, <2>1, AppendIsConcat
<1>3. /\ Append(b, "[v") \o <<"[0">> = Append(Append(b, "[v"), "[0")
      /\ Append(b, "{v") \o <<"{0">> = Append(Append(b, "{v"), "{0")
  BY <1>2, NamesTyped
<1> HIDE DEF g
<1>4. /\ x \in {"[0", "[,"} => x \in ValueTops /\ After[x] = "[v"
      /\ x = "{:" => x \in ValueTops /\ After[x] = "{v"
  BY DEF ValueTops, After
<1>5. /\ Class(w) \in {"string", "scalar"} /\ x \in {"[0", "[,"} => Advance(g, w) = Append(b, "[v")
      /\ Class(w) \in {"string", "scalar"} /\ x = "{:" => Advance(g, w) = Append(b, "{v")
  BY <1>1, <1>4, AdvanceFacts
<1>6. /\ Class(w) = "[" /\ x \in {"[0", "[,"} => Advance(g, w) = Append(b, "[v") \o <<"[0">>
      /\ Class(w) = "{" /\ x = "{:" => Advance(g, w) = Append(b, "{v") \o <<"{0">>
  BY <1>1, <1>4, AdvanceFacts
<1>7. /\ Class(w) = "]" /\ x \in {"[0", "[v"} => Advance(g, w) = b
      /\ Class(w) = "}" /\ x \in {"{0", "{v"} => Advance(g, w) = b
      /\ Class(w) = "," /\ x = "[v" => Advance(g, w) = Append(b, "[,")
      /\ Class(w) = "," /\ x = "{v" => Advance(g, w) = Append(b, "{,")
      /\ Class(w) = "string" /\ x \in {"{0", "{,"} => Advance(g, w) = Append(b, "{k")
      /\ Class(w) = ":" /\ x = "{k" => Advance(g, w) = Append(b, "{:")
  BY <1>1, AdvanceFacts
<1> QED  BY <1>3, <1>5, <1>6, <1>7 DEF g

\* It goes on from the first view.
LEMMA AdvanceStart ==
  ASSUME NEW w
  PROVE  /\ Class(w) \in {"string", "scalar"} => Advance(Start, w) = Complete
         /\ Class(w) = "[" => Advance(Start, w) = Append(Complete, "[0")
         /\ Class(w) = "{" => Advance(Start, w) = Append(Complete, "{0")
<1> DEFINE e == <<>>
<1>1. Start = Append(e, "value") /\ Complete = Append(e, "done")
  BY DEF Start, Complete
<1>2. e \in Seq(Name)
  OBVIOUS
<1> HIDE DEF e
<1>3. Last(Start) = "value" /\ Inner(Start, "done") = Complete
  BY <1>1, <1>2, OnTop, NamesTyped
<1>4. "value" \in ValueTops /\ After["value"] = "done"
  BY DEF ValueTops, After
<1>5. /\ Complete \o <<"[0">> = Append(Complete, "[0")
      /\ Complete \o <<"{0">> = Append(Complete, "{0")
  <2>1. \A z \in Name : Complete \o <<z>> = Append(Complete, z)
    BY ViewsDiffer, AppendIsConcat
  <2> QED  BY <2>1, NamesTyped
<1> QED  BY <1>3, <1>4, <1>5, AdvanceFacts

\* The formatter goes on, by the top of its state.
LEMMA FormatterAt ==
  ASSUME NEW r \in Seq(Name), NEW x \in Name
  PROVE  /\ CanAddValue(Append(r, x)) <=> x \in {"VALUE", "LIST", "LIST_VALUE", "KEY_ENDED"}
         /\ InList(Append(r, x)) <=> x \in {"LIST", "LIST_VALUE"}
         /\ InObject(Append(r, x)) <=> x \in {"OBJECT", "OBJECT_VALUE"}
         /\ x \in {"LIST", "LIST_VALUE"} => ValueAdded(Append(r, x)) = Append(r, "LIST_VALUE")
         /\ x \in {"OBJECT", "OBJECT_VALUE"} => ValueAdded(Append(r, x)) = Append(r, "OBJECT_VALUE")
         /\ x \in {"VALUE", "KEY_ENDED"} => ValueAdded(Append(r, x)) = r
         /\ MaybeComma(Append(r, x)) =
              IF x \in {"LIST_VALUE", "OBJECT_VALUE"} THEN <<<<",">>>> ELSE <<>>
<1> DEFINE s == Append(r, x)
<1>1. Last(s) = x /\ Front(s) = r /\ s = Append(r, x)
  BY OnTop
<1> HIDE DEF s
<1>2. Top(s) = x
  BY <1>1 DEF Top
<1>3. /\ CanAddValue(s) <=> x \in {"VALUE", "LIST", "LIST_VALUE", "KEY_ENDED"}
      /\ InList(s) <=> x \in {"LIST", "LIST_VALUE"}
      /\ InObject(s) <=> x \in {"OBJECT", "OBJECT_VALUE"}
      /\ MaybeComma(s) = IF x \in {"LIST_VALUE", "OBJECT_VALUE"} THEN <<<<",">>>> ELSE <<>>
  BY <1>2 DEF CanAddValue, InList, InObject, MaybeComma
<1>4. /\ x = "LIST" => ValueAdded(s) = Append(r, "LIST_VALUE")
      /\ x = "OBJECT" => ValueAdded(s) = Append(r, "OBJECT_VALUE")
      /\ x \in {"VALUE", "KEY_ENDED"} => ValueAdded(s) = r
      /\ x \in {"LIST_VALUE", "OBJECT_VALUE"} => ValueAdded(s) = s
  BY <1>1, <1>2 DEF ValueAdded
<1> QED  BY <1>1, <1>3, <1>4 DEF s

\* A list that was just opened or has values.
ListView(b, r, c, st) ==
  \/ c = Append(b, "[0") /\ st = Append(r, "LIST")
  \/ c = Append(b, "[v") /\ st = Append(r, "LIST_VALUE")

\* An object likewise.
ObjectView(b, r, c, st) ==
  \/ c = Append(b, "{0") /\ st = Append(r, "OBJECT")
  \/ c = Append(b, "{v") /\ st = Append(r, "OBJECT_VALUE")

\* Lists in lists are being written.
AtList(b, r, c, fs, st) ==
  /\ Pile(b, "[v", "done") /\ ListFrames(fs, Len(b), "list")
  /\ r \in Seq(Name) /\ ListView(b, r, c, st)

\* Objects in the pairs of objects are: q is all of them but the innermost,
Objects(b, q) == Pile(b, "{v", "done") /\ KeyFrames(q, Len(b) - 1, "object", "key")

\* which is between its pairs,
AtObject(b, r, q, c, fs, st) ==
  Objects(b, q) /\ r \in Seq(Name) /\ fs = Append(q, "object") /\ ObjectView(b, r, c, st)

\* or behind a key,
AtKey(b, r, q, c, fs, st) ==
  /\ Objects(b, q) /\ r \in Seq(Name) /\ fs = Append(Append(q, "object"), "key")
  /\ c = Append(b, "{:")
  /\ \E o \in {"OBJECT", "OBJECT_VALUE"} : st = Append(Append(r, o), "KEY_ENDED")

\* or behind the value of a pair that has not ended.
AtPair(b, r, q, c, fs, st) ==
  /\ Objects(b, q) /\ r \in Seq(Name) /\ fs = Append(Append(q, "object"), "pair")
  /\ c = Append(b, "{v")
  /\ \E o \in {"OBJECT", "OBJECT_VALUE"} : st = Append(r, o)

\* How the grammar's view c, the calls fs, the formatter's state st and the number
\* of values n belong together.
Describes(c, fs, st, n) ==
  \/ fs = <<>> /\ n = 0 /\ c = Start /\ st = <<"VALUE">>
  \/ fs = <<>> /\ n # 0 /\ c = Complete
  \/ n # 0 /\ \E b, r : AtList(b, r, c, fs, st)
  \/ n # 0 /\ \E b, r, q : AtObject(b, r, q, c, fs, st)
  \/ n # 0 /\ \E b, r, q : AtKey(b, r, q, c, fs, st)
  \/ n # 0 /\ \E b, r, q : AtPair(b, r, q, c, fs, st)

\* What was written is the beginning of a document, and how it is.
Document(t, inp, v, fs, st, n) == \E c : Leads(t, inp, v, c) /\ Describes(c, fs, st, n)

\* The punctuation.
LEMMA PunctuationClass ==
  /\ Class(<<"{">>) = "{" /\ Class(<<"}">>) = "}" /\ Class(<<"[">>) = "[" /\ Class(<<"]">>) = "]"
  /\ Class(<<":">>) = ":" /\ Class(<<",">>) = ","
BY PunctuationFacts, ClassFacts

\* The formatter may add to a list,
LEMMA ListState ==
  ASSUME NEW b, NEW r \in Seq(Name), NEW c, NEW st, ListView(b, r, c, st)
  PROVE  /\ CanAddValue(st) /\ InList(st) /\ ValueAdded(st) = Append(r, "LIST_VALUE")
         /\ st \in Seq(Name)
<1>1. PICK x \in {"LIST", "LIST_VALUE"} : st = Append(r, x)
  BY DEF ListView
<1>2. x \in Name
  BY <1>1, NamesTyped
<1> QED  BY <1>1, <1>2, FormatterAt, OnTop

\* and to an object.
LEMMA ObjectState ==
  ASSUME NEW r \in Seq(Name), NEW st,
         \E o \in {"OBJECT", "OBJECT_VALUE"} : st = Append(r, o)
  PROVE  InObject(st) /\ ValueAdded(st) = Append(r, "OBJECT_VALUE") /\ st \in Seq(Name)
<1>1. PICK x \in {"OBJECT", "OBJECT_VALUE"} : st = Append(r, x)
  OBVIOUS
<1>2. x \in Name
  BY <1>1, NamesTyped
<1> QED  BY <1>1, <1>2, FormatterAt, OnTop

\* A comma is written where one is due in a list,
LEMMA ListComma ==
  ASSUME NEW t \in Text, NEW inp \in Text, NEW v, NEW c, Leads(t, inp, v, c),
         NEW b \in Seq(Name), b # <<>>, NEW r \in Seq(Name), NEW st, ListView(b, r, c, st)
  PROVE  /\ \E x \in {"[0", "[,"} : Leads(t \o MaybeComma(st), inp, v, Append(b, x))
         /\ MaybeComma(st) \in Text
<1>1. CASE c = Append(b, "[0") /\ st = Append(r, "LIST")
  <2>1. MaybeComma(st) = <<>>
    BY <1>1, FormatterAt, NamesTyped
  <2>3. t \o <<>> = t /\ <<>> \in Text
    BY ConcatEmptySeq DEF Text
  <2>4. Leads(t \o MaybeComma(st), inp, v, Append(b, "[0"))
    BY <1>1, <2>1, <2>3, Zenon
  <2> QED  BY <2>1, <2>3, <2>4
<1>2. CASE c = Append(b, "[v") /\ st = Append(r, "LIST_VALUE")
  <2> DEFINE w == <<",">>
  <2>1. MaybeComma(st) = <<w>>
    BY <1>2, FormatterAt, NamesTyped
  <2>2. Append(b, "[,") \in Seq(Name) /\ Append(b, "[,") # Wrong
    BY <1>2, OnTop, NamesTyped, ViewsDiffer
  <2>3. w \in Lexeme /\ Class(w) = ","
    BY PunctuationFacts, PunctuationClass
  <2> HIDE DEF w
  <2>8. "[v" \in Name
    BY NamesTyped
  <2>4. Advance(c, w) = Append(b, "[,")
    BY <1>2, <2>3, <2>8, AdvanceAt, Zenon
  <2>5. Leads(Append(t, w), inp, v, Append(b, "[,"))
    BY <2>2, <2>3, <2>4, LeadsOn
  <2>6. t \o <<w>> = Append(t, w) /\ <<w>> \in Text
    BY <2>3, TextWritten, Zenon
  <2>7. Leads(t \o MaybeComma(st), inp, v, Append(b, "[,")) /\ MaybeComma(st) \in Text
    BY <2>1, <2>5, <2>6, Zenon
  <2> QED  BY <2>7
<1> QED  BY <1>1, <1>2 DEF ListView

\* and in an object.
LEMMA ObjectComma ==
  ASSUME NEW t \in Text, NEW inp \in Text, NEW v, NEW c, Leads(t, inp, v, c),
         NEW b \in Seq(Name), b # <<>>, NEW r \in Seq(Name), NEW st, ObjectView(b, r, c, st)
  PROVE  /\ \E x \in {"{0", "{,"} : Leads(t \o MaybeComma(st), inp, v, Append(b, x))
         /\ MaybeComma(st) \in Text
<1>1. CASE c = Append(b, "{0") /\ st = Append(r, "OBJECT")
  <2>1. MaybeComma(st) = <<>>
    BY <1>1, FormatterAt, NamesTyped
  <2>3. t \o <<>> = t /\ <<>> \in Text
    BY ConcatEmptySeq DEF Text
  <2>4. Leads(t \o MaybeComma(st), inp, v, Append(b, "{0"))
    BY <1>1, <2>1, <2>3, Zenon
  <2> QED  BY <2>1, <2>3, <2>4
<1>2. CASE c = Append(b, "{v") /\ st = Append(r, "OBJECT_VALUE")
  <2> DEFINE w == <<",">>
  <2>1. MaybeComma(st) = <<w>>
    BY <1>2, FormatterAt, NamesTyped
  <2>2. Append(b, "{,") \in Seq(Name) /\ Append(b, "{,") # Wrong
    BY <1>2, OnTop, NamesTyped, ViewsDiffer
  <2>3. w \in Lexeme /\ Class(w) = ","
    BY PunctuationFacts, PunctuationClass
  <2> HIDE DEF w
  <2>8. "{v" \in Name
    BY NamesTyped
  <2>4. Advance(c, w) = Append(b, "{,")
    BY <1>2, <2>3, <2>8, AdvanceAt, Zenon
  <2>5. Leads(Append(t, w), inp, v, Append(b, "{,"))
    BY <2>2, <2>3, <2>4, LeadsOn
  <2>6. t \o <<w>> = Append(t, w) /\ <<w>> \in Text
    BY <2>3, TextWritten, Zenon
  <2>7. Leads(t \o MaybeComma(st), inp, v, Append(b, "{,")) /\ MaybeComma(st) \in Text
    BY <2>1, <2>5, <2>6, Zenon
  <2> QED  BY <2>7
<1> QED  BY <1>1, <1>2 DEF ObjectView

\* The calls of lists.
LEMMA AtListFacts ==
  ASSUME NEW b, NEW r, NEW c, NEW fs, NEW st, AtList(b, r, c, fs, st)
  PROVE  /\ b \in Seq(Name) /\ b # <<>> /\ Len(b) \in Nat /\ Len(b) > 0 /\ r \in Seq(Name)
         /\ ListView(b, r, c, st) /\ fs \in Seq(Name) /\ fs # <<>> /\ Last(fs) = "list"
         /\ ListFrames(Append(fs, "list"), Len(b) + 1, "list")
         /\ ListFrames(Front(fs), Len(b) - 1, "list")
<1>1. /\ Pile(b, "[v", "done") /\ ListFrames(fs, Len(b), "list") /\ r \in Seq(Name)
      /\ ListView(b, r, c, st)
  BY DEF AtList
<1>2. b \in Seq(Name) /\ b # <<>>
  BY <1>1 DEF Pile
<1>3. Len(b) \in Nat /\ Len(b) > 0
  BY <1>1, PileFacts, NamesTyped
<1>4. Len(b) # 0 /\ "list" \in Name
  <2>1. Len(b) # 0
    BY <1>3
  <2> QED  BY <2>1, NamesTyped
<1>5. ListFrames(Append(fs, "list"), Len(b) + 1, "list")
  BY <1>1, <1>3, <1>4, ListFrameFacts, Zenon
<1>6. /\ ListFrames(Front(fs), Len(b) - 1, "list") /\ fs \in Seq(Name) /\ fs # <<>>
      /\ Last(fs) = "list"
  BY <1>1, <1>3, <1>4, ListFramesLess, Zenon
<1> QED  BY <1>1, <1>2, <1>3, <1>5, <1>6

\* A scalar in a list.
LEMMA ScalarInList ==
  ASSUME NEW t \in Text, NEW inp \in Text, NEW v, NEW c, Leads(t, inp, v, c), NEW n, n # 0,
         NEW b, NEW r, NEW fs, NEW st, AtList(b, r, c, fs, st),
         NEW w \in Lexeme, Class(w) \in {"string", "scalar"}
  PROVE  Document(t \o (MaybeComma(st) \o <<w>>), inp, v, fs, ValueAdded(st), n)
<1>1. /\ b \in Seq(Name) /\ b # <<>> /\ r \in Seq(Name) /\ ListView(b, r, c, st)
  BY AtListFacts
<1> DEFINE m == MaybeComma(st)
<1>2. /\ \E x \in {"[0", "[,"} : Leads(t \o m, inp, v, Append(b, x))
      /\ m \in Text
  BY <1>1, ListComma
<1>10. ValueAdded(st) = Append(r, "LIST_VALUE")
  BY <1>1, ListState, Zenon
<1> HIDE DEF m
<1>3. PICK x \in {"[0", "[,"} : Leads(t \o m, inp, v, Append(b, x))
  BY <1>2
<1>4. Advance(Append(b, x), w) = Append(b, "[v")
  <2>1. x \in Name
    BY <1>3, NamesTyped
  <2> QED  BY <1>1, <1>3, <2>1, AdvanceAt, Zenon
<1>5. Append(b, "[v") \in Seq(Name) /\ Append(b, "[v") # Wrong
  BY <1>1, OnTop, NamesTyped, ViewsDiffer
<1>6. t \o m \in Text /\ t \o (m \o <<w>>) = Append(t \o m, w)
  BY <1>2, OneWritten, Zenon
<1>7. Leads(t \o (m \o <<w>>), inp, v, Append(b, "[v"))
  BY <1>3, <1>4, <1>5, <1>6, LeadsOn
<1>8. AtList(b, r, Append(b, "[v"), fs, ValueAdded(st))
  BY <1>10 DEF AtList, ListView
<1>9. Describes(Append(b, "[v"), fs, ValueAdded(st), n)
  BY <1>8 DEF Describes
<1> QED  BY <1>7, <1>9 DEF Document, m

\* A list in a list.
LEMMA ListInList ==
  ASSUME NEW t \in Text, NEW inp \in Text, NEW v, NEW c, Leads(t, inp, v, c), NEW n, n # 0,
         NEW b, NEW r, NEW fs, NEW st, AtList(b, r, c, fs, st),
         NEW w \in Lexeme, Class(w) = "["
  PROVE  Document(t \o (MaybeComma(st) \o <<w>>), inp, v, Append(fs, "list"), Append(st, "LIST"), n)
<1>1. /\ b \in Seq(Name) /\ b # <<>> /\ r \in Seq(Name) /\ ListView(b, r, c, st)
      /\ ListFrames(Append(fs, "list"), Len(b) + 1, "list")
  BY AtListFacts
<1> DEFINE m == MaybeComma(st)
           a == Append(b, "[v")
<1>2. /\ \E x \in {"[0", "[,"} : Leads(t \o m, inp, v, Append(b, x))
      /\ m \in Text
  BY <1>1, ListComma
<1>12. st \in Seq(Name)
  BY <1>1, ListState, Zenon
<1> HIDE DEF m
<1>3. PICK x \in {"[0", "[,"} : Leads(t \o m, inp, v, Append(b, x))
  BY <1>2
<1>4. Advance(Append(b, x), w) = Append(a, "[0")
  <2>1. x \in Name
    BY <1>3, NamesTyped
  <2> QED  BY <1>1, <1>3, <2>1, AdvanceAt, Zenon
<1>5. Pile(a, "[v", "done") /\ Len(a) = Len(b) + 1
  BY PileFacts, NamesTyped DEF AtList
<1> HIDE DEF a
<1>6. a \in Seq(Name) /\ a # <<>>
  BY <1>5 DEF Pile
<1>7. Append(a, "[0") \in Seq(Name) /\ Append(a, "[0") # Wrong
  BY <1>6, OnTop, NamesTyped, ViewsDiffer
<1>8. t \o m \in Text /\ t \o (m \o <<w>>) = Append(t \o m, w)
  BY <1>2, OneWritten, Zenon
<1>9. Leads(t \o (m \o <<w>>), inp, v, Append(a, "[0"))
  BY <1>3, <1>4, <1>7, <1>8, LeadsOn
<1>10. AtList(a, st, Append(a, "[0"), Append(fs, "list"), Append(st, "LIST"))
  BY <1>1, <1>5, <1>12 DEF AtList, ListView
<1>11. Describes(Append(a, "[0"), Append(fs, "list"), Append(st, "LIST"), n)
  BY <1>10 DEF Describes
<1> QED  BY <1>9, <1>11 DEF Document, m

\* The end of a list.
LEMMA ListEnded ==
  ASSUME NEW t \in Text, NEW inp \in Text, NEW v, NEW c, Leads(t, inp, v, c), NEW n, n # 0,
         NEW b, NEW r, NEW fs, NEW st, AtList(b, r, c, fs, st),
         NEW w \in Lexeme, Class(w) = "]"
  PROVE  Document(t \o <<w>>, inp, v, ValueWritten(Front(fs)), ValueAdded(st), n)
<1>1. /\ b \in Seq(Name) /\ b # <<>> /\ r \in Seq(Name) /\ ListView(b, r, c, st)
      /\ ListFrames(Front(fs), Len(b) - 1, "list") /\ Len(b) \in Nat /\ Len(b) > 0
      /\ Pile(b, "[v", "done")
  BY AtListFacts DEF AtList
<1>2. ValueAdded(st) = Append(r, "LIST_VALUE")
  BY <1>1, ListState, Zenon
<1>3. Advance(c, w) = b
  <2>1. PICK x \in {"[0", "[v"} : c = Append(b, x)
    BY <1>1 DEF ListView
  <2>2. x \in Name
    BY <2>1, NamesTyped
  <2> QED  BY <1>1, <2>1, <2>2, AdvanceAt, Zenon
<1>4. Len(b) # 1 => \E a : Pile(a, "[v", "done") /\ b = Append(a, "[v") /\ Len(b) = Len(a) + 1
  <2>1. "[v" \in Name /\ "done" \in Name
    BY NamesTyped
  <2> QED  BY <1>1, <2>1, PileLess, Zenon
<1>5. Len(b) = 1 => b = Complete
  BY <1>1, PileFacts, NamesTyped DEF Complete
<1>6. b # Wrong
  <2>1. ASSUME NEW a, Pile(a, "[v", "done"), b = Append(a, "[v") PROVE b # Wrong
    BY <2>1, NamesTyped, ViewsDiffer DEF Pile
  <2> QED  BY <1>4, <1>5, <2>1, ViewsDiffer
<1>7. t \o <<w>> = Append(t, w)
  BY ThenWritten DEF Text
<1>8. Leads(t \o <<w>>, inp, v, b)
  BY <1>1, <1>3, <1>6, <1>7, LeadsOn
<1>9. Describes(b, ValueWritten(Front(fs)), ValueAdded(st), n)
  <2> DEFINE p == Front(fs)
  <2>0. ListFrames(p, Len(b) - 1, "list")
    BY <1>1
  <2> HIDE DEF p
  <2>1. CASE Len(b) = 1
    <3>1. Len(b) - 1 = 0
      BY <2>1
    <3>2. p = <<>>
      <4>1. 0 \in Nat /\ ListFrames(p, 0, "list")
        BY <2>0, <3>1, Zenon
      <4> QED  BY <4>1, ListFrameFacts, NamesTyped, Zenon
    <3>3. ValueWritten(p) = <<>>
      BY <3>2 DEF ValueWritten
    <3> QED  BY <1>5, <2>1, <3>3 DEF Describes, p
  <2>2. CASE Len(b) # 1
    <3>1. PICK a : Pile(a, "[v", "done") /\ b = Append(a, "[v") /\ Len(b) = Len(a) + 1
      BY <1>4, <2>2
    <3>2. Len(a) \in Nat
      BY <3>1, PileFacts, NamesTyped, Zenon
    <3>7. Len(b) - 1 = Len(a)
      BY <3>1, <3>2, OneLess, Zenon
    <3>3. ListView(a, r, b, ValueAdded(st))
      BY <1>2, <3>1 DEF ListView
    <3>4. AtList(a, r, b, p, ValueAdded(st))
      BY <1>1, <2>0, <3>1, <3>3, <3>7 DEF AtList
    <3>5. Last(p) = "list"
      BY <3>4, AtListFacts
    <3>6. ValueWritten(p) = p
      BY <3>5 DEF ValueWritten
    <3> QED  BY <3>4, <3>6 DEF Describes, p
  <2> QED  BY <2>1, <2>2
<1> QED  BY <1>8, <1>9 DEF Document

\* The calls of objects.
LEMMA ObjectsFacts ==
  ASSUME NEW b, NEW q, Objects(b, q)
  PROVE  /\ b \in Seq(Name) /\ b # <<>> /\ q \in Seq(Name)
         /\ Append(q, "object") \in Seq(Name) /\ Append(q, "object") # <<>>
         /\ Last(Append(q, "object")) = "object" /\ Front(Append(q, "object")) = q
         /\ Objects(Append(b, "{v"), Append(Append(q, "object"), "key"))
<1>1. Pile(b, "{v", "done") /\ KeyFrames(q, Len(b) - 1, "object", "key")
  BY DEF Objects
<1>2. b \in Seq(Name) /\ b # <<>> /\ q \in Seq(Name)
  BY <1>1 DEF Pile, KeyFrames
<1>3. "{v" \in Name /\ "done" \in Name /\ "object" \in Name /\ "key" \in Name
  BY NamesTyped
<1>4. /\ Append(q, "object") \in Seq(Name) /\ Append(q, "object") # <<>>
      /\ Last(Append(q, "object")) = "object" /\ Front(Append(q, "object")) = q
  BY <1>2, <1>3, OnTop
<1>5. Len(b) \in Nat /\ Len(b) > 0
  BY <1>1, <1>3, PileFacts, Zenon
<1>6. Pile(Append(b, "{v"), "{v", "done") /\ Len(Append(b, "{v")) = Len(b) + 1
  BY <1>1, <1>3, PileFacts, Zenon
<1>7. Len(b) - 1 \in Nat
  BY <1>5
<1>10. Len(Append(b, "{v")) - 1 = Len(b) - 1 + 1
  BY <1>5, <1>6, OneLess, Zenon
<1>8. KeyFrames(Append(Append(q, "object"), "key"), Len(b) - 1 + 1, "object", "key")
  BY <1>1, <1>3, <1>7, KeyFramesGrow, Zenon
<1>9. Objects(Append(b, "{v"), Append(Append(q, "object"), "key"))
  BY <1>6, <1>8, <1>10, Zenon DEF Objects
<1> QED  BY <1>2, <1>4, <1>9

\* The outermost object is written, or one in a pair of another.
LEMMA ObjectsLess ==
  ASSUME NEW b, NEW q, Objects(b, q)
  PROVE  \/ b = Complete /\ q = <<>>
         \/ \E a : /\ Objects(a, Front(Front(q))) /\ b = Append(a, "{v")
                  /\ q = Append(Append(Front(Front(q)), "object"), "key")
<1>1. Pile(b, "{v", "done") /\ KeyFrames(q, Len(b) - 1, "object", "key")
  BY DEF Objects
<1>2. "{v" \in Name /\ "done" \in Name /\ "object" \in Name /\ "key" \in Name
  BY NamesTyped
<1>3. Len(b) \in Nat /\ Len(b) > 0
  BY <1>1, <1>2, PileFacts, Zenon
<1>4. CASE Len(b) = 1
  <2>1. b = Complete
    BY <1>1, <1>2, <1>4, PileFacts, Zenon DEF Complete
  <2>2. Len(b) - 1 = 0
    BY <1>4
  <2>3. 0 \in Nat /\ KeyFrames(q, 0, "object", "key")
    BY <1>1, <2>2, Zenon
  <2>4. q = <<>>
    BY <1>2, <2>3, KeyFramesNone, Zenon
  <2> QED  BY <2>1, <2>4
<1>5. CASE Len(b) # 1
  <2>1. PICK a : Pile(a, "{v", "done") /\ b = Append(a, "{v") /\ Len(b) = Len(a) + 1
    BY <1>1, <1>2, <1>5, PileLess, Zenon
  <2>2. Len(b) - 1 \in Nat /\ Len(b) - 1 # 0
    BY <1>3, <1>5
  <2> DEFINE k == Len(b) - 1
  <2>7. k \in Nat /\ k # 0 /\ KeyFrames(q, k, "object", "key")
    BY <1>1, <2>2, Zenon
  <2> HIDE DEF k
  <2> DEFINE p == Front(Front(q))
  <2>3. KeyFrames(p, k - 1, "object", "key") /\ q = Append(Append(p, "object"), "key")
    <3>1. ASSUME NEW o \in Name, NEW y \in Name, KeyFrames(q, k, o, y)
          PROVE  KeyFrames(p, k - 1, o, y) /\ q = Append(Append(p, o), y)
      BY <2>7, <3>1, KeyFramesLess
    <3> QED  BY <1>2, <2>7, <3>1, Zenon
  <2> HIDE DEF p
  <2>4. Len(a) \in Nat
    BY <1>2, <2>1, PileFacts, Zenon
  <2>5. Len(b) - 1 = Len(a)
    BY <2>1, <2>4, OneLess, Zenon
  <2>6. Objects(a, p)
    BY <2>1, <2>3, <2>5, Zenon DEF Objects, k
  <2> QED  BY <2>1, <2>3, <2>6, Zenon DEF p
<1> QED  BY <1>4, <1>5, Zenon

\* What the formatter does behind a key.
LEMMA KeyEnded ==
  ASSUME NEW e \in Seq(Name), NEW st, st = Append(e, "KEY_ENDED")
  PROVE  CanAddValue(st) /\ ValueAdded(st) = e /\ MaybeComma(st) = <<>> /\ st \in Seq(Name)
<1>1. "KEY_ENDED" \in Name
  BY NamesTyped
<1>2. "KEY_ENDED" \in {"VALUE", "LIST", "LIST_VALUE", "KEY_ENDED"}
  OBVIOUS
<1>3. "KEY_ENDED" \in {"VALUE", "KEY_ENDED"} /\ "KEY_ENDED" \notin {"LIST_VALUE", "OBJECT_VALUE"}
  OBVIOUS
<1>4. CanAddValue(st) /\ ValueAdded(st) = e
  BY <1>1, <1>2, <1>3, FormatterAt, Zenon
<1>5. MaybeComma(st) = <<>>
  BY <1>1, <1>3, FormatterAt, Zenon
<1>6. st \in Seq(Name)
  BY <1>1, OnTop, Zenon
<1> QED  BY <1>4, <1>5, <1>6

\* The state behind a key.
LEMMA KeyState ==
  ASSUME NEW r \in Seq(Name), NEW o \in {"OBJECT", "OBJECT_VALUE"}, NEW st,
         st = Append(Append(r, o), "KEY_ENDED")
  PROVE  /\ CanAddValue(st) /\ ValueAdded(st) = Append(r, o) /\ MaybeComma(st) = <<>>
         /\ st \in Seq(Name)
<1>1. o \in Name /\ "KEY_ENDED" \in Name
  BY NamesTyped
<1> DEFINE e == Append(r, o)
<1>2. e \in Seq(Name) /\ st = Append(e, "KEY_ENDED")
  BY <1>1, OnTop
<1> HIDE DEF e
<1>3. /\ CanAddValue(st) /\ ValueAdded(st) = e /\ MaybeComma(st) = <<>>
      /\ st \in Seq(Name)
  BY <1>2, KeyEnded, Zenon
<1> QED  BY <1>3, Zenon DEF e

\* A scalar as the value of a pair.
LEMMA ScalarInPair ==
  ASSUME NEW t \in Text, NEW inp \in Text, NEW v, NEW c, Leads(t, inp, v, c), NEW n, n # 0,
         NEW b, NEW r, NEW q, NEW fs, NEW st, AtKey(b, r, q, c, fs, st),
         NEW w \in Lexeme, Class(w) \in {"string", "scalar"}
  PROVE  /\ Document(t \o (MaybeComma(st) \o <<w>>), inp, v, ValueWritten(fs), ValueAdded(st), n)
         /\ CanAddValue(st)
<1>1. /\ Objects(b, q) /\ r \in Seq(Name) /\ fs = Append(Append(q, "object"), "key")
      /\ c = Append(b, "{:")
  BY DEF AtKey
<1>2. PICK o \in {"OBJECT", "OBJECT_VALUE"} : st = Append(Append(r, o), "KEY_ENDED")
  BY DEF AtKey
<1>3. CanAddValue(st) /\ ValueAdded(st) = Append(r, o) /\ MaybeComma(st) = <<>>
  BY <1>1, <1>2, KeyState
<1>4. b \in Seq(Name) /\ b # <<>> /\ Append(q, "object") \in Seq(Name)
  BY <1>1, ObjectsFacts
<1>5. "{:" \in Name /\ "{v" \in Name /\ "key" \in Name
  BY NamesTyped
<1>6. Advance(c, w) = Append(b, "{v")
  BY <1>1, <1>4, <1>5, AdvanceAt, Zenon
<1>7. Append(b, "{v") \in Seq(Name) /\ Append(b, "{v") # Wrong
  BY <1>4, <1>5, OnTop, ViewsDiffer
<1>8. t \o (<<>> \o <<w>>) = Append(t, w)
  BY EmptyWritten
<1>9. Leads(t \o (MaybeComma(st) \o <<w>>), inp, v, Append(b, "{v"))
  <2>1. Leads(Append(t, w), inp, v, Append(b, "{v"))
    BY <1>6, <1>7, LeadsOn
  <2> QED  BY <1>3, <1>8, <2>1, Zenon
<1>10. ValueWritten(fs) = Append(Append(q, "object"), "pair")
  <2> DEFINE e == Append(q, "object")
  <2>1. e \in Seq(Name) /\ fs = Append(e, "key")
    BY <1>1, <1>4
  <2> HIDE DEF e
  <2>2. fs # <<>> /\ Last(fs) = "key" /\ Front(fs) = e
    BY <1>5, <2>1, OnTop
  <2>3. ValueWritten(fs) = Append(e, "pair")
    BY <2>2 DEF ValueWritten
  <2> QED  BY <2>3 DEF e
<1>11. AtPair(b, r, q, Append(b, "{v"), ValueWritten(fs), ValueAdded(st))
  BY <1>1, <1>2, <1>3, <1>10, Zenon DEF AtPair
<1>12. Describes(Append(b, "{v"), ValueWritten(fs), ValueAdded(st), n)
  BY <1>11, Zenon DEF Describes
<1> QED  BY <1>3, <1>9, <1>12, Zenon DEF Document

\* An object as the value of a pair.
LEMMA ObjectInPair ==
  ASSUME NEW t \in Text, NEW inp \in Text, NEW v, NEW c, Leads(t, inp, v, c), NEW n, n # 0,
         NEW b, NEW r, NEW q, NEW fs, NEW st, AtKey(b, r, q, c, fs, st),
         NEW w \in Lexeme, Class(w) = "{"
  PROVE  Document(t \o (MaybeComma(st) \o <<w>>), inp, v, Append(fs, "object"),
                  Append(st, "OBJECT"), n)
<1>1. /\ Objects(b, q) /\ r \in Seq(Name) /\ fs = Append(Append(q, "object"), "key")
      /\ c = Append(b, "{:")
  BY DEF AtKey
<1>2. PICK o \in {"OBJECT", "OBJECT_VALUE"} : st = Append(Append(r, o), "KEY_ENDED")
  BY DEF AtKey
<1>3. MaybeComma(st) = <<>> /\ st \in Seq(Name)
  BY <1>1, <1>2, KeyState
<1> DEFINE a == Append(b, "{v")
<1>4. b \in Seq(Name) /\ Objects(a, fs)
  BY <1>1, ObjectsFacts
<1>5. "{:" \in Name /\ "{0" \in Name
  BY NamesTyped
<1>6. Advance(c, w) = Append(a, "{0")
  BY <1>1, <1>4, <1>5, AdvanceAt, Zenon
<1> HIDE DEF a
<1>7. Append(a, "{0") \in Seq(Name) /\ Append(a, "{0") # Wrong
  <2>1. a \in Seq(Name) /\ a # <<>>
    BY <1>4, ObjectsFacts
  <2> QED  BY <1>5, <2>1, OnTop, ViewsDiffer
<1>8. t \o (<<>> \o <<w>>) = Append(t, w)
  BY EmptyWritten
<1>9. Leads(t \o (MaybeComma(st) \o <<w>>), inp, v, Append(a, "{0"))
  <2>1. Leads(Append(t, w), inp, v, Append(a, "{0"))
    BY <1>6, <1>7, LeadsOn
  <2> QED  BY <1>3, <1>8, <2>1, Zenon
<1>10. AtObject(a, st, fs, Append(a, "{0"), Append(fs, "object"), Append(st, "OBJECT"))
  BY <1>3, <1>4, Zenon DEF AtObject, ObjectView
<1>11. Describes(Append(a, "{0"), Append(fs, "object"), Append(st, "OBJECT"), n)
  BY <1>10, Zenon DEF Describes
<1> QED  BY <1>3, <1>9, <1>11, Zenon DEF Document

\* The end of an object.
LEMMA ObjectEnded ==
  ASSUME NEW t \in Text, NEW inp \in Text, NEW v, NEW c, Leads(t, inp, v, c), NEW n, n # 0,
         NEW b, NEW r, NEW q, NEW fs, NEW st, AtObject(b, r, q, c, fs, st),
         NEW w \in Lexeme, Class(w) = "}"
  PROVE  Document(t \o <<w>>, inp, v, ValueWritten(Front(fs)), ValueAdded(st), n)
<1>1. /\ Objects(b, q) /\ r \in Seq(Name) /\ fs = Append(q, "object") /\ ObjectView(b, r, c, st)
  BY DEF AtObject
<1>2. ValueAdded(st) = Append(r, "OBJECT_VALUE")
  BY <1>1, ObjectState DEF ObjectView
<1>3. b \in Seq(Name) /\ Front(fs) = q
  BY <1>1, ObjectsFacts
<1>4. Advance(c, w) = b
  <2>1. PICK x \in {"{0", "{v"} : c = Append(b, x)
    BY <1>1 DEF ObjectView
  <2>2. x \in Name
    BY <2>1, NamesTyped
  <2> QED  BY <1>3, <2>1, <2>2, AdvanceAt, Zenon
<1>5. t \o <<w>> = Append(t, w)
  BY TextWritten
<1>6. CASE b = Complete /\ q = <<>>
  <2>1. ValueWritten(Front(fs)) = <<>>
    BY <1>3, <1>6 DEF ValueWritten
  <2>2. b # Wrong
    BY <1>6, ViewsDiffer
  <2>3. Leads(t \o <<w>>, inp, v, b)
    BY <1>3, <1>4, <1>5, <2>2, LeadsOn
  <2>4. Describes(b, ValueWritten(Front(fs)), ValueAdded(st), n)
    BY <1>6, <2>1 DEF Describes
  <2> QED  BY <2>3, <2>4 DEF Document
<1>7. ASSUME NEW a, NEW p, Objects(a, p), b = Append(a, "{v"),
             q = Append(Append(p, "object"), "key")
      PROVE  Document(t \o <<w>>, inp, v, ValueWritten(Front(fs)), ValueAdded(st), n)
  <2>1. a \in Seq(Name) /\ a # <<>> /\ Append(p, "object") \in Seq(Name)
    BY <1>7, ObjectsFacts
  <2>2. "{v" \in Name /\ "key" \in Name
    BY NamesTyped
  <2>3. b # Wrong
    BY <1>7, <2>1, <2>2, ViewsDiffer
  <2>4. Leads(t \o <<w>>, inp, v, b)
    BY <1>3, <1>4, <1>5, <2>3, LeadsOn
  <2>5. ValueWritten(q) = Append(Append(p, "object"), "pair")
    <3> DEFINE e == Append(p, "object")
    <3>1. e \in Seq(Name) /\ q = Append(e, "key")
      BY <1>7, <2>1
    <3> HIDE DEF e
    <3>2. q # <<>> /\ Last(q) = "key" /\ Front(q) = e
      BY <2>2, <3>1, OnTop
    <3>3. ValueWritten(q) = Append(e, "pair")
      BY <3>2 DEF ValueWritten
    <3> QED  BY <3>3 DEF e
  <2>6. AtPair(a, r, p, b, ValueWritten(q), ValueAdded(st))
    BY <1>1, <1>2, <1>7, <2>5, Zenon DEF AtPair
  <2>7. Describes(b, ValueWritten(Front(fs)), ValueAdded(st), n)
    BY <1>3, <2>6, Zenon DEF Describes
  <2> QED  BY <2>4, <2>7, Zenon DEF Document
<1>8. \/ b = Complete /\ q = <<>>
      \/ \E a : /\ Objects(a, Front(Front(q))) /\ b = Append(a, "{v")
               /\ q = Append(Append(Front(Front(q)), "object"), "key")
  BY <1>1, ObjectsLess, Zenon
<1> QED  BY <1>6, <1>7, <1>8, Zenon

\* A key and its colon.
LEMMA KeyWritten ==
  ASSUME NEW t \in Text, NEW inp \in Text, NEW v, NEW c, Leads(t, inp, v, c), NEW n, n # 0,
         NEW b, NEW r, NEW q, NEW fs, NEW st, AtObject(b, r, q, c, fs, st),
         NEW w \in Lexeme, Class(w) = "string", NEW k \in Lexeme, Class(k) = ":"
  PROVE  /\ Document(t \o (MaybeComma(st) \o <<w, k>>), inp, v, Append(fs, "key"),
                     Append(st, "KEY_ENDED"), n)
         /\ InObject(st)
<1>1. /\ Objects(b, q) /\ r \in Seq(Name) /\ fs = Append(q, "object") /\ ObjectView(b, r, c, st)
  BY DEF AtObject
<1>2. b \in Seq(Name) /\ b # <<>>
  BY <1>1, ObjectsFacts
<1> DEFINE m == MaybeComma(st)
<1>3. /\ \E x \in {"{0", "{,"} : Leads(t \o m, inp, v, Append(b, x))
      /\ m \in Text
  BY <1>1, <1>2, ObjectComma
<1>4. InObject(st)
  BY <1>1, ObjectState DEF ObjectView
<1> HIDE DEF m
<1>5. PICK x \in {"{0", "{,"} : Leads(t \o m, inp, v, Append(b, x))
  BY <1>3
<1>6. x \in Name /\ "{k" \in Name /\ "{:" \in Name
  BY <1>5, NamesTyped
<1>7. Advance(Append(b, x), w) = Append(b, "{k")
  BY <1>2, <1>5, <1>6, AdvanceAt, Zenon
<1>8. Advance(Append(b, "{k"), k) = Append(b, "{:")
  BY <1>2, <1>6, AdvanceAt, Zenon
<1>9. /\ Append(b, "{k") \in Seq(Name) /\ Append(b, "{k") # Wrong
      /\ Append(b, "{:") \in Seq(Name) /\ Append(b, "{:") # Wrong
  BY <1>2, <1>6, OnTop, ViewsDiffer
<1>10. /\ t \o m \in Text /\ Append(t \o m, w) \in Text
       /\ t \o (m \o <<w, k>>) = Append(Append(t \o m, w), k)
  BY <1>3, TwoWritten, Zenon
<1>11. Leads(Append(t \o m, w), inp, v, Append(b, "{k"))
  BY <1>5, <1>7, <1>9, <1>10, LeadsOn
<1>12. Leads(Append(Append(t \o m, w), k), inp, v, Append(b, "{:"))
  BY <1>8, <1>9, <1>10, <1>11, LeadsOn
<1>13. \E o \in {"OBJECT", "OBJECT_VALUE"} : st = Append(r, o)
  BY <1>1 DEF ObjectView
<1>14. AtKey(b, r, q, Append(b, "{:"), Append(fs, "key"), Append(st, "KEY_ENDED"))
  BY <1>1, <1>13, Zenon DEF AtKey
<1>15. Describes(Append(b, "{:"), Append(fs, "key"), Append(st, "KEY_ENDED"), n)
  BY <1>14, Zenon DEF Describes
<1> QED  BY <1>4, <1>10, <1>12, <1>15, Zenon DEF Document, m

\* The end of a pair.
LEMMA PairEnded ==
  ASSUME NEW t \in Text, NEW inp, NEW v, NEW c, Leads(t, inp, v, c), NEW n, n # 0,
         NEW b, NEW r, NEW q, NEW fs, NEW st, AtPair(b, r, q, c, fs, st)
  PROVE  Document(t \o <<>>, inp, v, Front(fs), ValueAdded(st), n) /\ InObject(st)
<1>1. /\ Objects(b, q) /\ r \in Seq(Name) /\ fs = Append(Append(q, "object"), "pair")
      /\ c = Append(b, "{v") /\ \E o \in {"OBJECT", "OBJECT_VALUE"} : st = Append(r, o)
  BY DEF AtPair
<1>2. InObject(st) /\ ValueAdded(st) = Append(r, "OBJECT_VALUE")
  BY <1>1, ObjectState
<1>3. Front(fs) = Append(q, "object")
  <2> DEFINE e == Append(q, "object")
  <2>1. e \in Seq(Name) /\ fs = Append(e, "pair")
    BY <1>1, ObjectsFacts
  <2> HIDE DEF e
  <2>2. Front(fs) = e
    BY <2>1, OnTop, NamesTyped
  <2> QED  BY <2>2 DEF e
<1>4. t \o <<>> = t
  BY ConcatEmptySeq DEF Text
<1>5. AtObject(b, r, q, c, Front(fs), ValueAdded(st))
  BY <1>1, <1>2, <1>3, Zenon DEF AtObject, ObjectView
<1>6. Describes(c, Front(fs), ValueAdded(st), n)
  BY <1>5, Zenon DEF Describes
<1> QED  BY <1>2, <1>4, <1>6, Zenon DEF Document

-----------------------------------------------------------------------------
(* The calls of Serializer::write in a document without a mixture. *)

\* Elsewhere no comma is due.
LEMMA NoCommaAt ==
  ASSUME NEW e \in Seq(Name), NEW x \in Name, x \notin {"LIST_VALUE", "OBJECT_VALUE"}
  PROVE  MaybeComma(Append(e, x)) = <<>>
BY FormatterAt

\* The formatter's first state.
LEMMA FirstState ==
  ASSUME NEW st, st = <<"VALUE">>
  PROVE  CanAddValue(st) /\ MaybeComma(st) = <<>> /\ st \in Seq(Name)
<1> DEFINE e == <<>>
<1>1. e \in Seq(Name) /\ st = Append(e, "VALUE")
  OBVIOUS
<1> HIDE DEF e
<1>2. "VALUE" \in Name
  BY NamesTyped
<1>3. /\ "VALUE" \in {"VALUE", "LIST", "LIST_VALUE", "KEY_ENDED"}
      /\ "VALUE" \notin {"LIST_VALUE", "OBJECT_VALUE"}
  OBVIOUS
<1>4. CanAddValue(st)
  BY <1>1, <1>2, <1>3, FormatterAt, Zenon
<1>5. MaybeComma(st) = <<>>
  <2>1. MaybeComma(Append(e, "VALUE")) = <<>>
    BY <1>1, <1>2, <1>3, NoCommaAt, Zenon
  <2> QED  BY <1>1, <2>1, Zenon
<1>6. st \in Seq(Name)
  BY <1>1, <1>2, OnTop, Zenon
<1> QED  BY <1>4, <1>5, <1>6

\* The outermost list and the outermost object.
LEMMA CompleteGrows ==
  /\ Append(Complete, "[0") \in Seq(Name) /\ Append(Complete, "[0") # Wrong
  /\ Append(Complete, "{0") \in Seq(Name) /\ Append(Complete, "{0") # Wrong
  /\ Pile(Complete, "[v", "done") /\ ListFrames(Append(<<>>, "list"), Len(Complete), "list")
  /\ Objects(Complete, <<>>)
<1>1. "[0" \in Name /\ "{0" \in Name /\ "[v" \in Name /\ "{v" \in Name /\ "done" \in Name
  BY NamesTyped
<1>2. Complete \in Seq(Name) /\ Complete # <<>> /\ Len(Complete) = 1
  <2>1. Complete \in Seq(Name) /\ Len(Complete) = 1
    BY ViewsDiffer, SingleLengths
  <2>2. Complete # <<>>
    BY <2>1
  <2> QED  BY <2>1, <2>2
<1>3. /\ Append(Complete, "[0") \in Seq(Name) /\ Append(Complete, "[0") # Wrong
      /\ Append(Complete, "{0") \in Seq(Name) /\ Append(Complete, "{0") # Wrong
  BY <1>1, <1>2, OnTop, ViewsDiffer
<1>4. Pile(Complete, "[v", "done") /\ Pile(Complete, "{v", "done")
  BY <1>1, PileOfOne, Zenon DEF Complete
<1>5. ASSUME NEW l \in Name, NEW o \in Name, NEW y \in Name
      PROVE  ListFrames(Append(<<>>, l), 1, l) /\ KeyFrames(<<>>, 0, o, y)
  <2> DEFINE e == <<>>
  <2>1. e \in Seq(Name) /\ Len(e) = 0
    OBVIOUS
  <2> HIDE DEF e
  <2>2. ListFrames(e, 0, l) /\ KeyFrames(e, 0, o, y)
    BY <2>1 DEF ListFrames, KeyFrames
  <2>3. ListFrames(Append(e, l), 0 + 1, l)
    BY <2>2, ListFrameFacts
  <2>4. 0 + 1 = 1
    OBVIOUS
  <2> QED  BY <2>2, <2>3, <2>4 DEF e
<1>6. "list" \in Name /\ "object" \in Name /\ "key" \in Name
  BY NamesTyped
<1>7. ListFrames(Append(<<>>, "list"), 1, "list") /\ KeyFrames(<<>>, 0, "object", "key")
  BY <1>5, <1>6, Zenon
<1>8. Len(Complete) - 1 = 0
  BY <1>2
<1>9. Objects(Complete, <<>>)
  BY <1>4, <1>7, <1>8, Zenon DEF Objects
<1> QED  BY <1>2, <1>3, <1>4, <1>7, <1>9, Zenon

\* The first value of all is a scalar,
LEMMA FirstScalar ==
  ASSUME NEW t \in Text, NEW inp \in Text, NEW v, NEW st, Leads(t, inp, v, Start), NEW n, n # 0,
         st = <<"VALUE">>, NEW w \in Lexeme, Class(w) \in {"string", "scalar"}
  PROVE  Document(t \o (MaybeComma(st) \o <<w>>), inp, v, <<>>, ValueAdded(st), n)
<1>1. MaybeComma(st) = <<>>
  BY FirstState
<1>2. t \o (<<>> \o <<w>>) = Append(t, w)
  BY EmptyWritten
<1>3. Advance(Start, w) = Complete /\ Complete \in Seq(Name) /\ Complete # Wrong
  BY AdvanceStart, ViewsDiffer
<1>4. Leads(Append(t, w), inp, v, Complete)
  BY <1>3, LeadsOn
<1>5. Describes(Complete, <<>>, ValueAdded(st), n)
  BY DEF Describes
<1> QED  BY <1>1, <1>2, <1>4, <1>5, Zenon DEF Document

\* or a list,
LEMMA FirstList ==
  ASSUME NEW t \in Text, NEW inp \in Text, NEW v, NEW st, Leads(t, inp, v, Start), NEW n, n # 0,
         st = <<"VALUE">>, NEW w \in Lexeme, Class(w) = "["
  PROVE  Document(t \o (MaybeComma(st) \o <<w>>), inp, v, Append(<<>>, "list"),
                  Append(st, "LIST"), n)
<1>1. MaybeComma(st) = <<>> /\ st \in Seq(Name)
  BY FirstState
<1>2. t \o (<<>> \o <<w>>) = Append(t, w)
  BY EmptyWritten
<1>3. /\ Advance(Start, w) = Append(Complete, "[0") /\ Append(Complete, "[0") \in Seq(Name)
      /\ Append(Complete, "[0") # Wrong
  BY AdvanceStart, CompleteGrows
<1>4. Leads(Append(t, w), inp, v, Append(Complete, "[0"))
  BY <1>3, LeadsOn
<1>5. AtList(Complete, st, Append(Complete, "[0"), Append(<<>>, "list"), Append(st, "LIST"))
  BY <1>1, CompleteGrows, Zenon DEF AtList, ListView
<1>6. Describes(Append(Complete, "[0"), Append(<<>>, "list"), Append(st, "LIST"), n)
  BY <1>5, Zenon DEF Describes
<1> QED  BY <1>1, <1>2, <1>4, <1>6, Zenon DEF Document

\* or an object.
LEMMA FirstObject ==
  ASSUME NEW t \in Text, NEW inp \in Text, NEW v, NEW st, Leads(t, inp, v, Start), NEW n, n # 0,
         st = <<"VALUE">>, NEW w \in Lexeme, Class(w) = "{"
  PROVE  Document(t \o (MaybeComma(st) \o <<w>>), inp, v, Append(<<>>, "object"),
                  Append(st, "OBJECT"), n)
<1>1. MaybeComma(st) = <<>> /\ st \in Seq(Name)
  BY FirstState
<1>2. t \o (<<>> \o <<w>>) = Append(t, w)
  BY EmptyWritten
<1>3. /\ Advance(Start, w) = Append(Complete, "{0") /\ Append(Complete, "{0") \in Seq(Name)
      /\ Append(Complete, "{0") # Wrong
  BY AdvanceStart, CompleteGrows
<1>4. Leads(Append(t, w), inp, v, Append(Complete, "{0"))
  BY <1>3, LeadsOn
<1>5. AtObject(Complete, st, <<>>, Append(Complete, "{0"), Append(<<>>, "object"),
               Append(st, "OBJECT"))
  BY <1>1, CompleteGrows, Zenon DEF AtObject, ObjectView
<1>6. Describes(Append(Complete, "{0"), Append(<<>>, "object"), Append(st, "OBJECT"), n)
  BY <1>5, Zenon DEF Describes
<1> QED  BY <1>1, <1>2, <1>4, <1>6, Zenon DEF Document

\* What the formatter allows.
LEMMA StateAllows ==
  ASSUME NEW b, NEW r, NEW q, NEW c, NEW fs, NEW st
  PROVE  /\ AtKey(b, r, q, c, fs, st) => CanAddValue(st)
         /\ AtObject(b, r, q, c, fs, st) => InObject(st)
<1>1. AtKey(b, r, q, c, fs, st) => CanAddValue(st)
  BY KeyState DEF AtKey
<1>2. AtObject(b, r, q, c, fs, st) => InObject(st)
  BY ObjectState DEF AtObject, ObjectView
<1> QED  BY <1>1, <1>2

\* The innermost call.
LEMMA InnermostCall ==
  ASSUME NEW b, NEW r, NEW q, NEW c, NEW fs, NEW st
  PROVE  /\ AtList(b, r, c, fs, st) => fs # <<>> /\ Last(fs) = "list"
         /\ AtObject(b, r, q, c, fs, st) => fs # <<>> /\ Last(fs) = "object"
         /\ AtKey(b, r, q, c, fs, st) => fs # <<>> /\ Last(fs) = "key"
         /\ AtPair(b, r, q, c, fs, st) => fs # <<>> /\ Last(fs) = "pair"
<1>1. AtList(b, r, c, fs, st) => fs # <<>> /\ Last(fs) = "list"
  BY AtListFacts
<1>2. AtObject(b, r, q, c, fs, st) => fs # <<>> /\ Last(fs) = "object"
  BY ObjectsFacts DEF AtObject
<1>3. ASSUME Objects(b, q), NEW x \in Name, fs = Append(Append(q, "object"), x)
      PROVE  fs # <<>> /\ Last(fs) = x
  <2> DEFINE e == Append(q, "object")
  <2>1. e \in Seq(Name) /\ fs = Append(e, x)
    BY <1>3, ObjectsFacts
  <2> HIDE DEF e
  <2>2. Append(e, x) # <<>> /\ Last(Append(e, x)) = x
    BY <1>3, <2>1, OnTop
  <2> QED  BY <2>1, <2>2, Zenon
<1>4. "key" \in Name /\ "pair" \in Name
  BY NamesTyped
<1>5. AtKey(b, r, q, c, fs, st) => fs # <<>> /\ Last(fs) = "key"
  BY <1>3, <1>4, Zenon DEF AtKey
<1>6. AtPair(b, r, q, c, fs, st) => fs # <<>> /\ Last(fs) = "pair"
  BY <1>3, <1>4, Zenon DEF AtPair
<1> QED  BY <1>1, <1>2, <1>5, <1>6

\* What was written, as the state has it.
DocumentInv == Document(out, input, grammar, frames, state, written)

\* The states in which something is being written.
LEMMA WritingCases ==
  ASSUME DocumentInv, Writing
  PROVE  \E c :
           /\ Leads(out, input, grammar, c)
           /\ \/ frames = <<>> /\ c = Start /\ state = <<"VALUE">>
              \/ \E b, r : AtList(b, r, c, frames, state)
              \/ \E b, r, q : AtObject(b, r, q, c, frames, state)
              \/ \E b, r, q : AtKey(b, r, q, c, frames, state)
              \/ \E b, r, q : AtPair(b, r, q, c, frames, state)
<1>1. PICK c : Leads(out, input, grammar, c) /\ Describes(c, frames, state, written)
  BY DEF DocumentInv, Document
<1>2. frames # <<>> \/ written = 0
  BY DEF Writing
<1> QED  BY <1>1, <1>2, Zenon DEF Describes

\* A call that is allowed.
LEMMA Allowed ==
  ASSUME NEW allowed, allowed, NEW text, NEW next, NEW error, Formats(allowed, text, next, error)
  PROVE  out' = out \o text /\ state' = next /\ fault' = fault
BY DEF Formats

\* A scalar.
LEMMA WriteScalarStep ==
  ASSUME out \in Text, input \in Text, written \in Nat, DocumentInv,
         NEW u, u.text \in Lexeme, Class(u.text) \in {"string", "scalar"}, WriteScalar(u)
  PROVE  DocumentInv' /\ fault' = fault
<1> DEFINE w == u.text
           m == MaybeComma(state)
<1>1. /\ Writing /\ ValueDue /\ frames' = ValueWritten(frames) /\ written' = written + 1
      /\ input' = input /\ grammar' = grammar
  BY DEF WriteScalar, parserVars
<1>2. written' # 0
  BY <1>1
<1>3. w \in Lexeme /\ Class(w) \in {"string", "scalar"}
  OBVIOUS
<1>4. ASSUME CanAddValue(state)
      PROVE  out' = out \o (m \o <<w>>) /\ state' = ValueAdded(state) /\ fault' = fault
  <2> DEFINE allowed == IF u.as \in {"string", "char"} THEN CanAddString(state) ELSE CanAddValue(state)
  <2>1. allowed
    BY <1>4 DEF CanAddString
  <2>2. Formats(allowed, m \o <<w>>, ValueAdded(state), "InvalidArgument")
    BY DEF WriteScalar
  <2> HIDE DEF allowed, m, w
  <2> QED  BY <2>1, <2>2, Allowed
<1> HIDE DEF w, m
<1>5. PICK c :
        /\ Leads(out, input, grammar, c)
        /\ \/ frames = <<>> /\ c = Start /\ state = <<"VALUE">>
           \/ \E b, r : AtList(b, r, c, frames, state)
           \/ \E b, r, q : AtObject(b, r, q, c, frames, state)
           \/ \E b, r, q : AtKey(b, r, q, c, frames, state)
           \/ \E b, r, q : AtPair(b, r, q, c, frames, state)
  BY <1>1, WritingCases
<1>6. ASSUME CanAddValue(state),
             Document(out \o (m \o <<w>>), input, grammar, ValueWritten(frames), ValueAdded(state),
                      written')
      PROVE  DocumentInv' /\ fault' = fault
  BY <1>1, <1>4, <1>6 DEF DocumentInv
<1>7. CASE frames = <<>> /\ c = Start /\ state = <<"VALUE">>
  <2>1. CanAddValue(state) /\ ValueWritten(frames) = <<>>
    BY <1>7, FirstState DEF ValueWritten
  <2>2. Document(out \o (m \o <<w>>), input, grammar, <<>>, ValueAdded(state), written')
    BY <1>2, <1>3, <1>5, <1>7, FirstScalar DEF m
  <2> QED  BY <1>6, <2>1, <2>2
<1>8. ASSUME NEW b, NEW r, AtList(b, r, c, frames, state) PROVE DocumentInv' /\ fault' = fault
  <2>1. Last(frames) = "list" /\ ListView(b, r, c, state) /\ r \in Seq(Name)
    BY <1>8, AtListFacts
  <2>2. ValueWritten(frames) = frames
    BY <2>1 DEF ValueWritten
  <2>3. CanAddValue(state)
    BY <2>1, ListState
  <2>4. Document(out \o (m \o <<w>>), input, grammar, frames, ValueAdded(state), written')
    BY <1>2, <1>3, <1>5, <1>8, ScalarInList DEF m
  <2> QED  BY <1>6, <2>2, <2>3, <2>4
<1>9. ASSUME NEW b, NEW r, NEW q, AtKey(b, r, q, c, frames, state)
      PROVE  DocumentInv' /\ fault' = fault
  <2>1. /\ Document(out \o (m \o <<w>>), input, grammar, ValueWritten(frames), ValueAdded(state),
                    written')
        /\ CanAddValue(state)
    BY <1>2, <1>3, <1>5, <1>9, ScalarInPair DEF m
  <2> QED  BY <1>6, <2>1
<1>10. \A b, r, q : ~AtObject(b, r, q, c, frames, state) /\ ~AtPair(b, r, q, c, frames, state)
  <2>1. frames # <<>> => Last(frames) \in {"list", "key"}
    BY <1>1 DEF ValueDue
  <2>2. ASSUME NEW b, NEW r, NEW q,
               AtObject(b, r, q, c, frames, state) \/ AtPair(b, r, q, c, frames, state)
        PROVE  FALSE
    <3>1. frames # <<>> /\ Last(frames) \in {"object", "pair"}
      BY <2>2, InnermostCall
    <3> QED  BY <2>1, <3>1
  <2> QED  BY <2>2
<1> QED  BY <1>5, <1>7, <1>8, <1>9, <1>10, Zenon

\* The beginning of a list.
LEMMA StartListStep ==
  ASSUME out \in Text, input \in Text, written \in Nat, DocumentInv, StartList, ~mixed'
  PROVE  DocumentInv' /\ fault' = fault
<1> DEFINE w == <<"[">>
           m == MaybeComma(state)
<1>1. /\ Writing /\ ValueDue /\ frames' = Append(frames, "list") /\ written' = written + 1
      /\ input' = input /\ grammar' = grammar /\ mixed' = (mixed \/ (frames # <<>> /\ Last(frames) = "key"))
  BY DEF StartList, parserVars
<1>2. written' # 0
  BY <1>1
<1>3. w \in Lexeme /\ Class(w) = "["
  BY PunctuationFacts, PunctuationClass
<1>4. ASSUME CanAddValue(state)
      PROVE  out' = out \o (m \o <<w>>) /\ state' = Append(state, "LIST") /\ fault' = fault
  BY <1>4, Allowed DEF StartList
<1> HIDE DEF w, m
<1>5. PICK c :
        /\ Leads(out, input, grammar, c)
        /\ \/ frames = <<>> /\ c = Start /\ state = <<"VALUE">>
           \/ \E b, r : AtList(b, r, c, frames, state)
           \/ \E b, r, q : AtObject(b, r, q, c, frames, state)
           \/ \E b, r, q : AtKey(b, r, q, c, frames, state)
           \/ \E b, r, q : AtPair(b, r, q, c, frames, state)
  BY <1>1, WritingCases
<1>6. ASSUME CanAddValue(state),
             Document(out \o (m \o <<w>>), input, grammar, Append(frames, "list"),
                      Append(state, "LIST"), written')
      PROVE  DocumentInv' /\ fault' = fault
  BY <1>1, <1>4, <1>6 DEF DocumentInv
<1>7. CASE frames = <<>> /\ c = Start /\ state = <<"VALUE">>
  <2>1. CanAddValue(state)
    BY <1>7, FirstState
  <2>2. Document(out \o (m \o <<w>>), input, grammar, Append(<<>>, "list"), Append(state, "LIST"),
                 written')
    BY <1>2, <1>3, <1>5, <1>7, FirstList DEF m
  <2> QED  BY <1>6, <1>7, <2>1, <2>2, Zenon
<1>8. ASSUME NEW b, NEW r, AtList(b, r, c, frames, state) PROVE DocumentInv' /\ fault' = fault
  <2>1. ListView(b, r, c, state) /\ r \in Seq(Name)
    BY <1>8, AtListFacts
  <2>2. CanAddValue(state)
    BY <2>1, ListState
  <2>3. Document(out \o (m \o <<w>>), input, grammar, Append(frames, "list"),
                 Append(state, "LIST"), written')
    BY <1>2, <1>3, <1>5, <1>8, ListInList DEF m
  <2> QED  BY <1>6, <2>2, <2>3
<1>9. ASSUME NEW b, NEW r, NEW q,
             \/ AtObject(b, r, q, c, frames, state) \/ AtKey(b, r, q, c, frames, state)
             \/ AtPair(b, r, q, c, frames, state)
      PROVE  FALSE
  <2>1. frames # <<>> /\ Last(frames) \in {"object", "key", "pair"}
    BY <1>9, InnermostCall
  <2>2. Last(frames) # "key"
    BY <1>1, <2>1
  <2>3. frames # <<>> => Last(frames) \in {"list", "key"}
    BY <1>1 DEF ValueDue
  <2> QED  BY <2>1, <2>2, <2>3
<1> QED  BY <1>5, <1>7, <1>8, <1>9, Zenon

\* The beginning of an object.
LEMMA StartObjectStep ==
  ASSUME out \in Text, input \in Text, written \in Nat, DocumentInv, StartObject, ~mixed'
  PROVE  DocumentInv' /\ fault' = fault
<1> DEFINE w == <<"{">>
           m == MaybeComma(state)
<1>1. /\ Writing /\ ValueDue /\ frames' = Append(frames, "object") /\ written' = written + 1
      /\ input' = input /\ grammar' = grammar /\ mixed' = (mixed \/ (frames # <<>> /\ Last(frames) = "list"))
  BY DEF StartObject, parserVars
<1>2. written' # 0
  BY <1>1
<1>3. w \in Lexeme /\ Class(w) = "{"
  BY PunctuationFacts, PunctuationClass
<1>4. ASSUME CanAddValue(state)
      PROVE  out' = out \o (m \o <<w>>) /\ state' = Append(state, "OBJECT") /\ fault' = fault
  BY <1>4, Allowed DEF StartObject
<1> HIDE DEF w, m
<1>5. PICK c :
        /\ Leads(out, input, grammar, c)
        /\ \/ frames = <<>> /\ c = Start /\ state = <<"VALUE">>
           \/ \E b, r : AtList(b, r, c, frames, state)
           \/ \E b, r, q : AtObject(b, r, q, c, frames, state)
           \/ \E b, r, q : AtKey(b, r, q, c, frames, state)
           \/ \E b, r, q : AtPair(b, r, q, c, frames, state)
  BY <1>1, WritingCases
<1>6. ASSUME CanAddValue(state),
             Document(out \o (m \o <<w>>), input, grammar, Append(frames, "object"),
                      Append(state, "OBJECT"), written')
      PROVE  DocumentInv' /\ fault' = fault
  BY <1>1, <1>4, <1>6 DEF DocumentInv
<1>7. CASE frames = <<>> /\ c = Start /\ state = <<"VALUE">>
  <2>1. CanAddValue(state)
    BY <1>7, FirstState
  <2>2. Document(out \o (m \o <<w>>), input, grammar, Append(<<>>, "object"),
                 Append(state, "OBJECT"), written')
    BY <1>2, <1>3, <1>5, <1>7, FirstObject DEF m
  <2> QED  BY <1>6, <1>7, <2>1, <2>2, Zenon
<1>8. ASSUME NEW b, NEW r, NEW q, AtKey(b, r, q, c, frames, state)
      PROVE  DocumentInv' /\ fault' = fault
  <2>1. Document(out \o (m \o <<w>>), input, grammar, Append(frames, "object"),
                 Append(state, "OBJECT"), written')
    BY <1>2, <1>3, <1>5, <1>8, ObjectInPair DEF m
  <2>2. CanAddValue(state)
    BY <1>8, StateAllows
  <2> QED  BY <1>6, <2>1, <2>2
<1>9. ASSUME NEW b, NEW r, NEW q,
             \/ AtObject(b, r, q, c, frames, state) \/ AtList(b, r, c, frames, state)
             \/ AtPair(b, r, q, c, frames, state)
      PROVE  FALSE
  <2>1. frames # <<>> /\ Last(frames) \in {"object", "list", "pair"}
    BY <1>9, InnermostCall
  <2>2. Last(frames) # "list"
    BY <1>1, <2>1
  <2>3. frames # <<>> => Last(frames) \in {"list", "key"}
    BY <1>1 DEF ValueDue
  <2> QED  BY <2>1, <2>2, <2>3
<1> QED  BY <1>5, <1>7, <1>8, <1>9, Zenon

\* What is being written when something was begun.
LEMMA WrittenInside ==
  ASSUME DocumentInv, frames # <<>>
  PROVE  /\ written # 0
         /\ \E c :
              /\ Leads(out, input, grammar, c)
              /\ \/ Last(frames) = "list" /\ \E b, r : AtList(b, r, c, frames, state)
                 \/ Last(frames) = "object" /\ \E b, r, q : AtObject(b, r, q, c, frames, state)
                 \/ Last(frames) = "key" /\ \E b, r, q : AtKey(b, r, q, c, frames, state)
                 \/ Last(frames) = "pair" /\ \E b, r, q : AtPair(b, r, q, c, frames, state)
<1>1. PICK c : Leads(out, input, grammar, c) /\ Describes(c, frames, state, written)
  BY DEF DocumentInv, Document
<1>2. written # 0
  BY <1>1, Zenon DEF Describes
<1>3. \/ \E b, r : AtList(b, r, c, frames, state)
      \/ \E b, r, q : AtObject(b, r, q, c, frames, state)
      \/ \E b, r, q : AtKey(b, r, q, c, frames, state)
      \/ \E b, r, q : AtPair(b, r, q, c, frames, state)
  BY <1>1, Zenon DEF Describes
<1>4. /\ \A b, r : AtList(b, r, c, frames, state) => Last(frames) = "list"
      /\ \A b, r, q : AtObject(b, r, q, c, frames, state) => Last(frames) = "object"
      /\ \A b, r, q : AtKey(b, r, q, c, frames, state) => Last(frames) = "key"
      /\ \A b, r, q : AtPair(b, r, q, c, frames, state) => Last(frames) = "pair"
  BY InnermostCall
<1> QED  BY <1>1, <1>2, <1>3, <1>4, Zenon

\* The end of a list.
LEMMA EndListStep ==
  ASSUME out \in Text, input \in Text, DocumentInv, EndList
  PROVE  DocumentInv' /\ fault' = fault
<1> DEFINE w == <<"]">>
<1>1. /\ frames # <<>> /\ Last(frames) = "list" /\ frames' = ValueWritten(Front(frames))
      /\ written' = written /\ input' = input /\ grammar' = grammar
      /\ Formats(InList(state), <<w>>, ValueAdded(state), "FailedPrecondition")
  BY DEF EndList, parserVars
<1>2. w \in Lexeme /\ Class(w) = "]"
  BY PunctuationFacts, PunctuationClass
<1> HIDE DEF w
<1>3. PICK c, b, r : Leads(out, input, grammar, c) /\ AtList(b, r, c, frames, state)
  <2>1. "list" # "object" /\ "list" # "key" /\ "list" # "pair"
    OBVIOUS
  <2> QED  BY <1>1, <2>1, WrittenInside, Zenon
<1>4. written # 0
  BY <1>1, WrittenInside
<1>5. InList(state)
  BY <1>3, AtListFacts, ListState
<1>6. out' = out \o <<w>> /\ state' = ValueAdded(state) /\ fault' = fault
  BY <1>1, <1>5, Allowed
<1>7. Document(out \o <<w>>, input, grammar, ValueWritten(Front(frames)), ValueAdded(state), written)
  BY <1>2, <1>3, <1>4, ListEnded
<1> QED  BY <1>1, <1>6, <1>7 DEF DocumentInv

\* The end of an object.
LEMMA EndObjectStep ==
  ASSUME out \in Text, input \in Text, DocumentInv, EndObject
  PROVE  DocumentInv' /\ fault' = fault
<1> DEFINE w == <<"}">>
<1>1. /\ frames # <<>> /\ Last(frames) = "object" /\ frames' = ValueWritten(Front(frames))
      /\ written' = written /\ input' = input /\ grammar' = grammar
      /\ Formats(InObject(state), <<w>>, ValueAdded(state), "FailedPrecondition")
  BY DEF EndObject, parserVars
<1>2. w \in Lexeme /\ Class(w) = "}"
  BY PunctuationFacts, PunctuationClass
<1> HIDE DEF w
<1>3. PICK c, b, r, q : Leads(out, input, grammar, c) /\ AtObject(b, r, q, c, frames, state)
  <2>1. "object" # "list" /\ "object" # "key" /\ "object" # "pair"
    OBVIOUS
  <2> QED  BY <1>1, <2>1, WrittenInside, Zenon
<1>4. written # 0
  BY <1>1, WrittenInside
<1>5. Document(out \o <<w>>, input, grammar, ValueWritten(Front(frames)), ValueAdded(state), written)
  BY <1>2, <1>3, <1>4, ObjectEnded
<1>7. InObject(state)
  BY <1>3, StateAllows
<1>6. out' = out \o <<w>> /\ state' = ValueAdded(state) /\ fault' = fault
  BY <1>1, <1>7, Allowed
<1> QED  BY <1>1, <1>5, <1>6 DEF DocumentInv

\* A key.
LEMMA WriteKeyStep ==
  ASSUME out \in Text, input \in Text, written \in Nat, DocumentInv, NEW k \in Key, WriteKey(k)
  PROVE  DocumentInv' /\ fault' = fault
<1> DEFINE w == Quoted(k)
           d == <<":">>
<1>1. /\ frames # <<>> /\ Last(frames) = "object" /\ frames' = Append(frames, "key")
      /\ written' = written + 1 /\ input' = input /\ grammar' = grammar
      /\ Formats(InObject(state), MaybeComma(state) \o <<w, d>>, Append(state, "KEY_ENDED"),
                 "FailedPrecondition")
  BY DEF WriteKey, parserVars
<1>2. /\ w \in Lexeme /\ Class(w) = "string"
      /\ d \in Lexeme /\ Class(d) = ":"
  <2>1. w \in Lexeme /\ w[1] = Quote
    BY KeysAreWords, QuotedFacts
  <2> QED  BY <2>1, PunctuationFacts, PunctuationClass, ClassFacts
<1> HIDE DEF w, d
<1>3. PICK c, b, r, q : Leads(out, input, grammar, c) /\ AtObject(b, r, q, c, frames, state)
  <2>1. "object" # "list" /\ "object" # "key" /\ "object" # "pair"
    OBVIOUS
  <2> QED  BY <1>1, <2>1, WrittenInside, Zenon
<1>4. written' # 0
  BY <1>1
<1>5. /\ Document(out \o (MaybeComma(state) \o <<w, d>>), input, grammar, Append(frames, "key"),
                  Append(state, "KEY_ENDED"), written')
      /\ InObject(state)
  BY <1>2, <1>3, <1>4, KeyWritten
<1>6. /\ out' = out \o (MaybeComma(state) \o <<w, d>>) /\ state' = Append(state, "KEY_ENDED")
      /\ fault' = fault
  BY <1>1, <1>5, Allowed, Zenon
<1> QED  BY <1>1, <1>5, <1>6, Zenon DEF DocumentInv

\* The end of a pair.
LEMMA EndPairStep ==
  ASSUME out \in Text, input \in Text, DocumentInv, EndPair
  PROVE  DocumentInv' /\ fault' = fault
<1>1. /\ frames # <<>> /\ Last(frames) = "pair" /\ frames' = Front(frames)
      /\ written' = written /\ input' = input /\ grammar' = grammar
      /\ Formats(InObject(state), <<>>, ValueAdded(state), "FailedPrecondition")
  BY DEF EndPair, parserVars
<1>2. PICK c, b, r, q : Leads(out, input, grammar, c) /\ AtPair(b, r, q, c, frames, state)
  <2>1. "pair" # "list" /\ "pair" # "key" /\ "pair" # "object"
    OBVIOUS
  <2> QED  BY <1>1, <2>1, WrittenInside, Zenon
<1>3. written # 0
  BY <1>1, WrittenInside
<1>4. /\ Document(out \o <<>>, input, grammar, Front(frames), ValueAdded(state), written)
      /\ InObject(state)
  BY <1>2, <1>3, PairEnded
<1>5. out' = out \o <<>> /\ state' = ValueAdded(state) /\ fault' = fault
  BY <1>1, <1>4, Allowed, Zenon
<1> QED  BY <1>1, <1>4, <1>5, Zenon DEF DocumentInv

\* What a document's scalars are to the grammar.
LEMMA DocumentScalarClass ==
  ASSUME NEW u \in {Plain("signed", <<"0">>), Scalar("string", <<"a">>, Quoted(<<"a">>))}
  PROVE  u.text \in Lexeme /\ Class(u.text) \in {"string", "scalar"}
<1>1. u.text \in Lexeme
  BY DocumentScalars
<1>2. u.text = <<"0">> \/ u.text = Quoted(<<"a">>)
  BY DEF Plain, Scalar
<1>3. CASE u.text = Quoted(<<"a">>)
  <2>1. "a" \in Symbol
    BY DEF Symbol
  <2>2. <<"a">> \in Word
    BY <2>1, ShortSeq DEF Word
  <2>3. u.text[1] = Quote
    BY <1>3, <2>2, QuotedFacts
  <2> QED  BY <1>1, <2>3, ClassFacts
<1>4. CASE u.text = <<"0">>
  <2> DEFINE w == <<"0">>
  <2>1. Len(w) = 1 /\ w[1] = "0" /\ "0" \in Digit
    BY DEF Digit
  <2> HIDE DEF w
  <2>2. IsNumber(w, "INTEGER")
    <3>1. 0 \in {0, 1} /\ 1 \in 1 .. Len(w) /\ 0 < 1 /\ 0 + 1 .. 1 = {1} /\ 0 + 1 = 1
      BY <2>1
    <3>2. \A k \in 0 + 1 .. 1 : w[k] \in Digit
      BY <2>1, <3>1
    <3> QED  BY <2>1, <3>1, <3>2 DEF IsNumber
  <2>3. Class(w) = "scalar"
    <3>1. w[1] # Quote
      BY <2>1 DEF Quote
    <3>2. w \notin {<<"{">>, <<"}">>, <<"[">>, <<"]">>, <<":">>, <<",">>}
      <4>1. /\ <<"{">>[1] = "{" /\ <<"}">>[1] = "}" /\ <<"[">>[1] = "[" /\ <<"]">>[1] = "]"
            /\ <<":">>[1] = ":" /\ <<",">>[1] = ","
        OBVIOUS
      <4>2. w[1] = "0"
        BY <2>1
      <4> QED  BY <4>1, <4>2
    <3> QED  BY <2>2, <3>1, <3>2, Zenon DEF Class
  <2> QED  BY <1>1, <1>4, <2>3 DEF w
<1> QED  BY <1>1, <1>2, <1>3, <1>4

\* Reading does not end the parse.
LEMMA ReadOnly ==
  ASSUME NEW w, AfterFinal(w) \/ Opens(w) \/ Closes(w) \/ Colon(w) \/ Comma(w) \/ ParseScalar(w)
  PROVE  Reads(w) /\ verdict' # "accepted"
<1>1. Reads(w)
  BY DEF AfterFinal, Opens, Closes, Colon, Comma, ParseScalar
<1>2. verdict = "none"
  BY <1>1 DEF Reads, Parsing
<1>3. ASSUME NEW e \in {"unexpected", "undefined", "duplicateKey"}, Throws(e)
      PROVE  verdict' # "accepted"
  BY <1>3 DEF Throws
<1>4. ASSUME NEW s, NEW f, Becomes(s, f) PROVE verdict' # "accepted"
  BY <1>2, <1>4 DEF Becomes
<1>5. ASSUME NEW b, NEW t, PopTop(b, t) PROVE verdict' # "accepted"
  <2>1. CASE b = <<>>
    BY <1>4, <1>5, <2>1 DEF PopTop
  <2>2. CASE b # <<>> /\ Last(b).kind = "object"
    BY <1>3, <1>4, <1>5, <2>2 DEF PopTop
  <2>3. CASE b # <<>> /\ Last(b).kind = "list"
    BY <1>4, <1>5, <2>3 DEF PopTop
  <2>4. CASE b # <<>> /\ Last(b).kind = "colon"
    BY <1>3, <1>4, <1>5, <2>4 DEF PopTop
  <2>5. CASE b # <<>> /\ Last(b).kind \notin {"object", "list", "colon"}
    BY <1>3, <1>5, <2>5 DEF PopTop
  <2> QED  BY <2>1, <2>2, <2>3, <2>4, <2>5
<1>6. CASE AfterFinal(w)
  BY <1>3, <1>6 DEF AfterFinal
<1>7. CASE Opens(w)
  BY <1>4, <1>7 DEF Opens
<1>8. CASE Closes(w)
  BY <1>3, <1>5, <1>8 DEF Closes
<1>9. CASE Colon(w)
  BY <1>3, <1>4, <1>9 DEF Colon
<1>10. CASE Comma(w)
  BY <1>3, <1>4, <1>10 DEF Comma
<1>11. CASE ParseScalar(w)
  BY <1>3, <1>5, <1>11 DEF ParseScalar
<1> QED  BY <1>1, <1>6, <1>7, <1>8, <1>9, <1>10, <1>11

\* The inductive invariant of the writer: while nothing is mixed the formatter has
\* thrown nothing; a document is so far the beginning of one and the parser has read
\* a beginning of that.
WriterInv ==
  /\ world \in World /\ written \in Nat
  /\ ~mixed =>
       /\ fault = "none"
       /\ world = "scalar" => frames = <<>> /\ (written = 0 => state = <<"VALUE">>)
       /\ world = "document" => DocumentInv /\ (verdict = "accepted" => grammar = Complete)

\* It holds at first,
LEMMA WriterInvInit == Init => WriterInv
<1> SUFFICES ASSUME Init PROVE WriterInv
  OBVIOUS
<1>1. /\ world \in World /\ written = 0 /\ fault = "none" /\ frames = <<>> /\ state = <<"VALUE">>
      /\ out = <<>> /\ input = <<>> /\ grammar = Start /\ verdict = "none"
  BY DEF Init
<1>2. Leads(<<>>, <<>>, Start, Start)
  BY LeadsAtFirst
<1>3. Describes(Start, <<>>, <<"VALUE">>, 0)
  BY DEF Describes
<1>4. DocumentInv
  BY <1>1, <1>2, <1>3, Zenon DEF DocumentInv, Document
<1> QED  BY <1>1, <1>4 DEF WriterInv

\* it is kept by the calls of write in a document,
LEMMA DocumentWrites ==
  ASSUME out \in Text, input \in Text, written \in Nat, DocumentInv, Write, world = "document",
         ~mixed'
  PROVE  DocumentInv' /\ fault' = fault
<1>1. ASSUME NEW u \in {Plain("signed", <<"0">>), Scalar("string", <<"a">>, Quoted(<<"a">>))},
             WriteScalar(u)
      PROVE  DocumentInv' /\ fault' = fault
  <2>1. u.text \in Lexeme /\ Class(u.text) \in {"string", "scalar"}
    BY <1>1, DocumentScalarClass
  <2> QED  BY <1>1, <2>1, WriteScalarStep
<1>2. ASSUME NEW k \in Key, WriteKey(k) PROVE DocumentInv' /\ fault' = fault
  BY <1>2, WriteKeyStep
<1>3. StartList \/ StartObject \/ EndList \/ EndObject \/ EndPair => DocumentInv' /\ fault' = fault
  BY StartListStep, StartObjectStep, EndListStep, EndObjectStep, EndPairStep
<1>4. world # "scalar"
  OBVIOUS
<1> QED  BY <1>1, <1>2, <1>3, <1>4, Zenon DEF Write

\* by the one of a scalar,
LEMMA ScalarWrites ==
  ASSUME written \in Nat, Write, world = "scalar", fault = "none", frames = <<>>,
         written = 0 => state = <<"VALUE">>
  PROVE  fault' = "none" /\ frames' = <<>> /\ written' # 0
<1>1. ~EndList /\ ~EndObject /\ ~EndPair
  BY DEF EndList, EndObject, EndPair
<1>2. PICK u \in WrittenScalars : WriteScalar(u)
  BY <1>1 DEF Write
<1>3. Writing /\ frames' = ValueWritten(frames) /\ written' = written + 1
  BY <1>2 DEF WriteScalar
<1>4. state = <<"VALUE">>
  BY <1>3 DEF Writing
<1>5. CanAddValue(state)
  BY <1>4, FirstState
<1> DEFINE allowed == IF u.as \in {"string", "char"} THEN CanAddString(state) ELSE CanAddValue(state)
<1>6. allowed
  BY <1>5 DEF CanAddString
<1>7. Formats(allowed, MaybeComma(state) \o <<u.text>>, ValueAdded(state), "InvalidArgument")
  BY <1>2 DEF WriteScalar
<1> HIDE DEF allowed
<1>8. fault' = fault
  BY <1>6, <1>7 DEF Formats
<1>9. frames' = <<>>
  BY <1>3 DEF ValueWritten
<1>10. written' # 0
  BY <1>3
<1> QED  BY <1>8, <1>9, <1>10

\* by the parser, which reads what was written,
LEMMA DocumentReads ==
  ASSUME out \in Text, input \in Text, DocumentInv, world = "document", NEW w \in NextLexemes,
         Reads(w)
  PROVE  DocumentInv'
<1>1. /\ input' = Append(input, w) /\ grammar' = Advance(grammar, w) /\ out' = out
      /\ frames' = frames /\ state' = state /\ written' = written
  BY DEF Reads, writerVars
<1>2. Len(input) + 1 \in DOMAIN out /\ w = out[Len(input) + 1]
  BY DEF NextLexemes
<1>3. DOMAIN out = 1 .. Len(out)
  BY DEF Text
<1>4. w \in Lexeme
  BY LexemesRead
<1>5. PICK c : Leads(out, input, grammar, c) /\ Describes(c, frames, state, written)
  BY DEF DocumentInv, Document
<1>6. Leads(out, Append(input, w), Advance(grammar, w), c)
  BY <1>2, <1>3, <1>4, <1>5, LeadsReader
<1>7. Document(out, Append(input, w), Advance(grammar, w), frames, state, written)
  BY <1>5, <1>6, Zenon DEF Document
<1> QED  BY <1>1, <1>7 DEF DocumentInv

\* and when it has read it all.
LEMMA DocumentRead ==
  ASSUME out \in Text, input \in Text, DocumentInv, world = "document", EndOfInput
  PROVE  grammar = Complete
<1>1. Parsing /\ NextLexemes = {}
  BY DEF EndOfInput
<1>2. Len(input) + 1 \notin DOMAIN out
  BY <1>1 DEF NextLexemes
<1>3. DOMAIN out = 1 .. Len(out)
  BY DEF Text
<1>4. PICK c : Leads(out, input, grammar, c) /\ Describes(c, frames, state, written)
  BY DEF DocumentInv, Document
<1>5. grammar = c
  BY <1>2, <1>3, <1>4, LeadsFacts
<1>6. frames = <<>>
  BY <1>1 DEF Parsing, Writing
<1>7. written # 0
  BY <1>1, <1>6 DEF Parsing, Writing
<1>8. c = Complete
  <2>1. \A b, r, q : /\ ~AtList(b, r, c, frames, state) /\ ~AtObject(b, r, q, c, frames, state)
                     /\ ~AtKey(b, r, q, c, frames, state) /\ ~AtPair(b, r, q, c, frames, state)
    BY <1>6, InnermostCall
  <2> QED  BY <1>4, <1>7, <2>1, Zenon DEF Describes
<1> QED  BY <1>5, <1>8

\* so it is kept by every step.
LEMMA WriterInvStep == JsonInv /\ WriterInv /\ [Next]_vars => WriterInv'
<1> SUFFICES ASSUME JsonInv, WriterInv, [Next]_vars PROVE WriterInv'
  OBVIOUS
<1>1. out \in Text /\ input \in Text
  BY DEF JsonInv, ParserInv, Parsed
<1>2. world' = world /\ world \in World /\ written \in Nat
  <2>1. Write => world' = world
    BY DEF Write, WriteScalar, StartList, EndList, StartObject, EndObject, WriteKey, EndPair
  <2>2. Parse => world' = world
    BY DEF Parse, EndOfInput, AfterFinal, Opens, Closes, Colon, Comma, ParseScalar, Reads
  <2>3. UNCHANGED vars => world' = world
    BY DEF vars
  <2> QED  BY <2>1, <2>2, <2>3 DEF Next, WriterInv
<1>3. CASE Write
  <2>1. written' \in Nat /\ (mixed => mixed') /\ verdict' = verdict /\ grammar' = grammar /\ Writing
    <3>1. written' = written \/ written' = written + 1
      BY <1>3 DEF Write, WriteScalar, StartList, EndList, StartObject, EndObject, WriteKey, EndPair
    <3>2. mixed => mixed'
      BY <1>3, Zenon DEF Write, WriteScalar, StartList, EndList, StartObject, EndObject, WriteKey, EndPair
    <3>3. verdict' = verdict /\ grammar' = grammar /\ Writing
      BY <1>3 DEF Write, WriteScalar, StartList, EndList, StartObject, EndObject, WriteKey,
                  EndPair, parserVars
    <3>4. written' \in Nat
      BY <1>2, <3>1
    <3> QED  BY <3>2, <3>3, <3>4
  <2>2. CASE mixed'
    BY <1>2, <2>1, <2>2 DEF WriterInv
  <2>3. CASE ~mixed'
    <3>1. /\ fault = "none"
          /\ world = "scalar" => frames = <<>> /\ (written = 0 => state = <<"VALUE">>)
          /\ world = "document" => DocumentInv /\ (verdict = "accepted" => grammar = Complete)
      BY <2>1, <2>3 DEF WriterInv
    <3>2. world # "input"
      BY <2>1 DEF Writing
    <3>3. CASE world = "document"
      <4>1. DocumentInv' /\ fault' = fault
        BY <1>1, <1>2, <1>3, <2>3, <3>1, <3>3, DocumentWrites
      <4> QED  BY <1>2, <2>1, <3>1, <3>3, <4>1 DEF WriterInv
    <3>4. CASE world = "scalar"
      <4>1. fault' = "none" /\ frames' = <<>> /\ written' # 0
        BY <1>2, <1>3, <3>1, <3>4, ScalarWrites
      <4> QED  BY <1>2, <2>1, <3>4, <4>1 DEF WriterInv
    <3>5. world \in {"document", "scalar", "input"}
      BY <1>2, WorldAssumption
    <3> QED  BY <3>2, <3>3, <3>4, <3>5
  <2> QED  BY <2>2, <2>3
<1>4. CASE \E w \in NextLexemes :
             AfterFinal(w) \/ Opens(w) \/ Closes(w) \/ Colon(w) \/ Comma(w) \/ ParseScalar(w)
  <2>1. PICK w \in NextLexemes :
          AfterFinal(w) \/ Opens(w) \/ Closes(w) \/ Colon(w) \/ Comma(w) \/ ParseScalar(w)
    BY <1>4
  <2>2. Reads(w) /\ verdict' # "accepted"
    BY <2>1, ReadOnly
  <2>3. /\ frames' = frames /\ state' = state /\ written' = written /\ mixed' = mixed
        /\ fault' = fault
    BY <2>2 DEF Reads, writerVars
  <2>4. ASSUME DocumentInv, world = "document" PROVE DocumentInv'
    BY <1>1, <2>2, <2>4, DocumentReads
  <2> QED  BY <1>2, <2>2, <2>3, <2>4 DEF WriterInv
<1>5. CASE EndOfInput
  <2>1. /\ frames' = frames /\ state' = state /\ written' = written /\ mixed' = mixed
        /\ fault' = fault /\ out' = out /\ input' = input /\ grammar' = grammar
    BY <1>5 DEF EndOfInput, writerVars
  <2>2. DocumentInv => DocumentInv'
    BY <2>1 DEF DocumentInv
  <2>3. ASSUME DocumentInv, world = "document" PROVE grammar' = Complete
    BY <1>1, <1>5, <2>1, <2>3, DocumentRead
  <2> QED  BY <1>2, <2>1, <2>2, <2>3 DEF WriterInv
<1>6. CASE UNCHANGED vars
  <2>1. /\ frames' = frames /\ state' = state /\ written' = written /\ mixed' = mixed
        /\ fault' = fault /\ out' = out /\ input' = input /\ grammar' = grammar
        /\ verdict' = verdict
    BY <1>6 DEF vars, writerVars, parserVars
  <2>2. DocumentInv => DocumentInv'
    BY <2>1 DEF DocumentInv
  <2> QED  BY <1>2, <2>1, <2>2 DEF WriterInv
<1> QED  BY <1>3, <1>4, <1>5, <1>6 DEF Next, Parse

\* However deep its lists and objects are nested and however many keys it has, a value
\* that mixes nothing is formatted without an error, as one document.
THEOREM UnmixedValuesAreFormatted == Spec => []FormatsUnmixedValues
<1>1. Spec => []WriterInv
  BY WriterInvInit, WriterInvStep, JsonInvHolds, PTL DEF Spec
<1>2. JsonInv /\ WriterInv => FormatsUnmixedValues
  <2> SUFFICES ASSUME JsonInv, WriterInv, ~mixed
               PROVE  /\ fault = "none"
                      /\ world = "document" =>
                           grammar # Wrong /\ (verdict = "accepted" => grammar = Complete)
    BY DEF FormatsUnmixedValues
  <2>1. out \in Text /\ input \in Text
    BY DEF JsonInv, ParserInv, Parsed
  <2>2. /\ fault = "none"
        /\ world = "document" => DocumentInv /\ (verdict = "accepted" => grammar = Complete)
    BY DEF WriterInv
  <2>3. ASSUME DocumentInv PROVE grammar # Wrong
    <3>1. PICK c : Leads(out, input, grammar, c)
      BY <2>3 DEF DocumentInv, Document
    <3> QED  BY <2>1, <3>1, LeadsFacts
  <2> QED  BY <2>2, <2>3
<1> QED  BY <1>1, <1>2, JsonInvHolds, PTL

=============================================================================
