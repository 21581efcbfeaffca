---------------------------- MODULE ParserProofs ----------------------------
(***************************************************************************)
(* What Parser does with texts of every length over its symbols: KICK      *)
(* reads within its lists, a relayed message and the bot's password are    *)
(* read back as they were sent.                                            *)
(*                                                                         *)
(* The pieces of a text are found by position, so nearly all of it is      *)
(* reasoning about where they begin and end.  That a piece has an end, and *)
(* that there is a k-th piece, comes from the least element of a set of    *)
(* naturals (LeastNat).                                                    *)
(***************************************************************************)
EXTENDS Parser, Integers, WellFoundedInduction, FiniteSetTheorems, SequenceTheorems,
        TLAPS

LEMMA LeastNat ==
    ASSUME NEW S, S \subseteq Nat, S # {}
    PROVE  \E n \in S : \A m \in S : n <= m
<1>1. PICK R : R = OpToRel(<, Nat)
  OBVIOUS
<1>2. R = {ss \in Nat \X Nat : ss[1] < ss[2]}
  BY <1>1, Zenon DEF OpToRel
<1>3. IsWellFoundedOn(R, Nat)
  BY <1>1, NatLessThanWellFounded, Zenon
<1>4. PICK n \in S : \A m \in S : <<m, n>> \notin R
  BY <1>3, WFMin
<1>5. \A m \in S : n <= m
  <2>1. SUFFICES ASSUME NEW m \in S PROVE ~(m < n)
    OBVIOUS
  <2>2. m < n => <<m, n>> \in R
    BY <1>2
  <2>3. QED
    BY <1>4, <2>2
<1>6. QED
  BY <1>5

LEMMA MinIsLeast ==
    ASSUME NEW S, S \subseteq Nat, S # {}
    PROVE  Min(S) \in S /\ \A m \in S : Min(S) <= m
BY LeastNat DEF Min

\* There is a k-th element for each k up to the number of elements.
LEMMA NthExists ==
    ASSUME NEW n \in Nat, NEW S, S \subseteq 1..n, NEW k \in 1..Cardinality(S)
    PROVE  Nth(S, k) \in S /\ Cardinality({j \in S : j <= Nth(S, k)}) = k
<1>1. IsFiniteSet(S) /\ Cardinality(S) \in Nat
  <2>1. IsFiniteSet(1..n)
    BY FS_Interval
  <2>2. IsFiniteSet(S)
    BY <2>1, FS_Subset
  <2>3. QED
    BY <2>2, FS_CardinalityType
<1>2. PICK UpTo : UpTo = [m \in Nat |-> {j \in S : j <= m}]
  OBVIOUS
<1>3. ASSUME NEW m \in Nat
      PROVE  /\ UpTo[m] = {j \in S : j <= m}
             /\ IsFiniteSet(UpTo[m]) /\ Cardinality(UpTo[m]) \in Nat
  <2>1. UpTo[m] = {j \in S : j <= m}
    BY <1>2
  <2>2. UpTo[m] \subseteq S
    BY <2>1
  <2>3. IsFiniteSet(UpTo[m])
    BY <1>1, <2>2, FS_Subset
  <2>4. QED
    BY <2>1, <2>3, FS_CardinalityType
<1>4. PICK X : X = {m \in Nat : k <= Cardinality(UpTo[m])}
  OBVIOUS
<1>5. n \in X
  <2>1. \A j \in S : j <= n
    OBVIOUS
  <2>2. UpTo[n] = S
    BY <1>3, <2>1
  <2>3. QED
    BY <1>1, <1>4, <2>2
<1>6. PICK m \in X : \A x \in X : m <= x
  <2>1. X \subseteq Nat
    BY <1>4
  <2>2. QED
    BY <1>5, <2>1, LeastNat
<1>7. m \in Nat /\ k <= Cardinality(UpTo[m])
  BY <1>4, <1>6
<1>8. m # 0
  <2>1. \A j \in S : ~(j <= 0)
    OBVIOUS
  <2>2. UpTo[0] = {}
    BY <1>3, <2>1
  <2>3. Cardinality(UpTo[0]) = 0
    BY <2>2, FS_EmptySet
  <2>4. QED
    BY <1>1, <1>7, <2>3
<1>9. m - 1 \in Nat /\ m - 1 \notin X
  BY <1>6, <1>7, <1>8
<1>10. Cardinality(UpTo[m - 1]) < k /\ Cardinality(UpTo[m - 1]) \in Nat
  <2>1. Cardinality(UpTo[m - 1]) \in Nat
    BY <1>3, <1>9
  <2>2. ~(k <= Cardinality(UpTo[m - 1]))
    BY <1>4, <1>9
  <2>3. QED
    BY <1>1, <2>1, <2>2
<1>11. UpTo[m] = {j \in S : j <= m} /\ UpTo[m - 1] = {j \in S : j <= m - 1}
  BY <1>3, <1>7, <1>9
<1>12. m \in S
  <2>1. ASSUME m \notin S PROVE UpTo[m] = UpTo[m - 1]
    <3>1. ASSUME NEW j \in S PROVE j \in Nat /\ (j <= m <=> j <= m - 1)
      <4>1. j \in Nat /\ j # m
        BY <2>1
      <4>2. QED
        BY <1>7, <4>1
    <3>2. QED
      BY <1>11, <3>1
  <2>2. QED
    BY <1>1, <1>7, <1>10, <2>1
<1>13. Cardinality(UpTo[m]) = Cardinality(UpTo[m - 1]) + 1
  <2>1. UpTo[m] = UpTo[m - 1] \cup {m} /\ m \notin UpTo[m - 1]
    <3>1. \A j \in S : j \in Nat /\ (j <= m <=> j <= m - 1 \/ j = m)
      BY <1>7
    <3>2. ~(m <= m - 1)
      BY <1>7
    <3>3. QED
      BY <1>11, <1>12, <3>1, <3>2
  <2>2. IsFiniteSet(UpTo[m - 1])
    BY <1>3, <1>9
  <2>3. QED
    BY <2>1, <2>2, FS_AddElement
<1>14. Cardinality({j \in S : j <= m}) = k
  <2>1. Cardinality(UpTo[m]) = k
    BY <1>1, <1>7, <1>10, <1>13
  <2>2. QED
    BY <1>11, <2>1
<1>15. \E i \in S : Cardinality({j \in S : j <= i}) = k
  BY <1>12, <1>14, Zenon
<1>16. QED
  BY <1>15, Zenon DEF Nth

LEMMA StartsAreFinite ==
    ASSUME NEW T, NEW s \in Seq(T), NEW seps
    PROVE  /\ TokenStarts(s, seps) \subseteq 1..Len(s) /\ Len(s) \in Nat
           /\ IsFiniteSet(TokenStarts(s, seps))
           /\ Cardinality(TokenStarts(s, seps)) \in Nat
<1>1. TokenStarts(s, seps) \subseteq 1..Len(s) /\ Len(s) \in Nat
  BY DEF TokenStarts
<1>2. IsFiniteSet(TokenStarts(s, seps))
  <2>1. IsFiniteSet(1..Len(s))
    BY <1>1, FS_Interval
  <2>2. QED
    BY <1>1, <2>1, FS_Subset
<1>3. QED
  BY <1>1, <1>2, FS_CardinalityType

\* Position j is where a piece that begins at i ends.
Ends(s, seps, i, j) ==
    /\ j \in i..Len(s)
    /\ \A k \in i..j : s[k] \notin seps
    /\ j < Len(s) => s[j + 1] \in seps

LEMMA TokenEndExists ==
    ASSUME NEW T, NEW s \in Seq(T), NEW seps, NEW i \in TokenStarts(s, seps)
    PROVE  Ends(s, seps, i, TokenEnd(s, seps, i))
<1> DEFINE X == {j \in i..Len(s) : j < Len(s) => s[j + 1] \in seps}
<1>1. i \in 1..Len(s) /\ Len(s) \in Nat /\ s[i] \notin seps
  BY DEF TokenStarts
<1>2. X \subseteq Nat /\ Len(s) \in X
  BY <1>1
<1>3. PICK j \in X : \A x \in X : j <= x
  <2> HIDE DEF X
  <2>1. QED
    BY <1>2, LeastNat
<1>4. ASSUME NEW k \in i..j PROVE s[k] \notin seps
  <2>1. CASE k = i
    BY <1>1, <2>1
  <2>2. CASE k # i
    <3>1. k - 1 \in i..Len(s) /\ k - 1 < j /\ k - 1 < Len(s) /\ (k - 1) + 1 = k
      BY <1>1, <2>2
    <3>2. k - 1 \notin X
      BY <1>1, <1>3, <3>1
    <3>3. QED
      BY <3>1, <3>2
  <2>3. QED
    BY <2>1, <2>2
<1>5. \E y \in i..Len(s) : /\ \A k \in i..y : s[k] \notin seps
                           /\ y < Len(s) => s[y + 1] \in seps
  BY <1>4
<1>6. QED
  BY <1>5, Zenon DEF Ends, TokenEnd

LEMMA TokenEndIs ==
    ASSUME NEW T, NEW s \in Seq(T), NEW seps, NEW i \in TokenStarts(s, seps),
           NEW j, Ends(s, seps, i, j)
    PROVE  TokenEnd(s, seps, i) = j
<1>1. PICK e : e = TokenEnd(s, seps, i)
  OBVIOUS
<1>2. Ends(s, seps, i, e)
  BY <1>1, TokenEndExists
<1>3. i \in Nat /\ Len(s) \in Nat /\ e \in i..Len(s) /\ j \in i..Len(s)
  BY <1>2 DEF Ends, TokenStarts
<1>4. ~(e < j)
  <2>1. e < j => e + 1 \in i..j /\ e < Len(s)
    BY <1>3
  <2>2. QED
    BY <1>2, <2>1 DEF Ends
<1>5. ~(j < e)
  <2>1. j < e => j + 1 \in i..e /\ j < Len(s)
    BY <1>3
  <2>2. QED
    BY <1>2, <2>1 DEF Ends
<1>6. QED
  BY <1>1, <1>3, <1>4, <1>5

\* The pieces of a text are texts without separators.
LEMMA TokensAre ==
    ASSUME NEW T, NEW s \in Seq(T), NEW seps
    PROVE  /\ Tokens(s, seps) \in Seq(Seq(T \ seps))
           /\ Len(Tokens(s, seps)) = Cardinality(TokenStarts(s, seps))
<1> DEFINE n == Cardinality(TokenStarts(s, seps))
           piece(k) == SubSeq(s, Nth(TokenStarts(s, seps), k),
                              TokenEnd(s, seps, Nth(TokenStarts(s, seps), k)))
<1>1. n \in Nat
  BY StartsAreFinite
<1>2. ASSUME NEW k \in 1..n PROVE piece(k) \in Seq(T \ seps)
  <2>1. PICK i : i = Nth(TokenStarts(s, seps), k)
    OBVIOUS
  <2>2. i \in TokenStarts(s, seps)
    BY <2>1, NthExists, StartsAreFinite
  <2>3. PICK j : j = TokenEnd(s, seps, i)
    OBVIOUS
  <2>4. Ends(s, seps, i, j)
    BY <2>2, <2>3, TokenEndExists
  <2>5. i \in Int /\ j \in Int /\ \A p \in i..j : s[p] \in T \ seps
    <3>1. i \in 1..Len(s) /\ Len(s) \in Nat /\ j \in i..Len(s)
      BY <2>2, <2>4 DEF Ends, TokenStarts
    <3>2. \A p \in i..j : p \in 1..Len(s) /\ s[p] \in T
      BY <3>1
    <3>3. QED
      BY <2>4, <3>1, <3>2 DEF Ends
  <2>6. SubSeq(s, i, j) \in Seq(T \ seps)
    BY <2>5, SubSeqProperties
  <2>7. QED
    BY <2>1, <2>3, <2>6, Zenon
<1>3. Tokens(s, seps) = [k \in 1..n |-> piece(k)]
  BY DEF Tokens
<1> HIDE DEF piece, n
<1>4. Tokens(s, seps) \in [1..n -> Seq(T \ seps)]
  BY <1>2, <1>3
<1>5. Tokens(s, seps) \in Seq(Seq(T \ seps))
  BY <1>1, <1>4, SeqDef
<1>6. DOMAIN Tokens(s, seps) = 1..n
  BY <1>4
<1>7. Len(Tokens(s, seps)) = n
  BY <1>1, <1>5, <1>6, LenProperties
<1>8. QED
  BY <1>5, <1>7 DEF n

LEMMA TokenAt ==
    ASSUME NEW s, NEW seps, NEW k \in 1..Cardinality(TokenStarts(s, seps)),
           NEW i, i = Nth(TokenStarts(s, seps), k), NEW j, j = TokenEnd(s, seps, i)
    PROVE  Tokens(s, seps)[k] = SubSeq(s, i, j)
<1> DEFINE piece(x) == SubSeq(s, Nth(TokenStarts(s, seps), x),
                              TokenEnd(s, seps, Nth(TokenStarts(s, seps), x)))
<1>1. Tokens(s, seps) = [x \in 1..Cardinality(TokenStarts(s, seps)) |-> piece(x)]
  BY DEF Tokens
<1>2. piece(k) = SubSeq(s, i, j)
  BY Zenon
<1> HIDE DEF piece
<1>3. QED
  BY <1>1, <1>2
-----------------------------------------------------------------------------
(* Parsing.                                                                *)

Blanks == {"sp", "tab", "cr"}

\* The parts of a text are texts, and the words have no blanks.
LEMMA LineParts ==
    ASSUME NEW T, NEW raw \in Seq(T)
    PROVE  /\ WithoutCr(raw) \in Seq(T)
           /\ Colons(WithoutCr(raw)) # {} =>
                /\ SubSeq(WithoutCr(raw), 1, Min(Colons(WithoutCr(raw))) - 1) \in Seq(T)
                /\ SubSeq(WithoutCr(raw), Min(Colons(WithoutCr(raw))) + 2,
                          Len(WithoutCr(raw))) \in Seq(T)
<1>1. PICK line : line = WithoutCr(raw)
  OBVIOUS
<1>2. line \in Seq(T)
  <2>1. CASE line = raw
    BY <2>1
  <2>2. CASE raw # <<>> /\ line = SubSeq(raw, 1, Len(raw) - 1)
    <3>1. Len(raw) \in Nat /\ \A i \in 1..(Len(raw) - 1) : raw[i] \in T
      OBVIOUS
    <3>2. SubSeq(raw, 1, Len(raw) - 1) \in Seq(T)
      BY <3>1, SubSeqProperties
    <3>3. QED
      BY <2>2, <3>2
  <2>3. QED
    BY <1>1, <2>1, <2>2 DEF WithoutCr
<1>3. ASSUME Colons(line) # {}
      PROVE  /\ SubSeq(line, 1, Min(Colons(line)) - 1) \in Seq(T)
             /\ SubSeq(line, Min(Colons(line)) + 2, Len(line)) \in Seq(T)
  <2>1. Colons(line) \subseteq Nat
    BY DEF Colons
  <2>2. PICK p \in Colons(line) : p = Min(Colons(line))
    BY <1>3, <2>1, MinIsLeast
  <2>3. p \in 1..(Len(line) - 1) /\ Len(line) \in Nat
    BY <1>2 DEF Colons
  <2>4. \A i \in 1..Len(line) : line[i] \in T
    BY <1>2
  <2>5. /\ \A i \in 1..(p - 1) : line[i] \in T
        /\ \A i \in (p + 2)..Len(line) : line[i] \in T
    BY <2>3, <2>4
  <2>6. SubSeq(line, 1, p - 1) \in Seq(T) /\ SubSeq(line, p + 2, Len(line)) \in Seq(T)
    BY <2>3, <2>5, SubSeqProperties
  <2>7. QED
    BY <2>2, <2>6
<1>4. QED
  BY <1>1, <1>2, <1>3

\* With two parameters or more the first is a word.
LEMMA MessageParams ==
    ASSUME NEW T, NEW base \in Seq(T), NEW trailing \in Seq(Seq(T)), Len(trailing) <= 1
    PROVE  /\ Message(base, trailing).params \in Seq(Seq(T))
           /\ Len(Message(base, trailing).params) >= 2 =>
                 Message(base, trailing).params[1] \in Seq(T \ Blanks)
<1>1. PICK words : words = Words(base)
  OBVIOUS
<1>2. words \in Seq(Seq(T \ Blanks))
  BY <1>1, TokensAre DEF Words, Blanks
<1>3. PICK params : params = Message(base, trailing).params
  OBVIOUS
<1>4. \/ params = <<>>
      \/ params = trailing
      \/ words # <<>> /\ params = Tail(words) \o trailing
      \/ words # <<>> /\ Tail(words) # <<>> /\ params = Tail(Tail(words)) \o trailing
  <2>1. CASE words = <<>>
    BY <1>1, <1>3, <2>1 DEF Message, NoMessage
  <2>2. CASE words # <<>>
    <3>1. PICK rest : rest = IF words # <<>> /\ words[1][1] = ":" THEN Tail(words) ELSE words
      OBVIOUS
    <3>2. params = (IF rest = <<>> THEN <<>> ELSE Tail(rest)) \o trailing
      BY <1>1, <1>3, <2>2, <3>1 DEF Message
    <3>3. <<>> \o trailing = trailing
      BY ConcatEmptySeq
    <3>4. QED
      BY <2>2, <3>1, <3>2, <3>3
  <2>3. QED
    BY <2>1, <2>2
<1>5. ASSUME NEW some \in Seq(Seq(T \ Blanks)), params = some \o trailing
      PROVE  /\ params \in Seq(Seq(T))
             /\ Len(params) >= 2 => params[1] \in Seq(T \ Blanks)
  <2>1. Seq(T \ Blanks) \subseteq Seq(T)
    BY SeqMonotonic
  <2>2. some \in Seq(Seq(T))
    BY <2>1, SeqMonotonic
  <2>3. params \in Seq(Seq(T)) /\ Len(params) = Len(some) + Len(trailing)
    BY <1>5, <2>2, ConcatProperties
  <2>4. ASSUME Len(params) >= 2 PROVE params[1] \in Seq(T \ Blanks)
    <3>1. Len(some) \in Nat /\ Len(trailing) \in Nat /\ Len(some) >= 1
      BY <2>3, <2>4
    <3>2. params[1] = some[1]
      BY <1>5, <2>2, <3>1, ConcatProperties
    <3>3. QED
      BY <3>1, <3>2
  <2>5. QED
    BY <2>3, <2>4
<1>6. words # <<>> => Tail(words) \in Seq(Seq(T \ Blanks))
  BY <1>2, HeadTailProperties
<1>7. words # <<>> /\ Tail(words) # <<>> => Tail(Tail(words)) \in Seq(Seq(T \ Blanks))
  BY <1>6, HeadTailProperties
<1>8. params \in Seq(Seq(T)) /\ (Len(params) >= 2 => params[1] \in Seq(T \ Blanks))
  <2>1. CASE params = <<>> \/ params = trailing
    <3>1. <<>> \in Seq(Seq(T)) /\ Len(<<>>) = 0
      BY EmptySeq
    <3>2. params \in Seq(Seq(T)) /\ Len(params) \in Nat /\ Len(params) <= 1
      <4>1. CASE params = <<>>
        BY <3>1, <4>1
      <4>2. CASE params = trailing
        <5>1. Len(trailing) \in Nat
          BY LenProperties
        <5>2. QED
          BY <4>2, <5>1
      <4>3. QED
        BY <2>1, <4>1, <4>2
    <3>3. QED
      BY <3>2
  <2>2. CASE ~(params = <<>> \/ params = trailing)
    BY <1>4, <1>5, <1>6, <1>7, <2>2
  <2>3. QED
    BY <2>1, <2>2
<1>9. QED
  BY <1>3, <1>8

LEMMA ParseParams ==
    ASSUME NEW T, NEW raw \in Seq(T)
    PROVE  /\ parse(raw).params \in Seq(Seq(T))
           /\ Len(parse(raw).params) >= 2 => parse(raw).params[1] \in Seq(T \ Blanks)
<1>1. PICK line : line = WithoutCr(raw)
  OBVIOUS
<1>2. CASE Colons(line) = {}
  <2>1. parse(raw) = Message(line, <<>>)
    BY <1>1, <1>2, Zenon DEF parse
  <2>2. <<>> \in Seq(Seq(T)) /\ Len(<<>>) <= 1
    BY EmptySeq
  <2>3. line \in Seq(T)
    BY <1>1, LineParts
  <2>4. QED
    BY <2>1, <2>2, <2>3, MessageParams
<1>3. CASE Colons(line) # {}
  <2>1. PICK base, last : /\ base = SubSeq(line, 1, Min(Colons(line)) - 1)
                          /\ last = SubSeq(line, Min(Colons(line)) + 2, Len(line))
    OBVIOUS
  <2>2. parse(raw) = Message(base, <<last>>)
    BY <1>1, <1>3, <2>1, Zenon DEF parse
  <2>3. base \in Seq(T) /\ last \in Seq(T)
    BY <1>1, <1>3, <2>1, LineParts
  <2>4. <<last>> \in Seq(Seq(T)) /\ Len(<<last>>) <= 1
    BY <2>3
  <2>5. QED
    BY <2>2, <2>3, <2>4, MessageParams
<1>4. QED
  BY <1>2, <1>3
-----------------------------------------------------------------------------
(* The lists of KICK.                                                      *)

IsText == text \in Seq(AllSymbols)

LEMMA AlwaysText == Spec => []IsText
<1>1. Init => IsText
  BY EmptySeq DEF Init, IsText
<1>2. IsText /\ [Type]_text => IsText'
  <2>1. SUFFICES ASSUME IsText, Type PROVE IsText'
    BY DEF IsText
  <2>2. PICK s \in Symbols : text' = Append(text, s)
    BY <2>1 DEF Type
  <2>3. s \in AllSymbols
    BY ParserAssumption
  <2>4. QED
    BY <2>1, <2>2, <2>3, AppendProperties DEF IsText
<1>3. QED
  BY <1>1, <1>2, PTL DEF Spec

\* The line of a command whose parameters are typed.
LEMMA CommandIsText ==
    ASSUME NEW T, "a" \in T, "sp" \in T, NEW words \in Seq(T)
    PROVE  <<"a", "sp">> \o words \in Seq(T)
<1>1. <<"a", "sp">> \in Seq(T)
  OBVIOUS
<1>2. QED
  BY <1>1, ConcatProperties

LEMMA KickReadsInBounds == IsText => KickInBounds
<1>1. SUFFICES ASSUME IsText PROVE KickInBounds
  OBVIOUS
<1>2. PICK params : params = parse(<<"a", "sp">> \o text).params
  OBVIOUS
<1>3. params \in Seq(Seq(AllSymbols))
  <2>1. <<"a", "sp">> \o text \in Seq(AllSymbols)
    BY <1>1, CommandIsText DEF IsText, AllSymbols
  <2>2. QED
    BY <1>2, <2>1, ParseParams
<1>4. ASSUME Len(params) >= 2, NEW pair \in KickPairs(params)
      PROVE  pair[1] \in DOMAIN splitString(params[1])
  <2>1. params[1] \in Seq(AllSymbols) /\ params[2] \in Seq(AllSymbols)
    BY <1>3, <1>4
  <2>2. PICK channels, users : /\ channels = splitString(params[1])
                               /\ users = splitString(params[2])
    OBVIOUS
  <2>3. /\ channels \in Seq(Seq(AllSymbols \ {","})) /\ users \in Seq(Seq(AllSymbols \ {","}))
    BY <2>1, <2>2, TokensAre DEF splitString
  <2>4. /\ DOMAIN channels = 1..Len(channels) /\ DOMAIN users = 1..Len(users)
        /\ Len(channels) \in Nat /\ Len(users) \in Nat
    BY <2>3, LenProperties
  <2>5. KickPairs(params) =
          IF Len(channels) # 1 /\ Len(channels) # Len(users) THEN {}
          ELSE {<<IF Len(channels) = 1 THEN 1 ELSE i, i>> : i \in DOMAIN users}
    BY <2>2, Zenon DEF KickPairs
  <2>6. ~(Len(channels) # 1 /\ Len(channels) # Len(users))
    BY <1>4, <2>5
  <2>7. PICK i \in DOMAIN users : pair = <<IF Len(channels) = 1 THEN 1 ELSE i, i>>
    BY <1>4, <2>5, <2>6
  <2>8. pair[1] = IF Len(channels) = 1 THEN 1 ELSE i
    BY <2>7
  <2>9. pair[1] \in DOMAIN channels
    <3>1. CASE Len(channels) = 1
      BY <2>4, <2>8, <3>1, SMTT(30)
    <3>2. CASE Len(channels) # 1
      BY <2>4, <2>6, <2>8, <3>2
    <3>3. QED
      BY <3>1, <3>2
  <2>10. QED
    BY <2>2, <2>9
<1>5. QED
  BY <1>2, <1>4, Zenon DEF KickInBounds

\* Whatever a client sends, the loop of KICK indexes the list of channels only
\* where there is a channel.
THEOREM KickStaysInBounds == Spec => []KickInBounds
BY AlwaysText, KickReadsInBounds, PTL
-----------------------------------------------------------------------------
(* A line with a trailing parameter.                                       *)

\* p is where the first " :" of a line is.
FirstColon(line, p) ==
    /\ p \in 1..(Len(line) - 1) /\ line[p] = "sp" /\ line[p + 1] = ":"
    /\ \A i \in 1..(p - 1) : ~(line[i] = "sp" /\ line[i + 1] = ":")

LEMMA ParseTrailing ==
    ASSUME NEW T, NEW line \in Seq(T), line # <<>>, line[Len(line)] # "cr",
           NEW p, FirstColon(line, p)
    PROVE  parse(line) = Message(SubSeq(line, 1, p - 1), <<SubSeq(line, p + 2, Len(line))>>)
<1>1. WithoutCr(line) = line
  BY DEF WithoutCr
<1>2. p \in Colons(line) /\ Colons(line) \subseteq Nat /\ p \in Nat /\ Len(line) \in Nat
  BY DEF Colons, FirstColon
<1>3. ASSUME NEW i \in Colons(line) PROVE p <= i
  <2>1. i \in 1..(Len(line) - 1) /\ line[i] = "sp" /\ line[i + 1] = ":"
    BY DEF Colons
  <2>2. i \notin 1..(p - 1)
    BY <2>1 DEF FirstColon
  <2>3. QED
    BY <1>2, <2>1, <2>2
<1>4. Min(Colons(line)) = p
  <2>1. PICK q \in Colons(line) : q = Min(Colons(line)) /\ \A m \in Colons(line) : q <= m
    BY <1>2, MinIsLeast
  <2>2. q <= p /\ p <= q /\ q \in Nat
    BY <1>2, <1>3, <2>1
  <2>3. QED
    BY <1>2, <2>1, <2>2
<1>5. Colons(line) # {}
  BY <1>2
<1>6. QED
  BY <1>1, <1>4, <1>5, Zenon DEF parse

\* A text of one piece.
LEMMA OneToken ==
    ASSUME NEW T, NEW e \in T, NEW seps, e \notin seps
    PROVE  Tokens(<<e>>, seps) = <<<<e>>>>
<1>1. PICK s \in Seq(T) : s = <<e>> /\ Len(s) = 1 /\ s[1] = e
  <2>1. <<e>> \in Seq(T) /\ Len(<<e>>) = 1 /\ <<e>>[1] = e
    OBVIOUS
  <2>2. QED
    BY <2>1
<1>2. TokenStarts(s, seps) = {1}
  BY <1>1 DEF TokenStarts
<1>3. PICK starts : starts = TokenStarts(s, seps)
  OBVIOUS
<1>4. Cardinality(starts) = 1
  BY <1>2, <1>3, FS_Singleton
<1>5. Nth(starts, 1) = 1
  <2>1. Nth(starts, 1) \in starts
    <3>1. starts \subseteq 1..1 /\ 1 \in 1..Cardinality(starts) /\ 1 \in Nat
      BY <1>2, <1>3, <1>4
    <3>2. QED
      BY <3>1, NthExists
  <2>2. QED
    BY <1>2, <1>3, <2>1
<1>6. TokenEnd(s, seps, 1) = 1
  <2>1. Ends(s, seps, 1, 1)
    BY <1>1 DEF Ends
  <2>2. QED
    BY <1>1, <1>2, <2>1, TokenEndIs
<1>7. SubSeq(s, 1, 1) = s
  BY <1>1, SubSeqFull
<1>8. PICK t : t = Tokens(s, seps)
  OBVIOUS
<1>9. t \in Seq(Seq(T \ seps)) /\ Len(t) = 1
  BY <1>3, <1>4, <1>8, TokensAre
<1>10. t[1] = SubSeq(s, 1, 1)
  <2>1. 1 \in 1..Cardinality(TokenStarts(s, seps))
    BY <1>3, <1>4
  <2>2. PICK i : i = Nth(TokenStarts(s, seps), 1)
    OBVIOUS
  <2>3. PICK j : j = TokenEnd(s, seps, i)
    OBVIOUS
  <2>4. Tokens(s, seps)[1] = SubSeq(s, i, j)
    BY <2>1, <2>2, <2>3, TokenAt
  <2>5. i = 1
    BY <1>3, <1>5, <2>2, Zenon
  <2>6. j = 1
    BY <1>6, <2>3, <2>5, Zenon
  <2>7. QED
    BY <1>8, <2>4, <2>5, <2>6, Zenon
<1>11. t = <<s>>
  BY <1>7, <1>9, <1>10
<1>12. QED
  BY <1>1, <1>8, <1>11
-----------------------------------------------------------------------------
(* The password the bot sends.                                             *)

LEMMA PasswordIsRead == IsText => PasswordReachesServer
<1>1. SUFFICES ASSUME IsText, isValidPassword(text) PROVE PasswordReachesServer
  BY DEF PasswordReachesServer
<1>2. PICK n \in Nat : n = Len(text) /\ n # 0 /\ n <= MaxPassword
  BY <1>1, EmptySeq DEF IsText, isValidPassword
<1>3. text \in Seq(AllSymbols) /\ \A i \in 1..n : text[i] # "cr"
  BY <1>1, <1>2 DEF IsText, isValidPassword, Holds
<1>4. PICK head \in Seq(AllSymbols) :
          /\ head = <<"a", "sp", ":">> /\ Len(head) = 3
          /\ head[1] = "a" /\ head[2] = "sp" /\ head[3] = ":"
  <2>1. <<"a", "sp", ":">> \in Seq(AllSymbols)
    BY DEF AllSymbols
  <2>2. QED
    BY <2>1
<1>5. PICK line : line = PassLine(text)
  OBVIOUS
<1>6. line = head \o text
  BY <1>4, <1>5 DEF PassLine
<1>7. /\ line \in Seq(AllSymbols) /\ Len(line) = 3 + n
      /\ \A i \in 1..(3 + n) : line[i] = IF i <= 3 THEN head[i] ELSE text[i - 3]
  BY <1>2, <1>3, <1>4, <1>6, ConcatProperties
<1>8. line[1] = "a" /\ line[2] = "sp" /\ line[3] = ":"
  BY <1>2, <1>4, <1>7
<1>9. \A i \in 1..(3 + n) : line[i] # "cr"
  <2>1. SUFFICES ASSUME NEW i \in 1..(3 + n) PROVE line[i] # "cr"
    OBVIOUS
  <2>2. CASE i <= 3
    <3>1. i = 1 \/ i = 2 \/ i = 3
      BY <2>2
    <3>2. QED
      BY <1>8, <3>1
  <2>3. CASE ~(i <= 3)
    <3>1. i - 3 \in 1..n /\ line[i] = text[i - 3]
      BY <1>2, <1>7, <2>3
    <3>2. QED
      BY <1>3, <3>1
  <2>4. QED
    BY <2>2, <2>3
<1>10. ~Holds(line, {"cr"})
  BY <1>7, <1>9, LenProperties DEF Holds
<1>11. line # <<>>
  BY <1>2, <1>7, EmptySeq
<1>12. Len(line) + 2 <= MaxLine
  BY <1>2, <1>7, ParserAssumption
<1>13. FirstColon(line, 2)
  <2>1. line[2] # ":" /\ line[1] # "sp"
    BY <1>8
  <2>2. \A i \in 1..(2 - 1) : i = 1
    OBVIOUS
  <2>3. 2 \in 1..(Len(line) - 1) /\ line[2 + 1] = ":"
    BY <1>2, <1>7, <1>8
  <2>4. QED
    BY <1>8, <2>1, <2>2, <2>3 DEF FirstColon
<1>14. line[Len(line)] # "cr"
  BY <1>2, <1>7, <1>9
<1>15. SubSeq(line, 1, 2 - 1) = <<"a">>
  <2>1. \A i \in 1..1 : line[i] \in AllSymbols
    BY <1>2, <1>7
  <2>2. PICK s : s = SubSeq(line, 1, 1)
    OBVIOUS
  <2>3. s \in Seq(AllSymbols) /\ Len(s) = 1 /\ s[1] = line[1]
    BY <2>1, <2>2, SubSeqProperties
  <2>4. s = <<"a">>
    BY <1>8, <2>3
  <2>5. 2 - 1 = 1
    OBVIOUS
  <2>6. QED
    BY <2>2, <2>4, <2>5, Zenon
<1>16. SubSeq(line, 2 + 2, Len(line)) = text
  <2>1. \A i \in 4..(3 + n) : line[i] \in AllSymbols
    BY <1>2, <1>7
  <2>2. PICK s : s = SubSeq(line, 4, 3 + n)
    OBVIOUS
  <2>3. /\ s \in Seq(AllSymbols) /\ Len(s) = n
        /\ \A i \in 1..((3 + n) - 4 + 1) : s[i] = line[4 + i - 1]
    BY <1>2, <2>1, <2>2, SubSeqProperties
  <2>4. ASSUME NEW i \in 1..n PROVE s[i] = text[i]
    <3>1. s[i] = line[i + 3]
      BY <1>2, <2>3
    <3>2. i + 3 \in 1..(3 + n) /\ ~(i + 3 <= 3) /\ (i + 3) - 3 = i
      BY <1>2
    <3>3. QED
      BY <1>7, <3>1, <3>2
  <2>5. s = text
    BY <1>2, <1>3, <2>3, <2>4, SeqEqual
  <2>6. QED
    BY <1>7, <2>2, <2>5
<1>17. parse(line) = Message(<<"a">>, <<text>>)
  <2>1. parse(line) = Message(SubSeq(line, 1, 2 - 1), <<SubSeq(line, 2 + 2, Len(line))>>)
    BY <1>7, <1>11, <1>13, <1>14, ParseTrailing
  <2>2. QED
    BY <1>15, <1>16, <2>1, Zenon
<1>18. Message(<<"a">>, <<text>>) = [prefix |-> <<>>, command |-> <<"A">>, params |-> <<text>>]
  <2>1. PICK words : words = Words(<<"a">>)
    OBVIOUS
  <2>2. words = <<<<"a">>>>
    <3>1. "a" \in AllSymbols /\ "a" \notin {"sp", "tab"}
      BY DEF AllSymbols
    <3>2. QED
      BY <2>1, <3>1, OneToken DEF Words
  <2>3. words # <<>> /\ words[1] = <<"a">> /\ words[1][1] = "a" /\ Tail(words) = <<>>
    BY <2>2
  <2>4. ~(words # <<>> /\ words[1][1] = ":")
    BY <2>3
  <2>5. toupper(<<"a">>) = <<"A">>
    BY DEF toupper
  <2>6. <<>> \o <<text>> = <<text>>
    OBVIOUS
  <2>7. Message(<<"a">>, <<text>>) =
           [prefix |-> <<>>, command |-> toupper(words[1]), params |-> Tail(words) \o <<text>>]
    BY <2>1, <2>3, <2>4 DEF Message
  <2>8. QED
    BY <2>3, <2>5, <2>6, <2>7
<1>19. sendLine(line) /\ Extracted(line)
  BY <1>10, <1>11, <1>12 DEF sendLine, Extracted
<1>20. QED
  BY <1>5, <1>17, <1>18, <1>19 DEF PasswordReachesServer

\* Every password both programs accept logs the bot in, whatever blanks and
\* colons it has: the line fits, and the server reads the same password.
THEOREM PasswordsReachServer == Spec => []PasswordReachesServer
BY AlwaysText, PasswordIsRead, PTL
-----------------------------------------------------------------------------
(* The message PRIVMSG relays.                                             *)

LEMMA PrefixOfConcat ==
    ASSUME NEW T, NEW s \in Seq(T), NEW t \in Seq(T)
    PROVE  SubSeq(s \o t, 1, Len(s)) = s
<1>1. PICK u : u = s \o t
  OBVIOUS
<1>2. PICK n \in Nat : n = Len(s)
  OBVIOUS
<1>3. /\ u \in Seq(T) /\ Len(u) = n + Len(t) /\ Len(t) \in Nat
      /\ \A i \in 1..n : u[i] = s[i] /\ u[i] \in T
  BY <1>1, <1>2, ConcatProperties
<1>4. PICK r : r = SubSeq(u, 1, n)
  OBVIOUS
<1>5. r \in Seq(T) /\ Len(r) = n /\ \A i \in 1..n : r[i] = u[i]
  BY <1>2, <1>3, <1>4, SubSeqProperties
<1>6. r = s
  BY <1>2, <1>3, <1>5, SeqEqual
<1>7. QED
  BY <1>1, <1>2, <1>4, <1>6, Zenon

LEMMA SuffixOfConcat ==
    ASSUME NEW T, NEW s \in Seq(T), NEW t \in Seq(T)
    PROVE  SubSeq(s \o t, Len(s) + 1, Len(s) + Len(t)) = t
<1>1. PICK u : u = s \o t
  OBVIOUS
<1>2. PICK n \in Nat : n = Len(s)
  OBVIOUS
<1>3. PICK w \in Nat : w = Len(t)
  OBVIOUS
<1>4. u \in Seq(T) /\ \A i \in 1..w : u[n + i] = t[i] /\ t[i] \in T
  <2>1. u \in Seq(T) /\ \A i \in 1..(n + w) : u[i] = IF i <= n THEN s[i] ELSE t[i - n]
    BY <1>1, <1>2, <1>3, ConcatProperties
  <2>2. ASSUME NEW i \in 1..w PROVE n + i \in 1..(n + w) /\ ~(n + i <= n) /\ (n + i) - n = i
    OBVIOUS
  <2>3. QED
    BY <1>3, <2>1, <2>2
<1>5. ASSUME NEW i \in (n + 1)..(n + w) PROVE u[i] \in T
  <2>1. i - n \in 1..w /\ n + (i - n) = i
    OBVIOUS
  <2>2. QED
    BY <1>4, <2>1
<1>6. PICK r : r = SubSeq(u, n + 1, n + w)
  OBVIOUS
<1>7. r \in Seq(T) /\ Len(r) = w /\ \A i \in 1..w : r[i] = u[n + i]
  <2>1. /\ r \in Seq(T) /\ Len(r) = (IF n + 1 <= n + w THEN (n + w) - (n + 1) + 1 ELSE 0)
        /\ \A i \in 1..((n + w) - (n + 1) + 1) : r[i] = u[(n + 1) + i - 1]
    BY <1>5, <1>6, SubSeqProperties, SMTT(30)
  <2>2. Len(r) = w
    <3>1. CASE w = 0
      BY <2>1, <3>1
    <3>2. CASE w # 0
      <4>1. n + 1 <= n + w /\ (n + w) - (n + 1) + 1 = w
        BY <3>2
      <4>2. QED
        BY <2>1, <4>1
    <3>3. QED
      BY <3>1, <3>2
  <2>3. ASSUME NEW i \in 1..w PROVE r[i] = u[n + i]
    <3>1. i \in 1..((n + w) - (n + 1) + 1) /\ (n + 1) + i - 1 = n + i
      OBVIOUS
    <3>2. r[i] = u[(n + 1) + i - 1]
      BY <2>1, <3>1
    <3>3. QED
      BY <3>1, <3>2
  <2>4. QED
    BY <2>1, <2>2, <2>3
<1>8. r = t
  BY <1>3, <1>4, <1>7, SeqEqual
<1>9. QED
  BY <1>1, <1>2, <1>3, <1>6, <1>8, Zenon

\* The words before the text: the prefix, the command, the target.
LEMMA ThreeTokens ==
    ASSUME NEW target \in Seq(AllSymbols \ Blanks), target # <<>>, target[1] = "#"
    PROVE  Words(<<":", "a", "sp", "a", "sp">> \o target) = <<<<":", "a">>, <<"a">>, target>>
<1>1. PICK head \in Seq(AllSymbols) :
          /\ head = <<":", "a", "sp", "a", "sp">> /\ Len(head) = 5
          /\ head[1] = ":" /\ head[2] = "a" /\ head[3] = "sp" /\ head[4] = "a"
          /\ head[5] = "sp"
  <2>1. ":" \in AllSymbols /\ "a" \in AllSymbols /\ "sp" \in AllSymbols
    BY DEF AllSymbols
  <2>2. <<":", "a", "sp", "a", "sp">> \in Seq(AllSymbols)
    BY <2>1
  <2>3. QED
    BY <2>2
<1>2. PICK n \in Nat : n = Len(target) /\ n # 0
  BY EmptySeq
<1>3. target \in Seq(AllSymbols) /\ \A i \in 1..n : target[i] \notin Blanks
  <2>1. target \in Seq(AllSymbols)
    BY SeqMonotonic
  <2>2. QED
    BY <1>2, <2>1
<1>4. PICK s : s = head \o target
  OBVIOUS
<1>5. /\ s \in Seq(AllSymbols) /\ Len(s) = 5 + n
      /\ \A i \in 1..(5 + n) : s[i] = IF i <= 5 THEN head[i] ELSE target[i - 5]
  BY <1>1, <1>2, <1>3, <1>4, ConcatProperties
<1>6. s[1] = ":" /\ s[2] = "a" /\ s[3] = "sp" /\ s[4] = "a" /\ s[5] = "sp"
  BY <1>1, <1>2, <1>5
<1>7. ASSUME NEW i \in 6..(5 + n) PROVE s[i] \notin Blanks
  <2>1. i - 5 \in 1..n /\ s[i] = target[i - 5]
    BY <1>2, <1>5
  <2>2. QED
    BY <1>3, <2>1
<1>8. TokenStarts(s, Blanks) = {1, 4, 6}
  <2>1. DOMAIN s = 1..(5 + n)
    BY <1>5, LenProperties
  <2>2. 1 \in TokenStarts(s, Blanks)
    BY <1>2, <1>6, <2>1 DEF TokenStarts, Blanks
  <2>3. 4 \in TokenStarts(s, Blanks)
    BY <1>2, <1>6, <2>1 DEF TokenStarts, Blanks
  <2>4. 6 \in TokenStarts(s, Blanks)
    <3>1. 6 \in 1..(5 + n) /\ 6 \in 6..(5 + n) /\ 6 - 1 = 5
      BY <1>2
    <3>2. s[6] \notin Blanks
      BY <1>7, <3>1
    <3>3. s[6 - 1] \in Blanks
      BY <1>6, <3>1 DEF Blanks
    <3>4. QED
      BY <2>1, <3>1, <3>2, <3>3 DEF TokenStarts
  <2>5. ASSUME NEW i \in TokenStarts(s, Blanks), i \notin {1, 4, 6} PROVE FALSE
    <3>1. i \in 1..(5 + n) /\ s[i] \notin Blanks /\ s[i - 1] \in Blanks
      BY <2>1, <2>5 DEF TokenStarts
    <3>2. CASE i > 6
      <4>1. i - 1 \in 6..(5 + n)
        BY <1>2, <3>1, <3>2
      <4>2. QED
        BY <1>7, <3>1, <4>1
    <3>3. CASE ~(i > 6)
      <4>1. i = 2 \/ i = 3 \/ i = 5
        BY <1>2, <2>5, <3>1, <3>3
      <4>2. i - 1 = 1 \/ s[i] = "sp"
        BY <1>6, <4>1
      <4>3. QED
        BY <1>6, <3>1, <4>2 DEF Blanks
    <3>4. QED
      BY <3>2, <3>3
  <2>6. QED
    BY <2>2, <2>3, <2>4, <2>5
<1>9. PICK starts : starts = {1, 4, 6}
  OBVIOUS
<1>10. PICK one : one = {1}
  OBVIOUS
<1>11. Cardinality(one) = 1 /\ Cardinality({1, 4}) = 2 /\ Cardinality(starts) = 3
  <2>1. PICK two : two = one \cup {4}
    OBVIOUS
  <2>2. 4 \notin one /\ 6 \notin two /\ two = {1, 4} /\ starts = two \cup {6}
    BY <1>9, <1>10, <2>1
  <2>3. IsFiniteSet(one) /\ Cardinality(one) = 1
    BY <1>10, FS_Singleton
  <2>4. IsFiniteSet(two) /\ Cardinality(two) = 1 + 1
    BY <2>1, <2>2, <2>3, FS_AddElement
  <2>5. Cardinality(starts) = (1 + 1) + 1
    BY <2>2, <2>4, FS_AddElement, ZenonT(60)
  <2>6. QED
    BY <2>2, <2>3, <2>4, <2>5
<1>12. /\ {j \in starts : j <= 1} = one /\ {j \in starts : j <= 4} = {1, 4}
       /\ {j \in starts : j <= 6} = starts
  BY <1>9, <1>10
<1>13. Nth(starts, 1) = 1 /\ Nth(starts, 2) = 4 /\ Nth(starts, 3) = 6
  <2>1. ASSUME NEW k \in 1..3
        PROVE  /\ Nth(starts, k) \in starts
               /\ Cardinality({j \in starts : j <= Nth(starts, k)}) = k
    <3>1. starts \subseteq 1..6 /\ k \in 1..Cardinality(starts) /\ 6 \in Nat
      BY <1>9, <1>11
    <3>2. QED
      BY <3>1, NthExists
  <2>2. ASSUME NEW k \in 1..3
        PROVE  \/ Nth(starts, k) = 1 /\ k = 1
               \/ Nth(starts, k) = 4 /\ k = 2
               \/ Nth(starts, k) = 6 /\ k = 3
    <3>1. PICK i \in starts : i = Nth(starts, k) /\ Cardinality({j \in starts : j <= i}) = k
      BY <2>1
    <3>2. i = 1 \/ i = 4 \/ i = 6
      BY <1>9
    <3>3. CASE i = 1
      BY <1>11, <1>12, <3>1, <3>3
    <3>4. CASE i = 4
      BY <1>11, <1>12, <3>1, <3>4
    <3>5. CASE i = 6
      BY <1>11, <1>12, <3>1, <3>5
    <3>6. QED
      BY <3>2, <3>3, <3>4, <3>5
  <2>3. QED
    BY <2>2
<1>14. TokenEnd(s, Blanks, 1) = 2 /\ TokenEnd(s, Blanks, 4) = 4 /\ TokenEnd(s, Blanks, 6) = 5 + n
  <2>1. Ends(s, Blanks, 1, 2)
    <3>1. \A k \in 1..2 : k = 1 \/ k = 2
      OBVIOUS
    <3>2. 2 \in 1..Len(s) /\ 2 + 1 = 3
      BY <1>2, <1>5
    <3>3. QED
      BY <1>6, <3>1, <3>2 DEF Ends, Blanks
  <2>2. Ends(s, Blanks, 4, 4)
    <3>1. \A k \in 4..4 : k = 4
      OBVIOUS
    <3>2. 4 \in 4..Len(s) /\ 4 + 1 = 5
      BY <1>2, <1>5
    <3>3. QED
      BY <1>6, <3>1, <3>2 DEF Ends, Blanks
  <2>3. Ends(s, Blanks, 6, 5 + n)
    <3>1. 5 + n \in 6..Len(s) /\ ~(5 + n < Len(s))
      BY <1>2, <1>5
    <3>2. QED
      BY <1>7, <3>1 DEF Ends
  <2>4. 1 \in TokenStarts(s, Blanks) /\ 4 \in TokenStarts(s, Blanks) /\ 6 \in TokenStarts(s, Blanks)
    BY <1>8
  <2>5. QED
    BY <1>5, <2>1, <2>2, <2>3, <2>4, TokenEndIs
<1>15. /\ SubSeq(s, 1, 2) = <<":", "a">> /\ SubSeq(s, 4, 4) = <<"a">>
       /\ SubSeq(s, 6, 5 + n) = target
  <2>1. SubSeq(s, 1, 2) = <<":", "a">>
    <3>1. PICK r : r = SubSeq(s, 1, 2)
      OBVIOUS
    <3>2. \A i \in 1..2 : s[i] \in AllSymbols
      BY <1>2, <1>5
    <3>3. r \in Seq(AllSymbols) /\ Len(r) = 2 /\ r[1] = s[1] /\ r[2] = s[2]
      BY <3>1, <3>2, SubSeqProperties
    <3>4. r = <<":", "a">>
      BY <1>6, <3>3
    <3>5. QED
      BY <3>1, <3>4
  <2>2. SubSeq(s, 4, 4) = <<"a">>
    <3>1. PICK r : r = SubSeq(s, 4, 4)
      OBVIOUS
    <3>2. \A i \in 4..4 : s[i] \in AllSymbols
      BY <1>2, <1>5
    <3>3. r \in Seq(AllSymbols) /\ Len(r) = 1 /\ r[1] = s[4]
      BY <3>1, <3>2, SubSeqProperties
    <3>4. r = <<"a">>
      BY <1>6, <3>3
    <3>5. QED
      BY <3>1, <3>4
  <2>3. SubSeq(head \o target, Len(head) + 1, Len(head) + Len(target)) = target
    BY <1>3, SuffixOfConcat
  <2>4. Len(head) + 1 = 6 /\ Len(head) + Len(target) = 5 + n
    BY <1>1, <1>2
  <2>5. SubSeq(s, 6, 5 + n) = target
    BY <1>4, <2>3, <2>4, Zenon
  <2>6. QED
    BY <2>1, <2>2, <2>5
<1>16. PICK t : t = Tokens(s, Blanks)
  OBVIOUS
<1>17. t \in Seq(Seq(AllSymbols \ Blanks)) /\ Len(t) = 3
  <2>1. Cardinality(TokenStarts(s, Blanks)) = 3
    BY <1>8, <1>9, <1>11
  <2>2. QED
    BY <1>5, <1>16, <2>1, TokensAre
<1>18. t[1] = <<":", "a">> /\ t[2] = <<"a">> /\ t[3] = target
  <2>1. starts = TokenStarts(s, Blanks)
    BY <1>8, <1>9
  <2>2. 1 \in 1..Cardinality(TokenStarts(s, Blanks)) /\ 2 \in 1..Cardinality(TokenStarts(s, Blanks))
        /\ 3 \in 1..Cardinality(TokenStarts(s, Blanks))
    BY <1>11, <2>1
  <2>3. ASSUME NEW k \in 1..Cardinality(TokenStarts(s, Blanks)),
               NEW i, i = Nth(TokenStarts(s, Blanks), k), NEW j, j = TokenEnd(s, Blanks, i)
        PROVE  t[k] = SubSeq(s, i, j)
    BY <1>16, <2>3, TokenAt
  <2>4. t[1] = SubSeq(s, 1, 2)
    <3>1. PICK i : i = Nth(TokenStarts(s, Blanks), 1)
      OBVIOUS
    <3>2. PICK j : j = TokenEnd(s, Blanks, i)
      OBVIOUS
    <3>3. t[1] = SubSeq(s, i, j)
      BY <2>2, <2>3, <3>1, <3>2
    <3>4. i = 1
      BY <1>13, <2>1, <3>1, Zenon
    <3>5. j = 2
      BY <1>14, <3>2, <3>4, Zenon
    <3>6. QED
      BY <3>3, <3>4, <3>5, Zenon
  <2>5. t[2] = SubSeq(s, 4, 4)
    <3>1. PICK i : i = Nth(TokenStarts(s, Blanks), 2)
      OBVIOUS
    <3>2. PICK j : j = TokenEnd(s, Blanks, i)
      OBVIOUS
    <3>3. t[2] = SubSeq(s, i, j)
      BY <2>2, <2>3, <3>1, <3>2
    <3>4. i = 4
      BY <1>13, <2>1, <3>1, Zenon
    <3>5. j = 4
      BY <1>14, <3>2, <3>4, Zenon
    <3>6. QED
      BY <3>3, <3>4, <3>5, Zenon
  <2>6. t[3] = SubSeq(s, 6, 5 + n)
    <3>1. PICK i : i = Nth(TokenStarts(s, Blanks), 3)
      OBVIOUS
    <3>2. PICK j : j = TokenEnd(s, Blanks, i)
      OBVIOUS
    <3>3. t[3] = SubSeq(s, i, j)
      BY <2>2, <2>3, <3>1, <3>2
    <3>4. i = 6
      BY <1>13, <2>1, <3>1, Zenon
    <3>5. j = 5 + n
      BY <1>14, <3>2, <3>4, Zenon
    <3>6. QED
      BY <3>3, <3>4, <3>5, Zenon
  <2>7. QED
    BY <1>15, <2>4, <2>5, <2>6
<1>19. t = <<<<":", "a">>, <<"a">>, target>>
  <2>1. PICK prefix, command : prefix = <<":", "a">> /\ command = <<"a">>
    OBVIOUS
  <2>2. t[1] = prefix /\ t[2] = command /\ t[3] = target
    BY <1>18, <2>1, Zenon
  <2>3. t = <<prefix, command, target>>
    BY <1>17, <2>2
  <2>4. QED
    BY <2>1, <2>3, Zenon
<1>20. QED
  BY <1>1, <1>4, <1>16, <1>19, Zenon DEF Words, Blanks

LEMMA PairUp == ASSUME NEW a, NEW b PROVE <<a>> \o <<b>> = <<a, b>>
<1>1. <<a>> \in Seq({a, b}) /\ <<b>> \in Seq({a, b})
  OBVIOUS
<1>2. PICK s, t \in Seq({a, b}) : s = <<a>> /\ t = <<b>>
  BY <1>1
<1>3. PICK r : r = s \o t
  OBVIOUS
<1>4. r \in Seq({a, b}) /\ Len(r) = 2 /\ r[1] = a /\ r[2] = b
  BY <1>2, <1>3, ConcatProperties
<1>5. r = <<a, b>>
  BY <1>4
<1>6. QED
  BY <1>2, <1>3, <1>5, Zenon

LEMMA RelayIsRead ==
    ASSUME NEW target \in Seq((AllSymbols \ {"cr"}) \ Blanks), target # <<>>, target[1] = "#",
           NEW words \in Seq(AllSymbols \ {"cr"})
    PROVE  parse(RelayLine(target, words)).params = <<target, words>>
<1>1. ":" \in AllSymbols /\ "a" \in AllSymbols /\ "sp" \in AllSymbols
  BY DEF AllSymbols
<1>2. PICK head \in Seq(AllSymbols) :
          /\ head = <<":", "a", "sp", "a", "sp">> /\ Len(head) = 5
          /\ head[1] = ":" /\ head[2] = "a" /\ head[3] = "sp" /\ head[4] = "a"
          /\ head[5] = "sp"
  <2>1. <<":", "a", "sp", "a", "sp">> \in Seq(AllSymbols)
    BY <1>1
  <2>2. QED
    BY <2>1
<1>3. PICK sep \in Seq(AllSymbols) :
          sep = <<"sp", ":">> /\ Len(sep) = 2 /\ sep[1] = "sp" /\ sep[2] = ":"
  <2>1. <<"sp", ":">> \in Seq(AllSymbols)
    BY <1>1
  <2>2. QED
    BY <2>1
<1>4. PICK n \in Nat : n = Len(target) /\ n # 0
  BY EmptySeq
<1>5. PICK w \in Nat : w = Len(words)
  OBVIOUS
<1>6. target \in Seq(AllSymbols) /\ words \in Seq(AllSymbols)
  BY SeqMonotonic
<1>7. /\ \A i \in 1..n : target[i] \notin Blanks
      /\ \A i \in 1..w : words[i] # "cr"
  BY <1>4, <1>5
<1>8. PICK base : base = head \o target
  OBVIOUS
<1>9. PICK start : start = base \o sep
  OBVIOUS
<1>10. PICK line : line = start \o words
  OBVIOUS
<1>11. line = RelayLine(target, words)
  BY <1>2, <1>3, <1>8, <1>9, <1>10, Zenon DEF RelayLine
<1>12. /\ base \in Seq(AllSymbols) /\ Len(base) = 5 + n
       /\ \A i \in 1..(5 + n) : base[i] = IF i <= 5 THEN head[i] ELSE target[i - 5]
  BY <1>2, <1>4, <1>6, <1>8, ConcatProperties
<1>13. /\ start \in Seq(AllSymbols) /\ Len(start) = 7 + n
       /\ \A i \in 1..(7 + n) : start[i] = IF i <= 5 + n THEN base[i] ELSE sep[i - (5 + n)]
  <2>1. /\ start \in Seq(AllSymbols) /\ Len(start) = (5 + n) + 2
        /\ \A i \in 1..((5 + n) + 2) : start[i] = IF i <= 5 + n THEN base[i] ELSE sep[i - (5 + n)]
    BY <1>3, <1>9, <1>12, ConcatProperties
  <2>2. (5 + n) + 2 = 7 + n
    BY <1>4
  <2>3. QED
    BY <2>1, <2>2
<1>14. /\ line \in Seq(AllSymbols) /\ Len(line) = (7 + n) + w
       /\ \A i \in 1..((7 + n) + w) : line[i] = IF i <= 7 + n THEN start[i] ELSE words[i - (7 + n)]
  <2>1. /\ line \in Seq(AllSymbols) /\ Len(line) = Len(start) + Len(words)
        /\ \A i \in 1..(Len(start) + Len(words)) :
              line[i] = IF i <= Len(start) THEN start[i] ELSE words[i - Len(start)]
    BY <1>6, <1>10, <1>13, ConcatProperties
  <2>2. Len(start) = 7 + n /\ Len(words) = w
    BY <1>5, <1>13
  <2>3. QED
    BY <2>1, <2>2, Zenon
<1>15. line[6 + n] = "sp" /\ line[7 + n] = ":"
  <2>1. line[6 + n] = start[6 + n] /\ line[7 + n] = start[7 + n]
    BY <1>4, <1>5, <1>14
  <2>2. start[6 + n] = sep[1] /\ start[7 + n] = sep[2]
    <3>1. (6 + n) - (5 + n) = 1 /\ (7 + n) - (5 + n) = 2
      BY <1>4
    <3>2. /\ 6 + n \in 1..(7 + n) /\ ~(6 + n <= 5 + n)
          /\ 7 + n \in 1..(7 + n) /\ ~(7 + n <= 5 + n)
      BY <1>4
    <3>3. start[6 + n] = sep[(6 + n) - (5 + n)] /\ start[7 + n] = sep[(7 + n) - (5 + n)]
      BY <1>13, <3>2, Zenon
    <3>4. QED
      BY <3>1, <3>3, Zenon
  <2>3. QED
    BY <1>3, <2>1, <2>2
<1>16. ASSUME NEW i \in 1..(5 + n) PROVE line[i] = base[i]
  BY <1>4, <1>5, <1>13, <1>14
<1>17. /\ line[1] = ":" /\ line[2] = "a" /\ line[3] = "sp" /\ line[4] = "a" /\ line[5] = "sp"
       /\ line[6] = "#"
  <2>1. base[6] = target[1]
    BY <1>4, <1>12
  <2>2. ASSUME NEW k \in 1..5 PROVE line[k] = head[k]
    <3>1. k \in 1..(5 + n) /\ k <= 5
      BY <1>4
    <3>2. QED
      BY <1>12, <1>16, <3>1
  <2>3. line[6] = base[6]
    <3>1. 6 \in 1..(5 + n)
      BY <1>4
    <3>2. QED
      BY <1>16, <3>1
  <2>4. QED
    BY <1>2, <2>1, <2>2, <2>3
<1>18. FirstColon(line, 6 + n)
  <2>1. 6 + n \in 1..(Len(line) - 1) /\ (6 + n) + 1 = 7 + n /\ (6 + n) - 1 = 5 + n
    BY <1>4, <1>5, <1>14
  <2>2. ASSUME NEW i \in 1..(5 + n), line[i] = "sp", line[i + 1] = ":" PROVE FALSE
    <3>1. CASE i <= 5
      <4>1. i = 1 \/ i = 2 \/ i = 3 \/ i = 4 \/ i = 5
        BY <3>1
      <4>2. QED
        BY <1>17, <2>2, <4>1
    <3>2. CASE ~(i <= 5)
      <4>1. i - 5 \in 1..n /\ line[i] = target[i - 5]
        BY <1>4, <1>12, <1>16, <3>2
      <4>2. QED
        BY <1>7, <2>2, <4>1 DEF Blanks
    <3>3. QED
      BY <3>1, <3>2
  <2>3. QED
    BY <1>15, <2>1, <2>2 DEF FirstColon
<1>19. line # <<>> /\ line[Len(line)] # "cr"
  <2>1. line # <<>>
    BY <1>4, <1>5, <1>14, EmptySeq
  <2>2. CASE w = 0
    BY <1>4, <1>14, <1>15, <2>2
  <2>3. CASE w # 0
    <3>1. /\ (7 + n) + w \in 1..((7 + n) + w) /\ ~((7 + n) + w <= 7 + n)
          /\ ((7 + n) + w) - (7 + n) = w /\ w \in 1..w
      BY <1>4, <1>5, <2>3
    <3>2. line[(7 + n) + w] = words[w]
      BY <1>14, <3>1
    <3>3. QED
      BY <1>7, <1>14, <2>1, <3>1, <3>2
  <2>4. QED
    BY <2>1, <2>2, <2>3
<1>20. SubSeq(line, 1, (6 + n) - 1) = base
  <2>1. PICK rest \in Seq(AllSymbols) : rest = sep \o words
    BY <1>6, ConcatProperties
  <2>2. line = base \o rest
    BY <1>6, <1>9, <1>10, <1>12, <2>1, ConcatAssociative, SMTT(30)
  <2>3. SubSeq(base \o rest, 1, Len(base)) = base
    BY <1>12, PrefixOfConcat
  <2>4. Len(base) = (6 + n) - 1
    BY <1>4, <1>12
  <2>5. QED
    BY <2>2, <2>3, <2>4, Zenon
<1>21. SubSeq(line, (6 + n) + 2, Len(line)) = words
  <2>1. SubSeq(start \o words, Len(start) + 1, Len(start) + Len(words)) = words
    BY <1>6, <1>13, SuffixOfConcat
  <2>2. Len(start) + 1 = (6 + n) + 2 /\ Len(start) + Len(words) = Len(line)
    BY <1>4, <1>5, <1>13, <1>14
  <2>3. QED
    BY <1>10, <2>1, <2>2, Zenon
<1>22. parse(line) = Message(base, <<words>>)
  <2>1. parse(line) = Message(SubSeq(line, 1, (6 + n) - 1), <<SubSeq(line, (6 + n) + 2, Len(line))>>)
    BY <1>14, <1>18, <1>19, ParseTrailing
  <2>2. QED
    BY <1>20, <1>21, <2>1, Zenon
<1>23. Message(base, <<words>>).params = <<target, words>>
  <2>1. PICK prefix, command : prefix = <<":", "a">> /\ command = <<"a">>
    OBVIOUS
  <2>2. PICK pieces : pieces = Words(base)
    OBVIOUS
  <2>3. pieces = <<prefix, command, target>>
    <3>1. target \in Seq(AllSymbols \ Blanks)
      BY SeqMonotonic
    <3>2. Words(<<":", "a", "sp", "a", "sp">> \o target) = <<<<":", "a">>, <<"a">>, target>>
      BY <3>1, ThreeTokens
    <3>3. QED
      BY <1>2, <1>8, <2>1, <2>2, <3>2, Zenon
  <2>4. pieces # <<>> /\ pieces[1] = prefix /\ Tail(pieces) = <<command, target>>
    BY <2>3
  <2>5. prefix[1] = ":"
    BY <2>1
  <2>6. PICK rest : rest = Tail(pieces)
    OBVIOUS
  <2>7. rest # <<>> /\ Tail(rest) = <<target>>
    <3>1. rest = <<command, target>>
      BY <2>4, <2>6, Zenon
    <3>2. QED
      BY <3>1
  <2>8. pieces # <<>> /\ pieces[1][1] = ":"
    BY <2>4, <2>5, Zenon
  <2>9. Message(base, <<words>>).params = Tail(rest) \o <<words>>
    BY <2>2, <2>6, <2>7, <2>8 DEF Message
  <2>10. <<target>> \o <<words>> = <<target, words>>
    BY PairUp
  <2>11. QED
    BY <2>7, <2>9, <2>10, Zenon
<1>24. QED
  BY <1>11, <1>22, <1>23, Zenon

LEMMA RelaysAreRead == IsText => RelayedVerbatim
<1>1. SUFFICES ASSUME IsText PROVE RelayedVerbatim
  OBVIOUS
<1>2. PICK params : params = parse(<<"a", "sp">> \o text).params
  OBVIOUS
<1>3. ASSUME Extracted(text), Len(params) >= 2, NEW i \in DOMAIN splitString(params[1]),
             NEW target, target = splitString(params[1])[i], isValidChannelName(target)
      PROVE  parse(RelayLine(target, params[2])).params = <<target, params[2]>>
  <2>1. PICK A : A = AllSymbols \ {"cr"}
    OBVIOUS
  <2>2. text \in Seq(A)
    <3>1. \A k \in 1..Len(text) : text[k] \in A
      BY <1>1, <1>3, <2>1 DEF IsText, Extracted, Holds
    <3>2. Len(text) \in Nat /\ text \in [1..Len(text) -> AllSymbols]
      BY <1>1, LenProperties DEF IsText
    <3>3. text \in [1..Len(text) -> A]
      BY <3>1, <3>2
    <3>4. QED
      BY <3>2, <3>3, SeqDef
  <2>3. <<"a", "sp">> \o text \in Seq(A)
    <3>1. "a" \in A /\ "sp" \in A
      BY <2>1 DEF AllSymbols
    <3>2. QED
      BY <2>2, <3>1, CommandIsText
  <2>4. params \in Seq(Seq(A)) /\ params[1] \in Seq(A \ Blanks)
    BY <1>2, <1>3, <2>3, ParseParams
  <2>5. params[2] \in Seq(A)
    BY <1>3, <2>4
  <2>6. target \in Seq(A \ Blanks)
    <3>1. PICK pieces : pieces = splitString(params[1])
      OBVIOUS
    <3>2. pieces \in Seq(Seq((A \ Blanks) \ {","}))
      BY <2>4, <3>1, TokensAre DEF splitString
    <3>3. target \in Seq((A \ Blanks) \ {","})
      BY <1>3, <3>1, <3>2, LenProperties
    <3>4. QED
      BY <3>3, SeqMonotonic
  <2>7. target # <<>> /\ target[1] = "#"
    BY <1>3 DEF isValidChannelName
  <2>8. target \in Seq((AllSymbols \ {"cr"}) \ Blanks) /\ params[2] \in Seq(AllSymbols \ {"cr"})
    BY <2>1, <2>5, <2>6, Zenon
  <2>9. QED
    BY <2>7, <2>8, RelayIsRead
<1>4. QED
  BY <1>2, <1>3, Zenon DEF RelayedVerbatim

\* Whoever receives a channel message reads the target and the text out of it
\* that its sender wrote, for texts of any length: the blanks, commas and
\* colons in it never move the boundary between the two.
THEOREM RelaysAreVerbatim == Spec => []RelayedVerbatim
BY AlwaysText, RelaysAreRead, PTL
=============================================================================
