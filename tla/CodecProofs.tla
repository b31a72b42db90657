---------------------------- MODULE CodecProofs ----------------------------
(***************************************************************************)
(* Proofs about the command codec, for every set of symbols, texts and     *)
(* lines and every width of its fields: how a line splits into its pairs,  *)
(* that the encoding of a command splits into the pairs it was made from,  *)
(* and that these give the command back.                                   *)
(***************************************************************************)
EXTENDS CommandCodec, FiniteSetTheorems, SequenceTheorems, WellFoundedInduction, TLAPS

Strings == Seq(Symbols)

Fields == {t \in Strings : Len(t) <= MaxField}

SeparatorFree(t) == \A i \in 1..Len(t) : t[i] # Separator

-----------------------------------------------------------------------------
(***************************************************************************)
(* Least and largest positions.                                            *)
(***************************************************************************)

LEMMA MinIs ==
  ASSUME NEW S, S \subseteq Int, NEW m \in S, \A x \in S : m <= x
  PROVE  Min(S) = m
<1>1. Min(S) \in S /\ \A x \in S : Min(S) <= x
  BY DEF Min
<1>2. Min(S) <= m /\ m <= Min(S) /\ Min(S) \in Int /\ m \in Int
  BY <1>1
<1>3. QED
  BY <1>2

LEMMA MaxIs ==
  ASSUME NEW S, S \subseteq Int, NEW m \in S, \A x \in S : m >= x
  PROVE  Max(S) = m
<1>1. Max(S) \in S /\ \A x \in S : Max(S) >= x
  BY DEF Max
<1>2. Max(S) >= m /\ m >= Max(S) /\ Max(S) \in Int /\ m \in Int
  BY <1>1
<1>3. QED
  BY <1>2

\* Sets of positions that are not empty have a first and a last one.
LEMMA LeastNumber ==
  ASSUME NEW S, S \subseteq Nat, S # {}
  PROVE  \E m \in S : \A x \in S : m <= x
<1>1. PICK m \in S : \A x \in S : ~(<<x, m>> \in OpToRel(<, Nat))
  BY NatLessThanWellFounded, WFMin
<1>2. ASSUME NEW x \in S PROVE m <= x
  <2>1. m \in Nat /\ x \in Nat /\ ~(x < m)
    BY <1>1 DEF OpToRel
  <2>2. QED
    BY <2>1
<1>3. QED
  BY <1>2

LEMMA LastPosition ==
  ASSUME NEW n \in Nat, NEW S, S \subseteq 1..n, S # {}
  PROVE  Max(S) \in S /\ \A x \in S : x <= Max(S)
<1> DEFINE Mirror == {n - x : x \in S}
<1>2. Mirror \subseteq Nat /\ Mirror # {}
  <2>1. ASSUME NEW x \in S PROVE n - x \in Nat
    OBVIOUS
  <2>2. QED
    BY <2>1
<1>3. PICK y \in Mirror : \A z \in Mirror : y <= z
  BY <1>2, LeastNumber
<1>4. PICK m \in S : y = n - m
  BY <1>3
<1>5. ASSUME NEW x \in S PROVE x <= m
  <2>1. n - x \in Mirror /\ m \in Int /\ x \in Int
    OBVIOUS
  <2>2. n - m <= n - x
    BY <2>1, <1>3, <1>4
  <2>3. QED
    BY <2>1, <2>2
<1>6. QED
  <2>1. S \subseteq Int /\ \A x \in S : m >= x
    BY <1>5
  <2>2. Max(S) = m
    BY <2>1, MaxIs
  <2>3. QED
    BY <2>2, <1>5

-----------------------------------------------------------------------------
(***************************************************************************)
(* How a line splits.                                                      *)
(***************************************************************************)

\* Without a separator the line is its only token.
LEMMA LastToken ==
  ASSUME NEW a \in Strings, a # <<>>, SeparatorFree(a)
  PROVE  Starts(a) = {1} /\ Token(a, 1) = a
<1>1. Len(a) \in Nat /\ Len(a) >= 1 /\ DOMAIN a = 1..Len(a)
  BY EmptySeq, LenProperties DEF Strings
<1>2. Starts(a) = {1}
  BY <1>1 DEF Starts, SeparatorFree
<1>3. {j \in 1..Len(a) : j = Len(a) \/ a[j + 1] = Separator} = {Len(a)}
  BY <1>1 DEF SeparatorFree
<1>4. Min({Len(a)}) = Len(a)
  BY <1>1 DEF Min
<1>5. Token(a, 1) = SubSeq(a, 1, Len(a))
  BY <1>3, <1>4 DEF Token
<1>6. QED
  BY <1>2, <1>5, SubSeqFull DEF Strings

\* A token, a separator and the rest of the line.
Joined(a, rest) == a \o (<<Separator>> \o rest)

LEMMA JoinedIs ==
  ASSUME NEW a \in Strings, NEW rest \in Strings
  PROVE  /\ Joined(a, rest) \in Strings
         /\ Len(Joined(a, rest)) = Len(a) + 1 + Len(rest)
         /\ \A i \in 1..Len(a) : Joined(a, rest)[i] = a[i]
         /\ Joined(a, rest)[Len(a) + 1] = Separator
         /\ \A i \in 1..Len(rest) : Joined(a, rest)[Len(a) + 1 + i] = rest[i]
<1>1. Len(a) \in Nat /\ Len(rest) \in Nat
  BY LenProperties DEF Strings
<1>2. <<Separator>> \in Strings /\ Len(<<Separator>>) = 1 /\ <<Separator>>[1] = Separator
  BY SymbolsAssumption DEF Strings
<1>3. DEFINE tail == <<Separator>> \o rest
<1>4. /\ tail \in Strings /\ Len(tail) = 1 + Len(rest)
      /\ tail[1] = Separator /\ \A i \in 1..Len(rest) : tail[i + 1] = rest[i]
  <2>1. \A i \in 1..1 + Len(rest) :
          tail[i] = IF i <= 1 THEN <<Separator>>[i] ELSE rest[i - 1]
    BY <1>2, ConcatProperties DEF Strings
  <2>2. tail \in Strings /\ Len(tail) = 1 + Len(rest)
    BY <1>2, ConcatProperties DEF Strings
  <2>3. tail[1] = Separator
    BY <2>1, <1>1, <1>2
  <2>4. ASSUME NEW i \in 1..Len(rest) PROVE tail[i + 1] = rest[i]
    BY <2>1, <1>1
  <2>5. QED
    BY <2>2, <2>3, <2>4
<1> HIDE DEF tail
<1>5. /\ a \o tail \in Strings /\ Len(a \o tail) = Len(a) + Len(tail)
      /\ \A i \in 1..Len(a) + Len(tail) :
            (a \o tail)[i] = IF i <= Len(a) THEN a[i] ELSE tail[i - Len(a)]
  <2>1. a \in Seq(Symbols) /\ tail \in Seq(Symbols)
    BY <1>4 DEF Strings
  <2>2. QED
    BY <2>1, ConcatProperties DEF Strings
<1>6. Joined(a, rest) = a \o tail
  BY DEF Joined, tail
<1>7. \A i \in 1..Len(a) : (a \o tail)[i] = a[i]
  BY <1>5, <1>1, <1>4
<1>8. (a \o tail)[Len(a) + 1] = Separator
  <2>1. Len(a) + 1 \in 1..Len(a) + Len(tail) /\ ~(Len(a) + 1 <= Len(a)) /\ Len(a) + 1 - Len(a) = 1
    BY <1>1, <1>4
  <2>2. QED
    BY <2>1, <1>4, <1>5
<1>9. ASSUME NEW i \in 1..Len(rest) PROVE (a \o tail)[Len(a) + 1 + i] = rest[i]
  <2>1. Len(a) + 1 + i \in 1..Len(a) + Len(tail) /\ Len(a) + 1 + i - Len(a) = i + 1
    BY <1>1, <1>4
  <2>2. (a \o tail)[Len(a) + 1 + i] = tail[i + 1]
    BY <2>1, <1>5, <1>1
  <2>3. QED
    BY <2>2, <1>4
<1>10. QED
  BY <1>1, <1>4, <1>5, <1>6, <1>7, <1>8, <1>9

\* The starts of a joined line are the first position and the starts of the rest.
LEMMA StartsOfJoined ==
  ASSUME NEW a \in Strings, a # <<>>, SeparatorFree(a), NEW rest \in Strings
  PROVE  Starts(Joined(a, rest)) = {1} \cup {Len(a) + 1 + i : i \in Starts(rest)}
<1> DEFINE l == Joined(a, rest)
<1>1. Len(a) \in Nat /\ Len(a) >= 1 /\ Len(rest) \in Nat
  BY EmptySeq, LenProperties DEF Strings
<1>2. DOMAIN l = 1..Len(l) /\ DOMAIN rest = 1..Len(rest)
  BY JoinedIs, LenProperties DEF Strings
<1>3. /\ Len(l) = Len(a) + 1 + Len(rest)
      /\ \A i \in 1..Len(a) : l[i] = a[i] /\ l[i] # Separator
      /\ l[Len(a) + 1] = Separator
      /\ \A i \in 1..Len(rest) : l[Len(a) + 1 + i] = rest[i]
  BY JoinedIs DEF SeparatorFree
<1> HIDE DEF l
<1>4. ASSUME NEW i \in Starts(l), i # 1
      PROVE  i - (Len(a) + 1) \in Starts(rest)
  <2>1. i \in 1..Len(l) /\ l[i] # Separator /\ l[i - 1] = Separator
    BY <1>2, <1>4 DEF Starts
  <2>2. i > Len(a) + 1
    <3>1. ~(i - 1 \in 1..Len(a))
      BY <2>1, <1>3
    <3>2. i # Len(a) + 1
      BY <2>1, <1>3
    <3>3. QED
      BY <3>1, <3>2, <2>1, <1>1, <1>3, <1>4
  <2> DEFINE k == i - (Len(a) + 1)
  <2>3. k \in 1..Len(rest) /\ i = Len(a) + 1 + k
    BY <2>1, <2>2, <1>1, <1>3
  <2>4. rest[k] # Separator
    BY <2>1, <2>3, <1>3
  <2>5. CASE k = 1
    BY <2>3, <2>4, <2>5, <1>2 DEF Starts
  <2>6. CASE k # 1
    <3>1. k - 1 \in 1..Len(rest) /\ i - 1 = Len(a) + 1 + (k - 1)
      BY <2>3, <2>6, <1>1
    <3>2. rest[k - 1] = Separator
      BY <3>1, <2>1, <1>3
    <3>3. QED
      BY <3>2, <2>3, <2>4, <1>2 DEF Starts
  <2>7. QED
    BY <2>5, <2>6
<1>5. 1 \in Starts(l)
  BY <1>1, <1>2, <1>3 DEF Starts
<1>6. ASSUME NEW k \in Starts(rest) PROVE Len(a) + 1 + k \in Starts(l)
  <2>1. k \in 1..Len(rest) /\ rest[k] # Separator /\ (k = 1 \/ rest[k - 1] = Separator)
    BY <1>2 DEF Starts
  <2>2. Len(a) + 1 + k \in 1..Len(l) /\ l[Len(a) + 1 + k] # Separator
    BY <2>1, <1>1, <1>3
  <2>3. l[Len(a) + 1 + k - 1] = Separator
    <3>1. CASE k = 1
      <4>1. Len(a) + 1 + k - 1 = Len(a) + 1
        BY <3>1, <1>1
      <4>2. QED
        BY <4>1, <1>3
    <3>2. CASE k # 1
      <4>1. k - 1 \in 1..Len(rest) /\ Len(a) + 1 + k - 1 = Len(a) + 1 + (k - 1)
        BY <3>2, <2>1, <1>1
      <4>2. QED
        BY <4>1, <3>2, <2>1, <1>3
    <3>3. QED
      BY <3>1, <3>2
  <2>4. QED
    BY <2>2, <2>3, <1>2 DEF Starts
<1>7. \A i \in Starts(l) : i \in Int
  BY <1>2 DEF Starts
<1>8. ASSUME NEW i \in Starts(l) PROVE i \in {1} \cup {Len(a) + 1 + k : k \in Starts(rest)}
  <2>1. i = 1 \/ i = Len(a) + 1 + (i - (Len(a) + 1))
    BY <1>7, <1>1
  <2>2. QED
    BY <2>1, <1>4
<1>9. Starts(l) = {1} \cup {Len(a) + 1 + k : k \in Starts(rest)}
  BY <1>5, <1>6, <1>8
<1>10. QED
  BY <1>9 DEF l

\* Where the token that starts at i ends.
Ends(l, i) == {j \in i..Len(l) : j = Len(l) \/ l[j + 1] = Separator}

\* The first token of a joined line is what was put in front.
LEMMA FirstToken ==
  ASSUME NEW a \in Strings, a # <<>>, SeparatorFree(a), NEW rest \in Strings
  PROVE  Token(Joined(a, rest), 1) = a
<1> DEFINE l == Joined(a, rest)
<1>1. Len(a) \in Nat /\ Len(a) >= 1 /\ Len(rest) \in Nat
  BY EmptySeq, LenProperties DEF Strings
<1>2. /\ l \in Strings /\ Len(l) = Len(a) + 1 + Len(rest)
      /\ \A i \in 1..Len(a) : l[i] = a[i] /\ l[i] # Separator
      /\ l[Len(a) + 1] = Separator
  BY JoinedIs DEF SeparatorFree
<1> HIDE DEF l
<1>3. Len(a) \in Ends(l, 1)
  BY <1>1, <1>2 DEF Ends
<1>4. Ends(l, 1) \subseteq Int
  BY <1>1 DEF Ends
<1>5. ASSUME NEW j \in Ends(l, 1) PROVE Len(a) <= j
  <2>1. j \in 1..Len(l) /\ (j = Len(l) \/ l[j + 1] = Separator)
    BY DEF Ends
  <2>2. SUFFICES ASSUME j < Len(a) PROVE FALSE
    BY <2>1, <1>1
  <2>3. j + 1 \in 1..Len(a) /\ j # Len(l)
    BY <2>1, <2>2, <1>1, <1>2
  <2>4. QED
    BY <2>1, <2>3, <1>2
<1>6. Min(Ends(l, 1)) = Len(a)
  BY <1>3, <1>4, <1>5, MinIs
<1>7. Token(l, 1) = SubSeq(l, 1, Len(a))
  BY <1>6 DEF Token, Ends
<1>8. SubSeq(l, 1, Len(a)) = a
  <2>1. l = a \o (<<Separator>> \o rest) /\ <<Separator>> \o rest \in Strings
    <3>1. <<Separator>> \in Strings
      BY SymbolsAssumption DEF Strings
    <3>2. QED
      BY <3>1, ConcatProperties DEF Strings, l, Joined
  <2>2. SubSeq(l, 1, Len(a)) = SubSeq(a, 1, Len(a))
    BY <2>1, <1>1, SubSeqOfConcat1 DEF Strings
  <2>3. QED
    BY <2>2, SubSeqFull DEF Strings
<1>9. QED
  BY <1>7, <1>8 DEF l

LEMMA TailOfConcat ==
  ASSUME NEW s \in Strings, NEW t \in Strings, NEW i \in 1..Len(t), NEW m \in 1..Len(t)
  PROVE  SubSeq(s \o t, Len(s) + i, Len(s) + m) = SubSeq(t, i, m)
<1> DEFINE p == Len(s) + i
           q == Len(s) + m
<1>1. Len(s) \in Nat /\ Len(t) \in Nat
  BY LenProperties DEF Strings
<1>2. p \in Len(s) + 1..Len(s) + Len(t) /\ p - Len(s) = i
  BY <1>1
<1>3. q \in Len(s) + 1..Len(s) + Len(t) /\ q - Len(s) = m
  BY <1>1
<1> HIDE DEF p, q
<1>4. s \in Seq(Symbols) /\ t \in Seq(Symbols)
  BY DEF Strings
<1>5. SubSeq(s \o t, p, q) = SubSeq(t, p - Len(s), q - Len(s))
  BY <1>2, <1>3, <1>4, SubSeqOfConcat2
<1>6. QED
  BY <1>2, <1>3, <1>5 DEF p, q

\* The others are the tokens of the rest.
LEMMA LaterToken ==
  ASSUME NEW a \in Strings, NEW rest \in Strings, NEW i \in Starts(rest)
  PROVE  Token(Joined(a, rest), Len(a) + 1 + i) = Token(rest, i)
<1> DEFINE l == Joined(a, rest)
           n == Len(a) + 1
<1>1. Len(a) \in Nat /\ Len(rest) \in Nat /\ i \in 1..Len(rest)
  BY LenProperties DEF Strings, Starts
<1>2. n \in Nat /\ n > 0
  BY <1>1
<1>3. /\ Len(l) = n + Len(rest)
      /\ \A k \in 1..Len(rest) : l[n + k] = rest[k]
  BY JoinedIs
<1>4. l = (a \o <<Separator>>) \o rest /\ a \o <<Separator>> \in Strings
      /\ Len(a \o <<Separator>>) = n
  <2>1. <<Separator>> \in Strings /\ Len(<<Separator>>) = 1
    BY SymbolsAssumption DEF Strings
  <2>2. QED
    BY <2>1, ConcatProperties, ConcatAssociative DEF Strings, Joined
<1> HIDE DEF l, n
<1>5. Ends(l, n + i) = {n + j : j \in Ends(rest, i)}
  <2>1. ASSUME NEW j \in Ends(rest, i) PROVE n + j \in Ends(l, n + i)
    <3>1. j \in i..Len(rest) /\ (j = Len(rest) \/ rest[j + 1] = Separator)
      BY DEF Ends
    <3>2. n + j \in n + i..Len(l)
      BY <3>1, <1>1, <1>2, <1>3
    <3>3. CASE j = Len(rest)
      BY <3>2, <3>3, <1>3 DEF Ends
    <3>4. CASE j # Len(rest)
      <4>1. j + 1 \in 1..Len(rest) /\ n + j + 1 = n + (j + 1)
        BY <3>1, <3>4, <1>1, <1>2
      <4>2. l[n + j + 1] = Separator
        BY <4>1, <3>1, <3>4, <1>3
      <4>3. QED
        BY <4>2, <3>2 DEF Ends
    <3>5. QED
      BY <3>3, <3>4
  <2>2. ASSUME NEW m \in Ends(l, n + i) PROVE m \in {n + j : j \in Ends(rest, i)}
    <3> DEFINE j == m - n
    <3>1. m \in n + i..Len(l) /\ (m = Len(l) \/ l[m + 1] = Separator)
      BY DEF Ends
    <3>2. j \in i..Len(rest) /\ m = n + j
      BY <3>1, <1>1, <1>2, <1>3
    <3>3. j = Len(rest) \/ rest[j + 1] = Separator
      <4>1. CASE m = Len(l)
        BY <4>1, <1>1, <1>2, <1>3
      <4>2. CASE m # Len(l)
        <5>1. j + 1 \in 1..Len(rest) /\ m + 1 = n + (j + 1)
          BY <3>1, <3>2, <4>2, <1>1, <1>2, <1>3
        <5>2. QED
          BY <5>1, <4>2, <3>1, <1>3
      <4>3. QED
        BY <4>1, <4>2
    <3>4. j \in Ends(rest, i)
      BY <3>2, <3>3 DEF Ends
    <3>5. QED
      BY <3>2, <3>4
  <2>3. QED
    BY <2>1, <2>2
<1>6. PICK m \in Ends(rest, i) : \A j \in Ends(rest, i) : m <= j
  <2>1. Ends(rest, i) \subseteq Nat /\ Len(rest) \in Ends(rest, i)
    BY <1>1 DEF Ends
  <2>2. QED
    BY <2>1, LeastNumber
<1>7. m \in i..Len(rest) /\ m \in Nat /\ Ends(rest, i) \subseteq Int
  BY <1>1, <1>6 DEF Ends
<1>8. Min(Ends(rest, i)) = m
  BY <1>6, <1>7, MinIs
<1>9. Min(Ends(l, n + i)) = n + m
  <2>1. n + m \in Ends(l, n + i) /\ Ends(l, n + i) \subseteq Int
    BY <1>2, <1>5, <1>6, <1>7
  <2>2. ASSUME NEW x \in Ends(l, n + i) PROVE n + m <= x
    BY <1>2, <1>5, <1>6, <1>7
  <2>3. QED
    BY <2>1, <2>2, MinIs
<1>10. Token(l, n + i) = SubSeq(l, n + i, n + m) /\ Token(rest, i) = SubSeq(rest, i, m)
  BY <1>8, <1>9 DEF Token, Ends
<1>11. SubSeq(l, n + i, n + m) = SubSeq(rest, i, m)
  <2> DEFINE front == a \o <<Separator>>
  <2>1. front \in Strings /\ rest \in Strings /\ Len(front) = n /\ l = front \o rest
    BY <1>4
  <2>2. i \in 1..Len(rest) /\ m \in 1..Len(rest)
    BY <1>1, <1>7
  <2> HIDE DEF front
  <2>3. QED
    BY <2>1, <2>2, TailOfConcat
<1>12. QED
  BY <1>10, <1>11 DEF l, n

-----------------------------------------------------------------------------
(***************************************************************************)
(* Pairs, and lines made of them.                                          *)
(***************************************************************************)

FrameKeys == {"type", "nonce"} \cup TextKeys

LEMMA KeysAreSymbols ==
  ASSUME NEW k \in FrameKeys
  PROVE  k \in Symbols /\ k # "=" /\ "=" \in Symbols
<1>1. k \in TextKeys \cup {"type", "nonce", "=", Separator}
  BY DEF FrameKeys
<1>2. k # "="
  BY DEF FrameKeys, TextKeys
<1>3. QED
  BY <1>1, <1>2, SymbolsAssumption

\* Neither a key nor the equals sign is the separator.
LEMMA KeysAreNoSeparator == "=" # Separator /\ \A k \in FrameKeys : k # Separator
BY Zenon DEF Separator, FrameKeys, TextKeys

LEMMA PairIs ==
  ASSUME NEW k \in FrameKeys, NEW v \in Strings
  PROVE  /\ Pair(k, v) \in Strings /\ Pair(k, v) # <<>>
         /\ Len(Pair(k, v)) = 2 + Len(v)
         /\ Pair(k, v)[1] = k /\ Pair(k, v)[2] = "="
         /\ \A i \in 1..Len(v) : Pair(k, v)[2 + i] = v[i]
<1> DEFINE head == <<k, "=">>
<1>1. head \in Seq(Symbols) /\ v \in Seq(Symbols)
  BY KeysAreSymbols DEF Strings
<1>2. Len(head) = 2 /\ head[1] = k /\ head[2] = "=" /\ Len(v) \in Nat
  BY <1>1, LenProperties
<1> HIDE DEF head
<1>3. /\ head \o v \in Seq(Symbols)
      /\ Len(head \o v) = Len(head) + Len(v)
      /\ \A i \in 1..Len(head) + Len(v) :
            (head \o v)[i] = IF i <= Len(head) THEN head[i] ELSE v[i - Len(head)]
  BY <1>1, ConcatProperties
<1>4. (head \o v)[1] = k /\ (head \o v)[2] = "="
  BY <1>2, <1>3
<1>5. ASSUME NEW i \in 1..Len(v) PROVE (head \o v)[2 + i] = v[i]
  <2>1. 2 + i \in 1..Len(head) + Len(v) /\ ~(2 + i <= Len(head)) /\ 2 + i - Len(head) = i
    BY <1>2
  <2>2. QED
    BY <2>1, <1>3
<1>6. Pair(k, v) = head \o v
  BY DEF Pair, head
<1>7. head \o v # <<>>
  BY <1>2, <1>3, EmptySeq
<1>8. QED
  BY <1>2, <1>3, <1>4, <1>5, <1>6, <1>7 DEF Strings

LEMMA PairHasNoSeparator ==
  ASSUME NEW k \in FrameKeys, NEW v \in Strings, SeparatorFree(v)
  PROVE  SeparatorFree(Pair(k, v))
<1>1. Len(v) \in Nat
  BY LenProperties DEF Strings
<1>2. SUFFICES ASSUME NEW i \in 1..Len(Pair(k, v)) PROVE Pair(k, v)[i] # Separator
  BY DEF SeparatorFree
<1>3. CASE i = 1
  BY <1>3, PairIs, KeysAreNoSeparator
<1>4. CASE i = 2
  BY <1>4, PairIs, KeysAreNoSeparator
<1>5. CASE i > 2
  <2>1. i - 2 \in 1..Len(v) /\ i = 2 + (i - 2)
    BY <1>1, <1>5, PairIs
  <2>2. Pair(k, v)[2 + (i - 2)] = v[i - 2]
    BY <2>1, PairIs
  <2>3. QED
    BY <2>1, <2>2 DEF SeparatorFree
<1>6. QED
  BY <1>1, <1>3, <1>4, <1>5, PairIs

\* A pair is split where it was put together, whatever its value holds.
LEMMA PairSplits ==
  ASSUME NEW k \in FrameKeys, NEW v \in Strings
  PROVE  HasEquals(Pair(k, v)) /\ Key(Pair(k, v)) = <<k>> /\ Value(Pair(k, v)) = v
<1> DEFINE token == Pair(k, v)
<1>1. /\ token \in Seq(Symbols) /\ Len(token) = 2 + Len(v) /\ Len(v) \in Nat
      /\ DOMAIN token = 1..Len(token)
      /\ token[1] = k /\ token[2] = "=" /\ k # "="
  BY PairIs, LenProperties, KeysAreSymbols DEF Strings
<1>2. token = <<k, "=">> \o v /\ <<k, "=">> \in Strings /\ Len(<<k, "=">>) = 2
  BY KeysAreSymbols DEF Pair, Strings
<1> HIDE DEF token
<1>3. HasEquals(token)
  BY <1>1 DEF HasEquals
<1>4. Equals(token) = 2
  <2> DEFINE S == {i \in DOMAIN token : token[i] = "="}
  <2>1. S \subseteq Int /\ 2 \in S
    BY <1>1
  <2>2. ASSUME NEW x \in S PROVE 2 <= x
    BY <1>1
  <2> HIDE DEF S
  <2>3. Min(S) = 2
    BY <2>1, <2>2, MinIs
  <2>4. QED
    BY <2>3 DEF S, Equals
<1>5. Key(token) = <<k>>
  <2> DEFINE first == SubSeq(token, 1, 1)
             word == <<k>>
  <2>1. Key(token) = first
    BY <1>4 DEF Key
  <2>2. \A i \in 1..1 : token[i] \in Symbols
    BY <1>1, ElementOfSeq
  <2>3. first \in Seq(Symbols) /\ Len(first) = 1 /\ first[1] = k
    BY <2>2, <1>1, SubSeqProperties
  <2>4. word \in Seq(Symbols) /\ Len(word) = 1 /\ word[1] = k
    BY KeysAreSymbols
  <2> HIDE DEF first, word
  <2>5. Len(first) = Len(word) /\ \A i \in 1..Len(first) : first[i] = word[i]
    BY <2>3, <2>4
  <2>6. first = word
    BY <2>3, <2>4, <2>5, SeqEqual
  <2>7. QED
    BY <2>1, <2>6 DEF word
<1>6. Value(token) = v
  <2>1. Value(token) = SubSeq(token, 3, Len(token))
    BY <1>4 DEF Value
  <2>2. CASE Len(v) = 0
    <3>1. v = <<>>
      BY <2>2, EmptySeq DEF Strings
    <3>2. SubSeq(token, 3, Len(token)) = <<>>
      BY <1>1, <2>2, SubSeqEmpty
    <3>3. QED
      BY <2>1, <3>1, <3>2
  <2>3. CASE Len(v) # 0
    <3>1. 1 \in 1..Len(v) /\ Len(v) \in 1..Len(v)
      BY <1>1, <2>3
    <3>2. SubSeq(<<k, "=">> \o v, Len(<<k, "=">>) + 1, Len(<<k, "=">>) + Len(v))
            = SubSeq(v, 1, Len(v))
      BY <3>1, <1>2, TailOfConcat
    <3>3. SubSeq(token, 3, Len(token)) = SubSeq(v, 1, Len(v))
      BY <3>2, <1>1, <1>2
    <3>4. QED
      BY <3>3, <2>1, SubSeqFull DEF Strings
  <2>4. QED
    BY <2>2, <2>3
<1>7. QED
  BY <1>3, <1>5, <1>6 DEF token

-----------------------------------------------------------------------------
(***************************************************************************)
(* What a line gives.                                                      *)
(***************************************************************************)

\* The tokens of the line are the pairs of the keys K with the values w, each
\* once.
Reads(l, w, K) ==
    /\ \A i \in Starts(l) : \E k \in K : Token(l, i) = Pair(k, w[k])
    /\ \A k \in K : \E i \in Starts(l) :
          /\ Token(l, i) = Pair(k, w[k])
          /\ \A j \in Starts(l) : Token(l, j) = Pair(k, w[k]) => j = i

LEMMA ReadsLast ==
  ASSUME NEW k \in FrameKeys, NEW w, w[k] \in Strings, SeparatorFree(w[k])
  PROVE  Reads(Pair(k, w[k]), w, {k})
<1> DEFINE l == Pair(k, w[k])
<1>1. Starts(l) = {1} /\ Token(l, 1) = l
  BY PairIs, PairHasNoSeparator, LastToken
<1>2. QED
  BY <1>1 DEF Reads

LEMMA PairsDiffer ==
  ASSUME NEW k \in FrameKeys, NEW m \in FrameKeys, k # m,
         NEW v \in Strings, NEW x \in Strings
  PROVE  Pair(k, v) # Pair(m, x)
BY PairIs

LEMMA ReadsMore ==
  ASSUME NEW k \in FrameKeys, NEW w, \A m \in FrameKeys : w[m] \in Strings,
         SeparatorFree(w[k]),
         NEW K, K \subseteq FrameKeys, k \notin K,
         NEW rest \in Strings, Reads(rest, w, K)
  PROVE  Reads(Joined(Pair(k, w[k]), rest), w, K \cup {k})
<1> DEFINE a == Pair(k, w[k])
           l == Joined(a, rest)
           n == Len(a) + 1
<1>1. a \in Strings /\ a # <<>> /\ SeparatorFree(a)
  BY PairIs, PairHasNoSeparator
<1>2. n \in Nat /\ n > 0
  BY <1>1, LenProperties DEF Strings
<1>3. Starts(l) = {1} \cup {n + i : i \in Starts(rest)}
  BY <1>1, StartsOfJoined
<1>4. Token(l, 1) = a
  BY <1>1, FirstToken
<1>5. \A i \in Starts(rest) : Token(l, n + i) = Token(rest, i)
  BY <1>1, LaterToken
<1>6. \A i \in Starts(rest) : i \in Nat /\ i > 0
  <2>1. Len(rest) \in Nat /\ DOMAIN rest = 1..Len(rest)
    BY LenProperties DEF Strings
  <2>2. QED
    BY <2>1 DEF Starts
<1>7. \A m \in K : a # Pair(m, w[m])
  BY PairsDiffer
<1> HIDE DEF l, n
<1>8. ASSUME NEW j \in Starts(l)
      PROVE  \E m \in K \cup {k} : Token(l, j) = Pair(m, w[m])
  <2>1. CASE j = 1
    BY <2>1, <1>4
  <2>2. CASE j # 1
    <3>1. PICK i \in Starts(rest) : j = n + i
      BY <2>2, <1>3
    <3>2. QED
      BY <3>1, <1>5 DEF Reads
  <2>3. QED
    BY <2>1, <2>2
<1>9. ASSUME NEW j \in Starts(l), Token(l, j) = a
      PROVE  j = 1
  <2>1. SUFFICES ASSUME j # 1 PROVE FALSE
    OBVIOUS
  <2>2. PICK i \in Starts(rest) : j = n + i
    BY <2>1, <1>3
  <2>3. PICK m \in K : Token(rest, i) = Pair(m, w[m])
    BY DEF Reads
  <2>4. QED
    BY <2>2, <2>3, <1>5, <1>7, <1>9
<1>10. ASSUME NEW m \in K
       PROVE  \E i \in Starts(l) :
                /\ Token(l, i) = Pair(m, w[m])
                /\ \A j \in Starts(l) : Token(l, j) = Pair(m, w[m]) => j = i
  <2>1. PICK i \in Starts(rest) :
          /\ Token(rest, i) = Pair(m, w[m])
          /\ \A j \in Starts(rest) : Token(rest, j) = Pair(m, w[m]) => j = i
    BY DEF Reads
  <2>2. n + i \in Starts(l) /\ Token(l, n + i) = Pair(m, w[m])
    BY <2>1, <1>3, <1>5
  <2>3. ASSUME NEW j \in Starts(l), Token(l, j) = Pair(m, w[m])
        PROVE  j = n + i
    <3>1. j # 1
      BY <2>3, <1>4, <1>7
    <3>2. PICK h \in Starts(rest) : j = n + h
      BY <3>1, <1>3
    <3>3. h = i
      BY <3>2, <2>1, <2>3, <1>5
    <3>4. QED
      BY <3>2, <3>3
  <2>4. QED
    BY <2>2, <2>3
<1>11. 1 \in Starts(l)
  BY <1>3
<1>12. Reads(l, w, K \cup {k})
  BY <1>4, <1>8, <1>9, <1>10, <1>11 DEF Reads
<1>13. QED
  BY <1>12 DEF l

\* A line that reads as pairs gives each of its keys its value.
LEMMA ReadsGives ==
  ASSUME NEW l, NEW w, \A m \in FrameKeys : w[m] \in Strings,
         l \in Strings, Reads(l, w, FrameKeys), NEW k \in FrameKeys
  PROVE  Given(l, k) # {} /\ LastValue(l, k) = w[k]
<1>1. PICK i \in Starts(l) :
        /\ Token(l, i) = Pair(k, w[k])
        /\ \A j \in Starts(l) : Token(l, j) = Pair(k, w[k]) => j = i
  BY DEF Reads
<1>2. i \in Int
  BY LenProperties DEF Starts, Strings
<1>3. i \in Given(l, k)
  BY <1>1, PairSplits DEF Given
<1>4. ASSUME NEW j \in Given(l, k) PROVE j = i
  <2>1. j \in Starts(l) /\ Key(Token(l, j)) = <<k>>
    BY DEF Given
  <2>2. PICK m \in FrameKeys : Token(l, j) = Pair(m, w[m])
    BY <2>1 DEF Reads
  <2>3. <<m>> = <<k>>
    BY <2>1, <2>2, PairSplits
  <2>4. m = k
    BY <2>3
  <2>5. QED
    BY <2>1, <2>2, <2>4, <1>1
<1>5. Given(l, k) = {i}
  BY <1>3, <1>4
<1>6. Max({i}) = i
  BY <1>2 DEF Max
<1>7. LastValue(l, k) = Value(Pair(k, w[k]))
  BY <1>1, <1>5, <1>6 DEF LastValue
<1>8. QED
  BY <1>5, <1>7, PairSplits

-----------------------------------------------------------------------------
(***************************************************************************)
(* The encoding of a command.                                              *)
(***************************************************************************)

\* Commands whose fields fit, whether a host's own or decoded from a line.
Messages == [type : Types, nonce : 0..MaxNonce,
             origin : Fields, username : Fields, password : Fields]

\* What an encoding holds behind each key.
Written(cmd) ==
    [k \in FrameKeys |-> IF k = "type" THEN TypeWords[cmd.type]
                         ELSE IF k = "nonce" THEN <<Numeral[cmd.nonce]>>
                         ELSE cmd[k]]

LEMMA TypeWordIs ==
  ASSUME NEW t \in Types
  PROVE  /\ TypeWords[t] \in Strings /\ Len(TypeWords[t]) \in 1..2
         /\ SeparatorFree(TypeWords[t]) /\ ParsedTypes(TypeWords[t]) = {t}
<1>1. TypeWords[t] \in Strings
  BY SymbolsAssumption DEF Strings
<1>2. /\ "REQUEST_FILL" # Separator /\ "REQUEST_SAVE" # Separator
      /\ "REQUEST_GENERATE" # Separator /\ "REQUEST_SELECT_N" # Separator
      /\ "EXT" # Separator
  BY Zenon DEF Separator
<1>3. Len(TypeWords[t]) \in 1..2 /\ SeparatorFree(TypeWords[t])
  BY <1>2 DEF Types, TypeWords, SeparatorFree
<1>4. ParsedTypes(TypeWords[t]) = {t}
  BY DEF Types, TypeWords, ParsedTypes
<1>5. QED
  BY <1>1, <1>3, <1>4

LEMMA NonceWordIs ==
  ASSUME NEW n \in 0..MaxNonce
  PROVE  /\ <<Numeral[n]>> \in Strings /\ SeparatorFree(<<Numeral[n]>>)
         /\ ParsedNonces(<<Numeral[n]>>) = {n}
<1>1. n \in DOMAIN Numeral /\ n \in Nat /\ n <= LongMax /\ LongMax \in Nat
  BY CodecAssumption, SymbolsAssumption
<1>2. Numeral[n] \in Symbols /\ Numeral[n] # Separator
  BY <1>1, SymbolsAssumption
<1>3. <<Numeral[n]>> \in Strings /\ SeparatorFree(<<Numeral[n]>>)
  BY <1>2 DEF Strings, SeparatorFree
<1>4. {m \in DOMAIN Numeral : <<Numeral[n]>> = <<Numeral[m]>>} = {n}
  BY <1>1, SymbolsAssumption
<1>5. Min({n, LongMax}) = n
  BY <1>1, MinIs
<1>6. ParsedNonces(<<Numeral[n]>>) = {n}
  BY <1>4, <1>5 DEF ParsedNonces
<1>7. QED
  BY <1>3, <1>6

LEMMA WrittenIs ==
  ASSUME NEW cmd \in Messages
  PROVE  /\ \A k \in FrameKeys : Written(cmd)[k] \in Strings
         /\ Written(cmd)["type"] = TypeWords[cmd.type]
         /\ Written(cmd)["nonce"] = <<Numeral[cmd.nonce]>>
         /\ \A k \in TextKeys : k \in FrameKeys /\ Written(cmd)[k] = cmd[k] /\ cmd[k] \in Fields
<1>1. \A k \in TextKeys : k \in FrameKeys /\ Written(cmd)[k] = cmd[k] /\ cmd[k] \in Fields
  BY DEF TextKeys, FrameKeys, Messages, Written
<1>2. /\ Written(cmd)["type"] = TypeWords[cmd.type]
      /\ Written(cmd)["nonce"] = <<Numeral[cmd.nonce]>>
  BY DEF FrameKeys, Written
<1>3. cmd.type \in Types /\ cmd.nonce \in 0..MaxNonce
  BY DEF Messages
<1>4. TypeWords[cmd.type] \in Strings /\ <<Numeral[cmd.nonce]>> \in Strings
  BY <1>3, TypeWordIs, NonceWordIs
<1>5. \A k \in FrameKeys : Written(cmd)[k] \in Strings
  BY <1>1, <1>2, <1>4 DEF FrameKeys, Fields
<1>6. QED
  BY <1>1, <1>2, <1>5

LEMMA JoinedAssociative ==
  ASSUME NEW a \in Strings, NEW b \in Strings, NEW c \in Strings
  PROVE  /\ Joined(Joined(a, b), c) = Joined(a, Joined(b, c))
         /\ a \o <<Separator>> \o b = Joined(a, b)
<1> DEFINE s == <<Separator>>
<1>1. s \in Seq(Symbols) /\ a \in Seq(Symbols) /\ b \in Seq(Symbols) /\ c \in Seq(Symbols)
  BY SymbolsAssumption DEF Strings
<1> HIDE DEF s
<1>2. s \o b \in Seq(Symbols) /\ s \o c \in Seq(Symbols)
  BY <1>1, ConcatProperties
<1>3. \A x, y, z \in Seq(Symbols) : (x \o y) \o z = x \o (y \o z)
  BY ConcatAssociative
<1>4. (a \o (s \o b)) \o (s \o c) = a \o ((s \o b) \o (s \o c))
  <2> DEFINE y == s \o b
             z == s \o c
  <2>1. y \in Seq(Symbols) /\ z \in Seq(Symbols)
    BY <1>2
  <2> HIDE DEF y, z
  <2>2. (a \o y) \o z = a \o (y \o z)
    BY <1>1, <2>1, <1>3
  <2>3. QED
    BY <2>2 DEF y, z
<1>5. (s \o b) \o (s \o c) = s \o (b \o (s \o c))
  <2> DEFINE z == s \o c
  <2>1. z \in Seq(Symbols)
    BY <1>2
  <2> HIDE DEF z
  <2>2. (s \o b) \o z = s \o (b \o z)
    BY <1>1, <2>1, <1>3
  <2>3. QED
    BY <2>2 DEF z
<1>6. (a \o s) \o b = a \o (s \o b)
  BY <1>1, <1>3
<1>7. QED
  BY <1>4, <1>5, <1>6 DEF Joined, s

\* An encoding is its five pairs, joined.
FrameOf(w) ==
    Joined(Pair("type", w["type"]),
      Joined(Pair("nonce", w["nonce"]),
        Joined(Pair("origin", w["origin"]),
          Joined(Pair("username", w["username"]), Pair("password", w["password"])))))

LEMMA FrameIsJoined ==
  ASSUME NEW cmd \in Messages
  PROVE  Frame(cmd) = FrameOf(Written(cmd))
<1> DEFINE w == Written(cmd)
           a == Pair("type", w["type"])
           b == Pair("nonce", w["nonce"])
           c == Pair("origin", w["origin"])
           d == Pair("username", w["username"])
           e == Pair("password", w["password"])
<1>1. {"type", "nonce", "origin", "username", "password"} \subseteq FrameKeys
  BY DEF FrameKeys, TextKeys
<1>2. a \in Strings /\ b \in Strings /\ c \in Strings /\ d \in Strings /\ e \in Strings
  BY <1>1, WrittenIs, PairIs
<1>3. Frame(cmd) = ((((((((a \o <<Separator>>) \o b) \o <<Separator>>) \o c)
                        \o <<Separator>>) \o d) \o <<Separator>>) \o e)
  <2>1. /\ w["type"] = TypeWords[cmd.type] /\ w["nonce"] = <<Numeral[cmd.nonce]>>
        /\ w["origin"] = cmd.origin /\ w["username"] = cmd.username
        /\ w["password"] = cmd.password
    BY WrittenIs DEF TextKeys
  <2>2. QED
    BY <2>1 DEF Frame
<1> HIDE DEF a, b, c, d, e
<1>4. Joined(a, b) \in Strings
  BY <1>2, JoinedIs
<1>5. Joined(Joined(a, b), c) \in Strings
  BY <1>2, <1>4, JoinedIs
<1>6. Joined(Joined(Joined(a, b), c), d) \in Strings
  BY <1>2, <1>5, JoinedIs
<1>7. Joined(d, e) \in Strings
  BY <1>2, JoinedIs
<1>8. Joined(c, Joined(d, e)) \in Strings
  BY <1>2, <1>7, JoinedIs
<1>9. Frame(cmd) = Joined(Joined(Joined(Joined(a, b), c), d), e)
  <2>1. (a \o <<Separator>>) \o b = Joined(a, b)
    BY <1>2, JoinedAssociative
  <2>2. (Joined(a, b) \o <<Separator>>) \o c = Joined(Joined(a, b), c)
    BY <1>2, <1>4, JoinedAssociative
  <2>3. (Joined(Joined(a, b), c) \o <<Separator>>) \o d = Joined(Joined(Joined(a, b), c), d)
    BY <1>2, <1>5, JoinedAssociative
  <2>4. (Joined(Joined(Joined(a, b), c), d) \o <<Separator>>) \o e
          = Joined(Joined(Joined(Joined(a, b), c), d), e)
    BY <1>2, <1>6, JoinedAssociative
  <2>5. QED
    BY <1>3, <2>1, <2>2, <2>3, <2>4
<1>10. Joined(Joined(Joined(Joined(a, b), c), d), e)
         = Joined(Joined(Joined(a, b), c), Joined(d, e))
  BY <1>2, <1>5, JoinedAssociative
<1>11. Joined(Joined(Joined(a, b), c), Joined(d, e))
         = Joined(Joined(a, b), Joined(c, Joined(d, e)))
  BY <1>2, <1>4, <1>7, JoinedAssociative
<1>12. Joined(Joined(a, b), Joined(c, Joined(d, e)))
         = Joined(a, Joined(b, Joined(c, Joined(d, e))))
  BY <1>2, <1>8, JoinedAssociative
<1>13. QED
  BY <1>9, <1>10, <1>11, <1>12 DEF FrameOf, a, b, c, d, e

LEMMA FrameReads ==
  ASSUME NEW cmd \in Messages, Plain(cmd)
  PROVE  /\ Frame(cmd) \in Strings
         /\ Reads(Frame(cmd), Written(cmd), FrameKeys)
<1> DEFINE w == Written(cmd)
           e == Pair("password", w["password"])
           d == Joined(Pair("username", w["username"]), e)
           c == Joined(Pair("origin", w["origin"]), d)
           b == Joined(Pair("nonce", w["nonce"]), c)
           a == Joined(Pair("type", w["type"]), b)
<1>1. \A k \in FrameKeys : w[k] \in Strings
  BY WrittenIs
<1>2. \A k \in FrameKeys : SeparatorFree(w[k])
  <2>1. SeparatorFree(w["type"]) /\ SeparatorFree(w["nonce"])
    BY WrittenIs, TypeWordIs, NonceWordIs DEF Messages
  <2>2. \A k \in TextKeys : SeparatorFree(w[k])
    BY WrittenIs DEF Plain, Contains, SeparatorFree
  <2>3. QED
    BY <2>1, <2>2 DEF FrameKeys
<1> HIDE DEF w
<1>3. /\ "type" \in FrameKeys /\ "nonce" \in FrameKeys /\ "origin" \in FrameKeys
      /\ "username" \in FrameKeys /\ "password" \in FrameKeys
  BY DEF FrameKeys, TextKeys
<1>4. e \in Strings /\ Reads(e, w, {"password"})
  BY <1>1, <1>2, <1>3, PairIs, ReadsLast
<1> HIDE DEF e
<1>5. d \in Strings /\ Reads(d, w, {"password"} \cup {"username"})
  <2>1. "username" \notin {"password"} /\ {"password"} \subseteq FrameKeys
    BY <1>3
  <2>2. QED
    BY <2>1, <1>1, <1>2, <1>3, <1>4, PairIs, JoinedIs, ReadsMore
<1> HIDE DEF d
<1>6. c \in Strings /\ Reads(c, w, {"password"} \cup {"username"} \cup {"origin"})
  <2> DEFINE K == {"password"} \cup {"username"}
  <2>1. "origin" \notin K /\ K \subseteq FrameKeys
    BY <1>3
  <2>2. Reads(d, w, K)
    BY <1>5
  <2> HIDE DEF K
  <2>3. c \in Strings /\ Reads(c, w, K \cup {"origin"})
    BY <2>1, <2>2, <1>1, <1>2, <1>3, <1>5, PairIs, JoinedIs, ReadsMore
  <2>4. QED
    BY <2>3 DEF K
<1> HIDE DEF c
<1>7. b \in Strings
      /\ Reads(b, w, {"password"} \cup {"username"} \cup {"origin"} \cup {"nonce"})
  <2> DEFINE K == {"password"} \cup {"username"} \cup {"origin"}
  <2>1. "nonce" \notin K /\ K \subseteq FrameKeys
    BY <1>3
  <2>2. Reads(c, w, K)
    BY <1>6
  <2> HIDE DEF K
  <2>3. b \in Strings /\ Reads(b, w, K \cup {"nonce"})
    BY <2>1, <2>2, <1>1, <1>2, <1>3, <1>6, PairIs, JoinedIs, ReadsMore
  <2>4. QED
    BY <2>3 DEF K
<1> HIDE DEF b
<1>8. a \in Strings /\ Reads(a, w, FrameKeys)
  <2> DEFINE K == {"password"} \cup {"username"} \cup {"origin"} \cup {"nonce"}
  <2>1. "type" \notin K /\ K \subseteq FrameKeys /\ K \cup {"type"} = FrameKeys
    BY <1>3 DEF FrameKeys, TextKeys
  <2>2. Reads(b, w, K)
    BY <1>7
  <2> HIDE DEF K
  <2>3. a \in Strings /\ Reads(a, w, K \cup {"type"})
    BY <2>1, <2>2, <1>1, <1>2, <1>3, <1>7, PairIs, JoinedIs, ReadsMore
  <2>4. QED
    BY <2>1, <2>3
<1>9. Frame(cmd) = a
  BY FrameIsJoined DEF FrameOf, w, a, b, c, d, e
<1>10. QED
  BY <1>8, <1>9 DEF w

LEMMA FrameLength ==
  ASSUME NEW cmd \in Messages
  PROVE  Len(Frame(cmd)) \in 15..MaxFrame - 1
<1> DEFINE w == Written(cmd)
           e == Pair("password", w["password"])
           d == Joined(Pair("username", w["username"]), e)
           c == Joined(Pair("origin", w["origin"]), d)
           b == Joined(Pair("nonce", w["nonce"]), c)
           a == Joined(Pair("type", w["type"]), b)
<1>1. \A k \in FrameKeys : w[k] \in Strings
  BY WrittenIs
<1>2. /\ "type" \in FrameKeys /\ "nonce" \in FrameKeys /\ "origin" \in FrameKeys
      /\ "username" \in FrameKeys /\ "password" \in FrameKeys
  BY DEF FrameKeys, TextKeys
<1>3. /\ Len(w["type"]) \in 1..2 /\ Len(w["nonce"]) = 1
      /\ Len(w["origin"]) \in 0..MaxField /\ Len(w["username"]) \in 0..MaxField
      /\ Len(w["password"]) \in 0..MaxField
  <2>1. Len(w["type"]) \in 1..2 /\ Len(w["nonce"]) = 1
    BY WrittenIs, TypeWordIs DEF Messages
  <2>2. \A k \in TextKeys : w[k] \in Fields
    BY WrittenIs
  <2>3. \A k \in TextKeys : Len(w[k]) \in 0..MaxField
    BY <2>2, CodecAssumption, LenProperties DEF Fields, Strings
  <2>4. QED
    BY <2>1, <2>3 DEF TextKeys
<1> HIDE DEF w
<1>4. \A k \in FrameKeys : Pair(k, w[k]) \in Strings /\ Len(Pair(k, w[k])) = 2 + Len(w[k])
  BY <1>1, PairIs
<1>5. ASSUME NEW k \in FrameKeys, NEW rest \in Strings
      PROVE  /\ Joined(Pair(k, w[k]), rest) \in Strings
             /\ Len(Joined(Pair(k, w[k]), rest)) = 2 + Len(w[k]) + 1 + Len(rest)
  <2> DEFINE p == Pair(k, w[k])
  <2>1. p \in Strings /\ Len(p) = 2 + Len(w[k])
    BY <1>4
  <2> HIDE DEF p
  <2>2. Joined(p, rest) \in Strings /\ Len(Joined(p, rest)) = Len(p) + 1 + Len(rest)
    BY <2>1, JoinedIs
  <2>3. QED
    BY <2>1, <2>2 DEF p
<1>6. /\ e \in Strings /\ Len(e) = 2 + Len(w["password"])
      /\ d \in Strings /\ Len(d) = 2 + Len(w["username"]) + 1 + Len(e)
  BY <1>2, <1>4, <1>5
<1>7. /\ c \in Strings /\ Len(c) = 2 + Len(w["origin"]) + 1 + Len(d)
      /\ b \in Strings /\ Len(b) = 2 + Len(w["nonce"]) + 1 + Len(c)
  <2> HIDE DEF d
  <2>1. c \in Strings /\ Len(c) = 2 + Len(w["origin"]) + 1 + Len(d)
    BY <1>2, <1>5, <1>6
  <2> HIDE DEF c
  <2>2. b \in Strings /\ Len(b) = 2 + Len(w["nonce"]) + 1 + Len(c)
    BY <1>2, <1>5, <2>1
  <2>3. QED
    BY <2>1, <2>2
<1> HIDE DEF b, c, d, e
<1>8. Len(a) = 2 + Len(w["type"]) + 1 + Len(b)
  BY <1>2, <1>5, <1>7
<1>9. Frame(cmd) = a
  BY FrameIsJoined DEF FrameOf, w, a, b, c, d, e
<1> HIDE DEF a
<1>10. Len(a) \in 15..17 + 3 * MaxField
  <2> DEFINE t == Len(w["type"])
             o == Len(w["origin"])
             u == Len(w["username"])
             p == Len(w["password"])
  <2>1. MaxField \in Nat /\ t \in 1..2 /\ o \in 0..MaxField /\ u \in 0..MaxField
        /\ p \in 0..MaxField
    BY <1>3, CodecAssumption
  <2>2. Len(a) = 2 + t + 1 + (2 + 1 + 1 + (2 + o + 1 + (2 + u + 1 + (2 + p))))
    BY <1>3, <1>6, <1>7, <1>8
  <2> HIDE DEF t, o, u, p
  <2>3. QED
    BY <2>1, <2>2
<1>11. QED
  BY <1>9, <1>10, CodecAssumption

-----------------------------------------------------------------------------
(***************************************************************************)
(* The end of the line.                                                    *)
(***************************************************************************)

LEMMA TrimmedIs ==
  ASSUME NEW l \in Strings
  PROVE  /\ Trimmed(l) \in Strings
         /\ l # <<>> /\ l[Len(l)] # "\n" => Trimmed(l) = l
         /\ Trimmed(l) = l => l = <<>> \/ l[Len(l)] # "\n"
<1> DEFINE kept == {i \in DOMAIN l : l[i] # "\n"}
<1>1. l \in Seq(Symbols) /\ Len(l) \in Nat /\ DOMAIN l = 1..Len(l)
  BY LenProperties DEF Strings
<1>2. kept \subseteq 1..Len(l)
  BY <1>1
<1>3. CASE kept = {}
  <2>1. Trimmed(l) = <<>> /\ <<>> \in Strings
    BY <1>3, EmptySeq DEF Trimmed, Strings
  <2>2. l # <<>> => Len(l) \in 1..Len(l)
    BY <1>1, EmptySeq
  <2>3. l # <<>> => l[Len(l)] = "\n"
    BY <2>2, <1>1, <1>3
  <2>4. QED
    BY <2>1, <2>3
<1>4. CASE kept # {}
  <2> DEFINE m == Max(kept)
  <2>1. m \in kept /\ \A x \in kept : x <= m
    BY <1>1, <1>2, <1>4, LastPosition
  <2>2. Trimmed(l) = SubSeq(l, 1, m)
    BY <1>4 DEF Trimmed
  <2>3. m \in 1..Len(l) /\ l[m] # "\n"
    BY <2>1, <1>2
  <2> HIDE DEF m
  <2>4. SubSeq(l, 1, m) \in Seq(Symbols) /\ Len(SubSeq(l, 1, m)) = m
    <3>1. \A i \in 1..m : l[i] \in Symbols
      BY <1>1, <2>3, ElementOfSeq
    <3>2. QED
      BY <3>1, <2>3, <1>1, SubSeqProperties
  <2>5. l[Len(l)] # "\n" => m = Len(l)
    BY <1>1, <2>1, <2>3
  <2>6. SubSeq(l, 1, m) = l => m = Len(l)
    BY <2>4
  <2>7. m = Len(l) => SubSeq(l, 1, m) = l
    BY <1>1, SubSeqFull
  <2>8. QED
    BY <2>2, <2>3, <2>4, <2>5, <2>6, <2>7 DEF Strings
<1>5. QED
  BY <1>3, <1>4

\* A slice without a separator in it, of any line.
LEMMA SliceIs ==
  ASSUME NEW l \in Strings, NEW i \in 1..Len(l) + 1, NEW m \in 0..Len(l),
         \A j \in i..m : l[j] # Separator
  PROVE  SubSeq(l, i, m) \in Strings /\ SeparatorFree(SubSeq(l, i, m))
<1> DEFINE s == SubSeq(l, i, m)
<1>1. l \in Seq(Symbols) /\ Len(l) \in Nat /\ i \in Int /\ m \in Int
  BY LenProperties DEF Strings
<1>2. \A j \in i..m : l[j] \in Symbols
  BY <1>1, ElementOfSeq
<1>3. /\ s \in Seq(Symbols)
      /\ Len(s) = IF i <= m THEN m - i + 1 ELSE 0
      /\ \A j \in 1..m - i + 1 : s[j] = l[i + j - 1]
  BY <1>1, <1>2, SubSeqProperties
<1> HIDE DEF s
<1>4. ASSUME NEW j \in 1..Len(s) PROVE s[j] # Separator
  <2>1. j \in 1..m - i + 1 /\ i + j - 1 \in i..m
    BY <1>1, <1>3
  <2>2. QED
    BY <2>1, <1>3
<1>5. s \in Strings /\ SeparatorFree(s)
  BY <1>3, <1>4 DEF Strings, SeparatorFree
<1>6. QED
  BY <1>5 DEF s

\* Trimming a line leaves what comes before the newlines at its end.
LEMMA TrimmedEnds ==
  ASSUME NEW l \in Strings
  PROVE  \E m \in 0..Len(l) :
           /\ Trimmed(l) = SubSeq(l, 1, m)
           /\ m = 0 \/ l[m] # "\n"
           /\ \A i \in m + 1..Len(l) : l[i] = "\n"
<1> DEFINE kept == {i \in DOMAIN l : l[i] # "\n"}
<1>1. l \in Seq(Symbols) /\ Len(l) \in Nat /\ DOMAIN l = 1..Len(l)
  BY LenProperties DEF Strings
<1>2. CASE kept = {}
  <2>1. SubSeq(l, 1, 0) = <<>>
    BY <1>1, SubSeqEmpty
  <2>2. Trimmed(l) = <<>>
    BY <1>2 DEF Trimmed
  <2>3. \A i \in 0 + 1..Len(l) : l[i] = "\n"
    BY <1>1, <1>2
  <2>4. QED
    BY <1>1, <2>1, <2>2, <2>3
<1>3. CASE kept # {}
  <2> DEFINE m == Max(kept)
  <2>1. kept \subseteq 1..Len(l)
    BY <1>1
  <2>2. m \in kept /\ \A i \in kept : i <= m
    BY <1>1, <1>3, <2>1, LastPosition
  <2>3. Trimmed(l) = SubSeq(l, 1, m)
    BY <1>3 DEF Trimmed
  <2> HIDE DEF m
  <2>4. m \in 0..Len(l) /\ l[m] # "\n"
    BY <1>1, <2>2
  <2>5. \A i \in m + 1..Len(l) : l[i] = "\n"
    BY <1>1, <2>2, <2>4
  <2>6. QED
    BY <2>3, <2>4, <2>5
<1>4. QED
  BY <1>2, <1>3

LEMMA TrimmedAt ==
  ASSUME NEW l \in Strings, NEW m \in 0..Len(l), m = 0 \/ l[m] # "\n",
         \A i \in m + 1..Len(l) : l[i] = "\n"
  PROVE  Trimmed(l) = SubSeq(l, 1, m)
<1> DEFINE kept == {i \in DOMAIN l : l[i] # "\n"}
<1>1. l \in Seq(Symbols) /\ Len(l) \in Nat /\ DOMAIN l = 1..Len(l)
  BY LenProperties DEF Strings
<1>2. CASE m = 0
  <2>1. kept = {}
    BY <1>1, <1>2
  <2>2. Trimmed(l) = <<>>
    BY <2>1 DEF Trimmed
  <2>3. QED
    BY <1>1, <1>2, <2>2, SubSeqEmpty
<1>3. CASE m # 0
  <2>1. m \in kept /\ kept \subseteq Int /\ \A i \in kept : m >= i
    BY <1>1, <1>3
  <2>2. Max(kept) = m
    BY <2>1, MaxIs
  <2>3. QED
    BY <2>1, <2>2 DEF Trimmed
<1>4. QED
  BY <1>2, <1>3

\* What is left of a value is still one, and trimmed.
LEMMA TrimmedField ==
  ASSUME NEW v \in Fields, SeparatorFree(v)
  PROVE  /\ Trimmed(v) \in Fields /\ SeparatorFree(Trimmed(v))
         /\ Trimmed(Trimmed(v)) = Trimmed(v)
<1>1. v \in Strings /\ v \in Seq(Symbols) /\ Len(v) \in Nat /\ MaxField \in Nat
      /\ Len(v) <= MaxField
  BY LenProperties, CodecAssumption DEF Fields, Strings
<1>2. PICK m \in 0..Len(v) : Trimmed(v) = SubSeq(v, 1, m) /\ (m = 0 \/ v[m] # "\n")
  BY <1>1, TrimmedEnds
<1> DEFINE s == SubSeq(v, 1, m)
<1>3. s \in Strings /\ SeparatorFree(s)
  <2>1. 1 \in 1..Len(v) + 1
    BY <1>1
  <2>2. \A j \in 1..m : j \in 1..Len(v)
    BY <1>1
  <2>3. \A j \in 1..m : v[j] # Separator
    BY <2>2 DEF SeparatorFree
  <2>4. QED
    BY <1>1, <2>1, <2>3, SliceIs
<1>4. Len(s) = m /\ \A j \in 1..m : s[j] = v[j]
  <2>1. \A j \in 1..m : v[j] \in Symbols
    BY <1>1, ElementOfSeq
  <2>2. m \in Int /\ m - 1 + 1 = m /\ (m = 0 <=> ~(1 <= m)) /\ \A j \in 1..m : 1 + j - 1 = j
    BY <1>1
  <2>3. /\ Len(s) = IF 1 <= m THEN m - 1 + 1 ELSE 0
        /\ \A j \in 1..m - 1 + 1 : s[j] = v[1 + j - 1]
    BY <1>1, <2>1, <2>2, SubSeqProperties
  <2> HIDE DEF s
  <2>4. QED
    BY <2>2, <2>3
<1> HIDE DEF s
<1>5. Trimmed(s) = s
  <2>1. m \in 0..Len(s) /\ (m = 0 \/ s[m] # "\n") /\ \A i \in m + 1..Len(s) : s[i] = "\n"
    BY <1>1, <1>2, <1>4
  <2>2. Trimmed(s) = SubSeq(s, 1, m)
    BY <2>1, <1>3, TrimmedAt
  <2>3. QED
    BY <2>2, <1>3, <1>4, SubSeqFull DEF Strings
<1>6. Len(s) <= MaxField
  BY <1>1, <1>4
<1>7. QED
  BY <1>2, <1>3, <1>5, <1>6 DEF s, Fields

\* Trimming stops at the last symbol that is no newline.
LEMMA TrimmedConcat ==
  ASSUME NEW s \in Strings, s # <<>>, s[Len(s)] # "\n", NEW t \in Strings
  PROVE  Trimmed(s \o t) = s \o Trimmed(t)
<1> DEFINE l == s \o t
<1>1. s \in Seq(Symbols) /\ t \in Seq(Symbols) /\ Len(s) \in Nat /\ Len(t) \in Nat
      /\ Len(s) >= 1
  BY LenProperties, EmptySeq DEF Strings
<1>2. /\ l \in Seq(Symbols) /\ Len(l) = Len(s) + Len(t)
      /\ \A i \in 1..Len(s) + Len(t) : l[i] = IF i <= Len(s) THEN s[i] ELSE t[i - Len(s)]
  BY <1>1, ConcatProperties
<1> HIDE DEF l
<1>3. PICK m \in 0..Len(t) : /\ Trimmed(t) = SubSeq(t, 1, m)
                             /\ m = 0 \/ t[m] # "\n"
                             /\ \A i \in m + 1..Len(t) : t[i] = "\n"
  BY TrimmedEnds
<1> DEFINE n == Len(s) + m
           u == SubSeq(t, 1, m)
<1>4. n \in 0..Len(l) /\ n \in 1..Len(s) + Len(t)
  BY <1>1, <1>2
<1>5. l[n] # "\n"
  <2>1. CASE m = 0
    BY <2>1, <1>1, <1>2
  <2>2. CASE m # 0
    <3>1. ~(n <= Len(s)) /\ n - Len(s) = m
      BY <2>2, <1>1
    <3>2. QED
      BY <3>1, <2>2, <1>2, <1>3, <1>4
  <2>3. QED
    BY <2>1, <2>2
<1>6. ASSUME NEW i \in n + 1..Len(l) PROVE l[i] = "\n"
  <2>1. i \in 1..Len(s) + Len(t) /\ ~(i <= Len(s)) /\ i - Len(s) \in m + 1..Len(t)
    BY <1>1, <1>2
  <2>2. QED
    BY <2>1, <1>2, <1>3
<1>7. Trimmed(l) = SubSeq(l, 1, n)
  <2> HIDE DEF n
  <2>1. l \in Strings
    BY <1>2 DEF Strings
  <2>2. QED
    BY <2>1, <1>4, <1>5, <1>6, TrimmedAt
<1>8. u \in Seq(Symbols) /\ Len(u) = m /\ \A j \in 1..m : u[j] = t[j]
  <2>1. \A j \in 1..m : t[j] \in Symbols
    BY <1>1, ElementOfSeq
  <2>2. m \in Int /\ m - 1 + 1 = m /\ (m = 0 <=> ~(1 <= m)) /\ \A j \in 1..m : 1 + j - 1 = j
    BY <1>1
  <2>3. /\ u \in Seq(Symbols)
        /\ Len(u) = IF 1 <= m THEN m - 1 + 1 ELSE 0
        /\ \A j \in 1..m - 1 + 1 : u[j] = t[1 + j - 1]
    BY <1>1, <2>1, <2>2, SubSeqProperties
  <2> HIDE DEF u
  <2>4. QED
    BY <2>2, <2>3
<1> HIDE DEF u
<1>9. /\ s \o u \in Seq(Symbols) /\ Len(s \o u) = n
      /\ \A i \in 1..n : (s \o u)[i] = IF i <= Len(s) THEN s[i] ELSE u[i - Len(s)]
  BY <1>1, <1>8, ConcatProperties
<1>10. /\ SubSeq(l, 1, n) \in Seq(Symbols) /\ Len(SubSeq(l, 1, n)) = n
       /\ \A i \in 1..n : SubSeq(l, 1, n)[i] = l[i]
  <2>1. n \in Int /\ 1 <= n /\ n - 1 + 1 = n /\ \A j \in 1..n : 1 + j - 1 = j
    BY <1>1, <1>4
  <2> HIDE DEF n
  <2>2. \A j \in 1..n : l[j] \in Symbols
    BY <1>2, <1>4, ElementOfSeq
  <2>3. /\ SubSeq(l, 1, n) \in Seq(Symbols)
        /\ Len(SubSeq(l, 1, n)) = IF 1 <= n THEN n - 1 + 1 ELSE 0
        /\ \A j \in 1..n - 1 + 1 : SubSeq(l, 1, n)[j] = l[1 + j - 1]
    BY <1>2, <2>1, <2>2, SubSeqProperties
  <2>4. QED
    BY <2>1, <2>3
<1>11. ASSUME NEW i \in 1..n PROVE SubSeq(l, 1, n)[i] = (s \o u)[i]
  <2>1. i \in 1..Len(s) + Len(t) /\ SubSeq(l, 1, n)[i] = l[i]
    BY <1>1, <1>10
  <2>2. CASE i <= Len(s)
    BY <2>1, <2>2, <1>2, <1>9
  <2>3. CASE ~(i <= Len(s))
    <3>1. i - Len(s) \in 1..m
      BY <2>3, <1>1
    <3>2. QED
      BY <3>1, <2>1, <2>3, <1>2, <1>8, <1>9
  <2>4. QED
    BY <2>2, <2>3
<1>12. SubSeq(l, 1, n) = s \o u
  <2> DEFINE x == SubSeq(l, 1, n)
             y == s \o u
  <2>1. x \in Seq(Symbols) /\ y \in Seq(Symbols) /\ Len(x) = Len(y)
        /\ \A i \in 1..Len(x) : x[i] = y[i]
    BY <1>9, <1>10, <1>11
  <2> HIDE DEF x, y
  <2>2. x = y
    BY <2>1, SeqEqual
  <2>3. QED
    BY <2>2 DEF x, y
<1>13. QED
  BY <1>3, <1>7, <1>12 DEF l, u

\* The end of a joined line is the end of the rest, of a pair that of its value.
LEMMA EndOfJoined ==
  ASSUME NEW a \in Strings, NEW rest \in Strings, rest # <<>>
  PROVE  Joined(a, rest) # <<>> /\ Joined(a, rest)[Len(Joined(a, rest))] = rest[Len(rest)]
<1>1. Len(a) \in Nat /\ Len(rest) \in Nat /\ Len(rest) \in 1..Len(rest)
  BY LenProperties, EmptySeq DEF Strings
<1>2. Len(Joined(a, rest)) = Len(a) + 1 + Len(rest)
  BY JoinedIs
<1>3. Joined(a, rest)[Len(a) + 1 + Len(rest)] = rest[Len(rest)]
  BY <1>1, JoinedIs
<1>4. Joined(a, rest) # <<>>
  BY <1>1, <1>2, EmptySeq
<1>5. QED
  BY <1>2, <1>3, <1>4

LEMMA EndOfPair ==
  ASSUME NEW k \in FrameKeys, NEW v \in Strings, v = Trimmed(v)
  PROVE  Pair(k, v)[Len(Pair(k, v))] # "\n"
<1>1. Len(v) \in Nat /\ Len(Pair(k, v)) = 2 + Len(v)
  BY LenProperties, PairIs DEF Strings
<1>2. CASE v = <<>>
  <2>1. Len(Pair(k, v)) = 2
    BY <1>1, <1>2, EmptySeq
  <2>2. QED
    BY <2>1, PairIs
<1>3. CASE v # <<>>
  <2>1. Len(v) \in 1..Len(v)
    BY <1>3, EmptySeq DEF Strings
  <2>2. Pair(k, v)[2 + Len(v)] = v[Len(v)]
    BY <2>1, PairIs
  <2>3. v[Len(v)] # "\n"
    BY <1>3, TrimmedIs
  <2>4. QED
    BY <1>1, <2>2, <2>3
<1>4. QED
  BY <1>2, <1>3

LEMMA FrameTrimmed ==
  ASSUME NEW cmd \in Messages, Plain(cmd)
  PROVE  Trimmed(Frame(cmd)) = Frame(cmd)
<1> DEFINE w == Written(cmd)
           e == Pair("password", w["password"])
           d == Joined(Pair("username", w["username"]), e)
           c == Joined(Pair("origin", w["origin"]), d)
           b == Joined(Pair("nonce", w["nonce"]), c)
           a == Joined(Pair("type", w["type"]), b)
<1>1. \A k \in FrameKeys : Pair(k, w[k]) \in Strings /\ Pair(k, w[k]) # <<>>
  BY WrittenIs, PairIs
<1>2. /\ "type" \in FrameKeys /\ "nonce" \in FrameKeys /\ "origin" \in FrameKeys
      /\ "username" \in FrameKeys /\ "password" \in FrameKeys
  BY DEF FrameKeys, TextKeys
<1>3. e[Len(e)] # "\n"
  <2>1. w["password"] \in Strings /\ w["password"] = Trimmed(w["password"])
    BY <1>2, WrittenIs DEF Plain, TextKeys
  <2>2. QED
    BY <1>2, <2>1, EndOfPair
<1> HIDE DEF w
<1>4. ASSUME NEW k \in FrameKeys, NEW rest \in Strings, rest # <<>>, rest[Len(rest)] # "\n"
      PROVE  LET l == Joined(Pair(k, w[k]), rest)
             IN  l \in Strings /\ l # <<>> /\ l[Len(l)] # "\n"
  BY <1>1, <1>4, JoinedIs, EndOfJoined
<1>5. e \in Strings /\ e # <<>>
  BY <1>1, <1>2
<1> HIDE DEF e
<1>6. d \in Strings /\ d # <<>> /\ d[Len(d)] # "\n"
  BY <1>2, <1>3, <1>4, <1>5
<1> HIDE DEF d
<1>7. c \in Strings /\ c # <<>> /\ c[Len(c)] # "\n"
  BY <1>2, <1>4, <1>6
<1> HIDE DEF c
<1>8. b \in Strings /\ b # <<>> /\ b[Len(b)] # "\n"
  BY <1>2, <1>4, <1>7
<1> HIDE DEF b
<1>9. a \in Strings /\ a # <<>> /\ a[Len(a)] # "\n"
  BY <1>2, <1>4, <1>8
<1>10. Frame(cmd) = a
  BY FrameIsJoined DEF FrameOf, w, a, b, c, d, e
<1>11. QED
  BY <1>9, <1>10, TrimmedIs

-----------------------------------------------------------------------------
(***************************************************************************)
(* Decoding.                                                               *)
(***************************************************************************)

LEMMA CutIs ==
  ASSUME NEW v \in Strings
  PROVE  /\ Cut(v) \in Fields
         /\ Len(v) <= MaxField => Cut(v) = v
         /\ SeparatorFree(v) => SeparatorFree(Cut(v))
<1>1. v \in Seq(Symbols) /\ Len(v) \in Nat /\ MaxField \in Nat
  BY LenProperties, CodecAssumption DEF Strings
<1>2. PICK n \in Nat : n = Min({MaxField, Len(v)}) /\ n <= MaxField /\ n <= Len(v)
                       /\ (Len(v) <= MaxField => n = Len(v))
  <2>1. CASE Len(v) <= MaxField
    <3>1. Min({MaxField, Len(v)}) = Len(v)
      BY <1>1, <2>1 DEF Min
    <3>2. QED
      BY <1>1, <2>1, <3>1
  <2>2. CASE ~(Len(v) <= MaxField)
    <3>1. Min({MaxField, Len(v)}) = MaxField
      BY <1>1, <2>2 DEF Min
    <3>2. QED
      BY <1>1, <2>2, <3>1
  <2>3. QED
    BY <2>1, <2>2
<1>3. Cut(v) = SubSeq(v, 1, n)
  BY <1>2 DEF Cut
<1>4. SubSeq(v, 1, n) \in Seq(Symbols) /\ Len(SubSeq(v, 1, n)) = n
  <2>1. n \in Int /\ 1 \in Int /\ n - 1 + 1 = n /\ (n = 0 <=> ~(1 <= n))
    BY <1>2
  <2>2. \A i \in 1..n : v[i] \in Symbols
    BY <1>1, <1>2, ElementOfSeq
  <2>3. /\ SubSeq(v, 1, n) \in Seq(Symbols)
        /\ Len(SubSeq(v, 1, n)) = IF 1 <= n THEN n - 1 + 1 ELSE 0
    BY <2>1, <2>2, SubSeqProperties
  <2>4. QED
    BY <2>1, <2>3
<1>5. Len(v) <= MaxField => SubSeq(v, 1, n) = v
  BY <1>1, <1>2, SubSeqFull
<1>6. ASSUME SeparatorFree(v) PROVE SeparatorFree(SubSeq(v, 1, n))
  <2>1. 1 \in 1..Len(v) + 1 /\ n \in 0..Len(v)
    BY <1>1, <1>2
  <2>2. \A j \in 1..n : j \in 1..Len(v)
    BY <1>1, <1>2
  <2>3. \A j \in 1..n : v[j] # Separator
    BY <2>2, <1>6 DEF SeparatorFree
  <2>4. QED
    BY <2>1, <2>3, SliceIs
<1>7. QED
  BY <1>2, <1>3, <1>4, <1>5, <1>6 DEF Fields, Strings

\* A plain command decodes from its own encoding.
LEMMA DecodesOwnFrame ==
  ASSUME NEW cmd \in Messages, Plain(cmd)
  PROVE  Decoded(Frame(cmd)) = cmd
<1> DEFINE l == Frame(cmd)
           w == Written(cmd)
<1>1. l \in Strings /\ Reads(l, w, FrameKeys) /\ Trimmed(l) = l
  BY FrameReads, FrameTrimmed
<1>2. l # <<>> /\ Len(l) < MaxFrame
  BY FrameLength, EmptySeq, CodecAssumption
<1>3. \A k \in FrameKeys : w[k] \in Strings
  BY WrittenIs
<1>4. w["type"] = TypeWords[cmd.type] /\ w["nonce"] = <<Numeral[cmd.nonce]>>
  BY WrittenIs
<1>5. \A k \in TextKeys : k \in FrameKeys /\ w[k] = cmd[k] /\ Len(w[k]) <= MaxField
  BY WrittenIs DEF Fields
<1>6. ParsedTypes(w["type"]) = {cmd.type} /\ ParsedNonces(w["nonce"]) = {cmd.nonce}
  BY <1>4, TypeWordIs, NonceWordIs DEF Messages
<1> HIDE DEF l, w
<1>7. \A k \in FrameKeys : Given(l, k) # {} /\ LastValue(l, k) = w[k]
  BY <1>1, <1>3, ReadsGives
<1>8. ASSUME NEW i \in Starts(l) PROVE WellFormed(Token(l, i))
  <2>1. PICK k \in FrameKeys : Token(l, i) = Pair(k, w[k])
    BY <1>1 DEF Reads
  <2>2. HasEquals(Token(l, i)) /\ Key(Token(l, i)) = <<k>> /\ Value(Token(l, i)) = w[k]
    BY <2>1, <1>3, PairSplits
  <2>3. QED
    BY <2>2, <1>6 DEF WellFormed, FrameKeys
<1>9. ASSUME NEW k \in TextKeys PROVE Text(l, k) = cmd[k]
  <2>1. Given(l, k) # {} /\ LastValue(l, k) = cmd[k]
    BY <1>5, <1>7
  <2>2. Cut(cmd[k]) = cmd[k]
    BY <1>3, <1>5, CutIs
  <2>3. QED
    BY <2>1, <2>2 DEF Text
<1>10. /\ (CHOOSE t \in ParsedTypes(LastValue(l, "type")) : TRUE) = cmd.type
       /\ (CHOOSE n \in ParsedNonces(LastValue(l, "nonce")) : TRUE) = cmd.nonce
  BY <1>6, <1>7 DEF FrameKeys
<1>11. Given(l, "type") # {} /\ Given(l, "nonce") # {}
  BY <1>7 DEF FrameKeys
<1>12. Text(l, "origin") = cmd.origin /\ Text(l, "username") = cmd.username
       /\ Text(l, "password") = cmd.password
  BY <1>9 DEF TextKeys
<1>13. Decoded(l) = [type |-> cmd.type, nonce |-> cmd.nonce, origin |-> cmd.origin,
                     username |-> cmd.username, password |-> cmd.password]
  BY <1>1, <1>2, <1>8, <1>10, <1>11, <1>12 DEF Decoded
<1>14. QED
  BY <1>13 DEF l, Messages

LEMMA TokenIs ==
  ASSUME NEW l \in Strings, NEW i \in Starts(l)
  PROVE  Token(l, i) \in Strings /\ SeparatorFree(Token(l, i))
<1>1. Len(l) \in Nat /\ i \in 1..Len(l) /\ l[i] # Separator
  BY LenProperties DEF Strings, Starts
<1>2. Ends(l, i) \subseteq Nat /\ Len(l) \in Ends(l, i)
  BY <1>1 DEF Ends
<1>3. PICK m \in Ends(l, i) : \A j \in Ends(l, i) : m <= j
  BY <1>2, LeastNumber
<1>4. Ends(l, i) \subseteq Int
  BY <1>2
<1>5. Min(Ends(l, i)) = m
  BY <1>3, <1>4, MinIs
<1>6. Token(l, i) = SubSeq(l, i, m)
  BY <1>5 DEF Token, Ends
<1>7. m \in i..Len(l)
  BY <1>3 DEF Ends
<1>8. ASSUME NEW j \in i..m PROVE l[j] # Separator
  <2>1. CASE j = i
    BY <2>1, <1>1
  <2>2. CASE j # i
    <3>1. j - 1 \in i..Len(l) /\ j - 1 < m /\ j - 1 + 1 = j
      BY <2>2, <1>1, <1>7
    <3>2. j - 1 \notin Ends(l, i)
      BY <3>1, <1>3, <1>7
    <3>3. QED
      BY <3>1, <3>2 DEF Ends
  <2>3. QED
    BY <2>1, <2>2
<1>9. i \in 1..Len(l) + 1 /\ m \in 0..Len(l)
  BY <1>1, <1>7
<1>10. QED
  BY <1>6, <1>8, <1>9, SliceIs

LEMMA ValueIs ==
  ASSUME NEW token \in Strings, SeparatorFree(token), HasEquals(token)
  PROVE  Value(token) \in Strings /\ SeparatorFree(Value(token))
<1> DEFINE S == {i \in DOMAIN token : token[i] = "="}
<1>1. Len(token) \in Nat /\ DOMAIN token = 1..Len(token)
  BY LenProperties DEF Strings
<1>2. S \subseteq Nat /\ S # {} /\ S \subseteq Int
  BY <1>1 DEF HasEquals
<1>3. PICK m \in S : \A j \in S : m <= j
  BY <1>2, LeastNumber
<1>4. m \in 1..Len(token)
  BY <1>1
<1> HIDE DEF S
<1>5. Min(S) = m
  BY <1>2, <1>3, MinIs
<1>6. Value(token) = SubSeq(token, m + 1, Len(token))
  BY <1>5 DEF Value, Equals, S
<1>7. m + 1 \in 1..Len(token) + 1 /\ Len(token) \in 0..Len(token)
  BY <1>1, <1>4
<1>8. \A j \in m + 1..Len(token) : token[j] # Separator
  BY <1>1, <1>4 DEF SeparatorFree
<1>9. QED
  BY <1>6, <1>7, <1>8, SliceIs

\* The last token of a key is one of the line.
LEMMA LastGivenIs ==
  ASSUME NEW l \in Strings, NEW k, Given(l, k) # {}
  PROVE  \E i \in Starts(l) : Key(Token(l, i)) = <<k>> /\ LastValue(l, k) = Value(Token(l, i))
<1>1. Len(l) \in Nat /\ Given(l, k) \subseteq 1..Len(l)
  BY LenProperties DEF Given, Starts, Strings
<1>2. Max(Given(l, k)) \in Given(l, k)
  BY <1>1, LastPosition
<1>3. QED
  BY <1>2 DEF Given, LastValue

\* What is decoded from any line is a command whose fields fit and hold no
\* separator.
LEMMA DecodedIs ==
  ASSUME NEW frame \in Strings, Decoded(frame) # NoCommand
  PROVE  /\ Decoded(frame) \in Messages
         /\ \A k \in TextKeys : SeparatorFree(Decoded(frame)[k])
<1> DEFINE l == Trimmed(frame)
<1>1. l \in Strings
  BY TrimmedIs
<1>2. /\ \A i \in Starts(l) : WellFormed(Token(l, i))
      /\ Given(l, "type") # {}
      /\ Decoded(frame) =
           [type     |-> CHOOSE t \in ParsedTypes(LastValue(l, "type")) : TRUE,
            nonce    |-> IF Given(l, "nonce") = {} THEN 0
                         ELSE CHOOSE n \in ParsedNonces(LastValue(l, "nonce")) : TRUE,
            origin   |-> Text(l, "origin"),
            username |-> Text(l, "username"),
            password |-> Text(l, "password")]
  BY DEF Decoded
<1> HIDE DEF l
<1>3. (CHOOSE t \in ParsedTypes(LastValue(l, "type")) : TRUE) \in Types
  <2>1. PICK i \in Starts(l) :
          Key(Token(l, i)) = <<"type">> /\ LastValue(l, "type") = Value(Token(l, i))
    BY <1>1, <1>2, LastGivenIs
  <2>2. ParsedTypes(LastValue(l, "type")) # {}
    <3>1. WellFormed(Token(l, i))
      BY <1>2
    <3>2. <<"type">> # <<"nonce">> /\ \A k \in TextKeys : <<"type">> # <<k>>
      BY DEF TextKeys
    <3>3. QED
      BY <2>1, <3>1, <3>2 DEF WellFormed
  <2>3. ParsedTypes(LastValue(l, "type")) \subseteq Types
    BY DEF ParsedTypes, Types
  <2>4. QED
    BY <2>2, <2>3
<1>4. ASSUME Given(l, "nonce") # {}
      PROVE  (CHOOSE n \in ParsedNonces(LastValue(l, "nonce")) : TRUE) \in 0..MaxNonce
  <2>1. PICK i \in Starts(l) :
          Key(Token(l, i)) = <<"nonce">> /\ LastValue(l, "nonce") = Value(Token(l, i))
    BY <1>1, <1>4, LastGivenIs
  <2>2. ParsedNonces(LastValue(l, "nonce")) # {}
    <3>1. WellFormed(Token(l, i))
      BY <1>2
    <3>2. <<"nonce">> # <<"type">> /\ \A k \in TextKeys : <<"nonce">> # <<k>>
      BY DEF TextKeys
    <3>3. QED
      BY <2>1, <3>1, <3>2 DEF WellFormed
  <2>3. ParsedNonces(LastValue(l, "nonce")) \subseteq 0..MaxNonce
    BY DEF ParsedNonces
  <2>4. QED
    BY <2>2, <2>3
<1>5. 0 \in 0..MaxNonce
  BY CodecAssumption
<1>6. ASSUME NEW k \in TextKeys
      PROVE  Text(l, k) \in Fields /\ SeparatorFree(Text(l, k))
  <2>1. CASE Given(l, k) = {}
    <3>1. <<>> \in Strings /\ Len(<<>>) = 0 /\ MaxField \in Nat
      BY EmptySeq, CodecAssumption DEF Strings
    <3>2. QED
      BY <2>1, <3>1 DEF Text, Fields, SeparatorFree
  <2>2. CASE Given(l, k) # {}
    <3>1. PICK i \in Starts(l) : LastValue(l, k) = Value(Token(l, i))
      BY <1>1, <2>2, LastGivenIs
    <3>2. /\ Token(l, i) \in Strings /\ SeparatorFree(Token(l, i))
          /\ HasEquals(Token(l, i))
      BY <1>1, <1>2, TokenIs DEF WellFormed
    <3>3. LastValue(l, k) \in Strings /\ SeparatorFree(LastValue(l, k))
      BY <3>1, <3>2, ValueIs
    <3>4. QED
      BY <2>2, <3>3, CutIs DEF Text
  <2>3. QED
    BY <2>1, <2>2
<1>7. Text(l, "origin") \in Fields /\ Text(l, "username") \in Fields
      /\ Text(l, "password") \in Fields
  BY <1>6 DEF TextKeys
<1>8. Decoded(frame) \in Messages
  BY <1>2, <1>3, <1>4, <1>5, <1>7 DEF Messages
<1>9. \A k \in TextKeys : Decoded(frame)[k] = Text(l, k)
  BY <1>2 DEF TextKeys
<1>10. QED
  BY <1>6, <1>8, <1>9

-----------------------------------------------------------------------------
(***************************************************************************)
(* The round trip.                                                         *)
(***************************************************************************)

\* A command was sent only as its encoding, and what was received is what the
\* line decodes to.
CodecInv ==
    /\ line \in Strings
    /\ sent # NoCommand => sent \in Messages /\ line = Frame(sent)
    /\ received # <<>> => received = <<Decoded(line)>>

LEMMA SentIs ==
  ASSUME NEW cmd \in Commands, cmd.type \in Types
  PROVE  cmd \in Messages
<1>1. \A t \in Texts : t \in Fields
  BY CodecAssumption, SymbolsAssumption DEF Fields, Strings
<1>2. QED
  BY <1>1 DEF Commands, Messages

\* Without its properties of trimming: the encoding is a line, and not empty.
LEMMA FrameIs ==
  ASSUME NEW cmd \in Messages
  PROVE  Frame(cmd) \in Strings /\ Frame(cmd) # <<>>
<1> DEFINE w == Written(cmd)
<1>1. \A k \in FrameKeys : Pair(k, w[k]) \in Strings
  BY WrittenIs, PairIs
<1>2. /\ "type" \in FrameKeys /\ "nonce" \in FrameKeys /\ "origin" \in FrameKeys
      /\ "username" \in FrameKeys /\ "password" \in FrameKeys
  BY DEF FrameKeys, TextKeys
<1> HIDE DEF w
<1>3. \A a, b \in Strings : Joined(a, b) \in Strings
  BY JoinedIs
<1>4. FrameOf(w) \in Strings
  BY <1>1, <1>2, <1>3 DEF FrameOf
<1>5. Frame(cmd) \in Strings
  BY <1>4, FrameIsJoined DEF w
<1>6. QED
  BY <1>5, FrameLength, EmptySeq DEF Strings

\* An encoding is what comes before the password, and the password.
LEMMA FrameEnds ==
  ASSUME NEW cmd \in Messages, NEW v \in Fields
  PROVE  \E s \in Strings :
           /\ s # <<>> /\ s[Len(s)] # "\n"
           /\ Frame(cmd) = s \o cmd.password
           /\ Frame([cmd EXCEPT !.password = v]) = s \o v
<1> DEFINE x == Pair("type", TypeWords[cmd.type]) \o <<Separator>>
                \o Pair("nonce", <<Numeral[cmd.nonce]>>) \o <<Separator>>
                \o Pair("origin", cmd.origin) \o <<Separator>>
                \o Pair("username", cmd.username) \o <<Separator>>
           k == <<"password", "=">>
<1>1. x \in Seq(Symbols)
  <2>1. \A m \in FrameKeys : Pair(m, Written(cmd)[m]) \in Seq(Symbols)
    BY WrittenIs, PairIs DEF Strings
  <2>2. /\ Pair("type", TypeWords[cmd.type]) \in Seq(Symbols)
        /\ Pair("nonce", <<Numeral[cmd.nonce]>>) \in Seq(Symbols)
        /\ Pair("origin", cmd.origin) \in Seq(Symbols)
        /\ Pair("username", cmd.username) \in Seq(Symbols)
    <3>1. /\ "type" \in FrameKeys /\ "nonce" \in FrameKeys
          /\ "origin" \in TextKeys /\ "username" \in TextKeys
      BY DEF FrameKeys, TextKeys
    <3>2. /\ Written(cmd)["origin"] = cmd["origin"] /\ Written(cmd)["username"] = cmd["username"]
          /\ "origin" \in FrameKeys /\ "username" \in FrameKeys
      BY <3>1, WrittenIs
    <3>3. /\ Written(cmd)["type"] = TypeWords[cmd.type]
          /\ Written(cmd)["nonce"] = <<Numeral[cmd.nonce]>>
      BY WrittenIs
    <3>4. QED
      BY <2>1, <3>1, <3>2, <3>3
  <2>3. <<Separator>> \in Seq(Symbols)
    BY SymbolsAssumption
  <2>4. \A a, b \in Seq(Symbols) : a \o b \in Seq(Symbols)
    BY ConcatProperties
  <2> DEFINE t == Pair("type", TypeWords[cmd.type])
             n == Pair("nonce", <<Numeral[cmd.nonce]>>)
             o == Pair("origin", cmd.origin)
             u == Pair("username", cmd.username)
             e == <<Separator>>
  <2>5. x = t \o e \o n \o e \o o \o e \o u \o e
    OBVIOUS
  <2>6. t \in Seq(Symbols) /\ n \in Seq(Symbols) /\ o \in Seq(Symbols)
        /\ u \in Seq(Symbols) /\ e \in Seq(Symbols)
    BY <2>2, <2>3
  <2> HIDE DEF t, n, o, u, e, x
  <2>7. t \o e \o n \o e \in Seq(Symbols)
    BY <2>4, <2>6
  <2>8. t \o e \o n \o e \o o \o e \in Seq(Symbols)
    BY <2>4, <2>6, <2>7
  <2>9. QED
    BY <2>4, <2>5, <2>6, <2>8
<1>2. k \in Seq(Symbols) /\ Len(k) = 2 /\ k[2] # "\n"
  BY KeysAreSymbols DEF FrameKeys, TextKeys
<1>3. cmd.password \in Seq(Symbols) /\ v \in Seq(Symbols)
  BY DEF Messages, Fields, Strings
<1>4. Frame(cmd) = x \o (k \o cmd.password)
  BY DEF Frame, Pair
<1>5. Frame([cmd EXCEPT !.password = v]) = x \o (k \o v)
  BY DEF Messages, Frame, Pair
<1> HIDE DEF x, k
<1>6. x \o (k \o cmd.password) = (x \o k) \o cmd.password
      /\ x \o (k \o v) = (x \o k) \o v
  <2>1. \A a, b, c \in Seq(Symbols) : (a \o b) \o c = a \o (b \o c)
    BY ConcatAssociative
  <2> DEFINE w == cmd.password
  <2> HIDE DEF w
  <2>2. w \in Seq(Symbols)
    BY <1>3 DEF w
  <2>3. x \o (k \o w) = (x \o k) \o w
    BY <2>1, <2>2, <1>1, <1>2
  <2>4. x \o (k \o v) = (x \o k) \o v
    BY <2>1, <1>1, <1>2, <1>3
  <2>5. QED
    BY <2>3, <2>4 DEF w
<1>7. /\ x \o k \in Seq(Symbols) /\ Len(x \o k) = Len(x) + 2 /\ Len(x) \in Nat
      /\ \A i \in 1..Len(x) + 2 : (x \o k)[i] = IF i <= Len(x) THEN x[i] ELSE k[i - Len(x)]
  <2>1. Len(x) \in Nat
    BY <1>1, LenProperties
  <2>2. /\ x \o k \in Seq(Symbols) /\ Len(x \o k) = Len(x) + Len(k)
        /\ \A i \in 1..Len(x) + Len(k) :
              (x \o k)[i] = IF i <= Len(x) THEN x[i] ELSE k[i - Len(x)]
    BY <1>1, <1>2, ConcatProperties
  <2>3. QED
    BY <1>2, <2>1, <2>2
<1>8. (x \o k)[Len(x \o k)] # "\n"
  <2>1. Len(x) + 2 \in 1..Len(x) + 2 /\ ~(Len(x) + 2 <= Len(x)) /\ Len(x) + 2 - Len(x) = 2
    BY <1>7
  <2>2. QED
    BY <2>1, <1>2, <1>7
<1>9. x \o k # <<>>
  BY <1>7, EmptySeq
<1>10. QED
  BY <1>4, <1>5, <1>6, <1>7, <1>8, <1>9 DEF Strings

\* What is decoded depends on the line without its last newlines.
LEMMA SameTrimmed ==
  ASSUME NEW f, NEW g, f # <<>>, Len(f) < MaxFrame, g # <<>>, Len(g) < MaxFrame,
         Trimmed(f) = Trimmed(g)
  PROVE  Decoded(f) = Decoded(g)
BY DEF Decoded

\* No other command comes back: a separator in a text ends it, and a last
\* newline is lost.
LEMMA OnlyPlainDecodes ==
  ASSUME NEW cmd \in Messages, cmd # NoCommand, Decoded(Frame(cmd)) = cmd
  PROVE  Plain(cmd)
<1> DEFINE p == Trimmed(cmd.password)
           cut == [cmd EXCEPT !.password = p]
<1>1. Frame(cmd) \in Strings
  BY FrameIs
<1>2. \A key \in TextKeys : SeparatorFree(cmd[key])
  BY <1>1, DecodedIs
<1>3. \A key \in TextKeys : ~Contains(cmd[key], Separator)
  BY <1>2 DEF SeparatorFree, Contains
<1>4. cmd.password \in Fields /\ SeparatorFree(cmd.password)
  BY <1>2 DEF Messages, TextKeys
<1>5. p \in Fields /\ SeparatorFree(p) /\ Trimmed(p) = p
  BY <1>4, TrimmedField
<1> HIDE DEF p
<1>6. cut \in Messages /\ cut.password = p
      /\ cut.origin = cmd.origin /\ cut.username = cmd.username
  BY <1>5 DEF Messages
<1>7. Plain(cut)
  <2>1. \A key \in TextKeys : SeparatorFree(cut[key])
    BY <1>2, <1>5, <1>6 DEF TextKeys
  <2>2. QED
    BY <2>1, <1>5, <1>6 DEF Plain, SeparatorFree, Contains
<1>8. Decoded(Frame(cut)) = cut /\ Trimmed(Frame(cut)) = Frame(cut)
  BY <1>6, <1>7, DecodesOwnFrame, FrameTrimmed
<1>9. Trimmed(Frame(cmd)) = Frame(cut)
  <2>1. PICK s \in Strings : /\ s # <<>> /\ s[Len(s)] # "\n"
                             /\ Frame(cmd) = s \o cmd.password
                             /\ Frame(cut) = s \o p
    BY <1>5, FrameEnds
  <2>2. cmd.password \in Strings
    BY <1>4 DEF Fields
  <2>3. Trimmed(s \o cmd.password) = s \o Trimmed(cmd.password)
    BY <2>1, <2>2, TrimmedConcat
  <2>4. QED
    BY <2>1, <2>3 DEF p
<1>10. /\ Frame(cmd) # <<>> /\ Len(Frame(cmd)) < MaxFrame
       /\ Frame(cut) # <<>> /\ Len(Frame(cut)) < MaxFrame
  BY <1>6, FrameIs, FrameLength, CodecAssumption
<1> HIDE DEF cut
<1>11. Decoded(Frame(cmd)) = Decoded(Frame(cut))
  BY <1>8, <1>9, <1>10, SameTrimmed
<1>12. cmd.password = p
  BY <1>6, <1>8, <1>11
<1>13. QED
  BY <1>3, <1>12 DEF Plain, p

LEMMA CodecInitInv == Init => CodecInv
BY EmptySeq DEF Init, CodecInv, Strings

LEMMA CodecNextInv == CodecInv /\ [Next]_vars => CodecInv'
<1> SUFFICES ASSUME CodecInv, [Next]_vars PROVE CodecInv'
  OBVIOUS
<1>1. ASSUME NEW cmd \in Commands, NEW size \in BufferSizes, Encode(cmd, size)
      PROVE  CodecInv'
  <2>1. cmd \in Messages
    BY <1>1, SentIs DEF Encode, Encodable
  <2>2. Frame(cmd) \in Strings
    BY <2>1, FrameIs
  <2>3. QED
    BY <1>1, <2>1, <2>2 DEF Encode, CodecInv
<1>2. ASSUME NEW text \in Lines, Write(text)
      PROVE  CodecInv'
  <2>1. text \in Strings
    BY SymbolsAssumption DEF Strings
  <2>2. sent = NoCommand
    BY <1>2, FrameIs DEF Write, CodecInv
  <2>3. QED
    BY <1>2, <2>1, <2>2 DEF Write, CodecInv
<1>3. CASE Decode
  BY <1>3 DEF Decode, CodecInv
<1>4. CASE Taken
  BY <1>4, EmptySeq DEF Taken, CodecInv, Strings
<1>5. CASE UNCHANGED vars
  BY <1>5 DEF vars, CodecInv
<1>6. QED
  BY <1>1, <1>2, <1>3, <1>4, <1>5 DEF Next

LEMMA CodecInvSound == CodecInv => RoundTrip
<1> SUFFICES ASSUME CodecInv, received # <<>>
             PROVE  LET cmd == received[1]
                    IN  /\ sent # NoCommand => (cmd = sent <=> Plain(sent))
                        /\ cmd # NoCommand => (Decoded(Frame(cmd)) = cmd <=> Plain(cmd))
  BY DEF RoundTrip
<1>1. received[1] = Decoded(line) /\ line \in Strings
  BY DEF CodecInv
<1>2. ASSUME sent # NoCommand PROVE received[1] = sent <=> Plain(sent)
  BY <1>1, <1>2, DecodesOwnFrame, OnlyPlainDecodes DEF CodecInv
<1>3. ASSUME received[1] # NoCommand
      PROVE  Decoded(Frame(received[1])) = received[1] <=> Plain(received[1])
  BY <1>1, <1>3, DecodedIs, DecodesOwnFrame, OnlyPlainDecodes
<1>4. QED
  BY <1>2, <1>3

\* A command comes back from its own encoding exactly when no text of it holds
\* the separator and its password does not end in a newline, whether a host
\* encodes it or it was decoded from any line at all: for all texts, lines and
\* widths of the fields.
THEOREM RoundTrips == Spec => []RoundTrip
BY CodecInitInv, CodecNextInv, CodecInvSound, PTL DEF Spec

=============================================================================
