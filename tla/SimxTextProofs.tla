----------------------------- MODULE SimxTextProofs -----------------------------
(***************************************************************************)
(* Proofs that str_quotes copies the field between the first pair of       *)
(* marks, whatever the text and the size of the destination, and that the  *)
(* loop of _strchrcpy finds the fields of any text, for a table of any     *)
(* size.                                                                   *)
(***************************************************************************)
EXTENDS SimxText, TLAPS, FiniteSetTheorems, SequenceTheorems, WellFoundedInduction

\* A set of places has a least one.
LEMMA LeastIsThere ==
  ASSUME NEW S \in SUBSET Nat, S # {}
  PROVE  /\ Min(S) \in S
         /\ \A j \in S : Min(S) <= j
<1>1. PICK p \in S : \A j \in S : <<j, p>> \notin OpToRel(<, Nat)
  BY NatLessThanWellFounded, WFMin
<1>2. ASSUME NEW j \in S PROVE p <= j
  <2>1. <<j, p>> \in Nat \X Nat /\ <<j, p>>[1] = j /\ <<j, p>>[2] = p
    OBVIOUS
  <2>2. ~(j < p)
    BY <1>1, <2>1, Zenon DEF OpToRel
  <2>3. j \in Nat /\ p \in Nat
    OBVIOUS
  <2> QED BY <2>2, <2>3
<1> QED BY <1>2 DEF Min

\* With two marks there is a first one and a next one.
LEMMA PairOfMarks ==
  ASSUME NEW s \in Seq(Characters), ~(Cardinality(Positions(Quote, s)) < 2),
         NEW first, first = Min(Positions(Quote, s)),
         NEW last, last = Min(Positions(Quote, s) \ {first})
  PROVE  first \in 1..Len(s) /\ last \in 1..Len(s) /\ first < last
<1> DEFINE marks == Positions(Quote, s)
<1>1. Len(s) \in Nat /\ DOMAIN s = 1..Len(s)
  OBVIOUS
<1>2. marks \in SUBSET (1..Len(s)) /\ marks \in SUBSET Nat
  BY <1>1 DEF Positions
<1>3. IsFiniteSet(marks) /\ Cardinality(marks) \in Nat /\ ~(Cardinality(marks) < 2)
  <2>1. IsFiniteSet(1..Len(s))
    BY <1>1, FS_Interval
  <2>2. IsFiniteSet(marks)
    BY <1>2, <2>1, FS_Subset
  <2> QED BY <2>2, FS_CardinalityType
<1> HIDE DEF marks
<1>4. marks # {}
  BY <1>3, FS_EmptySet
<1>5. first \in marks /\ \A j \in marks : first <= j
  BY <1>2, <1>4, LeastIsThere DEF marks
<1>6. marks \ {first} # {}
  <2>1. Cardinality(marks \ {first}) = Cardinality(marks) - 1 /\ IsFiniteSet(marks \ {first})
    BY <1>3, <1>5, FS_RemoveElement
  <2> QED BY <1>3, <2>1, FS_EmptySet
<1>7. last \in marks \ {first}
  BY <1>2, <1>6, LeastIsThere DEF marks
<1> QED BY <1>1, <1>2, <1>5, <1>7

\* The field and the text around it.
LEMMA FieldSplits ==
  ASSUME NEW s \in Seq(Characters), NEW p \in 1..Len(s), NEW j \in 1..Len(s), p < j
  PROVE  /\ SubSeq(s, p + 1, j - 1) \in Seq(Characters)
         /\ Len(SubSeq(s, p + 1, j - 1)) = j - p - 1
         /\ s = SubSeq(s, 1, p) \o SubSeq(s, p + 1, j - 1) \o SubSeq(s, j, Len(s))
<1> DEFINE a == SubSeq(s, 1, p)
           b == SubSeq(s, p + 1, j - 1)
           c == SubSeq(s, j, Len(s))
           n == Len(s)
<1>1. n \in Nat /\ \A k \in 1..n : s[k] \in Characters
  OBVIOUS
<1>2. /\ a \in Seq(Characters) /\ Len(a) = p /\ \A k \in 1..p : a[k] = s[k]
  <2>1. \A k \in 1..p : s[k] \in Characters
    BY <1>1
  <2> QED BY <1>1, <2>1, SubSeqProperties
<1>3. /\ b \in Seq(Characters) /\ Len(b) = j - p - 1 /\ \A k \in 1..(j - p - 1) : b[k] = s[p + k]
  <2>1. \A k \in (p + 1)..(j - 1) : s[k] \in Characters
    BY <1>1
  <2> QED BY <1>1, <2>1, SubSeqProperties
<1>4. /\ c \in Seq(Characters) /\ Len(c) = n - j + 1
      /\ \A k \in 1..(n - j + 1) : c[k] = s[j + k - 1]
  <2>1. \A k \in j..n : s[k] \in Characters
    BY <1>1
  <2> QED BY <1>1, <2>1, SubSeqProperties
<1> HIDE DEF a, b, c, n
<1>5. /\ a \o b \in Seq(Characters) /\ Len(a \o b) = j - 1
      /\ \A k \in 1..(j - 1) : (a \o b)[k] = s[k]
  <2>1. /\ a \o b \in Seq(Characters) /\ Len(a \o b) = Len(a) + Len(b)
        /\ \A k \in 1..(Len(a) + Len(b)) : (a \o b)[k] = IF k <= Len(a) THEN a[k] ELSE b[k - Len(a)]
    BY <1>2, <1>3, ConcatProperties
  <2>2. Len(a) + Len(b) = j - 1
    BY <1>2, <1>3
  <2>3. ASSUME NEW k \in 1..(j - 1) PROVE (a \o b)[k] = s[k]
    <3>1. CASE k <= p
      BY <1>2, <2>1, <2>2, <3>1
    <3>2. CASE ~(k <= p)
      <4>1. k - p \in 1..(j - p - 1) /\ p + (k - p) = k
        BY <3>2
      <4>2. b[k - p] = s[k]
        BY <1>3, <4>1
      <4> QED BY <1>2, <2>1, <2>2, <3>2, <4>2
    <3> QED BY <3>1, <3>2
  <2> QED BY <2>1, <2>2, <2>3
<1>6. /\ (a \o b) \o c \in Seq(Characters) /\ Len((a \o b) \o c) = n
      /\ \A k \in 1..n : ((a \o b) \o c)[k] = s[k]
  <2> DEFINE ab == a \o b
  <2> HIDE DEF ab
  <2>1. /\ ab \o c \in Seq(Characters) /\ Len(ab \o c) = Len(ab) + Len(c)
        /\ \A k \in 1..(Len(ab) + Len(c)) : (ab \o c)[k] = IF k <= Len(ab) THEN ab[k] ELSE c[k - Len(ab)]
    <3>1. ab \in Seq(Characters) /\ c \in Seq(Characters)
      BY <1>4, <1>5 DEF ab
    <3> QED BY <3>1, ConcatProperties
  <2>2. Len(ab) = j - 1 /\ Len(ab) + Len(c) = n /\ \A k \in 1..(j - 1) : ab[k] = s[k]
    BY <1>1, <1>4, <1>5 DEF ab, n
  <2>3. ASSUME NEW k \in 1..n PROVE (ab \o c)[k] = s[k]
    <3>1. CASE k <= j - 1
      BY <2>1, <2>2, <3>1
    <3>2. CASE ~(k <= j - 1)
      <4> DEFINE m == k - (j - 1)
      <4>1. m \in 1..(n - j + 1) /\ j + m - 1 = k
        BY <1>1, <3>2
      <4>2. c[m] = s[k]
        BY <1>4, <4>1
      <4> QED BY <2>1, <2>2, <3>2, <4>2
    <3> QED BY <3>1, <3>2
  <2> QED BY <2>1, <2>2, <2>3 DEF ab
<1>7. s = (a \o b) \o c
  BY <1>6, SeqEqual DEF n
<1> QED BY <1>3, <1>7 DEF a, b, c, n

\* What str_quotes does to any text.
LEMMA QuotesCopy ==
  ASSUME text \in Seq(Characters)
  PROVE  FieldsCopied
<1> DEFINE got   == str_quotes(text)
           marks == Positions(Quote, text)
           first == CHOOSE p \in marks : \A j \in marks : p <= j
           last  == CHOOSE p \in marks \ {first} : \A j \in marks \ {first} : p <= j
<1>1. CASE Cardinality(marks) < 2
  BY <1>1 DEF FieldsCopied, str_quotes
<1>2. CASE ~(Cardinality(marks) < 2)
  <2>1. first = Min(marks) /\ last = Min(marks \ {first})
    BY DEF Min
  <2>2. got = Field(text, first + 1, last)
    BY <1>2, <2>1 DEF str_quotes
  <2>3. first \in 1..Len(text) /\ last \in 1..Len(text) /\ first < last
    BY <1>2, <2>1, PairOfMarks
  <2> HIDE DEF got, first, last
  <2> DEFINE copy == SubSeq(text, first + 1, last - 1)
  <2>4. /\ copy \in Seq(Characters) /\ Len(copy) = last - first - 1
        /\ text = SubSeq(text, 1, first) \o copy \o SubSeq(text, last, Len(text))
    BY <2>3, FieldSplits
  <2> HIDE DEF copy
  <2>5. copy # Untouched /\ Untouched # <<>>
    <3>1. Len(Untouched) = 1 /\ Untouched[1] = "untouched" /\ Len(<<>>) = 0
      BY DEF Untouched
    <3>2. "untouched" \notin Characters
      BY LetterAssumption DEF Characters, Quote, Comma
    <3>3. Len(copy) = 1 => copy[1] \in Characters
      <4>1. Len(copy) = 1 => 1 \in 1..Len(copy)
        OBVIOUS
      <4> QED BY <2>4, <4>1, ElementOfSeq
    <3>4. copy = Untouched => Len(copy) = 1 /\ copy[1] = "untouched"
      BY <3>1
    <3> QED BY <3>1, <3>2, <3>3, <3>4
  <2>6. MaxLen \in Nat \ {0}
    BY SizeAssumption
  <2>7. /\ got.rest \in {last, last + 1}
        /\ got.to # Untouched => Len(got.to) < MaxLen
        /\ got.to = Untouched <=> last - first - 1 >= MaxLen /\ last - first # 2
        /\ got.to \notin {Untouched, <<>>} =>
             text = SubSeq(text, 1, first) \o got.to \o SubSeq(text, last, Len(text))
        /\ got.to = <<>> => last - first \in {1, 2}
    <3>1. CASE last - (first + 1) = 1
      <4>1. got = [to |-> <<>>, rest |-> last]
        BY <2>2, <3>1 DEF Field
      <4>2. last - first = 2 /\ Len(<<>>) = 0
        BY <2>3, <3>1
      <4> QED BY <2>5, <2>6, <4>1, <4>2
    <3>2. CASE last - (first + 1) # 1 /\ last - (first + 1) < MaxLen
      <4>1. got = [to |-> copy, rest |-> last + 1]
        BY <2>2, <3>2 DEF Field, copy
      <4>2. copy = <<>> => last - first = 1
        BY <2>3, <2>4
      <4>3. last - first - 1 < MaxLen /\ Len(copy) < MaxLen
        BY <2>3, <2>4, <2>6, <3>2
      <4>4. ~(last - first - 1 >= MaxLen)
        BY <2>3, <2>6, <4>3
      <4>5. got.to = copy /\ got.rest = last + 1
        BY <4>1
      <4> QED BY <2>4, <2>5, <4>2, <4>3, <4>4, <4>5
    <3>3. CASE last - (first + 1) # 1 /\ ~(last - (first + 1) < MaxLen)
      <4>1. got = [to |-> Untouched, rest |-> last]
        BY <2>2, <3>3 DEF Field
      <4> QED BY <2>3, <2>5, <2>6, <3>3, <4>1
    <3> QED BY <3>1, <3>2, <3>3
  <2> QED BY <1>2, <2>7 DEF FieldsCopied, got, first, last
<1> QED BY <1>1, <1>2

\* The loop starts with a text.
LEMMA TextIsTyped ==
  ASSUME Init
  PROVE  text \in Seq(Characters)
<1>1. PICK n \in 0..MaxText : text \in [1..n -> Characters]
  BY DEF Init, BoundedSeq, SeqOf
<1>2. n \in Nat
  BY SizeAssumption
<1> QED BY <1>1, <1>2

\* str_quotes copies what the first pair of marks encloses, if it fits with its
\* terminator, and goes on behind the pair: for texts and buffers of any size.
THEOREM QuotesAlwaysCopy == Spec => []FieldsCopied
<1> DEFINE IsText == text \in Seq(Characters)
<1>1. Init => IsText
  BY TextIsTyped
<1>2. IsText /\ [Next]_vars => IsText'
  BY DEF Next, ReadComma, ReadOther, Return, vars
<1>3. IsText => FieldsCopied
  BY QuotesCopy
<1> QED BY <1>1, <1>2, <1>3, PTL DEF Spec

-----------------------------------------------------------------------------
(* The loop of _strchrcpy.                                                 *)

\* The loop's invariant: the tokens are typed and are the fields of the part
\* read, the last one ends where the reading is, and a token has been opened
\* for each comma read.
Typed ==
  /\ text \in Seq(Characters) /\ i \in 0..Len(text) /\ done \in BOOLEAN
  /\ tokens \in Seq([str : Nat, size : Nat]) /\ Len(tokens) \in 1..Size

Commas == Positions(Comma, text)

IsField(k) ==
  /\ (Start(k)..(End(k) - 1)) \cap Commas = {}
  /\ tokens[k].str = 0 => k = 1 /\ tokens[k].size = 0 /\ 1 \in Commas

Follows(k) == End(k) \in Commas /\ Start(k + 1) = End(k) + 1

ReadSoFar ==
  /\ Start(1) = 1 /\ End(Len(tokens)) = i + 1
  /\ \A k \in 1..Len(tokens) : IsField(k)
  /\ \A k \in 1..(Len(tokens) - 1) : Follows(k)

OnePerComma == Cardinality(Commas \cap (1..i)) = Len(tokens) - 1

Returned == done => i = Len(text) \/ (Len(tokens) = Size /\ i + 1 \in Commas)

LoopInv == Typed /\ ReadSoFar /\ OnePerComma /\ Returned

\* What the commas are, as places.
LEMMA CommasArePlaces ==
  ASSUME text \in Seq(Characters)
  PROVE  /\ Len(text) \in Nat
         /\ Commas \subseteq 1..Len(text) /\ IsFiniteSet(Commas)
         /\ \A p \in 1..Len(text) : p \in Commas <=> text[p] = Comma
<1>1. Len(text) \in Nat /\ DOMAIN text = 1..Len(text)
  OBVIOUS
<1>2. /\ Commas \subseteq 1..Len(text)
      /\ \A p \in 1..Len(text) : p \in Commas <=> text[p] = Comma
  BY <1>1 DEF Commas, Positions
<1>3. IsFiniteSet(1..Len(text))
  BY <1>1, FS_Interval
<1> QED BY <1>1, <1>2, <1>3, FS_Subset

\* Reading one place further reads one comma more, or none.
LEMMA CommasReadOn ==
  ASSUME Typed, i < Len(text)
  PROVE  LET now == Commas \cap (1..i)
             new == Commas \cap (1..(i + 1))
         IN  /\ Cardinality(now) \in Nat
             /\ i + 1 \in Commas => Cardinality(new) = Cardinality(now) + 1
             /\ i + 1 \notin Commas => new = now
<1> DEFINE now == Commas \cap (1..i)
           new == Commas \cap (1..(i + 1))
<1>1. i \in Nat /\ text \in Seq(Characters)
  BY DEF Typed
<1>2. IsFiniteSet(now)
  <2>1. now \subseteq Commas
    OBVIOUS
  <2> QED BY <1>1, <2>1, CommasArePlaces, FS_Subset
<1>3. Cardinality(now) \in Nat
  BY <1>2, FS_CardinalityType
<1>4. 1..(i + 1) = (1..i) \cup {i + 1} /\ i + 1 \notin 1..i
  BY <1>1
<1>5. ASSUME i + 1 \in Commas PROVE Cardinality(new) = Cardinality(now) + 1
  <2>1. new = now \cup {i + 1} /\ i + 1 \notin now
    BY <1>4, <1>5
  <2> HIDE DEF now, new
  <2> QED BY <1>2, <2>1, FS_AddElement
<1>6. i + 1 \notin Commas => new = now
  BY <1>4
<1> QED BY <1>3, <1>5, <1>6

LEMMA LoopInvInit ==
  ASSUME Init
  PROVE  LoopInv
<1> DEFINE first == [str |-> IF text # <<>> /\ text[1] = Comma THEN 0 ELSE 1, size |-> 0]
<1>1. text \in Seq(Characters) /\ Size \in Nat \ {0}
  BY TextIsTyped, SizeAssumption
<1>2. /\ i = 0 /\ done = FALSE /\ tokens = <<first>> /\ first \in [str : Nat, size : Nat]
      /\ first.str \in {0, 1} /\ first.size = 0
  BY DEF Init
<1>3. first.str = 0 => 1 \in Commas
  <2>1. first.str = 0 => text # <<>> /\ text[1] = Comma
    OBVIOUS
  <2>2. text # <<>> => 1 \in 1..Len(text)
    BY <1>1
  <2> QED BY <1>1, <2>1, <2>2, CommasArePlaces
<1> HIDE DEF first
<1>4. Len(tokens) = 1 /\ tokens[1] = first /\ tokens \in Seq([str : Nat, size : Nat])
  BY <1>2
<1>5. Typed
  <2>1. 1 \in 1..Size /\ 0 \in 0..Len(text)
    BY <1>1
  <2> QED BY <1>1, <1>2, <1>4, <2>1 DEF Typed
<1>6. Start(1) = 1 /\ End(1) = 1
  BY <1>2, <1>4 DEF Start, End
<1>7. IsField(1)
  BY <1>2, <1>3, <1>4, <1>6 DEF IsField
<1>8. ReadSoFar
  BY <1>2, <1>4, <1>6, <1>7 DEF ReadSoFar
<1>9. OnePerComma
  <2>1. Commas \cap (1..0) = {}
    OBVIOUS
  <2> QED BY <1>2, <1>4, <2>1, FS_EmptySet DEF OnePerComma
<1> QED BY <1>2, <1>5, <1>8, <1>9 DEF LoopInv, Returned

\* A token a step leaves alone stays a field.
LEMMA TokenKept ==
  ASSUME NEW k, tokens'[k] = tokens[k], text' = text
  PROVE  Start(k)' = Start(k) /\ End(k)' = End(k) /\ (IsField(k) => IsField(k)')
<1>1. Commas' = Commas
  BY DEF Commas
<1>2. Start(k)' = Start(k) /\ End(k)' = End(k)
  BY DEF Start, End
<1> QED BY <1>1, <1>2 DEF IsField

\* The comma opens the next token, at the place behind it.
LEMMA CommaOpens ==
  ASSUME LoopInv, ReadComma, ~Full
  PROVE  LoopInv'
<1>0. PICK n : n = Len(tokens)
  OBVIOUS
<1> DEFINE new == [str |-> i + 2, size |-> 0]
<1>1. /\ text \in Seq(Characters) /\ i \in Nat /\ i \in 0..Len(text) /\ Size \in Nat
      /\ tokens \in Seq([str : Nat, size : Nat]) /\ n \in 1..Size /\ n \in Nat
  BY <1>0, SizeAssumption DEF LoopInv, Typed
<1>2. /\ ~done /\ i < Len(text) /\ text[i + 1] = Comma /\ text' = text /\ done' = done
      /\ tokens' = Append(tokens, new) /\ i' = i + 1
  BY DEF ReadComma, Reads
<1>3. i + 1 \in 1..Len(text) /\ i + 1 \in Commas /\ Commas' = Commas
  <2>1. i + 1 \in 1..Len(text)
    BY <1>1, <1>2
  <2> QED BY <1>1, <1>2, <2>1, CommasArePlaces DEF Commas
<1>4. new \in [str : Nat, size : Nat] /\ new.str = i + 2 /\ new.size = 0
  BY <1>1
<1> HIDE DEF new
<1>5. /\ tokens' \in Seq([str : Nat, size : Nat]) /\ Len(tokens') = n + 1
      /\ tokens'[n + 1] = new /\ \A k \in 1..n : tokens'[k] = tokens[k]
  BY <1>0, <1>1, <1>2, <1>4
<1>6. Typed'
  <2>1. n + 1 \in 1..Size
    BY <1>0, <1>1 DEF Full
  <2>2. i + 1 \in 0..Len(text)
    BY <1>1, <1>2
  <2>3. done' \in BOOLEAN
    BY <1>2 DEF LoopInv, Typed
  <2> QED BY <1>1, <1>2, <1>5, <2>1, <2>2, <2>3 DEF Typed
<1>7. Start(n + 1)' = i + 2 /\ End(n + 1)' = i + 2
  BY <1>1, <1>4, <1>5 DEF Start, End
<1>8. \A k \in 1..n : Start(k)' = Start(k) /\ End(k)' = End(k) /\ (IsField(k) => IsField(k)')
  BY <1>2, <1>5, TokenKept
<1>9. ReadSoFar'
  <2>1. (Start(1) = 1)' /\ (End(Len(tokens)) = i + 1)'
    <3>1. 1 \in 1..n
      BY <1>1
    <3>2. Start(1) = 1
      BY DEF LoopInv, ReadSoFar
    <3>3. i' + 1 = i + 2
      BY <1>1, <1>2
    <3>4. Start(1)' = 1
      BY <1>8, <3>1, <3>2
    <3>5. End(Len(tokens))' = End(n + 1)'
      BY <1>5 DEF End, Start
    <3> QED BY <1>7, <3>3, <3>4, <3>5
  <2>2. \A k \in 1..(n + 1) : IsField(k)'
    <3>1. \A k \in 1..n : IsField(k)'
      BY <1>0, <1>8 DEF LoopInv, ReadSoFar
    <3>2. IsField(n + 1)'
      <4>1. (Start(n + 1)..(End(n + 1) - 1))' = {}
        BY <1>1, <1>7
      <4>2. tokens'[n + 1].str # 0
        BY <1>1, <1>4, <1>5
      <4> QED BY <1>7, <4>1, <4>2 DEF IsField
    <3> QED BY <1>1, <3>1, <3>2
  <2>3. \A k \in 1..n : Follows(k)'
    <3>1. \A k \in 1..(n - 1) : Follows(k)'
      <4>1. ASSUME NEW k \in 1..(n - 1) PROVE Follows(k)'
        <5>1. k \in 1..n /\ k + 1 \in 1..n
          BY <1>1
        <5>2. Follows(k)
          BY <1>0 DEF LoopInv, ReadSoFar
        <5> QED BY <1>3, <1>8, <5>1, <5>2 DEF Follows
      <4> QED BY <4>1
    <3>2. Follows(n)'
      <4>1. End(n) = i + 1 /\ n \in 1..n
        BY <1>0, <1>1 DEF LoopInv, ReadSoFar
      <4>2. End(n)' = i + 1 /\ i + 2 = i + 1 + 1
        BY <1>1, <1>8, <4>1
      <4> QED BY <1>3, <1>7, <4>2 DEF Follows
    <3> QED BY <1>1, <3>1, <3>2
  <2>4. (n + 1) - 1 = n
    BY <1>1
  <2> QED BY <1>5, <2>1, <2>2, <2>3, <2>4 DEF ReadSoFar
<1>10. OnePerComma'
  <2>1. Cardinality(Commas \cap (1..i)) = n - 1
    BY <1>0 DEF LoopInv, OnePerComma
  <2>2. Cardinality(Commas \cap (1..(i + 1))) = n - 1 + 1
    BY <1>2, <1>3, <2>1, CommasReadOn DEF LoopInv
  <2>3. n - 1 + 1 = (n + 1) - 1
    BY <1>1
  <2> QED BY <1>2, <1>3, <1>5, <2>2, <2>3 DEF OnePerComma
<1> QED BY <1>2, <1>6, <1>9, <1>10 DEF LoopInv, Returned

\* Any other character belongs to the last token.
LEMMA OtherGrows ==
  ASSUME LoopInv, ReadOther
  PROVE  LoopInv'
<1>0. PICK n : n = Len(tokens)
  OBVIOUS
<1>1. /\ text \in Seq(Characters) /\ i \in Nat /\ Size \in Nat /\ done \in BOOLEAN
      /\ tokens \in Seq([str : Nat, size : Nat]) /\ n \in 1..Size /\ n \in Nat
  BY <1>0, SizeAssumption DEF LoopInv, Typed
<1>2. /\ ~done /\ i < Len(text) /\ text[i + 1] # Comma /\ text' = text /\ done' = done
      /\ tokens' = [tokens EXCEPT ![n].size = @ + 1] /\ i' = i + 1
  BY <1>0 DEF ReadOther, Reads
<1>3. i + 1 \in 1..Len(text) /\ i + 1 \notin Commas /\ Commas' = Commas
  <2>1. i + 1 \in 1..Len(text)
    BY <1>1, <1>2
  <2> QED BY <1>1, <1>2, <2>1, CommasArePlaces DEF Commas
<1>4. n \in 1..n /\ tokens[n] \in [str : Nat, size : Nat]
  <2>1. n \in 1..n
    BY <1>1
  <2> QED BY <1>0, <1>1, <2>1, ElementOfSeq
<1>5. /\ tokens' \in Seq([str : Nat, size : Nat]) /\ Len(tokens') = n
      /\ \A k \in 1..n : k # n => tokens'[k] = tokens[k]
      /\ tokens'[n].str = tokens[n].str /\ tokens'[n].size = tokens[n].size + 1
  BY <1>0, <1>1, <1>2, <1>4
<1>6. Typed'
  <2>1. i + 1 \in 0..Len(text)
    BY <1>1, <1>2
  <2> QED BY <1>1, <1>2, <1>5, <2>1 DEF Typed
<1>7. /\ \A k \in 1..n : IsField(k)
      /\ \A k \in 1..(n - 1) : Follows(k)
      /\ Start(1) = 1 /\ End(n) = i + 1
  BY <1>0 DEF LoopInv, ReadSoFar
<1>8. Start(n)' = Start(n) /\ End(n)' = i + 2
  <2>1. Start(n)' = Start(n) /\ Start(n) \in Nat
    BY <1>4, <1>5 DEF Start
  <2>2. Start(n) + tokens[n].size = i + 1
    BY <1>7 DEF End
  <2>3. ASSUME NEW a \in Nat, NEW b \in Nat, a + b = i + 1 PROVE a + (b + 1) = i + 2
    BY <1>1, <2>3
  <2>4. Start(n) + (tokens[n].size + 1) = i + 2
    BY <1>4, <2>1, <2>2, <2>3
  <2> QED BY <1>5, <2>1, <2>4 DEF End
<1>9. \A k \in 1..n : Start(k)' = Start(k)
  BY <1>5, <1>8 DEF Start
<1>10. \A k \in 1..n : k # n => End(k)' = End(k) /\ IsField(k)'
  BY <1>2, <1>5, <1>7, TokenKept
<1>11. IsField(n)'
  <2>1. ((Start(n)..(End(n) - 1)) \cap Commas)' = {}
    <3>1. Start(n) \in Nat /\ End(n) = i + 1
      BY <1>4, <1>7 DEF Start
    <3>2. ((Start(n)..(End(n) - 1)) \cap Commas) = {}
      BY <1>4, <1>7 DEF IsField
    <3>3. \A p \in Start(n)..(i + 1) : p \in Start(n)..((i + 1) - 1) \/ p = i + 1
      BY <1>1, <3>1
    <3>4. (Start(n)..(i + 1)) \cap Commas = {}
      BY <1>3, <3>1, <3>2, <3>3
    <3>5. (i + 2) - 1 = i + 1
      BY <1>1
    <3> QED BY <1>3, <1>8, <3>4, <3>5
  <2>2. tokens'[n].str # 0
    <3>1. SUFFICES ASSUME tokens[n].str = 0 PROVE FALSE
      BY <1>5
    <3>2. tokens[n].size = 0 /\ 1 \in Commas
      BY <1>4, <1>7, <3>1 DEF IsField
    <3>3. End(n) = 1
      BY <3>1, <3>2 DEF Start, End
    <3>4. i + 1 = 1
      BY <1>7, <3>3
    <3> QED BY <1>3, <3>2, <3>4
  <2> QED BY <2>1, <2>2 DEF IsField
<1>12. ReadSoFar'
  <2>1. (Start(1) = 1)' /\ (End(Len(tokens)) = i + 1)'
    <3>1. 1 \in 1..n /\ i' + 1 = i + 2
      BY <1>1, <1>2
    <3>2. End(Len(tokens))' = End(n)'
      BY <1>5 DEF End, Start
    <3> QED BY <1>7, <1>8, <1>9, <3>1, <3>2
  <2>2. \A k \in 1..n : IsField(k)'
    BY <1>10, <1>11
  <2>3. ASSUME NEW k \in 1..(n - 1) PROVE Follows(k)'
    <3>1. k \in 1..n /\ k # n /\ k + 1 \in 1..n
      BY <1>1
    <3>2. Follows(k)
      BY <1>7
    <3> QED BY <1>3, <1>9, <1>10, <3>1, <3>2 DEF Follows
  <2> QED BY <1>5, <2>1, <2>2, <2>3 DEF ReadSoFar
<1>13. OnePerComma'
  <2>1. Cardinality(Commas \cap (1..i)) = n - 1
    BY <1>0 DEF LoopInv, OnePerComma
  <2>2. Cardinality(Commas \cap (1..(i + 1))) = n - 1
    BY <1>2, <1>3, <2>1, CommasReadOn DEF LoopInv
  <2> QED BY <1>2, <1>3, <1>5, <2>2 DEF OnePerComma
<1> QED BY <1>2, <1>6, <1>12, <1>13 DEF LoopInv, Returned

\* With nothing read, the loop ends or goes on as it is.
LEMMA NothingRead ==
  ASSUME LoopInv, UNCHANGED <<text, i, tokens>>, done' \in BOOLEAN, Returned'
  PROVE  LoopInv'
<1>1. Typed' /\ ReadSoFar' /\ OnePerComma'
  BY DEF LoopInv, Typed, ReadSoFar, OnePerComma, IsField, Follows, Start, End, Commas
<1> QED BY <1>1 DEF LoopInv

\* No step of _strchrcpy breaks its loop's invariant.
LEMMA LoopInvNext ==
  ASSUME LoopInv, [Next]_vars
  PROVE  LoopInv'
<1>1. CASE ReadComma /\ ~Full
  BY <1>1, CommaOpens
<1>2. CASE ReadComma /\ Full
  <2>1. i < Len(text) /\ text[i + 1] = Comma /\ i \in 0..Len(text) /\ text \in Seq(Characters)
    BY <1>2 DEF ReadComma, Reads, LoopInv, Typed
  <2>2. i + 1 \in 1..Len(text)
    BY <2>1
  <2>3. i + 1 \in Commas
    BY <2>1, <2>2, CommasArePlaces
  <2>4. UNCHANGED <<text, i, tokens>> /\ done' = TRUE
    BY <1>2 DEF ReadComma
  <2>5. Returned'
    BY <1>2, <2>3, <2>4 DEF Returned, Full, Commas
  <2> QED BY <2>4, <2>5, NothingRead
<1>3. CASE ReadOther
  BY <1>3, OtherGrows
<1>4. CASE Return
  <2>1. UNCHANGED <<text, i, tokens>> /\ done' = TRUE /\ i = Len(text)
    BY <1>4 DEF Return
  <2>2. Returned'
    BY <2>1 DEF Returned
  <2> QED BY <2>1, <2>2, NothingRead
<1>5. CASE UNCHANGED vars
  <2>1. UNCHANGED <<text, i, tokens>> /\ done' = done
    BY <1>5 DEF vars
  <2>2. Returned' /\ done' \in BOOLEAN
    BY <2>1 DEF LoopInv, Typed, Returned, Commas
  <2> QED BY <2>1, <2>2, NothingRead
<1> QED BY <1>1, <1>2, <1>3, <1>4, <1>5 DEF Next

\* The invariant says that the tokens are the text's fields.
LEMMA LoopFindsFields ==
  ASSUME LoopInv
  PROVE  TokensAreFields
<1>0. PICK n : n = Len(tokens)
  OBVIOUS
<1>1. /\ n \in 1..Size /\ Size \in Nat /\ n \in Nat /\ i \in Nat /\ i <= Len(text)
      /\ text \in Seq(Characters)
  BY <1>0, SizeAssumption DEF LoopInv, Typed
<1>2. n <= Size /\ Start(1) = 1 /\ End(n) = i + 1
  BY <1>0, <1>1 DEF LoopInv, ReadSoFar
<1>3. ASSUME NEW k \in 1..n
      PROVE  /\ (Start(k)..(End(k) - 1)) \cap Commas = {}
             /\ tokens[k].str = 0 => k = 1 /\ tokens[k].size = 0 /\ 1 \in Commas
             /\ k < n => End(k) \in Commas /\ Start(k + 1) = End(k) + 1
  <2>1. IsField(k)
    BY <1>0 DEF LoopInv, ReadSoFar
  <2>2. k < n => k \in 1..(n - 1)
    BY <1>1
  <2>3. k < n => Follows(k)
    BY <1>0, <2>2 DEF LoopInv, ReadSoFar
  <2> QED BY <2>1, <2>3 DEF IsField, Follows
<1>4. ASSUME done
      PROVE  /\ n = Min({Size, Cardinality(Commas) + 1})
             /\ End(n) \in Commas \cup {Len(text) + 1}
  <2>1. /\ Commas \subseteq 1..Len(text) /\ IsFiniteSet(Commas) /\ Len(text) \in Nat
        /\ Cardinality(Commas) \in Nat
    BY <1>1, CommasArePlaces, FS_CardinalityType
  <2> DEFINE both == {Size, Cardinality(Commas) + 1}
  <2>2. Min(both) \in both /\ \A j \in both : Min(both) <= j
    <3>1. both \in SUBSET Nat /\ both # {}
      BY <1>1, <2>1
    <3> HIDE DEF both
    <3> QED BY <3>1, LeastIsThere
  <2>3. Cardinality(Commas \cap (1..i)) = n - 1
    BY <1>0 DEF LoopInv, OnePerComma
  <2>4. CASE i = Len(text)
    <3>1. Commas \cap (1..i) = Commas
      BY <2>1, <2>4
    <3>2. Cardinality(Commas) = n - 1
      BY <2>3, <3>1
    <3>3. Cardinality(Commas) + 1 = n
      BY <1>1, <3>2
    <3> QED BY <1>1, <1>2, <2>1, <2>2, <2>4, <3>3
  <2>5. CASE n = Size /\ i + 1 \in Commas /\ i # Len(text)
    <3>1. i < Len(text) /\ Typed
      BY <1>1, <2>1, <2>5 DEF LoopInv
    <3>2. Cardinality(Commas \cap (1..(i + 1))) = n - 1 + 1
      BY <2>3, <2>5, <3>1, CommasReadOn
    <3>3. Commas \cap (1..(i + 1)) \subseteq Commas
      OBVIOUS
    <3>4. Cardinality(Commas \cap (1..(i + 1))) <= Cardinality(Commas)
      BY <2>1, <3>3, FS_Subset
    <3>5. Size <= Cardinality(Commas)
      BY <1>1, <2>1, <2>5, <3>2, <3>4
    <3> QED BY <1>1, <1>2, <2>1, <2>2, <2>5, <3>5
  <2>6. i = Len(text) \/ (n = Size /\ i + 1 \in Commas)
    BY <1>0, <1>4 DEF LoopInv, Returned
  <2> QED BY <2>4, <2>5, <2>6
<1> QED BY <1>0, <1>2, <1>3, <1>4 DEF TokensAreFields, Commas

\* _strchrcpy finds the fields of every text, in order and none past its table:
\* for tables of any size.
THEOREM TokensStayFields == Spec => []TokensAreFields
<1>1. Init => LoopInv
  BY LoopInvInit
<1>2. LoopInv /\ [Next]_vars => LoopInv'
  BY LoopInvNext
<1>3. LoopInv => TokensAreFields
  BY LoopFindsFields
<1> QED BY <1>1, <1>2, <1>3, PTL DEF Spec
=============================================================================
