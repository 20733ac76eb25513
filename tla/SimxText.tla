-------------------------------- MODULE SimxText --------------------------------
(***************************************************************************)
(* The two helpers that take answer lines apart: str_quotes, which copies  *)
(* a field in quotation marks, and _strchrcpy, which finds the fields of a *)
(* CIPSTATUS row between its commas.  str_quotes is a function of its      *)
(* text; _strchrcpy is its loop, one character to a step, on every text of *)
(* up to MaxText characters.                                               *)
(***************************************************************************)
EXTENDS Integers, Sequences, FiniteSetsExt, SequencesExt

CONSTANTS
  Letters,   \* characters that are neither
  MaxText,   \* bound on the length of a text
  MaxLen,    \* maxlen, the size of the destination
  Size       \* the size of the token table

Quote == "quote"
Comma == "comma"

\* None of them is a mark, or what stands for a destination left alone.
ASSUME LetterAssumption == {Quote, Comma, "untouched"} \cap Letters = {}
ASSUME SizeAssumption   == {MaxText, MaxLen, Size} \subseteq Nat \ {0}
\* sim_cnt has 8 bits: a line is shorter than 256, and the sizes of its tokens,
\* of 8 bits too, do not wrap.
ASSUME ByteAssumption   == MaxText < 256

Characters == Letters \cup {Quote, Comma}

VARIABLES
  text,     \* src
  i,        \* the characters read so far
  tokens,   \* the table as [str, size]; str is 0 where it is not set
  done      \* _strchrcpy has returned

vars == <<text, i, tokens, done>>

Positions(c, s) == {p \in DOMAIN s : s[p] = c}

-----------------------------------------------------------------------------
(* str_quotes.  "to" is what dst holds afterwards, Untouched if nothing is *)
(* written; "rest" the place the caller goes on from, 0 for NULL.          *)

Untouched == <<"untouched">>

\* The destination's terminator is forgotten in the comparison.
Bug_OneTooMany(s, c1, c2) ==
  IF c2 - c1 <= MaxLen THEN [to |-> SubSeq(s, c1, c2 - 1), rest |-> c2 + 1]
  ELSE [to |-> Untouched, rest |-> c2]

\* The field between its first character, c1, and its closing mark, c2.
Field(s, c1, c2) ==
  IF c2 - c1 = 1 THEN [to |-> <<>>, rest |-> c2]
  ELSE IF c2 - c1 < MaxLen THEN [to |-> SubSeq(s, c1, c2 - 1), rest |-> c2 + 1]
  ELSE [to |-> Untouched, rest |-> c2]

str_quotes(s) ==
  LET marks == Positions(Quote, s) IN
  IF Cardinality(marks) < 2 THEN [to |-> Untouched, rest |-> 0]
  ELSE LET open == Min(marks) IN Field(s, open + 1, Min(marks \ {open}))

-----------------------------------------------------------------------------
(* _strchrcpy.                                                            *)

Init ==
  /\ text \in BoundedSeq(Characters, MaxText)
  /\ i = 0 /\ done = FALSE
  /\ tokens = <<[str |-> IF text # <<>> /\ text[1] = Comma THEN 0 ELSE 1, size |-> 0]>>

Reads(c) == ~done /\ i < Len(text) /\ text[i + 1] = c

\* The comma that would open a token beyond the table is let through.
Bug_TableOverrun == Len(tokens) > Size

Full == Len(tokens) = Size

\* A comma opens the next token, behind it, or ends the loop.
ReadComma ==
  /\ Reads(Comma) /\ UNCHANGED text
  /\ IF Full THEN done' = TRUE /\ UNCHANGED <<i, tokens>>
     ELSE /\ tokens' = Append(tokens, [str |-> i + 2, size |-> 0])
          /\ i' = i + 1 /\ UNCHANGED done

ReadOther ==
  /\ \E c \in Characters \ {Comma} : Reads(c)
  /\ tokens' = [tokens EXCEPT ![Len(tokens)].size = @ + 1]
  /\ i' = i + 1 /\ UNCHANGED <<text, done>>

Return == ~done /\ i = Len(text) /\ done' = TRUE /\ UNCHANGED <<text, i, tokens>>

Next == ReadComma \/ ReadOther \/ Return \/ (done /\ UNCHANGED vars)

Spec == Init /\ [][Next]_vars

-----------------------------------------------------------------------------
(* Properties.                                                             *)

\* What is copied is what the first pair of marks encloses, it leaves room for
\* the terminator, and the caller goes on behind the pair, so that its next call
\* finds the next field; only a field of one character is lost, and only a field
\* too long for the destination leaves it alone.
FieldsCopied ==
  LET got   == str_quotes(text)
      marks == Positions(Quote, text)
  IN  IF Cardinality(marks) < 2 THEN got = [to |-> Untouched, rest |-> 0]
      ELSE LET first == CHOOSE p \in marks : \A q \in marks : p <= q
               last  == CHOOSE p \in marks \ {first} : \A q \in marks \ {first} : p <= q
           IN  /\ got.rest \in {last, last + 1}
               /\ got.to # Untouched => Len(got.to) < MaxLen
               /\ got.to = Untouched <=> last - first - 1 >= MaxLen /\ last - first # 2
               /\ got.to \notin {Untouched, <<>>} =>
                    text = SubSeq(text, 1, first) \o got.to \o SubSeq(text, last, Len(text))
               /\ got.to = <<>> => last - first \in {1, 2}

\* Where a token starts, be it noted or not, and the place behind it.
Start(k) == IF tokens[k].str = 0 THEN 1 ELSE tokens[k].str
End(k)   == Start(k) + tokens[k].size

\* The tokens _strchrcpy has found are at any moment the first fields of the
\* text, in order: the first begins the text, each other one follows the comma
\* that ends the one before, none has a comma in it, the table never overflows,
\* and only a token in front of a comma that begins the text is not noted.  In
\* the end there is one for each field, or the table is full, and the last one
\* reaches to the next comma or to the text's end.
TokensAreFields ==
  LET n      == Len(tokens)
      commas == Positions(Comma, text)
  IN  /\ n <= Size /\ Start(1) = 1
      /\ \A k \in 1..n :
           /\ (Start(k)..(End(k) - 1)) \cap commas = {}
           /\ tokens[k].str = 0 => k = 1 /\ tokens[k].size = 0 /\ 1 \in commas
           /\ k < n => End(k) \in commas /\ Start(k + 1) = End(k) + 1
      /\ done => /\ n = Min({Size, Cardinality(commas) + 1})
                 /\ End(n) \in commas \cup {Len(text) + 1}
=============================================================================
