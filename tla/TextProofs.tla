----------------------------- MODULE TextProofs -----------------------------
(***************************************************************************)
(* Theorems about the conversions of Text and their use in Wire, for text  *)
(* of any length.  What a recursive function of Text computes is proved    *)
(* from its equation by induction on the length of the text (Induction).   *)
(***************************************************************************)
EXTENDS Wire, SequenceTheorems, WellFoundedInduction, TLAPS

(* A set of numbers that is not empty has a smallest one.                 *)
LEMMA Smallest ==
    ASSUME NEW T, T \subseteq Nat, T # {}
    PROVE  \E x \in T : \A y \in T : x <= y
  <1> DEFINE R == OpToRel(<, Nat)
  <1>1. IsWellFoundedOn(R, Nat)
    BY NatLessThanWellFounded
  <1>2. PICK x \in T : \A y \in T : ~(<<y, x>> \in R)
    <2> HIDE DEF R
    <2> QED BY <1>1, WFMin
  <1>3. ASSUME NEW y \in T PROVE x <= y
    <2>1. x \in Nat /\ y \in Nat
      OBVIOUS
    <2>2. y < x => <<y, x>> \in R
      BY <2>1 DEF OpToRel
    <2> HIDE DEF R
    <2> QED BY <1>2, <2>1, <2>2
  <1> QED BY <1>3

(* A set that holds 0 and the successor of each of its members below m     *)
(* holds every number up to m.                                             *)
LEMMA Induction ==
    ASSUME NEW m \in Nat, NEW P,
           0 \in P, \A n \in 0 .. (m - 1) : n \in P => n + 1 \in P
    PROVE  \A n \in 0 .. m : n \in P
  <1> DEFINE T == {n \in 0 .. m : n \notin P}
  <1>1. SUFFICES ASSUME T # {} PROVE FALSE
    OBVIOUS
  <1>2. PICK x \in T : \A y \in T : x <= y
    <2>1. T \subseteq Nat
      OBVIOUS
    <2> HIDE DEF T
    <2> QED BY <1>1, <2>1, Smallest
  <1>3. x # 0 /\ x - 1 \in 0 .. (m - 1)
    OBVIOUS
  <1>4. x - 1 \in P
    BY <1>2, <1>3
  <1>5. (x - 1) + 1 \in P
    BY <1>3, <1>4
  <1> QED BY <1>5

----------------------------------------------------------------------------
\* Text that is put together

Regrouped(s, t, u) == (s \o t) \o u = s \o (t \o u)

(* Concatenation is associative. *)
LEMMA Regroup ==
    ASSUME NEW s \in Seq(Characters), NEW t \in Seq(Characters), NEW u \in Seq(Characters)
    PROVE  Regrouped(s, t, u)
  BY ConcatAssociative DEF Regrouped

Behind(s, t, ch) == s \o Append(t, ch) = Append(s \o t, ch)

(* Appending behind a concatenation. *)
LEMMA AppendBehind ==
    ASSUME NEW s \in Seq(Characters), NEW t \in Seq(Characters), NEW ch \in Characters
    PROVE  Behind(s, t, ch) /\ Append(t, ch) \in Seq(Characters)
  BY DEF Behind

OneByOne(s, x, y) == s \o <<x, y>> = Append(Append(s, x), y)

(* Two characters appended at once. *)
LEMMA AppendTwo ==
    ASSUME NEW s \in Seq(Characters), NEW x \in Characters, NEW y \in Characters
    PROVE  OneByOne(s, x, y)
  <1>1. s \o <<x, y>> = Append(Append(s, x), y)
    OBVIOUS
  <1> QED BY <1>1 DEF OneByOne

----------------------------------------------------------------------------
\* Each recursive function of Text satisfies its equation

(* The loop of push: it starts with the text in the buffer and takes one   *)
(* line after the other.                                                   *)
LEMMA PushLoop ==
    ASSUME NEW text, Len(text) \in Nat
    PROVE  \E f :
             /\ f[0] = [lines |-> <<>>, buffer |-> text]
             /\ \A n \in 1 .. Len(text) : f[n] = TakeLine(f[n - 1])
             /\ Push(text) = f[Len(text)]
  <1> DEFINE m == Len(text)
             first == [lines |-> <<>>, buffer |-> text]
             Step(f, n) == TakeLine(f[n - 1])
             Runs(f, k) == f[0] = first /\ \A n \in 1 .. k : f[n] = Step(f, n)
             P == {k \in 0 .. m : \E f : Runs(f, k)}
             Loop(f) == [n \in 0 .. m |-> IF n = 0 THEN first ELSE Step(f, n)]
             after == CHOOSE f : f = Loop(f)
  <1>1. 0 \in P
    <2>1. Runs([n \in 0 .. 0 |-> first], 0)
      OBVIOUS
    <2> HIDE DEF Runs
    <2> QED BY <2>1
  <1>2. ASSUME NEW k \in 0 .. (m - 1), k \in P PROVE k + 1 \in P
    <2>1. PICK f : Runs(f, k)
      BY <1>2
    <2> DEFINE g == [n \in 0 .. (k + 1) |-> IF n = k + 1 THEN Step(f, k + 1) ELSE f[n]]
    <2>2. g[0] = first /\ g[k + 1] = Step(f, k + 1) /\ \A n \in 0 .. k : g[n] = f[n]
      BY <2>1
    <2>3. \A n \in 1 .. (k + 1) : Step(g, n) = Step(f, n)
      <3> HIDE DEF g
      <3> QED BY <2>2
    <2>4. Runs(g, k + 1)
      <3> HIDE DEF g, first, Step
      <3> QED BY <2>1, <2>2, <2>3
    <2>5. k + 1 \in 0 .. m
      OBVIOUS
    <2> HIDE DEF Runs, m
    <2> QED BY <2>4, <2>5
  <1>3. m \in P
    <2>1. m \in Nat
      OBVIOUS
    <2> HIDE DEF P, m
    <2>2. \A n \in 0 .. (m - 1) : n \in P => n + 1 \in P
      BY <1>2
    <2>3. \A n \in 0 .. m : n \in P
      BY <1>1, <2>1, <2>2, Induction
    <2> QED BY <2>1, <2>3
  <1>4. PICK f : Runs(f, m)
    BY <1>3
  <1> DEFINE g == [n \in 0 .. m |-> f[n]]
  <1>5. Loop(g) = g
    <2>1. \A n \in 0 .. m : g[n] = IF n = 0 THEN first ELSE Step(g, n)
      <3> HIDE DEF first
      <3> QED BY <1>4
    <2> HIDE DEF first, Step
    <2> QED BY <2>1
  <1>6. after = Loop(after)
    <2> HIDE DEF Loop, g
    <2> QED BY <1>5
  <1>7. Runs(after, m)
    <2> HIDE DEF after, first, Step
    <2> QED BY <1>6
  <1>8. Push(text) = after[m]
    BY DEF Push
  <1> HIDE DEF after
  <1> QED BY <1>7, <1>8

(* Escaped goes through the text character by character.                   *)
LEMMA EscapedLoop ==
    ASSUME NEW text, NEW cs, Len(text) \in Nat
    PROVE  \E f :
             /\ f[0] = <<>>
             /\ \A n \in 1 .. Len(text) : f[n] = IF text[n] \in cs THEN f[n - 1] \o <<BS, text[n]>> ELSE Append(f[n - 1], text[n])
             /\ Escaped(text, cs) = f[Len(text)]
  <1> DEFINE m == Len(text)
             first == <<>>
             Step(f, n) == IF text[n] \in cs THEN f[n - 1] \o <<BS, text[n]>> ELSE Append(f[n - 1], text[n])
             Runs(f, k) == f[0] = first /\ \A n \in 1 .. k : f[n] = Step(f, n)
             P == {k \in 0 .. m : \E f : Runs(f, k)}
             Loop(f) == [n \in 0 .. m |-> IF n = 0 THEN first ELSE Step(f, n)]
             after == CHOOSE f : f = Loop(f)
  <1>1. 0 \in P
    <2>1. Runs([n \in 0 .. 0 |-> first], 0)
      OBVIOUS
    <2> HIDE DEF Runs
    <2> QED BY <2>1
  <1>2. ASSUME NEW k \in 0 .. (m - 1), k \in P PROVE k + 1 \in P
    <2>1. PICK f : Runs(f, k)
      BY <1>2
    <2> DEFINE g == [n \in 0 .. (k + 1) |-> IF n = k + 1 THEN Step(f, k + 1) ELSE f[n]]
    <2>2. g[0] = first /\ g[k + 1] = Step(f, k + 1) /\ \A n \in 0 .. k : g[n] = f[n]
      BY <2>1
    <2>3. \A n \in 1 .. (k + 1) : Step(g, n) = Step(f, n)
      <3> HIDE DEF g
      <3> QED BY <2>2
    <2>4. Runs(g, k + 1)
      <3> HIDE DEF g, first, Step
      <3> QED BY <2>1, <2>2, <2>3
    <2>5. k + 1 \in 0 .. m
      OBVIOUS
    <2> HIDE DEF Runs, m
    <2> QED BY <2>4, <2>5
  <1>3. m \in P
    <2>1. m \in Nat
      OBVIOUS
    <2> HIDE DEF P, m
    <2>2. \A n \in 0 .. (m - 1) : n \in P => n + 1 \in P
      BY <1>2
    <2>3. \A n \in 0 .. m : n \in P
      BY <1>1, <2>1, <2>2, Induction
    <2> QED BY <2>1, <2>3
  <1>4. PICK f : Runs(f, m)
    BY <1>3
  <1> DEFINE g == [n \in 0 .. m |-> f[n]]
  <1>5. Loop(g) = g
    <2>1. \A n \in 0 .. m : g[n] = IF n = 0 THEN first ELSE Step(g, n)
      <3> HIDE DEF first
      <3> QED BY <1>4
    <2> HIDE DEF first, Step
    <2> QED BY <2>1
  <1>6. after = Loop(after)
    <2> HIDE DEF Loop, g
    <2> QED BY <1>5
  <1>7. Runs(after, m)
    <2> HIDE DEF after, first, Step
    <2> QED BY <1>6
  <1>8. Escaped(text, cs) = after[m]
    BY DEF Escaped
  <1> HIDE DEF after
  <1> QED BY <1>7, <1>8

(* The lexer goes through the text character by character.                 *)
LEMMA ReadLoop ==
    ASSUME NEW text, Len(text) \in Nat
    PROVE  \E f :
             /\ f[0] = Start
             /\ \A n \in 1 .. Len(text) : f[n] = LexChar(f[n - 1], text[n])
             /\ Read(text) = f[Len(text)]
  <1> DEFINE m == Len(text)
             first == Start
             Step(f, n) == LexChar(f[n - 1], text[n])
             Runs(f, k) == f[0] = first /\ \A n \in 1 .. k : f[n] = Step(f, n)
             P == {k \in 0 .. m : \E f : Runs(f, k)}
             Loop(f) == [n \in 0 .. m |-> IF n = 0 THEN first ELSE Step(f, n)]
             after == CHOOSE f : f = Loop(f)
  <1>1. 0 \in P
    <2>1. Runs([n \in 0 .. 0 |-> first], 0)
      OBVIOUS
    <2> HIDE DEF Runs
    <2> QED BY <2>1
  <1>2. ASSUME NEW k \in 0 .. (m - 1), k \in P PROVE k + 1 \in P
    <2>1. PICK f : Runs(f, k)
      BY <1>2
    <2> DEFINE g == [n \in 0 .. (k + 1) |-> IF n = k + 1 THEN Step(f, k + 1) ELSE f[n]]
    <2>2. g[0] = first /\ g[k + 1] = Step(f, k + 1) /\ \A n \in 0 .. k : g[n] = f[n]
      BY <2>1
    <2>3. \A n \in 1 .. (k + 1) : Step(g, n) = Step(f, n)
      <3> HIDE DEF g
      <3> QED BY <2>2
    <2>4. Runs(g, k + 1)
      <3> HIDE DEF g, first, Step
      <3> QED BY <2>1, <2>2, <2>3
    <2>5. k + 1 \in 0 .. m
      OBVIOUS
    <2> HIDE DEF Runs, m
    <2> QED BY <2>4, <2>5
  <1>3. m \in P
    <2>1. m \in Nat
      OBVIOUS
    <2> HIDE DEF P, m
    <2>2. \A n \in 0 .. (m - 1) : n \in P => n + 1 \in P
      BY <1>2
    <2>3. \A n \in 0 .. m : n \in P
      BY <1>1, <2>1, <2>2, Induction
    <2> QED BY <2>1, <2>3
  <1>4. PICK f : Runs(f, m)
    BY <1>3
  <1> DEFINE g == [n \in 0 .. m |-> f[n]]
  <1>5. Loop(g) = g
    <2>1. \A n \in 0 .. m : g[n] = IF n = 0 THEN first ELSE Step(g, n)
      <3> HIDE DEF first
      <3> QED BY <1>4
    <2> HIDE DEF first, Step
    <2> QED BY <2>1
  <1>6. after = Loop(after)
    <2> HIDE DEF Loop, g
    <2> QED BY <1>5
  <1>7. Runs(after, m)
    <2> HIDE DEF after, first, Step
    <2> QED BY <1>6
  <1>8. Read(text) = after[m]
    BY DEF Read
  <1> HIDE DEF after
  <1> QED BY <1>7, <1>8

----------------------------------------------------------------------------
\* What the lexer reads

(* Before the first character the lexer is at its start. *)
LEMMA ReadNothing == Read(<<>>) = Start
  <1>1. Len(<<>>) = 0
    OBVIOUS
  <1> QED BY <1>1, ReadLoop

(* A further character is read after the others. *)
LEMMA ReadOneMore ==
    ASSUME NEW text \in Seq(Characters), NEW ch \in Characters
    PROVE  Read(Append(text, ch)) = LexChar(Read(text), ch)
  <1> DEFINE m == Len(text)
             more == Append(text, ch)
  <1>1. /\ m \in Nat /\ Len(more) = m + 1 /\ more[m + 1] = ch
        /\ \A n \in 1 .. m : more[n] = text[n]
    OBVIOUS
  <1>2. PICK f : /\ f[0] = Start
                 /\ \A n \in 1 .. m : f[n] = LexChar(f[n - 1], text[n])
                 /\ Read(text) = f[m]
    BY <1>1, ReadLoop
  <1>3. PICK g : /\ g[0] = Start
                 /\ \A n \in 1 .. Len(more) : g[n] = LexChar(g[n - 1], more[n])
                 /\ Read(more) = g[Len(more)]
    <2>1. Len(more) \in Nat
      BY <1>1
    <2> HIDE DEF more
    <2> QED BY <2>1, ReadLoop
  <1> HIDE DEF m, more
  <1> DEFINE P == {n \in 0 .. m : g[n] = f[n]}
  <1>4. 0 \in P
    BY <1>1, <1>2, <1>3
  <1>5. \A n \in 0 .. (m - 1) : n \in P => n + 1 \in P
    <2> SUFFICES ASSUME NEW n \in 0 .. (m - 1), g[n] = f[n] PROVE g[n + 1] = f[n + 1]
      BY <1>1
    <2>1. n + 1 \in 1 .. m /\ (n + 1) - 1 = n
      BY <1>1
    <2>2. f[n + 1] = LexChar(f[n], text[n + 1])
      BY <1>2, <2>1
    <2>3. g[n + 1] = LexChar(g[n], more[n + 1])
      BY <1>1, <1>3, <2>1
    <2> QED BY <1>1, <2>1, <2>2, <2>3
  <1>6. m \in P
    <2> HIDE DEF P
    <2>1. \A n \in 0 .. m : n \in P
      BY <1>1, <1>4, <1>5, Induction
    <2> QED BY <1>1, <2>1
  <1>7. g[m + 1] = LexChar(g[m], ch)
    <2>1. m + 1 \in 1 .. (m + 1) /\ (m + 1) - 1 = m
      BY <1>1
    <2> QED BY <1>1, <1>3, <2>1
  <1> QED BY <1>1, <1>2, <1>3, <1>6, <1>7 DEF more

(* The lexer without, and in double quotes with, a backslash before.       *)
Lexer(words, word, within) ==
    [words |-> words, word |-> word, within |-> within, escape |-> FALSE]
Escaping(words, word) ==
    [words |-> words, word |-> word, within |-> "double", escape |-> TRUE]

(* What a character does to the lexer, in the states that the arguments    *)
(* of the code lead to.                                                    *)
LEMMA LexSpace ==
    ASSUME NEW words, NEW word
    PROVE  /\ LexChar(Lexer(words, word, "space"), SP) = Lexer(words, word, "space")
           /\ LexChar(Lexer(words, word, "space"), DQ) = Lexer(words, word, "double")
  BY DEF LexChar, Lexer, SP, DQ, SQ, BS

(* A space ends a word.                                                   *)
LEMMA LexEndOfWord ==
    ASSUME NEW words, NEW word
    PROVE  LexChar(Lexer(words, word, "word"), SP)
             = Lexer(Append(words, word), <<>>, "space")
  BY DEF LexChar, Lexer, SP, DQ, SQ, BS

(* A quote ends what stands in quotes.                                    *)
LEMMA LexEndOfQuotes ==
    ASSUME NEW words, NEW word
    PROVE  LexChar(Lexer(words, word, "double"), DQ)
             = Lexer(Append(words, word), <<>>, "space")
  BY DEF LexChar, Lexer, DQ, BS

(* A character without a meaning of its own belongs to the word.          *)
LEMMA LexPlain ==
    ASSUME NEW words, NEW word, NEW within \in {"space", "word"}, NEW ch,
           ch \notin {SP, DQ, SQ, BS}
    PROVE  LexChar(Lexer(words, word, within), ch)
             = Lexer(words, Append(word, ch), "word")
  BY DEF LexChar, Lexer, SP, DQ, SQ, BS

(* What the lexer does with a character of a quoted argument.             *)
LEMMA LexQuoted ==
    ASSUME NEW words, NEW word, NEW ch
    PROVE  /\ LexChar(Lexer(words, word, "double"), BS) = Escaping(words, word)
           /\ LexChar(Escaping(words, word), ch)
                = Lexer(words, Append(word, ch), "double")
           /\ ch \notin {BS, DQ} => LexChar(Lexer(words, word, "double"), ch)
                                      = Lexer(words, Append(word, ch), "double")
  BY DEF LexChar, Lexer, Escaping, DQ, BS

(* Within double quotes the lexer reads back what a backslash was put      *)
(* before, if no backslash of the text lacks its own.                      *)
LEMMA EscapedIsRead ==
    ASSUME NEW text \in Seq(Characters), NEW cs \in SUBSET {BS, DQ}, DQ \in cs,
           BS \in cs \/ \A i \in DOMAIN text : text[i] # BS,
           NEW before \in Seq(Characters), NEW words,
           Read(before) = Lexer(words, <<>>, "double")
    PROVE  /\ Escaped(text, cs) \in Seq(Characters)
           /\ Read(before \o Escaped(text, cs)) = Lexer(words, text, "double")
  <1> DEFINE m == Len(text)
  <1>1. m \in Nat /\ DOMAIN text = 1 .. m /\ \A n \in 1 .. m : text[n] \in Characters
    OBVIOUS
  <1>2. PICK f : /\ f[0] = <<>>
                 /\ \A n \in 1 .. m : f[n] = IF text[n] \in cs THEN f[n - 1] \o <<BS, text[n]>>
                                              ELSE Append(f[n - 1], text[n])
                 /\ Escaped(text, cs) = f[m]
    BY <1>1, EscapedLoop
  <1> DEFINE IsRead(n) ==
               /\ f[n] \in Seq(Characters)
               /\ Read(before \o f[n]) = Lexer(words, SubSeq(text, 1, n), "double")
             P == {n \in 0 .. m : IsRead(n)}
  <1>3. IsRead(0)
    <2>1. before \o <<>> = before /\ SubSeq(text, 1, 0) = <<>> /\ <<>> \in Seq(Characters)
      OBVIOUS
    <2> QED BY <1>2, <2>1
  <1>4. ASSUME NEW n \in 0 .. (m - 1), IsRead(n) PROVE IsRead(n + 1)
    <2> DEFINE ch == text[n + 1]
               so == before \o f[n]
               word == SubSeq(text, 1, n)
    <2>1. /\ n + 1 \in 1 .. m /\ (n + 1) - 1 = n /\ n + 1 \in 0 .. m
          /\ ch \in Characters /\ BS \in Characters
      BY <1>1, CharactersAssumption
    <2>2. f[n] \in Seq(Characters) /\ so \in Seq(Characters)
      BY <1>4
    <2>3. Read(so) = Lexer(words, word, "double")
      BY <1>4
    <2>4. SubSeq(text, 1, n + 1) = Append(word, ch)
      BY <1>1, <2>1
    <2>5. f[n + 1] = IF ch \in cs THEN f[n] \o <<BS, ch>> ELSE Append(f[n], ch)
      BY <1>2, <2>1
    <2>6. CASE ch \in cs
      <3>1. f[n + 1] = f[n] \o <<BS, ch>>
        BY <2>5, <2>6
      <3>2. f[n + 1] \in Seq(Characters) /\ before \o f[n + 1] = Append(Append(so, BS), ch)
        <4> HIDE DEF ch, m
        <4>1. f[n] \o <<BS, ch>> = Append(Append(f[n], BS), ch)
          BY <2>1, <2>2, AppendTwo DEF OneByOne
        <4>2. Append(f[n], BS) \in Seq(Characters)
          BY <2>1, <2>2, AppendBehind
        <4>3. Append(Append(f[n], BS), ch) \in Seq(Characters)
          BY <2>1, <4>2, AppendBehind
        <4>4. Behind(before, Append(f[n], BS), ch) /\ Behind(before, f[n], BS)
          BY <2>1, <2>2, <4>2, AppendBehind
        <4>5. before \o Append(Append(f[n], BS), ch) = Append(before \o Append(f[n], BS), ch)
          BY <4>4 DEF Behind
        <4>6. before \o Append(f[n], BS) = Append(before \o f[n], BS)
          BY <4>4 DEF Behind
        <4> QED BY <3>1, <4>1, <4>3, <4>5, <4>6
      <3> HIDE DEF m, so, ch, word, IsRead
      <3>3. Append(so, BS) \in Seq(Characters)
        BY <2>1, <2>2
      <3>4. Read(Append(so, BS)) = LexChar(Read(so), BS)
        BY <2>1, <2>2, ReadOneMore
      <3>5. Read(Append(Append(so, BS), ch)) = LexChar(Read(Append(so, BS)), ch)
        BY <2>1, <3>3, ReadOneMore
      <3>6. Read(Append(Append(so, BS), ch)) = Lexer(words, Append(word, ch), "double")
        <4>1. LexChar(Lexer(words, word, "double"), BS) = Escaping(words, word)
          BY LexQuoted
        <4>2. LexChar(Escaping(words, word), ch)
                = Lexer(words, Append(word, ch), "double")
          BY LexQuoted
        <4> QED BY <2>3, <3>4, <3>5, <4>1, <4>2
      <3> QED BY <2>4, <3>2, <3>6 DEF IsRead, so
    <2>7. CASE ch \notin cs
      <3>1. f[n + 1] = Append(f[n], ch)
        BY <2>5, <2>7
      <3>2. f[n + 1] \in Seq(Characters) /\ before \o f[n + 1] = Append(so, ch)
        <4> HIDE DEF ch, m
        <4>1. Behind(before, f[n], ch) /\ Append(f[n], ch) \in Seq(Characters)
          BY <2>1, <2>2, AppendBehind
        <4> QED BY <3>1, <4>1 DEF Behind
      <3>3. ch \notin {BS, DQ}
        BY <1>1, <2>1, <2>7
      <3>4. Read(Append(so, ch)) = Lexer(words, Append(word, ch), "double")
        <4> HIDE DEF so, ch, word
        <4>1. Read(Append(so, ch)) = LexChar(Read(so), ch)
          BY <2>1, <2>2, ReadOneMore
        <4>2. LexChar(Lexer(words, word, "double"), ch)
                = Lexer(words, Append(word, ch), "double")
          BY <3>3, LexQuoted
        <4> QED BY <2>3, <4>1, <4>2
      <3> QED BY <2>4, <3>2, <3>4
    <2> QED BY <2>6, <2>7
  <1>5. IsRead(m)
    <2> HIDE DEF IsRead, m
    <2>1. 0 \in P /\ \A n \in 0 .. (m - 1) : n \in P => n + 1 \in P
      BY <1>1, <1>3, <1>4
    <2> HIDE DEF P
    <2>2. \A n \in 0 .. m : n \in P
      BY <1>1, <2>1, Induction
    <2> QED BY <1>1, <2>2 DEF P
  <1>6. SubSeq(text, 1, m) = text
    OBVIOUS
  <1> QED BY <1>2, <1>5, <1>6

(* A text without special characters is read as it stands. *)
LEMMA PlainIsRead ==
    ASSUME NEW text \in Seq(Characters), ~NeedsQuotes(text),
           NEW before \in Seq(Characters), NEW words,
           Read(before) = Lexer(words, <<>>, "space")
    PROVE  text # <<>> => Read(before \o text) = Lexer(words, text, "word")
  <1> DEFINE m == Len(text)
             within(n) == IF n = 0 THEN "space" ELSE "word"
             IsRead(n) ==
               Read(before \o SubSeq(text, 1, n)) = Lexer(words, SubSeq(text, 1, n), within(n))
             P == {n \in 0 .. m : IsRead(n)}
  <1>1. m \in Nat /\ DOMAIN text = 1 .. m /\ \A n \in 1 .. m : text[n] \in Characters
    OBVIOUS
  <1>2. IsRead(0)
    <2>1. before \o <<>> = before /\ SubSeq(text, 1, 0) = <<>>
      OBVIOUS
    <2> QED BY <2>1
  <1>3. ASSUME NEW n \in 0 .. (m - 1), IsRead(n) PROVE IsRead(n + 1)
    <2> DEFINE ch == text[n + 1]
               so == SubSeq(text, 1, n)
    <2>1. n + 1 \in 1 .. m /\ n + 1 \in 0 .. m /\ n + 1 # 0 /\ ch \in Characters
      BY <1>1
    <2>2. so \in Seq(Characters) /\ before \o so \in Seq(Characters)
      BY <1>1, <2>1
    <2>3. SubSeq(text, 1, n + 1) = Append(so, ch)
      BY <1>1, <2>1
    <2>4. before \o Append(so, ch) = Append(before \o so, ch)
      <3> HIDE DEF ch, so
      <3> QED BY <2>1, <2>2
    <2>5. ch \notin {SP, DQ, SQ, BS}
      BY <1>1, <2>1 DEF NeedsQuotes
    <2>6. Read(before \o so) = Lexer(words, so, within(n))
      BY <1>3
    <2>7. within(n) \in {"space", "word"}
      OBVIOUS
    <2>8. Read(Append(before \o so, ch)) = Lexer(words, Append(so, ch), "word")
      <3> HIDE DEF within, so, ch
      <3>1. Read(Append(before \o so, ch)) = LexChar(Read(before \o so), ch)
        BY <2>1, <2>2, ReadOneMore
      <3>2. LexChar(Lexer(words, so, within(n)), ch) = Lexer(words, Append(so, ch), "word")
        <4>1. LexChar(Lexer(words, so, "space"), ch) = Lexer(words, Append(so, ch), "word")
          BY <2>5, LexPlain
        <4>2. LexChar(Lexer(words, so, "word"), ch) = Lexer(words, Append(so, ch), "word")
          BY <2>5, LexPlain
        <4> QED BY <2>7, <4>1, <4>2
      <3> QED BY <2>6, <3>1, <3>2
    <2> HIDE DEF m, so, ch
    <2> QED BY <2>1, <2>3, <2>4, <2>8
  <1>4. IsRead(m)
    <2> HIDE DEF IsRead, m
    <2>1. 0 \in P /\ \A n \in 0 .. (m - 1) : n \in P => n + 1 \in P
      BY <1>1, <1>2, <1>3
    <2> HIDE DEF P
    <2>2. \A n \in 0 .. m : n \in P
      BY <1>1, <2>1, Induction
    <2> QED BY <1>1, <2>2 DEF P
  <1>5. SubSeq(text, 1, m) = text /\ (text # <<>> => m # 0)
    OBVIOUS
  <1> QED BY <1>4, <1>5

(* Appending to tuples.                                                   *)
LEMMA TwoWords ==
    ASSUME NEW x, NEW y
    PROVE  Append(<<x>>, y) = <<x, y>>
  <1>1. <<x>> \in Seq({x, y}) /\ <<x, y>> \in Seq({x, y})
    OBVIOUS
  <1>2. Append(<<x>>, y) \in Seq({x, y})
    BY <1>1
  <1>3. Len(Append(<<x>>, y)) = 2 /\ Len(<<x, y>>) = 2
    OBVIOUS
  <1>4. \A i \in 1 .. 2 : Append(<<x>>, y)[i] = <<x, y>>[i]
    OBVIOUS
  <1> QED BY <1>1, <1>2, <1>3, <1>4, SeqEqual

LEMMA ThreeWords ==
    ASSUME NEW x, NEW y, NEW z
    PROVE  Append(<<x, y>>, z) = <<x, y, z>>
  <1>1. <<x, y>> \in Seq({x, y, z}) /\ <<x, y, z>> \in Seq({x, y, z})
    OBVIOUS
  <1>2. Append(<<x, y>>, z) \in Seq({x, y, z})
    BY <1>1
  <1>3. Len(Append(<<x, y>>, z)) = 3 /\ Len(<<x, y, z>>) = 3
    OBVIOUS
  <1>4. \A i \in 1 .. 3 : Append(<<x, y>>, z)[i] = <<x, y, z>>[i]
    OBVIOUS
  <1> QED BY <1>1, <1>2, <1>3, <1>4, SeqEqual

(* What stands between the words of a command: the lexer reads <<"a">>     *)
(* first, and <<"b">> after an argument it has read.                       *)
LEMMA ReadBefore ==
    /\ <<"a", SP>> \in Seq(Characters)
    /\ Read(<<"a", SP>>) = Lexer(<< <<"a">> >>, <<>>, "space")
  <1>1. "a" \in Characters /\ SP \in Characters
    BY CharactersAssumption
  <1>2. /\ <<>> \in Seq(Characters) /\ <<"a">> \in Seq(Characters)
        /\ <<"a">> = Append(<<>>, "a") /\ <<"a", SP>> = Append(<<"a">>, SP)
        /\ <<"a", SP>> \in Seq(Characters)
    BY <1>1
  <1>3. Read(<<>>) = Lexer(<<>>, <<>>, "space")
    BY ReadNothing DEF Start, Lexer
  <1>4. Read(<<"a">>) = LexChar(Read(<<>>), "a")
    BY <1>1, <1>2, ReadOneMore
  <1>5. LexChar(Lexer(<<>>, <<>>, "space"), "a") = Lexer(<<>>, <<"a">>, "word")
    <2>1. "a" \notin {SP, DQ, SQ, BS}
      BY DEF SP, DQ, SQ, BS
    <2>2. LexChar(Lexer(<<>>, <<>>, "space"), "a") = Lexer(<<>>, Append(<<>>, "a"), "word")
      BY <2>1, LexPlain
    <2> QED BY <1>2, <2>2
  <1>6. Read(<<"a", SP>>) = LexChar(Read(<<"a">>), SP)
    BY <1>1, <1>2, ReadOneMore
  <1>7. LexChar(Lexer(<<>>, <<"a">>, "word"), SP)
          = Lexer(Append(<<>>, <<"a">>), <<>>, "space")
    BY LexEndOfWord
  <1>8. Append(<<>>, <<"a">>) = << <<"a">> >>
    OBVIOUS
  <1> QED BY <1>2, <1>3, <1>4, <1>5, <1>6, <1>7, <1>8

(* What follows the argument in the command is a word of its own.         *)
LEMMA ReadAfter ==
    ASSUME NEW text \in Seq(Characters), NEW word,
           Read(Append(text, SP)) = Lexer(<< <<"a">>, word >>, <<>>, "space")
    PROVE  Lex(text \o <<SP, "b">>) = << <<"a">>, word, <<"b">> >>
  <1> DEFINE one == Append(text, SP)
             two == Append(one, "b")
             three == Append(two, SP)
             words == << <<"a">>, word >>
  <1>1. "b" \in Characters /\ SP \in Characters
    BY CharactersAssumption
  <1>2. one \in Seq(Characters)
    BY <1>1
  <1>3. two \in Seq(Characters)
    BY <1>1, <1>2
  <1>4. text \o <<SP, "b">> = two
    BY <1>1
  <1>5. Read(two) = LexChar(Read(one), "b")
    BY <1>1, <1>2, ReadOneMore
  <1>6. LexChar(Lexer(words, <<>>, "space"), "b") = Lexer(words, <<"b">>, "word")
    <2>1. "b" \notin {SP, DQ, SQ, BS}
      BY DEF SP, DQ, SQ, BS
    <2>2. LexChar(Lexer(words, <<>>, "space"), "b")
            = Lexer(words, Append(<<>>, "b"), "word")
      <3> HIDE DEF words
      <3> QED BY <2>1, LexPlain
    <2>3. Append(<<>>, "b") = <<"b">>
      OBVIOUS
    <2> QED BY <2>2, <2>3
  <1>7. Read(three) = LexChar(Read(two), SP)
    BY <1>1, <1>3, ReadOneMore
  <1>8. LexChar(Lexer(words, <<"b">>, "word"), SP)
          = Lexer(Append(words, <<"b">>), <<>>, "space")
    BY LexEndOfWord
  <1>9. Append(words, <<"b">>) = << <<"a">>, word, <<"b">> >>
    BY ThreeWords
  <1>10. Read(three) = Lexer(<< <<"a">>, word, <<"b">> >>, <<>>, "space")
    <2> HIDE DEF words, one, two, three
    <2>1. Read(one) = Lexer(words, <<>>, "space")
      BY DEF one, words
    <2> QED BY <1>5, <1>6, <1>7, <1>8, <1>9, <2>1
  <1>11. Lex(two) = << <<"a">>, word, <<"b">> >>
    BY <1>10 DEF Lex, Lexer
  <1> QED BY <1>4, <1>11

(* Whatever its characters, an argument in quotes is read as it was, if    *)
(* every double quote in it has a backslash, and every backslash too.      *)
LEMMA QuotedIsRead ==
    ASSUME NEW text \in Seq(Characters), NEW cs \in SUBSET {BS, DQ}, DQ \in cs,
           BS \in cs \/ \A i \in DOMAIN text : text[i] # BS
    PROVE  Around(Quoted(Escaped(text, cs))) = << <<"a">>, text, <<"b">> >>
  <1> DEFINE before == <<"a", SP>>
             words == << <<"a">> >>
             opened == Append(before, DQ)
             inside == Escaped(text, cs)
             open == opened \o inside
             closed == Append(open, DQ)
  <1>1. SP \in Characters /\ DQ \in Characters
    BY CharactersAssumption
  <1>2. before \in Seq(Characters) /\ Read(before) = Lexer(words, <<>>, "space")
    BY ReadBefore
  <1> HIDE DEF before, words
  <1>3. opened \in Seq(Characters)
    BY <1>1, <1>2
  <1>4. Read(opened) = Lexer(words, <<>>, "double")
    <2>1. Read(opened) = LexChar(Read(before), DQ)
      BY <1>1, <1>2, ReadOneMore
    <2>2. LexChar(Lexer(words, <<>>, "space"), DQ)
            = Lexer(words, <<>>, "double")
      BY LexSpace
    <2> HIDE DEF opened
    <2> QED BY <1>2, <2>1, <2>2
  <1> HIDE DEF opened
  <1>5. inside \in Seq(Characters) /\ Read(open) = Lexer(words, text, "double")
    BY <1>3, <1>4, EscapedIsRead
  <1> HIDE DEF inside
  <1>6. open \in Seq(Characters)
    BY <1>3, <1>5
  <1>7. closed \in Seq(Characters)
    BY <1>1, <1>6
  <1>8. Read(closed) = Lexer(<< <<"a">>, text >>, <<>>, "space")
    <2>1. Read(closed) = LexChar(Read(open), DQ)
      BY <1>1, <1>6, ReadOneMore
    <2>2. LexChar(Lexer(words, text, "double"), DQ)
            = Lexer(Append(words, text), <<>>, "space")
      BY LexEndOfQuotes
    <2>3. Append(words, text) = << <<"a">>, text >>
      BY TwoWords DEF words
    <2> HIDE DEF open, closed
    <2> QED BY <1>5, <2>1, <2>2, <2>3
  <1>9. Read(Append(closed, SP)) = Lexer(<< <<"a">>, text >>, <<>>, "space")
    <2>1. Read(Append(closed, SP)) = LexChar(Read(closed), SP)
      BY <1>1, <1>7, ReadOneMore
    <2>2. LexChar(Lexer(<< <<"a">>, text >>, <<>>, "space"), SP)
            = Lexer(<< <<"a">>, text >>, <<>>, "space")
      BY LexSpace
    <2> HIDE DEF closed
    <2> QED BY <1>8, <2>1, <2>2
  <1>10. Lex(closed \o <<SP, "b">>) = << <<"a">>, text, <<"b">> >>
    <2> HIDE DEF closed
    <2> QED BY <1>7, <1>9, ReadAfter
  <1>11. before \o Quoted(inside) = closed
    <2>1. Quoted(inside) = Append(<<DQ>> \o inside, DQ)
      BY <1>1, <1>5 DEF Quoted
    <2>2. <<DQ>> \o inside \in Seq(Characters) /\ <<DQ>> \in Seq(Characters)
      BY <1>1, <1>5
    <2>3. before \o Append(<<DQ>> \o inside, DQ) = Append(before \o (<<DQ>> \o inside), DQ)
      BY <1>1, <1>2, <2>2
    <2>4. before \o (<<DQ>> \o inside) = (before \o <<DQ>>) \o inside
      BY <1>2, <1>5, <2>2
    <2>5. before \o <<DQ>> = opened
      BY <1>1, <1>2 DEF opened
    <2> QED BY <2>1, <2>3, <2>4, <2>5
  <1>12. Around(Quoted(inside)) = Lex((before \o Quoted(inside)) \o <<SP, "b">>)
    BY DEF Around, before
  <1> HIDE DEF closed
  <1> QED BY <1>10, <1>11, <1>12 DEF inside

(* A text that needs no quotes is read without them. *)
LEMMA UnquotedIsRead ==
    ASSUME NEW text \in Seq(Characters), text # <<>>, ~NeedsQuotes(text)
    PROVE  Around(text) = << <<"a">>, text, <<"b">> >>
  <1> DEFINE before == <<"a", SP>>
             words == << <<"a">> >>
             so == before \o text
  <1>1. SP \in Characters
    BY CharactersAssumption
  <1>2. before \in Seq(Characters) /\ Read(before) = Lexer(words, <<>>, "space")
    BY ReadBefore
  <1> HIDE DEF before, words
  <1>3. Read(so) = Lexer(words, text, "word") /\ so \in Seq(Characters)
    BY <1>2, PlainIsRead
  <1>4. Around(text) = Lex(so \o <<SP, "b">>)
    BY DEF Around, before
  <1> HIDE DEF so
  <1>5. Read(Append(so, SP)) = Lexer(<< <<"a">>, text >>, <<>>, "space")
    <2>1. Read(Append(so, SP)) = LexChar(Read(so), SP)
      BY <1>1, <1>3, ReadOneMore
    <2>2. LexChar(Lexer(words, text, "word"), SP)
            = Lexer(Append(words, text), <<>>, "space")
      BY LexEndOfWord
    <2>3. Append(words, text) = << <<"a">>, text >>
      BY TwoWords DEF words
    <2> QED BY <1>3, <2>1, <2>2, <2>3
  <1> QED BY <1>3, <1>4, <1>5, ReadAfter

(* What escapeArg and escapeServerArg make of an argument is read as the   *)
(* argument.                                                               *)
LEMMA EscapedArgIsRead ==
    ASSUME NEW text \in Seq(Characters)
    PROVE  /\ Around(EscapeArg(text)) = << <<"a">>, text, <<"b">> >>
           /\ text # <<>> /\ BS \notin Seqs!ToSet(text) =>
                Around(EscapeServerArg(text)) = << <<"a">>, text, <<"b">> >>
  <1>1. Around(Quoted(Escaped(text, {BS, DQ}))) = << <<"a">>, text, <<"b">> >>
    BY QuotedIsRead
  <1>2. BS \notin Seqs!ToSet(text) =>
          Around(Quoted(Escaped(text, {DQ}))) = << <<"a">>, text, <<"b">> >>
    <2> SUFFICES ASSUME BS \notin Seqs!ToSet(text)
                 PROVE  Around(Quoted(Escaped(text, {DQ}))) = << <<"a">>, text, <<"b">> >>
      OBVIOUS
    <2>1. \A i \in DOMAIN text : text[i] # BS
      BY DEF Seqs!ToSet
    <2> QED BY <2>1, QuotedIsRead
  <1>3. text # <<>> /\ ~NeedsQuotes(text) => Around(text) = << <<"a">>, text, <<"b">> >>
    BY UnquotedIsRead
  <1> QED BY <1>1, <1>2, <1>3 DEF EscapeArg, EscapeServerArg

----------------------------------------------------------------------------
\* How replies end

(* The guess and the reply, for every verb.                                *)
LEMMA ExpectedEnd ==
    ASSUME NEW c
    PROVE  \/ /\ ~Unanswered(c) /\ InferExpect(c) = "end"
              /\ DefaultMockResponse(c)
                   \in {<<"data", "end">>, <<"data", "data", "end">>, <<"success", "data", "end">>}
           \/ /\ ~Unanswered(c) /\ InferExpect(c) = "single"
              /\ DefaultMockResponse(c) \in {<<"success">>, <<"error">>, <<"data", "end">>}
           \/ /\ Unanswered(c) /\ InferExpect(c) = "end"
              /\ DefaultMockResponse(c) \in {<<>>, <<"success">>, <<"error">>}
  <1> DEFINE rest == Tail(c)
             all == "all" \in Seqs!ToSet(rest)
             number == rest # <<>> /\ Seqs!Last(rest) \in Numbers
             known == Orders \cup Notifications \cup {"version", "help"}
  <1>1. CASE c[1] = "version"
    <2>1. InferExpect(c) = IF rest = <<>> THEN "end" ELSE "single"
      BY <1>1 DEF InferExpect, Inquiries, Notifications, Orders
    <2>2. DefaultMockResponse(c) = IF rest # <<>> THEN <<"success">> ELSE <<"data", "data", "end">>
      BY <1>1 DEF DefaultMockResponse
    <2>3. ~Unanswered(c)
      BY <1>1 DEF Unanswered
    <2> QED BY <2>1, <2>2, <2>3
  <1>2. CASE c[1] = "help"
    <2>1. InferExpect(c) = "end"
      BY <1>2 DEF InferExpect, Inquiries, Notifications, Orders
    <2>2. DefaultMockResponse(c) = <<"data", "data", "end">>
      BY <1>2 DEF DefaultMockResponse
    <2>3. ~Unanswered(c)
      BY <1>2 DEF Unanswered
    <2> QED BY <2>1, <2>2, <2>3
  <1>3. CASE c[1] \in {"state", "log"}
    <2>1. InferExpect(c) = IF all \/ number THEN "end" ELSE "single"
      BY <1>3 DEF InferExpect, Inquiries, Notifications, Orders
    <2>2. DefaultMockResponse(c) = IF all THEN <<"success", "data", "end">>
                                   ELSE IF rest # <<>> /\ Head(rest) \in Numbers THEN <<"data", "end">>
                                   ELSE <<"success">>
      BY <1>3 DEF DefaultMockResponse
    <2>3. Unanswered(c) <=> ~all /\ number /\ Head(rest) \notin Numbers
      BY <1>3 DEF Unanswered, Notifications, AsksForAll, EndsInNumber
    <2> HIDE DEF all, rest
    <2> QED BY <2>1, <2>2, <2>3
  <1>4. CASE c[1] = "echo"
    <2>1. InferExpect(c) = IF all \/ number THEN "end" ELSE "single"
      BY <1>4 DEF InferExpect, Inquiries, Notifications, Orders
    <2>2. DefaultMockResponse(c) = <<"success">>
      BY <1>4 DEF DefaultMockResponse
    <2>3. Unanswered(c) <=> all \/ number
      BY <1>4 DEF Unanswered, Notifications, AsksForAll, EndsInNumber
    <2> HIDE DEF all, number
    <2> QED BY <2>1, <2>2, <2>3
  <1>5. CASE c[1] \in Orders
    <2>1. InferExpect(c) = "single"
      BY <1>5 DEF InferExpect, Inquiries, Notifications, Orders
    <2>2. DefaultMockResponse(c) \in {<<"success">>, <<"error">>}
      BY <1>5 DEF DefaultMockResponse, Orders
    <2>3. ~Unanswered(c)
      BY <1>5 DEF Unanswered, Orders
    <2> QED BY <2>1, <2>2, <2>3
  <1>6. CASE c[1] \notin known
    <2>1. c[1] \in Inquiries => InferExpect(c) = "end"
      BY <1>6 DEF InferExpect
    <2>2. c[1] \notin Inquiries => InferExpect(c) = "end"
      BY <1>6 DEF InferExpect
    <2>3. DefaultMockResponse(c) \in {<<>>, <<"error">>}
      BY <1>6 DEF DefaultMockResponse, Orders, Notifications
    <2>4. Unanswered(c)
      BY <1>6 DEF Unanswered
    <2> QED BY <2>1, <2>2, <2>3, <2>4
  <1>7. c[1] \in {"version", "help", "state", "log", "echo"} \/ c[1] \in Orders \/ c[1] \notin known
    BY DEF Notifications
  <1> QED BY <1>1, <1>2, <1>3, <1>4, <1>5, <1>6, <1>7

(* The reply to a command ends where the mode inferred for it says, or     *)
(* nowhere.                                                                *)
LEMMA ReplyEnds ==
    ASSUME NEW c
    PROVE  LET reply == DefaultMockResponse(c)
           IN  {i \in DOMAIN reply : reply[i] \in Closing(InferExpect(c))}
                 = IF Unanswered(c) THEN {} ELSE {Len(reply)}
  <1> DEFINE reply == DefaultMockResponse(c)
             mode == InferExpect(c)
             closing == {i \in DOMAIN reply : reply[i] \in Closing(mode)}
  <1>1. Closing("end") = {"end"} /\ Closing("single") = {"end", "success", "error"}
    BY DEF Closing
  <1> SUFFICES closing = IF Unanswered(c) THEN {} ELSE {Len(reply)}
    OBVIOUS
  <1>2. \/ /\ ~Unanswered(c) /\ mode = "end"
           /\ reply \in {<<"data", "end">>, <<"data", "data", "end">>, <<"success", "data", "end">>}
        \/ ~Unanswered(c) /\ mode = "single" /\ reply \in {<<"success">>, <<"error">>, <<"data", "end">>}
        \/ Unanswered(c) /\ mode = "end" /\ reply \in {<<>>, <<"success">>, <<"error">>}
    BY ExpectedEnd
  <1> HIDE DEF reply, mode
  <1>3. CASE reply = <<"data", "end">> /\ ~Unanswered(c) /\ mode \in {"end", "single"}
    <2>1. DOMAIN <<"data", "end">> = {1, 2} /\ Len(<<"data", "end">>) = 2
      OBVIOUS
    <2> QED BY <1>1, <1>3, <2>1
  <1>4. CASE /\ reply \in {<<"data", "data", "end">>, <<"success", "data", "end">>}
             /\ ~Unanswered(c) /\ mode = "end"
    <2>1. DOMAIN reply = {1, 2, 3} /\ Len(reply) = 3
      BY <1>4
    <2>2. reply[1] \in {"data", "success"} /\ reply[2] = "data" /\ reply[3] = "end"
      BY <1>4
    <2> QED BY <1>1, <1>4, <2>1, <2>2
  <1>5. CASE reply \in {<<"success">>, <<"error">>} /\ ~Unanswered(c) /\ mode = "single"
    <2>1. DOMAIN reply = {1} /\ Len(reply) = 1 /\ reply[1] \in {"success", "error"}
      BY <1>5
    <2> QED BY <1>1, <1>5, <2>1
  <1>6. CASE reply \in {<<"success">>, <<"error">>} /\ Unanswered(c) /\ mode = "end"
    <2>1. DOMAIN reply = {1} /\ reply[1] \in {"success", "error"}
      BY <1>6
    <2> QED BY <1>1, <1>6, <2>1
  <1>7. CASE reply = <<>> /\ Unanswered(c)
    <2>1. DOMAIN reply = {}
      BY <1>7
    <2> QED BY <1>7, <2>1
  <1> QED BY <1>2, <1>3, <1>4, <1>5, <1>6, <1>7

----------------------------------------------------------------------------
\* What push takes from the text

(* text is what remains of the lines after the d-th, each with an end.     *)
Pending(lines, d, text) ==
    \E rest \in [0 .. Len(lines) -> Seq(Characters)] :
      /\ rest[d] = text
      /\ rest[Len(lines)] = <<>>
      /\ \A i \in (d + 1) .. Len(lines) :
           \E end \in Ends : rest[i - 1] = (lines[i] \o end) \o rest[i]

(* Line ends are text of one or two characters.                           *)
LEMMA EndsAreText ==
    ASSUME NEW end \in Ends
    PROVE  end \in Seq(Characters) /\ Len(end) \in 1 .. 2
  <1>1. CR \in Characters /\ LF \in Characters
    BY CharactersAssumption
  <1>2. <<LF>> \in Seq(Characters) /\ Len(<<LF>>) \in 1 .. 2
    BY <1>1
  <1>3. <<CR, LF>> \in Seq(Characters) /\ Len(<<CR, LF>>) \in 1 .. 2
    BY <1>1
  <1> QED BY <1>2, <1>3 DEF Ends

(* A further line is pending behind the others. *)
LEMMA PendingMore ==
    ASSUME NEW lines \in Seq(Lines), NEW d \in 0 .. Len(lines), NEW text \in Seq(Characters),
           Pending(lines, d, text), NEW line \in Lines, NEW end \in Ends
    PROVE  Pending(Append(lines, line), d, (text \o line) \o end)
  <1> DEFINE m == Len(lines)
             more == Append(lines, line)
             added == line \o end
  <1>1. /\ m \in Nat /\ Len(more) = m + 1 /\ more[m + 1] = line
        /\ \A i \in 1 .. m : more[i] = lines[i] /\ lines[i] \in Lines
    OBVIOUS
  <1>2. line \in Seq(Characters) /\ end \in Seq(Characters) /\ added \in Seq(Characters)
    BY LinesAssumption, EndsAreText
  <1>3. PICK rest \in [0 .. m -> Seq(Characters)] :
          /\ rest[d] = text /\ rest[m] = <<>>
          /\ \A i \in (d + 1) .. m : \E e \in Ends : rest[i - 1] = (lines[i] \o e) \o rest[i]
    BY DEF Pending
  <1> DEFINE next == [i \in 0 .. (m + 1) |-> IF i = m + 1 THEN <<>> ELSE rest[i] \o added]
  <1>4. next \in [0 .. (m + 1) -> Seq(Characters)]
    BY <1>1, <1>2
  <1>5. \A i \in 0 .. m : next[i] = rest[i] \o added
    <2> HIDE DEF m, added
    <2> TAKE i \in 0 .. m
    <2>1. i \in 0 .. (m + 1) /\ i # m + 1
      BY <1>1
    <2> QED BY <2>1
  <1>6. next[d] = (text \o line) \o end /\ next[m + 1] = <<>>
    <2>1. next[m + 1] = <<>>
      <3> HIDE DEF m, added
      <3> QED BY <1>1
    <2>2. text \o added = (text \o line) \o end
      BY <1>2
    <2>3. d \in 0 .. m
      OBVIOUS
    <2> HIDE DEF next, added, m
    <2>4. next[d] = rest[d] \o added
      BY <1>5, <2>3
    <2> QED BY <1>3, <2>1, <2>2, <2>4
  <1>7. ASSUME NEW i \in (d + 1) .. (m + 1)
        PROVE  \E e \in Ends : next[i - 1] = (more[i] \o e) \o next[i]
    <2>1. CASE i = m + 1
      <3>1. next[i - 1] = <<>> \o added
        <4> HIDE DEF next, m, added
        <4>1. i - 1 = m /\ m \in 0 .. m
          BY <1>1, <2>1
        <4>2. next[m] = rest[m] \o added
          BY <1>5, <4>1
        <4> QED BY <1>3, <4>1, <4>2
      <3>2. <<>> \o added = added /\ added \o <<>> = added
        BY <1>2
      <3>3. next[i - 1] = (more[i] \o end) \o next[i]
        <4> HIDE DEF next, m
        <4> QED BY <1>1, <1>6, <2>1, <3>1, <3>2
      <3> QED BY <3>3
    <2>2. CASE i # m + 1
      <3>1. i \in (d + 1) .. m /\ i \in 0 .. m /\ i - 1 \in 0 .. m /\ i \in 1 .. m
        BY <1>1, <2>2
      <3>2. PICK e \in Ends : rest[i - 1] = (lines[i] \o e) \o rest[i]
        BY <1>3, <3>1
      <3>3. lines[i] \in Seq(Characters) /\ e \in Seq(Characters) /\ rest[i] \in Seq(Characters)
        BY <1>1, <1>3, <3>1, LinesAssumption, EndsAreText
      <3>4. lines[i] \o e \in Seq(Characters)
        BY <3>3
      <3>5. ((lines[i] \o e) \o rest[i]) \o added = (lines[i] \o e) \o (rest[i] \o added)
        <4> DEFINE x == lines[i] \o e
                   y == rest[i]
        <4> HIDE DEF x, y, added
        <4> SUFFICES (x \o y) \o added = x \o (y \o added)
          BY DEF x, y
        <4>1. x \in Seq(Characters) /\ y \in Seq(Characters) /\ added \in Seq(Characters)
          BY <1>2, <3>3, <3>4 DEF x, y
        <4>2. Regrouped(x, y, added)
          BY <4>1, Regroup
        <4> QED BY <4>2 DEF Regrouped
      <3>6. next[i - 1] = (more[i] \o e) \o next[i]
        BY <1>1, <1>5, <3>1, <3>2, <3>5
      <3> QED BY <3>6
    <2> QED BY <2>1, <2>2
  <1> HIDE DEF next, m, more
  <1>8. \E r \in [0 .. (m + 1) -> Seq(Characters)] :
          /\ r[d] = (text \o line) \o end
          /\ r[m + 1] = <<>>
          /\ \A i \in (d + 1) .. (m + 1) : \E e \in Ends : r[i - 1] = (more[i] \o e) \o r[i]
    BY <1>4, <1>6, <1>7
  <1>9. Len(more) = m + 1
    BY <1>1
  <1> QED BY <1>8, <1>9 DEF Pending, more

(* Where the first line end of a line and of what follows it is.           *)
LEMMA FirstLineEnd ==
    ASSUME NEW line \in Lines, NEW end \in Ends, NEW after \in Seq(Characters)
    PROVE  LET text == (line \o end) \o after
               i == Len(line) + 1
           IN  /\ text \in Seq(Characters)
               /\ i \in Nat /\ i - 1 + Len(end) <= Len(text)
               /\ LineEnd(text, i) = Len(end)
               /\ \A j \in 1 .. (i - 1) : text[j] # LF /\ LineEnd(text, j) = 0
  <1> DEFINE text == (line \o end) \o after
             n == Len(line)
             m == Len(text)
  <1>1. line \in Seq(Characters) /\ end \in Seq(Characters) /\ Len(end) \in 1 .. 2
    BY LinesAssumption, EndsAreText
  <1>2. /\ n \in Nat /\ m \in Nat /\ Len(line \o end) = n + Len(end)
        /\ line \o end \in Seq(Characters) /\ text \in Seq(Characters)
        /\ m = n + Len(end) + Len(after) /\ Len(after) \in Nat
    BY <1>1
  <1>3. \A j \in 1 .. n : text[j] = line[j]
    <2>1. \A j \in 1 .. n : (line \o end)[j] = line[j]
      BY <1>1
    <2> QED BY <1>1, <1>2, <2>1
  <1>4. \A j \in 1 .. Len(end) : text[n + j] = end[j]
    <2>1. \A j \in 1 .. Len(end) : (line \o end)[n + j] = end[j]
      BY <1>1
    <2> QED BY <1>1, <1>2, <2>1
  <1>5. \A j \in 1 .. n : line[j] # LF
    BY <1>1, LinesAssumption
  <1>6. n > 0 => line[n] # CR
    <2>1. n > 0 => line # <<>>
      BY <1>1
    <2> QED BY <2>1, LinesAssumption
  <1>7. LF # CR
    BY DEF LF, CR
  <1> HIDE DEF text, n, m
  <1>8. ASSUME NEW j \in 1 .. n PROVE text[j] # LF /\ LineEnd(text, j) = 0
    <2>1. text[j] = line[j] /\ line[j] # LF
      BY <1>3, <1>5
    <2>2. CASE j < n
      <3>1. j + 1 \in 1 .. n
        BY <1>2, <2>2
      <3>2. text[j + 1] # LF
        BY <1>3, <1>5, <3>1
      <3> QED BY <2>1, <3>2 DEF LineEnd
    <2>3. CASE j = n
      <3>1. line[j] # CR
        BY <1>2, <1>6, <2>3
      <3> QED BY <2>1, <3>1 DEF LineEnd
    <2> QED BY <1>2, <2>2, <2>3
  <1>9. LineEnd(text, n + 1) = Len(end)
    <2>1. CASE end = <<LF>>
      <3>1. Len(end) = 1 /\ end[1] = LF
        BY <2>1
      <3>2. text[n + 1] = LF
        BY <1>4, <3>1
      <3> QED BY <3>1, <3>2 DEF LineEnd
    <2>2. CASE end = <<CR, LF>>
      <3>1. Len(end) = 2 /\ end[1] = CR /\ end[2] = LF
        BY <2>2
      <3>2. text[n + 1] = CR /\ text[n + 2] = LF
        BY <1>4, <3>1
      <3>3. n + 1 < Len(text) /\ (n + 1) + 1 = n + 2
        BY <1>2, <3>1 DEF m
      <3> QED BY <1>7, <3>1, <3>2, <3>3 DEF LineEnd
    <2> QED BY <2>1, <2>2 DEF Ends
  <1>10. n + 1 \in Nat /\ (n + 1) - 1 = n /\ n + Len(end) <= m
    BY <1>1, <1>2
  <1> QED BY <1>2, <1>8, <1>9, <1>10 DEF text, n, m

(* The line ends of a text are line ends of what begins with it. *)
LEMMA EndsOfPrefix ==
    ASSUME NEW text \in Seq(Characters), NEW more \in Seq(Characters),
           NEW i \in 1 .. Len(text)
    PROVE  /\ LineEnd(text, i) # 0 => LineEnd(text \o more, i) = LineEnd(text, i)
           /\ i < Len(text) => LineEnd(text \o more, i) = LineEnd(text, i)
           /\ i + LineEnd(text, i) <= Len(text) + 1
  <1> DEFINE all == text \o more
             n == Len(text)
             m == Len(all)
  <1>1. n \in Nat /\ m \in Nat /\ n <= m /\ \A j \in 1 .. n : all[j] = text[j]
    OBVIOUS
  <1>2. all[i] = text[i]
    BY <1>1
  <1>3. i < n => all[i + 1] = text[i + 1]
    BY <1>1
  <1> HIDE DEF all, n, m
  <1>4. LineEnd(text, i) = IF text[i] = LF THEN 1
                           ELSE IF text[i] = CR /\ i < n /\ text[i + 1] = LF THEN 2 ELSE 0
    BY DEF LineEnd, n
  <1>5. LineEnd(all, i) = IF all[i] = LF THEN 1
                          ELSE IF all[i] = CR /\ i < m /\ all[i + 1] = LF THEN 2 ELSE 0
    BY DEF LineEnd, m
  <1>6. i \in 1 .. n
    BY DEF n
  <1>7. /\ LineEnd(text, i) # 0 => LineEnd(all, i) = LineEnd(text, i)
        /\ i < n => LineEnd(all, i) = LineEnd(text, i)
        /\ i + LineEnd(text, i) <= n + 1
    BY <1>1, <1>2, <1>3, <1>4, <1>5, <1>6
  <1> QED BY <1>7 DEF all, n

(* Length and elements of a concatenation.                                *)
LEMMA ConcatAt ==
    ASSUME NEW s \in Seq(Characters), NEW t \in Seq(Characters)
    PROVE  /\ s \o t \in Seq(Characters)
           /\ Len(s) \in Nat /\ Len(t) \in Nat
           /\ Len(s \o t) = Len(s) + Len(t)
           /\ \A i \in 1 .. Len(s) : (s \o t)[i] = s[i]
           /\ \A i \in 1 .. Len(t) : (s \o t)[Len(s) + i] = t[i]
  OBVIOUS

(* The same text cut in two ways: text and more, and x, y and z. *)
Cuts(text, more, x, y, z) == text \o more = (x \o y) \o z
After(text, x, y) == SubSeq(text, (Len(x) + Len(y)) + 1, Len(text))
Joins(s, t, u) == t \o u = s

(* Where the text ends behind x and y, its rest is the beginning of z.    *)
LEMMA SameCut ==
    ASSUME NEW x \in Seq(Characters), NEW y \in Seq(Characters),
           NEW z \in Seq(Characters), NEW text \in Seq(Characters), NEW more \in Seq(Characters),
           Cuts(text, more, x, y, z), Len(x) + Len(y) <= Len(text)
    PROVE  /\ SubSeq(text, 1, Len(x)) = x
           /\ After(text, x, y) \in Seq(Characters)
           /\ Joins(z, After(text, x, y), more)
           /\ Len(After(text, x, y)) = Len(text) - (Len(x) + Len(y))
  <1> DEFINE all == text \o more
             n == Len(x) + Len(y)
             last == After(text, x, y)
  <1>0. all = (x \o y) \o z
    BY DEF Cuts
  <1>1. /\ Len(x) \in Nat /\ Len(y) \in Nat /\ Len(z) \in Nat /\ Len(text) \in Nat
        /\ Len(more) \in Nat /\ x \o y \in Seq(Characters) /\ Len(x \o y) = n
    OBVIOUS
  <1>2. /\ Len(all) = Len(text) + Len(more)
        /\ \A i \in 1 .. Len(text) : all[i] = text[i]
        /\ \A i \in 1 .. Len(more) : all[Len(text) + i] = more[i]
    BY ConcatAt
  <1>3. /\ Len(all) = n + Len(z)
        /\ \A i \in 1 .. n : all[i] = (x \o y)[i]
        /\ \A i \in 1 .. Len(z) : all[n + i] = z[i]
    BY <1>0, <1>1
  <1>4. \A i \in 1 .. Len(x) : (x \o y)[i] = x[i]
    BY <1>1
  <1>5. SubSeq(text, 1, Len(x)) = x
    <2>1. /\ SubSeq(text, 1, Len(x)) \in Seq(Characters) /\ Len(SubSeq(text, 1, Len(x))) = Len(x)
          /\ \A i \in 1 .. Len(x) : SubSeq(text, 1, Len(x))[i] = text[i]
      BY <1>1
    <2>2. \A i \in 1 .. Len(x) : text[i] = x[i]
      <3> TAKE i \in 1 .. Len(x)
      <3>1. i \in 1 .. n /\ i \in 1 .. Len(text)
        BY <1>1
      <3> HIDE DEF all
      <3> QED BY <1>2, <1>3, <1>4, <3>1
    <2> QED BY <2>1, <2>2, SeqEqual
  <1>6. /\ last \in Seq(Characters) /\ Len(last) = Len(text) - n
        /\ \A i \in 1 .. Len(text) - n : last[i] = text[n + i]
    <2>1. n \in Nat /\ n <= Len(text)
      BY <1>1
    <2>2. last = SubSeq(text, n + 1, Len(text))
      BY DEF After
    <2> HIDE DEF last, n
    <2> QED BY <1>1, <2>1, <2>2
  <1> HIDE DEF last
  <1>7. last \o more = z
    <2> DEFINE both == last \o more
    <2>1. /\ both \in Seq(Characters) /\ Len(both) = (Len(text) - n) + Len(more)
          /\ \A i \in 1 .. Len(text) - n : both[i] = last[i]
          /\ \A i \in 1 .. Len(more) : both[(Len(text) - n) + i] = more[i]
      <3>1. Len(last) \in Nat
        BY <1>6
      <3>2. /\ both \in Seq(Characters) /\ Len(both) = Len(last) + Len(more)
            /\ \A i \in 1 .. Len(last) : both[i] = last[i]
            /\ \A i \in 1 .. Len(more) : both[Len(last) + i] = more[i]
        BY <1>6, ConcatAt
      <3> HIDE DEF both
      <3> QED BY <1>6, <3>2
    <2>2. Len(both) = Len(z)
      BY <1>1, <1>2, <1>3, <2>1
    <2> HIDE DEF all, both
    <2>3. n \in Nat /\ n <= Len(text)
      BY <1>1
    <2>4. ASSUME NEW i \in 1 .. Len(z) PROVE both[i] = z[i]
      <3>1. all[n + i] = z[i]
        BY <1>3
      <3>2. CASE i <= Len(text) - n
        <4>1. i \in 1 .. Len(text) - n /\ n + i \in 1 .. Len(text)
          BY <1>1, <2>3, <3>2
        <4> QED BY <1>2, <1>6, <2>1, <3>1, <4>1
      <3>3. CASE i > Len(text) - n
        <4> DEFINE j == i - (Len(text) - n)
        <4>1. j \in 1 .. Len(more) /\ (Len(text) - n) + j = i /\ Len(text) + j = n + i
          BY <1>1, <1>2, <1>3, <2>3, <3>3
        <4> HIDE DEF j
        <4> QED BY <1>2, <2>1, <3>1, <4>1
      <3> QED BY <1>1, <2>3, <3>2, <3>3
    <2>5. both = z
      BY <2>1, <2>2, <2>4, SeqEqual
    <2> QED BY <2>5 DEF both
  <1>8. Joins(z, last, more)
    BY <1>7 DEF Joins
  <1> QED BY <1>5, <1>6, <1>8 DEF last, n

(* What is pending before the last line, or is not empty, begins with the  *)
(* next line.                                                              *)
LEMMA PendingFirst ==
    ASSUME NEW lines \in Seq(Lines), NEW d \in 0 .. Len(lines), NEW text,
           Pending(lines, d, text), d < Len(lines) \/ text # <<>>
    PROVE  /\ d < Len(lines)
           /\ lines[d + 1] \in Lines
           /\ \E end \in Ends, after \in Seq(Characters) :
                /\ text = (lines[d + 1] \o end) \o after
                /\ Pending(lines, d + 1, after)
  <1> DEFINE m == Len(lines)
  <1>1. PICK rest \in [0 .. m -> Seq(Characters)] :
          /\ rest[d] = text /\ rest[m] = <<>>
          /\ \A i \in (d + 1) .. m : \E e \in Ends : rest[i - 1] = (lines[i] \o e) \o rest[i]
    BY DEF Pending
  <1>2. m \in Nat /\ \A i \in 1 .. m : lines[i] \in Lines
    OBVIOUS
  <1> HIDE DEF m
  <1>3. d \in 0 .. m
    BY DEF m
  <1>4. d < m
    BY <1>1, <1>2, <1>3 DEF m
  <1>5. d + 1 \in (d + 1) .. m /\ (d + 1) - 1 = d /\ d + 1 \in 0 .. m /\ d + 1 \in 1 .. m
    BY <1>2, <1>3, <1>4
  <1>6. PICK end \in Ends : rest[d] = (lines[d + 1] \o end) \o rest[d + 1]
    BY <1>1, <1>5
  <1>7. rest[d + 1] \in Seq(Characters)
    BY <1>1, <1>5
  <1>8. Pending(lines, d + 1, rest[d + 1])
    <2>1. \A i \in ((d + 1) + 1) .. m : i \in (d + 1) .. m
      BY <1>2, <1>3
    <2>2. \A i \in ((d + 1) + 1) .. m : \E e \in Ends : rest[i - 1] = (lines[i] \o e) \o rest[i]
      BY <1>1, <2>1
    <2> QED BY <1>1, <2>2 DEF Pending, m
  <1> QED BY <1>1, <1>2, <1>4, <1>5, <1>6, <1>7, <1>8 DEF m

(* An iteration of push takes the next of the lines. *)
LEMMA TakesNextLine ==
    ASSUME NEW lines \in Seq(Lines), NEW d \in 0 .. Len(lines),
           NEW text \in Seq(Characters), NEW more \in Seq(Characters),
           Pending(lines, d, text \o more), LineEnds(text) # {}, NEW taken
    PROVE  /\ d < Len(lines) /\ lines[d + 1] \in Lines
           /\ \E buffer_ \in Seq(Characters) :
                /\ TakeLine([lines |-> taken, buffer |-> text])
                     = [lines |-> Append(taken, lines[d + 1]), buffer |-> buffer_]
                /\ Len(buffer_) < Len(text)
                /\ Pending(lines, d + 1, buffer_ \o more)
  <1> DEFINE ends == LineEnds(text)
             all == text \o more
             i == CHOOSE x \in ends : \A y \in ends : x <= y
             m == Len(text)
  <1>1. m \in Nat /\ DOMAIN text = 1 .. m
    OBVIOUS
  <1>2. \A x \in ends : x \in 1 .. m /\ LineEnd(text, x) # 0
    BY <1>1 DEF LineEnds
  <1>3. i \in ends /\ \A y \in ends : i <= y
    <2>1. ends \subseteq Nat
      BY <1>2
    <2>2. ends # {}
      OBVIOUS
    <2> HIDE DEF ends
    <2>3. \E x \in ends : \A y \in ends : x <= y
      BY <2>1, <2>2, Smallest
    <2> QED BY <2>3
  <1> DEFINE buffer_ == SubSeq(text, i + LineEnd(text, i), Len(text))
  <1>4. TakeLine([lines |-> taken, buffer |-> text])
          = [lines |-> Append(taken, SubSeq(text, 1, i - 1)), buffer |-> buffer_]
    BY DEF TakeLine
  <1> HIDE DEF i
  <1>5. i \in 1 .. m /\ LineEnd(text, i) # 0
    BY <1>2, <1>3
  <1>6. all # <<>>
    <2>1. Len(all) = m + Len(more) /\ Len(more) \in Nat
      BY ConcatAt
    <2>2. Len(all) # 0
      BY <1>1, <1>5, <2>1
    <2> QED BY <2>2
  <1> HIDE DEF all
  <1>7. d < Len(lines) /\ lines[d + 1] \in Lines
    BY <1>6, PendingFirst DEF all
  <1>8. PICK end \in Ends, after \in Seq(Characters) :
          all = (lines[d + 1] \o end) \o after /\ Pending(lines, d + 1, after)
    BY <1>6, PendingFirst DEF all
  <1> DEFINE line == lines[d + 1]
             n == Len(line)
             k == Len(end)
  <1>9. line \in Seq(Characters) /\ end \in Seq(Characters) /\ n \in Nat /\ k \in 1 .. 2
    BY <1>7, LinesAssumption, EndsAreText
  <1>10. /\ LineEnd(all, n + 1) = k
         /\ \A j \in 1 .. n : LineEnd(all, j) = 0
    <2> HIDE DEF line
    <2>1. line \in Lines /\ all = (line \o end) \o after
      BY <1>7, <1>8 DEF line
    <2>2. (n + 1) - 1 = n
      BY <1>9
    <2> QED BY <2>1, <2>2, FirstLineEnd
  <1> HIDE DEF line, n, k
  <1>11. LineEnd(all, i) = LineEnd(text, i) /\ i + LineEnd(text, i) <= m + 1
    BY <1>5, EndsOfPrefix DEF all, m
  <1>12. i = n + 1
    <2>1. i >= n + 1
      BY <1>5, <1>9, <1>10, <1>11
    <2>2. SUFFICES ASSUME i > n + 1 PROVE FALSE
      BY <1>5, <1>9, <2>1
    <2>3. n + 1 \in 1 .. m /\ n + 1 < m
      BY <1>1, <1>5, <1>9, <2>2
    <2>4. LineEnd(text, n + 1) = k
      BY <1>10, <2>3, EndsOfPrefix DEF all, m
    <2>5. n + 1 \in ends
      <3>1. n + 1 \in DOMAIN text
        BY <1>1, <2>3
      <3>2. LineEnd(text, n + 1) # 0
        BY <1>9, <2>4
      <3> HIDE DEF m
      <3> QED BY <3>1, <3>2 DEF LineEnds
    <2> HIDE DEF ends
    <2> QED BY <1>3, <1>5, <1>9, <2>2, <2>5
  <1>13. LineEnd(text, i) = k /\ i - 1 = n /\ n + k <= m
         /\ i + LineEnd(text, i) = (n + k) + 1
    <2>1. LineEnd(text, i) = k
      BY <1>10, <1>11, <1>12
    <2> HIDE DEF m
    <2> QED BY <1>1, <1>5, <1>9, <1>11, <1>12, <2>1
  <1> DEFINE l == Len(line) + Len(end)
             last == After(text, line, end)
  <1>14. /\ SubSeq(text, 1, n) = line
         /\ last \in Seq(Characters)
         /\ last \o more = after
         /\ Len(last) = Len(text) - l
    <2>1. Cuts(text, more, line, end, after)
      BY <1>8 DEF Cuts, all, line
    <2>2. l <= Len(text)
      BY <1>13 DEF n, k
    <2> HIDE DEF m, ends, buffer_
    <2>4. /\ SubSeq(text, 1, Len(line)) = line
          /\ last \in Seq(Characters)
          /\ Joins(after, last, more)
          /\ Len(last) = Len(text) - l
      BY <1>9, <2>1, <2>2, SameCut
    <2> QED BY <2>4 DEF Joins, n
  <1>15. buffer_ \in Seq(Characters) /\ buffer_ \o more = after /\ Len(buffer_) < Len(text)
    <2>1. buffer_ = last
      BY <1>13 DEF After, n, k
    <2>2. Len(text) - l < Len(text)
      <3>1. l = n + k
        BY DEF n, k
      <3> HIDE DEF l, buffer_, last
      <3> QED BY <1>1, <1>9, <3>1
    <2> HIDE DEF buffer_, m, last, l
    <2> QED BY <1>14, <2>1, <2>2
  <1>16. TakeLine([lines |-> taken, buffer |-> text])
           = [lines |-> Append(taken, lines[d + 1]), buffer |-> buffer_]
    BY <1>4, <1>13, <1>14 DEF line
  <1> HIDE DEF buffer_
  <1> QED BY <1>7, <1>8, <1>15, <1>16

(* The lines w are the lines after the first d, and what follows them is   *)
(* pending with text.                                                      *)
Follows(lines, d, w, text) ==
    /\ d + Len(w) <= Len(lines)
    /\ \A i \in 1 .. Len(w) : w[i] = lines[d + i]
    /\ Pending(lines, d + Len(w), text)

(* One more line follows. *)
LEMMA FollowsMore ==
    ASSUME NEW lines \in Seq(Lines), NEW d \in 0 .. Len(lines), NEW w \in Seq(Lines),
           NEW text \in Seq(Characters), NEW more \in Seq(Characters),
           Follows(lines, d, w, text \o more), LineEnds(text) # {}
    PROVE  \E v \in Seq(Lines), buffer_ \in Seq(Characters) :
             /\ TakeLine([lines |-> w, buffer |-> text]) = [lines |-> v, buffer |-> buffer_]
             /\ Len(buffer_) < Len(text)
             /\ Follows(lines, d, v, buffer_ \o more)
  <1> DEFINE e == d + Len(w)
             m == Len(lines)
  <1>1. m \in Nat /\ Len(w) \in Nat /\ e \in 0 .. m
    BY DEF Follows
  <1>2. Pending(lines, e, text \o more)
    BY DEF Follows
  <1> HIDE DEF e
  <1>3. /\ e < Len(lines) /\ lines[e + 1] \in Lines
        /\ \E buffer_ \in Seq(Characters) :
             /\ TakeLine([lines |-> w, buffer |-> text])
                  = [lines |-> Append(w, lines[e + 1]), buffer |-> buffer_]
             /\ Len(buffer_) < Len(text)
             /\ Pending(lines, e + 1, buffer_ \o more)
    BY <1>1, <1>2, TakesNextLine
  <1>4. PICK buffer_ \in Seq(Characters) :
          /\ TakeLine([lines |-> w, buffer |-> text])
               = [lines |-> Append(w, lines[e + 1]), buffer |-> buffer_]
          /\ Len(buffer_) < Len(text)
          /\ Pending(lines, e + 1, buffer_ \o more)
    BY <1>3
  <1> DEFINE line == lines[e + 1]
             v == Append(w, line)
  <1>5. line \in Lines
    BY <1>3
  <1> HIDE DEF line
  <1>6. /\ v \in Seq(Lines) /\ Len(v) = Len(w) + 1 /\ v[Len(w) + 1] = line
        /\ \A i \in 1 .. Len(w) : v[i] = w[i]
    BY <1>5
  <1>7. d + Len(v) = e + 1 /\ e + 1 <= Len(lines)
    BY <1>1, <1>3, <1>6 DEF e
  <1>8. \A i \in 1 .. Len(v) : v[i] = lines[d + i]
    <2>1. \A i \in 1 .. Len(w) : w[i] = lines[d + i]
      BY DEF Follows
    <2>2. lines[d + (Len(w) + 1)] = line
      BY <1>1 DEF line, e
    <2> HIDE DEF v, m
    <2> TAKE i \in 1 .. Len(v)
    <2>3. i \in 1 .. Len(w) \/ i = Len(w) + 1
      BY <1>1, <1>6
    <2> QED BY <1>6, <2>1, <2>2, <2>3
  <1> HIDE DEF v
  <1>9. Follows(lines, d, v, buffer_ \o more)
    BY <1>4, <1>7, <1>8 DEF Follows
  <1> QED BY <1>4, <1>6, <1>9 DEF v, line

(* What push takes from the beginning of what is pending. *)
LEMMA PushTakes ==
    ASSUME NEW lines \in Seq(Lines), NEW d \in 0 .. Len(lines),
           NEW text \in Seq(Characters), NEW more \in Seq(Characters),
           Pending(lines, d, text \o more)
    PROVE  /\ Push(text).lines \in Seq(Lines)
           /\ Push(text).buffer \in Seq(Characters)
           /\ LineEnds(Push(text).buffer) = {}
           /\ Follows(lines, d, Push(text).lines, Push(text).buffer \o more)
  <1> DEFINE m == Len(text)
             Is(r, w, b, n) == /\ r = [lines |-> w, buffer |-> b]
                               /\ Follows(lines, d, w, b \o more)
                               /\ LineEnds(b) = {} \/ Len(b) + n <= m
             Good(r, n) == \E w \in Seq(Lines), b \in Seq(Characters) : Is(r, w, b, n)
  <1>1. m \in Nat
    OBVIOUS
  <1>2. PICK f : /\ f[0] = [lines |-> <<>>, buffer |-> text]
                 /\ \A n \in 1 .. m : f[n] = TakeLine(f[n - 1])
                 /\ Push(text) = f[m]
    BY <1>1, PushLoop
  <1> DEFINE P == {n \in 0 .. m : Good(f[n], n)}
  <1>3. 0 \in P
    <2>1. Follows(lines, d, <<>>, text \o more)
      <3>1. Len(<<>>) = 0 /\ d + 0 = d /\ d <= Len(lines)
        OBVIOUS
      <3> QED BY <3>1 DEF Follows
    <2>2. <<>> \in Seq(Lines) /\ Len(text) + 0 <= m
      BY <1>1
    <2>3. Is(f[0], <<>>, text, 0)
      BY <1>2, <2>1, <2>2
    <2>4. Good(f[0], 0)
      <3> HIDE DEF Is
      <3> QED BY <2>2, <2>3
    <2>5. 0 \in 0 .. m
      <3> HIDE DEF m
      <3> QED BY <1>1
    <2> HIDE DEF Good
    <2> QED BY <2>4, <2>5
  <1>4. ASSUME NEW n \in 0 .. (m - 1), n \in P PROVE n + 1 \in P
    <2>1. PICK w \in Seq(Lines), b \in Seq(Characters) : Is(f[n], w, b, n)
      BY <1>4
    <2>2. n + 1 \in 1 .. m /\ (n + 1) - 1 = n /\ n + 1 \in 0 .. m
      BY <1>1
    <2>3. f[n + 1] = TakeLine([lines |-> w, buffer |-> b])
      BY <1>2, <2>1, <2>2
    <2>4. CASE LineEnds(b) = {}
      <3>1. f[n + 1] = [lines |-> w, buffer |-> b]
        BY <2>3, <2>4 DEF TakeLine
      <3>2. Is(f[n + 1], w, b, n + 1)
        BY <2>1, <2>4, <3>1
      <3> HIDE DEF Is, m
      <3> QED BY <2>2, <3>2
    <2>5. CASE LineEnds(b) # {}
      <3>1. Follows(lines, d, w, b \o more) /\ Len(b) + n <= m
        BY <2>1, <2>5
      <3>2. PICK v \in Seq(Lines), b_ \in Seq(Characters) :
              /\ TakeLine([lines |-> w, buffer |-> b]) = [lines |-> v, buffer |-> b_]
              /\ Len(b_) < Len(b)
              /\ Follows(lines, d, v, b_ \o more)
        BY <2>5, <3>1, FollowsMore
      <3>3. Len(b_) \in Nat /\ Len(b) \in Nat
        OBVIOUS
      <3>4. Len(b_) + (n + 1) <= m
        <4> HIDE DEF m
        <4> QED BY <1>1, <3>1, <3>2, <3>3
      <3>5. Is(f[n + 1], v, b_, n + 1)
        BY <2>3, <3>2, <3>4
      <3> HIDE DEF Is, m
      <3> QED BY <2>2, <3>5
    <2> QED BY <2>4, <2>5
  <1>5. m \in P
    <2> HIDE DEF P, m
    <2>1. \A n \in 0 .. (m - 1) : n \in P => n + 1 \in P
      BY <1>4
    <2>2. \A n \in 0 .. m : n \in P
      BY <1>1, <1>3, <2>1, Induction
    <2> QED BY <1>1, <2>2
  <1>6. PICK w \in Seq(Lines), b \in Seq(Characters) : Is(f[m], w, b, m)
    BY <1>5
  <1>7. LineEnds(b) = {}
    <2>1. SUFFICES ASSUME Len(b) + m <= m PROVE LineEnds(b) = {}
      BY <1>6
    <2>2. Len(b) \in Nat /\ DOMAIN b = 1 .. Len(b)
      OBVIOUS
    <2>3. Len(b) = 0
      <3> HIDE DEF m
      <3> QED BY <1>1, <2>1, <2>2
    <2> QED BY <2>2, <2>3 DEF LineEnds
  <1>8. Push(text).lines = w /\ Push(text).buffer = b
    BY <1>2, <1>6
  <1> QED BY <1>6, <1>7, <1>8

----------------------------------------------------------------------------

(* Behind the lines that were decoded on this connection, the others are   *)
(* pending, and the buffer has no complete line.                           *)
Decoding ==
    /\ buffer \in Seq(Characters)
    /\ decoded \in Seq(Lines)
    /\ Follows(sent, 0, decoded, buffer \o transit)
    /\ LineEnds(buffer) = {}

(* The inductive invariant. *)
WireInv ==
    /\ sent \in Seq(Lines)
    /\ transit \in Seq(Characters)
    /\ arg \in Args
    /\ connections = 1 \/ ~TornLines => Decoding

(* In the beginning of a connection nothing was sent and nothing decoded. *)
LEMMA NothingSent == Follows(<<>>, 0, <<>>, <<>>)
  <1> DEFINE rest == [i \in 0 .. 0 |-> <<>>]
  <1>1. Len(<<>>) = 0
    OBVIOUS
  <1>2. rest \in [0 .. 0 -> Seq(Characters)] /\ rest[0] = <<>>
    OBVIOUS
  <1>3. \A i \in 1 .. 0 : FALSE
    OBVIOUS
  <1> HIDE DEF rest
  <1>4. Pending(<<>>, 0, <<>>)
    BY <1>1, <1>2, <1>3 DEF Pending
  <1> QED BY <1>1, <1>3, <1>4 DEF Follows

(* The inductive invariant holds initially.                               *)
LEMMA WireInit == Init => WireInv
  <1> SUFFICES ASSUME Init PROVE WireInv
    OBVIOUS
  <1>1. <<>> \in Seq(Lines) /\ <<>> \in Seq(Characters) /\ <<>> \o <<>> = <<>>
    OBVIOUS
  <1>2. LineEnds(<<>>) = {}
    BY DEF LineEnds
  <1>3. Decoding
    BY <1>1, <1>2, NothingSent DEF Init, Decoding
  <1>4. arg \in Args
    BY DEF Init
  <1> QED BY <1>1, <1>3, <1>4 DEF Init, WireInv

(* A line that is written is pending behind the others.                   *)
LEMMA WireWrite ==
    ASSUME WireInv, NEW line \in Lines, NEW end \in Ends, Write(line, end)
    PROVE  WireInv'
  <1>1. line \in Seq(Characters) /\ end \in Seq(Characters)
    BY LinesAssumption, EndsAreText
  <1>2. /\ sent \in Seq(Lines) /\ sent' = Append(sent, line) /\ sent' \in Seq(Lines)
        /\ transit \in Seq(Characters) /\ transit' = (transit \o line) \o end
        /\ transit' \in Seq(Characters)
    BY <1>1 DEF WireInv, Write
  <1>3. UNCHANGED <<buffer, decoded, connections, arg, command>>
    BY DEF Write
  <1>4. ASSUME connections = 1 \/ ~TornLines PROVE Decoding'
    <2>1. Decoding
      BY <1>4 DEF WireInv
    <2> DEFINE d == Len(decoded)
    <2>2. /\ buffer \in Seq(Characters) /\ decoded \in Seq(Lines) /\ LineEnds(buffer) = {}
          /\ d \in Nat /\ Len(sent) \in Nat /\ 0 + d = d
      BY <1>2, <2>1 DEF Decoding
    <2>3. /\ d <= Len(sent) /\ \A i \in 1 .. d : decoded[i] = sent[0 + i]
          /\ Pending(sent, d, buffer \o transit)
      BY <2>1, <2>2 DEF Decoding, Follows
    <2> HIDE DEF d
    <2>4. d \in 0 .. Len(sent)
      BY <2>2, <2>3
    <2>5. buffer \o transit \in Seq(Characters)
      BY <1>2, <2>2
    <2>6. Pending(Append(sent, line), d, ((buffer \o transit) \o line) \o end)
      BY <1>2, <2>3, <2>4, <2>5, PendingMore
    <2>7. ((buffer \o transit) \o line) \o end = buffer \o ((transit \o line) \o end)
      <3> DEFINE x == transit \o line
      <3>1. (buffer \o transit) \o line = buffer \o x
        <4> HIDE DEF x
        <4> SUFFICES (buffer \o transit) \o line = buffer \o (transit \o line)
          BY DEF x
        <4>1. /\ buffer \in Seq(Characters) /\ transit \in Seq(Characters)
              /\ line \in Seq(Characters)
          BY <1>1, <1>2, <2>2
        <4>2. Regrouped(buffer, transit, line)
          BY <4>1, Regroup
        <4> QED BY <4>2 DEF Regrouped
      <3>2. x \in Seq(Characters)
        BY <1>1, <1>2
      <3> HIDE DEF x
      <3>3. (buffer \o x) \o end = buffer \o (x \o end)
        <4>1. Regrouped(buffer, x, end)
          BY <1>1, <2>2, <3>2, Regroup
        <4> QED BY <4>1 DEF Regrouped
      <3>4. ((buffer \o transit) \o line) \o end = buffer \o (x \o end)
        BY <3>1, <3>3
      <3> QED BY <3>4 DEF x
    <2>8. Pending(sent', d, buffer \o transit')
      BY <1>2, <2>6, <2>7
    <2>9. /\ Len(sent') = Len(sent) + 1
          /\ \A i \in 1 .. Len(sent) : sent'[i] = sent[i]
      BY <1>2
    <2>10. d <= Len(sent') /\ \A i \in 1 .. d : decoded[i] = sent'[0 + i]
      BY <2>2, <2>3, <2>9
    <2>11. Follows(sent', 0, decoded, buffer \o transit')
      BY <2>2, <2>8, <2>10 DEF Follows, d
    <2> QED BY <1>3, <2>2, <2>11 DEF Decoding
  <1> QED BY <1>2, <1>3, <1>4 DEF WireInv

(* What push returns are the next of the lines that were sent.            *)
LEMMA WireReceive ==
    ASSUME WireInv, NEW n \in 1 .. Len(transit), Receive(n)
    PROVE  WireInv'
  <1> DEFINE chunk == SubSeq(transit, 1, n)
             more == SubSeq(transit, n + 1, Len(transit))
             text == buffer \o chunk
             pushed == Push(text)
             d == Len(decoded)
  <1>1. transit \in Seq(Characters) /\ sent \in Seq(Lines) /\ Len(transit) \in Nat
    BY DEF WireInv
  <1>2. chunk \in Seq(Characters) /\ more \in Seq(Characters)
    BY <1>1
  <1>3. chunk \o more = transit
    BY <1>1
  <1>4. /\ decoded' = decoded \o pushed.lines /\ buffer' = pushed.buffer /\ transit' = more
        /\ UNCHANGED <<sent, connections, arg, command>>
    BY DEF Receive
  <1> HIDE DEF chunk, more, pushed
  <1>5. ASSUME connections = 1 \/ ~TornLines PROVE Decoding'
    <2>1. Decoding
      BY <1>5 DEF WireInv
    <2>2. /\ buffer \in Seq(Characters) /\ decoded \in Seq(Lines) /\ d \in Nat
          /\ Len(sent) \in Nat /\ 0 + d = d
      BY <1>1, <2>1 DEF Decoding
    <2>3. /\ d <= Len(sent) /\ \A i \in 1 .. d : decoded[i] = sent[0 + i]
          /\ Pending(sent, d, buffer \o transit)
      BY <2>1, <2>2 DEF Decoding, Follows
    <2>4. text \in Seq(Characters)
      BY <1>2, <2>2
    <2>5. buffer \o transit = text \o more
      <3>1. buffer \o (chunk \o more) = (buffer \o chunk) \o more
        <4>1. Regrouped(buffer, chunk, more)
          BY <1>2, <2>2, Regroup
        <4> QED BY <4>1 DEF Regrouped
      <3> QED BY <1>3, <3>1
    <2> HIDE DEF d, text
    <2>6. d \in 0 .. Len(sent)
      BY <2>2, <2>3
    <2>7. /\ pushed.lines \in Seq(Lines) /\ pushed.buffer \in Seq(Characters)
          /\ LineEnds(pushed.buffer) = {}
          /\ Follows(sent, d, pushed.lines, pushed.buffer \o more)
      <3>1. Pending(sent, d, text \o more)
        BY <2>3, <2>5
      <3> QED BY <1>1, <1>2, <2>4, <2>6, <3>1, PushTakes DEF pushed
    <2> DEFINE w == pushed.lines
    <2> HIDE DEF w
    <2>8. /\ w \in Seq(Lines) /\ Len(w) \in Nat /\ d + Len(w) <= Len(sent)
          /\ \A i \in 1 .. Len(w) : w[i] = sent[d + i]
          /\ Pending(sent, d + Len(w), pushed.buffer \o more)
      BY <2>7 DEF Follows, w
    <2> DEFINE both == decoded \o w
    <2>9. /\ both \in Seq(Lines) /\ Len(both) = d + Len(w) /\ 0 + Len(both) = d + Len(w)
          /\ \A i \in 1 .. d : both[i] = decoded[i]
          /\ \A i \in 1 .. Len(w) : both[d + i] = w[i]
      BY <2>2, <2>8 DEF d
    <2> HIDE DEF both
    <2>10. ASSUME NEW i \in 1 .. Len(both) PROVE both[i] = sent[0 + i]
      <3>1. 0 + i = i
        OBVIOUS
      <3>2. CASE i <= d
        <4>1. i \in 1 .. d
          BY <2>2, <3>2
        <4> QED BY <2>3, <2>9, <3>1, <4>1
      <3>3. CASE i > d
        <4> DEFINE j == i - d
        <4>1. j \in 1 .. Len(w) /\ d + j = i
          BY <2>2, <2>8, <2>9, <3>3
        <4> HIDE DEF j
        <4> QED BY <2>8, <2>9, <3>1, <4>1
      <3> QED BY <2>2, <3>2, <3>3
    <2>11. Follows(sent, 0, both, pushed.buffer \o more)
      BY <2>8, <2>9, <2>10 DEF Follows
    <2> QED BY <1>4, <2>7, <2>9, <2>11 DEF Decoding, both, w
  <1> QED BY <1>1, <1>2, <1>4, <1>5 DEF WireInv

(* The next connection begins with an empty buffer, or nothing is claimed *)
(* of it.                                                                 *)
LEMMA WireNextConnection ==
    ASSUME WireInv, NextConnection
    PROVE  WireInv'
  <1>1. <<>> \in Seq(Lines) /\ <<>> \in Seq(Characters) /\ <<>> \o <<>> = <<>>
    OBVIOUS
  <1>2. ASSUME connections' = 1 \/ ~TornLines PROVE Decoding'
    <2>1. buffer = <<>> /\ buffer' = <<>> /\ decoded' = <<>> /\ sent' = <<>> /\ transit' = <<>>
      BY <1>2 DEF NextConnection
    <2>2. LineEnds(<<>>) = {}
      BY DEF LineEnds
    <2> QED BY <1>1, <2>1, <2>2, NothingSent DEF Decoding
  <1>3. UNCHANGED <<arg, command>> /\ sent' = <<>> /\ transit' = <<>>
    BY DEF NextConnection
  <1> QED BY <1>1, <1>2, <1>3 DEF WireInv

(* Every step keeps the inductive invariant.                              *)
LEMMA WireNext == WireInv /\ [Next]_vars => WireInv'
  <1> SUFFICES ASSUME WireInv, [Next]_vars PROVE WireInv'
    OBVIOUS
  <1>1. ASSUME NEW line \in Lines, NEW end \in Ends, Write(line, end) PROVE WireInv'
    BY <1>1, WireWrite
  <1>2. ASSUME NEW n \in 1 .. Len(transit), Receive(n) PROVE WireInv'
    BY <1>2, WireReceive
  <1>3. CASE NextConnection
    BY <1>3, WireNextConnection
  <1>4. CASE UNCHANGED vars
    BY <1>4 DEF vars, WireInv, Decoding
  <1> QED BY <1>1, <1>2, <1>3, <1>4 DEF Next

(* The decoder is in step with OpenVPN: the lines it has returned are the  *)
(* first that were sent, and the others are pending in the buffer and in   *)
(* transit (codec.ts:8-30).                                                *)
THEOREM WireInvariant == Spec => []WireInv
  <1> QED BY WireInit, WireNext, PTL DEF Spec

(* When nothing is in transit, a line that was not decoded would leave a  *)
(* line end in the buffer.                                                *)
LEMMA DecodingIsRight == sent \in Seq(Lines) /\ Decoding => DecodedAreSent
  <1> SUFFICES ASSUME sent \in Seq(Lines), Decoding PROVE DecodedAreSent
    OBVIOUS
  <1> DEFINE d == Len(decoded)
  <1>1. /\ buffer \in Seq(Characters) /\ decoded \in Seq(Lines) /\ d \in Nat
        /\ Len(sent) \in Nat /\ 0 + d = d
    BY DEF Decoding
  <1>2. /\ d <= Len(sent) /\ \A i \in 1 .. d : decoded[i] = sent[0 + i]
        /\ Pending(sent, d, buffer \o transit)
    BY <1>1 DEF Decoding, Follows
  <1>3. \A i \in 1 .. d : decoded[i] = sent[i]
    BY <1>1, <1>2
  <1>4. Seqs!IsPrefix(decoded, sent)
    <2>1. /\ SubSeq(decoded, 1, d) \in Seq(Lines) /\ Len(SubSeq(decoded, 1, d)) = d
          /\ \A i \in 1 .. d : SubSeq(decoded, 1, d)[i] = decoded[i]
      BY <1>1
    <2>2. /\ SubSeq(sent, 1, d) \in Seq(Lines) /\ Len(SubSeq(sent, 1, d)) = d
          /\ \A i \in 1 .. d : SubSeq(sent, 1, d)[i] = sent[i]
      BY <1>1, <1>2
    <2> HIDE DEF d
    <2>3. SubSeq(decoded, 1, d) = SubSeq(sent, 1, d)
      BY <1>3, <2>1, <2>2, SeqEqual
    <2> QED BY <1>2, <2>3 DEF d, Seqs!IsPrefix
  <1>5. ASSUME transit = <<>> PROVE decoded = sent /\ buffer = <<>>
    <2>1. buffer \o transit = buffer
      BY <1>1, <1>5
    <2> HIDE DEF d
    <2>2. Pending(sent, d, buffer) /\ d \in 0 .. Len(sent)
      BY <1>1, <1>2, <2>1
    <2>3. ~(d < Len(sent) \/ buffer # <<>>)
      <3> SUFFICES ASSUME d < Len(sent) \/ buffer # <<>> PROVE FALSE
        OBVIOUS
      <3>1. sent[d + 1] \in Lines
        BY <2>2, PendingFirst
      <3>2. PICK end \in Ends, after \in Seq(Characters) :
              /\ buffer = (sent[d + 1] \o end) \o after
              /\ Pending(sent, d + 1, after)
        BY <2>2, PendingFirst
      <3> DEFINE line == sent[d + 1]
                 i == Len(line) + 1
      <3>3. i \in Nat /\ i >= 1 /\ i - 1 + Len(end) <= Len(buffer) /\ LineEnd(buffer, i) = Len(end)
        <4>1. line \in Lines /\ Len(line) \in Nat
          BY <3>1, LinesAssumption
        <4> HIDE DEF line
        <4>2. buffer = (line \o end) \o after
          BY <3>2 DEF line
        <4> QED BY <4>1, <4>2, FirstLineEnd
      <3>4. Len(end) \in 1 .. 2 /\ Len(buffer) \in Nat
        BY <1>1, EndsAreText
      <3> HIDE DEF i
      <3>5. LineEnd(buffer, i) # 0 /\ i \in DOMAIN buffer
        <4> DEFINE k == Len(end)
                   m == Len(buffer)
        <4>1. k \in 1 .. 2 /\ m \in Nat /\ i \in Nat /\ i >= 1 /\ i - 1 + k <= m
          BY <3>3, <3>4
        <4>2. LineEnd(buffer, i) = k /\ DOMAIN buffer = 1 .. m
          BY <1>1, <3>3
        <4> HIDE DEF k, m
        <4> QED BY <4>1, <4>2
      <3> QED BY <3>5 DEF LineEnds, Decoding
    <2>4. d = Len(sent) /\ buffer = <<>>
      BY <1>1, <1>2, <2>3
    <2>5. decoded = sent
      BY <1>1, <1>3, <2>4, SeqEqual DEF d
    <2> QED BY <2>4, <2>5
  <1> QED BY <1>4, <1>5 DEF DecodedAreSent

(* Whatever the chunks, the lines that LineDecoder returns are the lines   *)
(* that were sent: on the first connection, and on the next one if no line *)
(* is lost in the middle (codec.ts:8-30).                                  *)
THEOREM LinesComeOut == Spec => [](connections = 1 \/ ~TornLines => DecodedAreSent)
  <1>1. WireInv => (connections = 1 \/ ~TornLines => DecodedAreSent)
    BY DecodingIsRight DEF WireInv
  <1> QED BY <1>1, WireInvariant, PTL

(* OpenVPN reads every argument back that escapeArg quotes (types.ts:76),  *)
(* whatever its characters, and escapeServerArg's (server.ts:171) when it  *)
(* is not empty and has no backslash.                                      *)
THEOREM ArgumentsComeOut == Spec => []ArgumentIsRead
  <1>1. WireInv => ArgumentIsRead
    <2> SUFFICES ASSUME WireInv PROVE ArgumentIsRead
      OBVIOUS
    <2>1. arg \in Seq(Characters)
      <3>1. arg \in Seq(Characters \ {CR, LF})
        BY ArgsAssumption DEF WireInv
      <3> QED BY <3>1
    <2>2. Around(EscapeArg(arg)) = << <<"a">>, arg, <<"b">> >>
      BY <2>1, EscapedArgIsRead
    <2>3. arg # <<>> /\ BS \notin Seqs!ToSet(arg) =>
            Around(EscapeServerArg(arg)) = << <<"a">>, arg, <<"b">> >>
      BY <2>1, EscapedArgIsRead
    <2> QED BY <2>2, <2>3 DEF ArgumentIsRead, Expected
  <1> QED BY <1>1, WireInvariant, PTL

(* Whatever the verb and the words behind it, the mode of a command ends   *)
(* its reply with the last line, or with no line if the command is one of  *)
(* those listed in Unanswered (client.ts:364-413, mock-server.ts:94-132).  *)
THEOREM RepliesEnd == Spec => []ReplyEndsWithItsLastLine
  <1>1. ReplyEndsWithItsLastLine
    BY ReplyEnds DEF ReplyEndsWithItsLastLine
  <1> QED BY <1>1, PTL

=============================================================================
