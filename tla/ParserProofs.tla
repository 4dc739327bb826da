---------------------------- MODULE ParserProofs ----------------------------
(***************************************************************************)
(* Proofs about parse_message: for every set of lines, whatever blanks and *)
(* numbers they have and however long they are, a line comes out as it is  *)
(* written (IInv).                                                         *)
(***************************************************************************)
EXTENDS Parser, WellFoundedInduction, TLAPS

NatLess == {ss \in Nat \X Nat : ss[1] < ss[2]}

LEMMA NatLessWellFounded == IsWellFoundedOn(NatLess, Nat)
BY NatLessThanWellFounded, Zenon DEF OpToRel, NatLess

LEMMA MinOfNats ==
  ASSUME NEW S \in SUBSET Nat, S # {}
  PROVE  Min(S) \in S /\ \A i \in S : Min(S) <= i
<1>1. PICK m \in S : \A i \in S : ~ (<<i, m>> \in NatLess)
  BY WFMin, NatLessWellFounded
<1>2. ASSUME NEW i \in S PROVE m <= i
  <2>1. <<i, m>> \in Nat \X Nat
    OBVIOUS
  <2>2. ~ (i < m)
    BY <1>1, <2>1 DEF NatLess
  <2>3. QED
    BY <2>2
<1>3. QED
  BY <1>2 DEF Min

\* A maximum that is known.
LEMMA MaxIs ==
  ASSUME NEW S \in SUBSET Nat, NEW m \in S, \A i \in S : i <= m
  PROVE  Max(S) = m
<1>1. Max(S) \in S /\ \A i \in S : Max(S) >= i
  <2>1. m \in S /\ \A i \in S : m >= i
    OBVIOUS
  <2>2. QED
    BY <2>1, Zenon DEF Max
<1>2. Max(S) <= m /\ Max(S) >= m
  BY <1>1
<1>3. Max(S) \in Nat /\ m \in Nat
  BY <1>1
<1>4. QED
  BY <1>2, <1>3

-----------------------------------------------------------------------------
(***************************************************************************)
(* Where blanks are, and what lies between two of them.                    *)
(***************************************************************************)
LEMMA BlankIsNext ==
  ASSUME line \in Seq(Symbols), NEW from \in 1 .. Len(line) + 1
  PROVE  /\ BlankFrom(from) \in from .. Len(line) + 1
         /\ BlankFrom(from) <= Len(line) => line[BlankFrom(from)] = Blank
         /\ \A i \in from .. BlankFrom(from) - 1 : line[i] # Blank
<1> DEFINE S == {i \in from .. Len(line) : line[i] = Blank} \cup {Len(line) + 1}
<1>1. Len(line) \in Nat
  OBVIOUS
<1>2. S \in SUBSET Nat /\ S # {}
  BY <1>1
<1>3. BlankFrom(from) \in S /\ \A i \in S : BlankFrom(from) <= i
  BY <1>2, MinOfNats DEF BlankFrom
<1>4. QED
  BY <1>1, <1>3

\* for_each_token goes on behind the blank, or has come to the end.
LEMMA BehindIsNext ==
  ASSUME line \in Seq(Symbols), NEW p \in 1 .. Len(line)
  PROVE  /\ Behind(p) = IF BlankFrom(p) <= Len(line) THEN BlankFrom(p) + 1 ELSE Len(line) + 1
         /\ Behind(p) \in p + 1 .. Len(line) + 1
<1>1. Len(line) \in Nat /\ BlankFrom(p) \in p .. Len(line) + 1
  BY BlankIsNext
<1> DEFINE S == {BlankFrom(p) + 1, Len(line) + 1}
<1>2. S \in SUBSET Nat /\ S # {}
  BY <1>1
<1>3. Behind(p) \in S /\ \A i \in S : Behind(p) <= i
  BY <1>2, MinOfNats DEF Behind
<1>4. /\ Behind(p) \in {BlankFrom(p) + 1, Len(line) + 1}
      /\ Behind(p) <= BlankFrom(p) + 1 /\ Behind(p) <= Len(line) + 1
  BY <1>3
<1>5. QED
  BY <1>1, <1>4

LEMMA WordIs ==
  ASSUME line \in Seq(Symbols), NEW w \in Words
  PROVE  /\ w = <<w[1], w[2]>> /\ w[1] \in 1 .. Len(line) /\ w[2] \in w[1] .. Len(line)
         /\ \A i \in w[1] .. w[2] : line[i] # Blank
         /\ w[1] = 1 \/ line[w[1] - 1] = Blank
         /\ w[2] = Len(line) \/ line[w[2] + 1] = Blank
BY DEF Words

(***************************************************************************)
(* The words from one place for_each_token stands at to the next: none if  *)
(* there is a blank, and else one, which is the token.                     *)
(***************************************************************************)
LEMMA WordsFrom ==
  ASSUME line \in Seq(Symbols), NEW p \in 2 .. Len(line), line[p - 1] = Blank
  PROVE  LET last == BlankFrom(p) - 1 IN
         /\ last < p => \A w \in Arguments : ~ (p <= w[1] /\ w[1] < Behind(p))
         /\ last >= p => /\ <<p, last>> \in Arguments
                         /\ \A w \in Arguments : p <= w[1] /\ w[1] < Behind(p) => w = <<p, last>>
<1> DEFINE last == BlankFrom(p) - 1
<1>1. /\ Len(line) \in Nat /\ BlankFrom(p) \in p .. Len(line) + 1
      /\ BlankFrom(p) <= Len(line) => line[BlankFrom(p)] = Blank
      /\ \A i \in p .. last : line[i] # Blank
  BY BlankIsNext
<1>2. Behind(p) = IF BlankFrom(p) <= Len(line) THEN BlankFrom(p) + 1 ELSE Len(line) + 1
  BY BehindIsNext
<1>3. ASSUME NEW w \in Arguments, p <= w[1], w[1] < Behind(p)
      PROVE  w = <<p, last>>
  <2>1. /\ w = <<w[1], w[2]>> /\ w[1] \in 2 .. Len(line) /\ w[2] \in w[1] .. Len(line)
        /\ \A i \in w[1] .. w[2] : line[i] # Blank
        /\ line[w[1] - 1] = Blank
        /\ w[2] = Len(line) \/ line[w[2] + 1] = Blank
    BY WordIs DEF Arguments
  <2>2. line[w[1]] # Blank
    BY <2>1
  <2>3. w[1] <= last
    BY <1>1, <1>2, <1>3, <2>1, <2>2
  <2>4. w[1] = p
    <3>1. w[1] # p => w[1] - 1 \in p .. last
      BY <1>1, <1>3, <2>1, <2>3
    <3>2. QED
      BY <1>1, <2>1, <3>1
  <2>5. w[2] >= last
    BY <1>1, <2>1, <2>3, <2>4
  <2>6. w[2] <= last
    BY <1>1, <2>1, <2>4
  <2>7. w[2] = last
    <3>1. PICK e \in Int : e = w[2]
      BY <2>1
    <3>2. PICK l \in Int : l = last
      BY <1>1
    <3>3. e >= l /\ e <= l
      BY <2>5, <2>6, <3>1, <3>2
    <3>4. QED
      BY <3>1, <3>2, <3>3
  <2>8. QED
    BY <2>1, <2>4, <2>7
<1>4. ASSUME last >= p PROVE <<p, last>> \in Arguments
  BY <1>1, <1>4 DEF Arguments, Words
<1>5. ASSUME last < p PROVE \A w \in Arguments : ~ (p <= w[1] /\ w[1] < Behind(p))
  <2> SUFFICES ASSUME NEW w \in Arguments, p <= w[1], w[1] < Behind(p) PROVE FALSE
    OBVIOUS
  <2>1. w = <<p, last>>
    BY <1>3
  <2>2. w[2] >= w[1]
    BY WordIs DEF Arguments
  <2>3. QED
    BY <1>1, <1>5, <2>1, <2>2
<1>6. QED
  BY <1>3, <1>4, <1>5

(***************************************************************************)
(* A token as a sequence, which parse_val reads the rest of.               *)
(***************************************************************************)
LEMMA TokenIs ==
  ASSUME line \in Seq(Symbols), NEW p \in 1 .. Len(line), NEW last \in p .. Len(line)
  PROVE  LET token == SubSeq(line, p, last) IN
         /\ token \in Seq(Symbols) /\ Len(token) = last - p + 1 /\ token # <<>>
         /\ \A i \in 1 .. last - p + 1 : token[i] = line[p + i - 1]
         /\ Head(token) = line[p]
         /\ Tail(token) \in Seq(Symbols) /\ Len(Tail(token)) = last - p
         /\ \A i \in 1 .. last - p : Tail(token)[i] = line[p + i]
<1> DEFINE token == SubSeq(line, p, last)
<1>1. Len(line) \in Nat /\ p \in Int /\ last \in Int
  OBVIOUS
<1>2. token \in Seq(Symbols) /\ Len(token) = last - p + 1
  BY <1>1
<1>3. \A i \in 1 .. last - p + 1 : token[i] = line[p + i - 1]
  BY <1>1
<1> HIDE DEF token
<1>4. Head(token) = token[1] /\ token # <<>>
  BY <1>1, <1>2
<1>5. Tail(token) \in Seq(Symbols) /\ Len(Tail(token)) = last - p
  BY <1>1, <1>2, <1>4
<1>6. \A i \in 1 .. last - p : Tail(token)[i] = token[i + 1]
  BY <1>1, <1>2, <1>4
<1>7. \A i \in 1 .. last - p : Tail(token)[i] = line[p + i]
  <2> SUFFICES ASSUME NEW i \in 1 .. last - p PROVE Tail(token)[i] = line[p + i]
    OBVIOUS
  <2>1. i + 1 \in 1 .. last - p + 1 /\ p + (i + 1) - 1 = p + i
    BY <1>1
  <2>2. token[i + 1] = line[p + (i + 1) - 1]
    BY <1>3, <2>1
  <2>3. QED
    BY <1>6, <2>1, <2>2
<1>8. Head(token) = line[p]
  BY <1>1, <1>3, <1>4
<1>9. QED
  BY <1>2, <1>3, <1>4, <1>5, <1>7, <1>8 DEF token

LEMMA ReadableIs ==
  ASSUME line \in Seq(Symbols), NEW p \in 1 .. Len(line), NEW last \in p .. Len(line)
  PROVE  Readable(Tail(SubSeq(line, p, last))) <=>
           p < last /\ line[p + 1] \in Floats /\ \A i \in p + 1 .. last : line[i] # "long"
<1> DEFINE rest == Tail(SubSeq(line, p, last))
<1>1. /\ rest \in Seq(Symbols) /\ Len(rest) = last - p
      /\ \A i \in 1 .. last - p : rest[i] = line[p + i]
  BY TokenIs
<1> HIDE DEF rest
<1>2. Len(line) \in Nat /\ p \in Int /\ last \in Int
  OBVIOUS
<1>3. rest # <<>> <=> p < last
  BY <1>1, <1>2
<1>4. rest # <<>> => Head(rest) = line[p + 1]
  BY <1>1, <1>2, <1>3
<1>5. "long" \in ToSet(rest) <=> \E i \in p + 1 .. last : line[i] = "long"
  <2>1. ASSUME NEW i \in p + 1 .. last, line[i] = "long" PROVE "long" \in ToSet(rest)
    <3>1. i - p \in 1 .. last - p /\ p + (i - p) = i
      BY <1>2
    <3>2. rest[i - p] = "long" /\ i - p \in DOMAIN rest
      BY <1>1, <1>2, <2>1, <3>1
    <3>3. QED
      BY <3>2 DEF ToSet
  <2>2. ASSUME "long" \in ToSet(rest) PROVE \E i \in p + 1 .. last : line[i] = "long"
    <3>1. PICK i \in 1 .. last - p : rest[i] = "long"
      BY <1>1, <1>2, <2>2 DEF ToSet
    <3>2. p + i \in p + 1 .. last /\ line[p + i] = "long"
      BY <1>1, <1>2, <3>1
    <3>3. QED
      BY <3>2
  <2>3. QED
    BY <2>1, <2>2
<1>6. QED
  BY <1>3, <1>4, <1>5 DEF Readable, rest

(***************************************************************************)
(* readGo and read_home_command take a token exactly if the word it is     *)
(* says what it should.                                                    *)
(***************************************************************************)
LEMMA AcceptsIsGood ==
  ASSUME line \in Seq(Symbols), NEW p \in 1 .. Len(line), NEW last \in p .. Len(line),
         IsCommand({"0", "1", "28"}), command = CommandOf(line[2])
  PROVE  /\ Accepts(SubSeq(line, p, last)) <=> GoodArgument(<<p, last>>)
         /\ command = "Home" <=> IsCommand({"28"})
<1> DEFINE token == SubSeq(line, p, last)
<1>1. /\ token \in Seq(Symbols) /\ Len(token) = last - p + 1
      /\ Head(token) = line[p] /\ \A i \in 1 .. last - p + 1 : token[i] = line[p + i - 1]
  BY TokenIs
<1>2. command = "Home" <=> IsCommand({"28"})
  BY DEF IsCommand, CommandOf
<1>3. CASE command = "Home"
  <2>1. token \in {<<"X">>, <<"Y">>, <<"Z">>} <=> p = last /\ line[p] \in {"X", "Y", "Z"}
    <3>1. ASSUME p = last, line[p] \in {"X", "Y", "Z"} PROVE token = <<line[p]>>
      <4>1. Len(token) = 1 /\ token[1] = line[p]
        BY <1>1, <3>1
      <4>2. \A s \in Seq(Symbols) : Len(s) = 1 => s = <<s[1]>>
        OBVIOUS
      <4>3. QED
        BY <1>1, <4>1, <4>2
    <3>2. ASSUME token \in {<<"X">>, <<"Y">>, <<"Z">>} PROVE p = last /\ line[p] \in {"X", "Y", "Z"}
      <4> HIDE DEF token
      <4>1. PICK c \in {"X", "Y", "Z"} : token = <<c>>
        BY <3>2
      <4>2. p = last
        <5>1. last - p + 1 = Len(token)
          BY <1>1
        <5>2. Len(token) = 1
          BY <4>1
        <5>3. last - p + 1 = 1
          BY <5>1, <5>2
        <5>4. p \in Int /\ last \in Int
          OBVIOUS
        <5>5. QED
          BY <5>3, <5>4
      <4>3. Head(token) \in {"X", "Y", "Z"}
        BY <4>1
      <4>4. QED
        BY <1>1, <4>2, <4>3
    <3>3. QED
      BY <3>1, <3>2
  <2>2. QED
    BY <1>2, <1>3, <2>1 DEF Accepts, GoodArgument
<1>4. CASE command # "Home"
  <2>1. line[p] \in Coordinates => ((\A i \in p .. last : line[i] # "long") <=> \A i \in p + 1 .. last : line[i] # "long")
    <3>1. \A i \in p .. last : i = p \/ i \in p + 1 .. last
      OBVIOUS
    <3>2. line[p] \in Coordinates => line[p] # "long"
      BY DEF Coordinates
    <3>3. QED
      BY <3>1, <3>2
  <2>2. Head(token) = line[p]
    BY <1>1
  <2>3. QED
    BY <1>2, <1>4, <2>1, <2>2, ReadableIs DEF Accepts, GoodArgument
<1>5. QED
  BY <1>2, <1>3, <1>4

-----------------------------------------------------------------------------
(***************************************************************************)
(* What the words say of a coordinate, before and after one more token.    *)
(***************************************************************************)
LEMMA SaidStep ==
  ASSUME line \in Seq(Symbols), NEW p \in 2 .. Len(line), line[p - 1] = Blank, NEW c
  PROVE  SaidBefore(c, Behind(p)) =
           SaidBefore(c, p) \cup (IF p < BlankFrom(p) /\ line[p] = c THEN {p} ELSE {})
<1> DEFINE last == BlankFrom(p) - 1
<1>1. /\ Len(line) \in Nat /\ p \in Int /\ BlankFrom(p) \in p .. Len(line) + 1
      /\ Behind(p) \in p + 1 .. Len(line) + 1
  BY BlankIsNext, BehindIsNext
<1>2. /\ last < p => \A w \in Arguments : ~ (p <= w[1] /\ w[1] < Behind(p))
      /\ last >= p => /\ <<p, last>> \in Arguments
                      /\ \A w \in Arguments : p <= w[1] /\ w[1] < Behind(p) => w[1] = p
  BY WordsFrom
<1>3. ASSUME NEW i \in SaidBefore(c, Behind(p)), i \notin SaidBefore(c, p)
      PROVE  p < BlankFrom(p) /\ line[p] = c /\ i = p
  <2>1. PICK w \in Arguments : w[1] = i /\ i \in 2 .. Behind(p) - 1 /\ line[i] = c
    BY <1>3 DEF SaidBefore
  <2>2. p <= i /\ i < Behind(p)
    BY <1>1, <1>3, <2>1 DEF SaidBefore
  <2>3. last >= p /\ w[1] = p
    <3>1. PICK l \in Int : l = last
      BY <1>1
    <3>2. ~ (l < p)
      BY <1>2, <2>1, <2>2, <3>1
    <3>3. l >= p
      BY <1>1, <3>2
    <3>4. QED
      BY <1>2, <2>1, <2>2, <3>1, <3>3
  <2>4. p < BlankFrom(p)
    BY <1>1, <2>3
  <2>5. QED
    BY <2>1, <2>3, <2>4
<1>4. SaidBefore(c, p) \subseteq SaidBefore(c, Behind(p))
  BY <1>1 DEF SaidBefore
<1>5. ASSUME p < BlankFrom(p), line[p] = c PROVE p \in SaidBefore(c, Behind(p))
  <2>1. <<p, last>> \in Arguments /\ <<p, last>>[1] = p
    BY <1>1, <1>2, <1>5
  <2>2. p \in 2 .. Behind(p) - 1
    BY <1>1
  <2>3. QED
    BY <1>5, <2>1, <2>2 DEF SaidBefore
<1>6. QED
  BY <1>3, <1>4, <1>5

LEMMA ValueStep ==
  ASSUME line \in Seq(Symbols), NEW p \in 2 .. Len(line), line[p - 1] = Blank, NEW c
  PROVE  ValueBefore(c, Behind(p)) =
           IF p < BlankFrom(p) /\ line[p] = c
           THEN IF IsCommand({"28"}) THEN "1" ELSE line[p + 1]
           ELSE ValueBefore(c, p)
<1>1. CASE p < BlankFrom(p) /\ line[p] = c
  <2>1. SaidBefore(c, Behind(p)) = SaidBefore(c, p) \cup {p}
    BY <1>1, SaidStep
  <2>2. SaidBefore(c, Behind(p)) \in SUBSET Nat /\ \A i \in SaidBefore(c, Behind(p)) : i <= p
    BY <2>1 DEF SaidBefore
  <2>3. Max(SaidBefore(c, Behind(p))) = p
    BY <2>1, <2>2, MaxIs
  <2>4. QED
    BY <1>1, <2>1, <2>3 DEF ValueBefore
<1>2. CASE ~ (p < BlankFrom(p) /\ line[p] = c)
  <2>1. SaidBefore(c, Behind(p)) = SaidBefore(c, p)
    BY <1>2, SaidStep
  <2>2. QED
    BY <1>2, <2>1 DEF ValueBefore
<1>3. QED
  BY <1>1, <1>2

-----------------------------------------------------------------------------
\* The line is never changed, and what it says is not either.
LEMMA LineKept ==
  ASSUME UNCHANGED line
  PROVE  /\ Arguments' = Arguments
         /\ \A n : IsCommand(n)' <=> IsCommand(n)
         /\ \A w : GoodArgument(w)' <=> GoodArgument(w)
         /\ \A c, p : ValueBefore(c, p)' = ValueBefore(c, p)
<1>1. Arguments' = Arguments
  BY DEF Arguments, Words
<1>2. \A n : IsCommand(n)' <=> IsCommand(n)
  BY DEF IsCommand
<1>3. \A w : GoodArgument(w)' <=> GoodArgument(w)
  BY <1>2 DEF GoodArgument
<1>4. \A c, p : SaidBefore(c, p)' = SaidBefore(c, p)
  BY <1>1 DEF SaidBefore
<1>5. \A c, p : ValueBefore(c, p)' = ValueBefore(c, p)
  BY <1>2, <1>4 DEF ValueBefore
<1>6. QED
  BY <1>1, <1>2, <1>3, <1>5

LEMMA InitIInv == Init => IInv
<1> SUFFICES ASSUME Init PROVE IInv
  OBVIOUS
<1>1. line \in Seq(Symbols)
  BY ParserAssumption DEF Init
<1>2. Len(line) \in Nat
  BY <1>1
<1>3. TypeOK
  BY <1>2 DEF Init, TypeOK, NoValues
<1>4. ParsedAsWritten /\ ReadSoFar
  BY DEF Init, ParsedAsWritten, ReadSoFar
<1>5. QED
  BY <1>3, <1>4 DEF IInv

LEMMA NoMoreTokensIInv == IInv /\ NoMoreTokens => IInv'
<1> SUFFICES ASSUME IInv, NoMoreTokens PROVE IInv'
  OBVIOUS
<1>1. /\ pc = "tokens" /\ pos = Len(line) + 1 /\ pc' = "done" /\ outcome' = "message"
      /\ UNCHANGED <<line, pos, command, values>>
  BY DEF NoMoreTokens, Done
<1>2. TypeOK /\ ReadSoFar /\ line \in Seq(Symbols)
  BY ParserAssumption DEF IInv, TypeOK
<1>3. TypeOK'
  BY <1>1, <1>2 DEF TypeOK
<1>4. ReadSoFar'
  BY <1>1 DEF ReadSoFar
<1>5. \A w \in Arguments : GoodArgument(w)
  BY <1>1, <1>2, WordIs DEF ReadSoFar, Arguments
<1>6. /\ IsCommand({"0", "1", "28"}) /\ command = CommandOf(line[2]) /\ command \in {"Go", "Home"}
      /\ ~ IsCommand(TooBig)
  BY <1>1, <1>2 DEF ReadSoFar, IsCommand, CommandOf, TooBig
<1>7. values = [c \in Coordinates |-> ValueOf(c)]
  BY <1>1, <1>2 DEF ReadSoFar, ValueOf
<1>8. ParsedAsWritten'
  <2>1. \A c \in Coordinates : ValueOf(c)' = ValueOf(c)
    BY <1>1, LineKept DEF ValueOf
  <2>2. values' = [c \in Coordinates |-> ValueOf(c)']
    BY <1>1, <1>7, <2>1
  <2>3. QED
    BY <1>1, <1>5, <1>6, <2>2, LineKept DEF ParsedAsWritten
<1>9. QED
  BY <1>3, <1>4, <1>8 DEF IInv

(***************************************************************************)
(* A round of for_each_token: there is a word, and it is the token, or     *)
(* there is none.                                                          *)
(***************************************************************************)
LEMMA TokenIInv == IInv /\ Token => IInv'
<1> SUFFICES ASSUME IInv, Token PROVE IInv'
  OBVIOUS
<1> DEFINE last == BlankFrom(pos) - 1
           token == SubSeq(line, pos, last)
<1>1. /\ pc = "tokens" /\ pos <= Len(line) /\ pos' = Behind(pos)
      /\ UNCHANGED <<line, command>>
      /\ IF token = <<>> \/ Accepts(token)
         THEN /\ values' = IF token = <<>> THEN values ELSE Read(token)
              /\ UNCHANGED <<pc, outcome>>
         ELSE pc' = "done" /\ outcome' = "error" /\ UNCHANGED values
  BY DEF Token, Done
<1>2. TypeOK /\ line \in Seq(Symbols) /\ Len(line) \in Nat
  BY ParserAssumption DEF IInv, TypeOK
<1>3. /\ IsCommand({"0", "1", "28"}) /\ command = CommandOf(line[2])
      /\ pos \in 2 .. Len(line) /\ line[pos - 1] = Blank /\ outcome = "none"
      /\ \A w \in Arguments : w[1] < pos => GoodArgument(w)
      /\ values = [c \in Coordinates |-> ValueBefore(c, pos)]
  BY <1>1, <1>2 DEF IInv, TypeOK, ReadSoFar
<1>4. BlankFrom(pos) \in pos .. Len(line) + 1
  BY <1>3, <1>2, BlankIsNext
<1>5. Behind(pos) \in pos + 1 .. Len(line) + 1 /\ (Behind(pos) <= Len(line) => line[Behind(pos) - 1] = Blank)
  <2>1. /\ Behind(pos) = IF BlankFrom(pos) <= Len(line) THEN BlankFrom(pos) + 1 ELSE Len(line) + 1
        /\ Behind(pos) \in pos + 1 .. Len(line) + 1
    BY <1>2, <1>3, BehindIsNext
  <2>2. BlankFrom(pos) <= Len(line) => line[BlankFrom(pos)] = Blank
    BY <1>2, <1>3, BlankIsNext
  <2>3. BlankFrom(pos) \in Int /\ (Behind(pos) <= Len(line) => BlankFrom(pos) <= Len(line))
    BY <1>2, <1>4, <2>1
  <2>4. Behind(pos) <= Len(line) => Behind(pos) - 1 = BlankFrom(pos)
    BY <2>1, <2>3
  <2>5. QED
    BY <2>1, <2>2, <2>3, <2>4
<1>6. /\ last < pos => \A w \in Arguments : ~ (pos <= w[1] /\ w[1] < Behind(pos))
      /\ last >= pos => /\ <<pos, last>> \in Arguments
                        /\ \A w \in Arguments : pos <= w[1] /\ w[1] < Behind(pos) => w = <<pos, last>>
  BY <1>2, <1>3, WordsFrom
<1>7. \A c : ValueBefore(c, Behind(pos)) =
               IF pos < BlankFrom(pos) /\ line[pos] = c
               THEN IF IsCommand({"28"}) THEN "1" ELSE line[pos + 1]
               ELSE ValueBefore(c, pos)
  BY <1>2, <1>3, ValueStep
<1>8. \A w \in Arguments : w[1] \in Nat
  BY <1>2, WordIs DEF Arguments
<1> HIDE DEF last
\* What is left to show if the loop goes on.
<1>9. ASSUME /\ UNCHANGED <<pc, outcome>>
             /\ values' \in [Coordinates -> Floats \cup {"none"}]
             /\ \A w \in Arguments : w[1] < Behind(pos) => GoodArgument(w)
             /\ values' = [c \in Coordinates |-> ValueBefore(c, Behind(pos))]
      PROVE  IInv'
  <2>1. TypeOK'
    BY <1>1, <1>2, <1>5, <1>9 DEF TypeOK
  <2>2. ReadSoFar'
    BY <1>1, <1>3, <1>5, <1>9, LineKept DEF ReadSoFar
  <2>3. ParsedAsWritten'
    BY <1>1, <1>9 DEF ParsedAsWritten
  <2>4. QED
    BY <2>1, <2>2, <2>3 DEF IInv
<1>10. CASE last < pos
  <2>1. token = <<>>
    BY <1>2, <1>3, <1>4, <1>10 DEF last
  <2>2. values' = values /\ UNCHANGED <<pc, outcome>>
    BY <1>1, <2>1
  <2>3. \A w \in Arguments : w[1] < Behind(pos) => GoodArgument(w)
    BY <1>3, <1>6, <1>8, <1>10
  <2>4. ~ (pos < BlankFrom(pos))
    BY <1>3, <1>4, <1>10 DEF last
  <2>5. values' = [c \in Coordinates |-> ValueBefore(c, Behind(pos))]
    BY <1>3, <1>7, <2>2, <2>4
  <2>6. values' \in [Coordinates -> Floats \cup {"none"}]
    BY <1>2, <2>2 DEF TypeOK
  <2>7. QED
    BY <1>9, <2>2, <2>3, <2>5, <2>6
<1>11. CASE last >= pos
  <2>1. last \in pos .. Len(line) /\ pos < BlankFrom(pos)
    BY <1>2, <1>3, <1>4, <1>11 DEF last
  <2>2. /\ token # <<>> /\ Head(token) = line[pos]
        /\ Len(token) = last - pos + 1
        /\ \A i \in 1 .. last - pos + 1 : token[i] = line[pos + i - 1]
    <3>1. pos \in 1 .. Len(line)
      BY <1>3
    <3>2. QED
      BY <1>2, <2>1, <3>1, TokenIs
  <2>3. /\ Accepts(token) <=> GoodArgument(<<pos, last>>)
        /\ command = "Home" <=> IsCommand({"28"})
    BY <1>2, <1>3, <2>1, AcceptsIsGood
  <2>4. Readable(Tail(token)) => pos < last /\ line[pos + 1] \in Floats
    BY <1>2, <1>3, <2>1, ReadableIs
  <2>5. pos < last => token[2] = line[pos + 1]
    <3>1. pos < last => 2 \in 1 .. last - pos + 1 /\ pos + 2 - 1 = pos + 1
      BY <1>3, <2>1
    <3>2. QED
      BY <2>2, <3>1
  <2> HIDE DEF token
  <2>6. CASE Accepts(token)
    <3>1. values' = Read(token) /\ UNCHANGED <<pc, outcome>>
      BY <1>1, <2>2, <2>6
    <3>2. \A w \in Arguments : w[1] < Behind(pos) => GoodArgument(w)
      BY <1>3, <1>6, <1>8, <1>11, <2>3, <2>6
    <3>3. line[pos] \in Coordinates /\ command # "Home" => token[2] = line[pos + 1] /\ token[2] \in Floats
      BY <2>2, <2>4, <2>5, <2>6 DEF Accepts
    <3>4. values \in [Coordinates -> Floats \cup {"none"}]
      BY <1>2 DEF TypeOK
    <3>5. values' \in [Coordinates -> Floats \cup {"none"}]
      BY <2>2, <3>1, <3>3, <3>4 DEF Read, Floats, Ints
    <3>6. values' = [c \in Coordinates |-> ValueBefore(c, Behind(pos))]
      <4>1. CASE line[pos] \notin Coordinates
        BY <1>3, <1>7, <2>2, <3>1, <4>1 DEF Read
      <4>2. CASE line[pos] \in Coordinates
        <5>1. values' = [values EXCEPT ![line[pos]] = IF command = "Home" THEN "1" ELSE line[pos + 1]]
          BY <2>2, <3>1, <3>3, <4>2 DEF Read
        <5>2. \A c \in Coordinates :
                values'[c] = IF c = line[pos] THEN IF command = "Home" THEN "1" ELSE line[pos + 1]
                             ELSE ValueBefore(c, pos)
          BY <1>3, <3>4, <5>1
        <5>3. \A c \in Coordinates : values'[c] = ValueBefore(c, Behind(pos))
          BY <1>7, <2>1, <2>3, <5>2
        <5>4. QED
          BY <3>5, <5>3
      <4>3. QED
        BY <4>1, <4>2
    <3>7. QED
      BY <1>9, <3>1, <3>2, <3>5, <3>6
  <2>7. CASE ~ Accepts(token)
    <3>1. pc' = "done" /\ outcome' = "error" /\ UNCHANGED values
      BY <1>1, <2>2, <2>7
    <3>2. <<pos, last>> \in Arguments /\ ~ GoodArgument(<<pos, last>>)
      BY <1>6, <1>11, <2>3, <2>7
    <3>3. ~ IsCommand(TooBig) /\ ~ IsCommand({"20", "21", "90", "91"})
      BY <1>3 DEF IsCommand, TooBig
    <3>4. ParsedAsWritten'
      BY <1>1, <3>1, <3>2, <3>3, LineKept DEF ParsedAsWritten
    <3>5. TypeOK'
      BY <1>1, <1>2, <1>5, <3>1 DEF TypeOK
    <3>6. ReadSoFar'
      BY <3>1 DEF ReadSoFar
    <3>7. QED
      BY <3>4, <3>5, <3>6 DEF IInv
  <2>8. QED
    BY <2>6, <2>7
<1>12. last < pos \/ last >= pos
  BY <1>3, <1>4 DEF last
<1>13. QED
  BY <1>10, <1>11, <1>12

(***************************************************************************)
(* checkCommand: the number is what follows the G, up to a blank; no word  *)
(* but the first starts before that blank.                                 *)
(***************************************************************************)
LEMMA NumberIs ==
  ASSUME line \in Seq(Symbols), Len(line) > 0, line[1] = "G"
  PROVE  /\ Stoi(SubSeq(line, 2, BlankFrom(2) - 1)) =
              IF IsCommand(Ints) THEN line[2] ELSE IF IsCommand(TooBig) THEN "out_of_range"
              ELSE "invalid_argument"
         /\ Len(line) > 1 => BlankFrom(2) \in 2 .. Len(line) + 1
<1>1. /\ Len(line) \in Nat /\ BlankFrom(2) \in 2 .. Len(line) + 1
      /\ BlankFrom(2) <= Len(line) => line[BlankFrom(2)] = Blank
  BY BlankIsNext
<1> DEFINE text == SubSeq(line, 2, BlankFrom(2) - 1)
<1>2. CASE BlankFrom(2) = 2
  <2>1. text = <<>>
    BY <1>1, <1>2
  <2>2. Len(line) < 2 \/ line[2] = Blank
    <3>1. Len(line) >= 2 => BlankFrom(2) <= Len(line)
      BY <1>2
    <3>2. Len(line) >= 2 => line[2] = Blank
      BY <1>1, <1>2, <3>1
    <3>3. QED
      BY <1>1, <3>2
  <2>3. ~ IsCommand(Ints) /\ ~ IsCommand(TooBig)
    <3>1. CASE Len(line) < 2
      BY <1>1, <3>1 DEF IsCommand
    <3>2. CASE line[2] = Blank
      BY <3>2 DEF IsCommand, Ints, TooBig, Blank
    <3>3. QED
      BY <2>2, <3>1, <3>2
  <2> HIDE DEF text
  <2>4. Stoi(text) = "invalid_argument"
    BY <2>1 DEF Stoi
  <2>5. QED
    BY <1>1, <2>3, <2>4 DEF text
<1>3. CASE BlankFrom(2) > 2
  <2>1. 2 \in 1 .. Len(line) /\ BlankFrom(2) - 1 \in 2 .. Len(line)
    BY <1>1, <1>3
  <2>2. text # <<>> /\ Head(text) = line[2]
    BY <2>1, TokenIs
  <2>3. Len(line) > 1
    BY <2>1
  <2> HIDE DEF text
  <2>4. Stoi(text) = IF IsCommand(Ints) THEN line[2] ELSE IF IsCommand(TooBig) THEN "out_of_range"
                     ELSE "invalid_argument"
    BY <2>2, <2>3 DEF Stoi, IsCommand, Ints, TooBig
  <2>5. QED
    BY <1>1, <2>4 DEF text
<1>4. QED
  BY <1>1, <1>2, <1>3

LEMMA CheckCommandIInv == IInv /\ CheckCommand => IInv'
<1> SUFFICES ASSUME IInv, CheckCommand PROVE IInv'
  OBVIOUS
<1> DEFINE number == IF line # <<>> /\ line[1] = "G" THEN Stoi(SubSeq(line, 2, BlankFrom(2) - 1)) ELSE "none"
<1>1. /\ pc = "command" /\ command' = CommandOf(number)
      /\ number = "out_of_range" => pc' = "done" /\ outcome' = "throws"
      /\ number # "out_of_range" /\ CommandOf(number) = "none" => pc' = "done" /\ outcome' = "error"
      /\ number # "out_of_range" /\ CommandOf(number) \in {"Go", "Home"} => pc' = "tokens" /\ UNCHANGED outcome
      /\ number # "out_of_range" /\ CommandOf(number) \notin {"Go", "Home", "none"}
           => pc' = "done" /\ outcome' = "message"
      /\ pos' = Min({BlankFrom(2) + 1, Len(line) + 1})
      /\ UNCHANGED <<line, values>>
  <2>1. /\ pc = "command" /\ command' = CommandOf(number)
        /\ pos' = Min({BlankFrom(2) + 1, Len(line) + 1})
        /\ UNCHANGED <<line, values>>
    BY DEF CheckCommand
  <2>2. (CASE number = "out_of_range" -> pc' = "done" /\ outcome' = "throws"
           [] number # "out_of_range" /\ CommandOf(number) = "none" -> pc' = "done" /\ outcome' = "error"
           [] CommandOf(number) \in {"Go", "Home"} -> pc' = "tokens" /\ UNCHANGED outcome
           [] OTHER -> pc' = "done" /\ outcome' = "message")
    BY DEF CheckCommand, Done
  <2> HIDE DEF number
  <2>3. number = "out_of_range" => CommandOf(number) = "none"
    BY DEF CommandOf
  <2>4. QED
    BY <2>1, <2>2, <2>3
<1>2. /\ TypeOK /\ line \in Seq(Symbols) /\ Len(line) \in Nat
      /\ values = NoValues /\ outcome = "none"
  BY <1>1, ParserAssumption DEF IInv, TypeOK, ReadSoFar
<1>3. number = IF IsCommand(Ints) THEN line[2] ELSE IF IsCommand(TooBig) THEN "out_of_range"
               ELSE IF line # <<>> /\ line[1] = "G" THEN "invalid_argument" ELSE "none"
  <2>1. CASE line # <<>> /\ line[1] = "G"
    <3>1. Len(line) > 0
      BY <1>2, <2>1
    <3>2. QED
      BY <1>2, <2>1, <3>1, NumberIs
  <2>2. CASE ~ (line # <<>> /\ line[1] = "G")
    <3>1. ~ IsCommand(Ints) /\ ~ IsCommand(TooBig)
      BY <1>2, <2>2 DEF IsCommand
    <3>2. QED
      BY <2>2, <3>1
  <2>3. QED
    BY <2>1, <2>2
<1> HIDE DEF number
<1>4. /\ number = "out_of_range" <=> IsCommand(TooBig)
      /\ CommandOf(number) \in {"Go", "Home"} <=> IsCommand({"0", "1", "28"})
      /\ CommandOf(number) \notin {"Go", "Home", "none"} <=> IsCommand({"20", "21", "90", "91"})
      /\ CommandOf(number) # "none" => CommandOf(number) = CommandOf(line[2])
      /\ CommandOf(number) \in {"none", "Go", "UseInches", "UseMm", "Home", "AbsolutePositioning",
                                "RelativePositioning"}
  BY <1>3 DEF IsCommand, CommandOf, Ints, TooBig
<1>5. BlankFrom(2) \in Nat /\ pos' \in 1 .. Len(line) + 1 /\ pos' \in {BlankFrom(2) + 1, Len(line) + 1}
      /\ pos' <= BlankFrom(2) + 1
  <2>1. BlankFrom(2) \in 1 .. Len(line) + 1
    <3>1. CASE Len(line) > 0
      BY <1>2, <3>1, BlankIsNext
    <3>2. CASE Len(line) = 0
      <4>1. {i \in 2 .. Len(line) : line[i] = Blank} \cup {Len(line) + 1} = {1}
        BY <3>2
      <4>2. QED
        BY <1>2, <3>2, <4>1, MinOfNats DEF BlankFrom
    <3>3. QED
      BY <1>2, <3>1, <3>2
  <2> DEFINE S == {BlankFrom(2) + 1, Len(line) + 1}
  <2>2. S \in SUBSET Nat /\ S # {}
    BY <1>2, <2>1
  <2>3. pos' \in S /\ \A i \in S : pos' <= i
    BY <1>1, <2>2, MinOfNats
  <2>4. QED
    BY <1>2, <2>1, <2>3
<1>6. TypeOK'
  BY <1>1, <1>2, <1>4, <1>5 DEF TypeOK
<1>7. CASE IsCommand({"0", "1", "28"})
  <2>1. pc' = "tokens" /\ outcome' = "none" /\ command' = CommandOf(line[2])
    BY <1>1, <1>2, <1>4, <1>7 DEF IsCommand, TooBig
  <2>2. Len(line) > 1 /\ line[1] = "G"
    BY <1>7 DEF IsCommand
  <2>3. /\ BlankFrom(2) \in 2 .. Len(line) + 1
        /\ BlankFrom(2) <= Len(line) => line[BlankFrom(2)] = Blank
        /\ \A i \in 2 .. BlankFrom(2) - 1 : line[i] # Blank
    BY <1>2, <2>2, BlankIsNext
  <2>4. PICK p \in Int : p = pos'
    BY <1>2, <1>5
  <2>5. /\ BlankFrom(2) \in Nat
        /\ p \in 1 .. Len(line) + 1 /\ p \in {BlankFrom(2) + 1, Len(line) + 1} /\ p <= BlankFrom(2) + 1
    BY <1>5, <2>4
  <2>6. p > 1 /\ (p <= Len(line) => line[p - 1] = Blank)
    BY <1>2, <2>5, <2>2, <2>3
  <2>7. ASSUME NEW i \in 2 .. p - 1, NEW w \in Arguments, w[1] = i PROVE FALSE
    <3>1. /\ i \in 2 .. Len(line) /\ line[i] # Blank /\ line[i - 1] = Blank
      BY <1>2, <2>7, WordIs DEF Arguments
    <3>2. i <= BlankFrom(2)
      BY <2>5
    <3>3. i # BlankFrom(2)
      BY <1>2, <2>3, <3>1
    <3>4. i = 2 \/ i - 1 \in 2 .. BlankFrom(2) - 1
      BY <2>5, <3>1, <3>2, <3>3
    <3>5. line[1] # Blank
      BY <2>2 DEF Blank
    <3>6. QED
      BY <2>3, <3>1, <3>4, <3>5
  <2>8. \A w \in Arguments : w[1] < p => GoodArgument(w)
    <3>1. \A w \in Arguments : w[1] \in Nat /\ w[1] > 1
      BY <1>2, WordIs DEF Arguments
    <3>2. p \in Int
      BY <2>5
    <3>3. \A w \in Arguments : w[1] < p => w[1] \in 2 .. p - 1
      BY <3>1, <3>2
    <3>4. QED
      BY <2>7, <3>3
  <2>9. \A c : ValueBefore(c, p) = "none"
    BY <2>7 DEF ValueBefore, SaidBefore
  <2>10. values' = [c \in Coordinates |-> ValueBefore(c, p)]
    BY <1>1, <1>2, <2>4, <2>9 DEF NoValues
  <2>11. ReadSoFar'
    <3>1. /\ pc' = "tokens" /\ outcome' = "none" /\ UNCHANGED line
          /\ IsCommand({"0", "1", "28"})' /\ (command = CommandOf(line[2]))'
      BY <1>1, <1>7, <2>1, <2>4, LineKept
    <3>2. pos' > 1 /\ (pos' <= Len(line') => line'[pos' - 1] = Blank)
      BY <2>4, <2>6, <3>1
    <3>3. \A w \in Arguments' : w[1] < pos' => GoodArgument(w)'
      BY <2>4, <2>8, <3>1, LineKept
    <3>4. values' = [c \in Coordinates |-> ValueBefore(c, pos)']
      BY <2>4, <2>10, <3>1, LineKept
    <3>5. QED
      BY <3>1, <3>2, <3>3, <3>4 DEF ReadSoFar
  <2>12. ParsedAsWritten'
    BY <2>1 DEF ParsedAsWritten
  <2>13. QED
    BY <1>6, <2>11, <2>12 DEF IInv
<1>8. CASE ~ IsCommand({"0", "1", "28"})
  <2>1. /\ pc' = "done"
        /\ outcome' = "throws" <=> IsCommand(TooBig)
        /\ outcome' = "message" <=> IsCommand({"20", "21", "90", "91"})
    BY <1>1, <1>4, <1>8 DEF IsCommand, TooBig
  <2>2. outcome' = "message" => command' = CommandOf(line[2]) /\ command' \notin {"Go", "Home"} /\ values' = NoValues
    BY <1>1, <1>2, <1>4, <2>1
  <2>3. ParsedAsWritten'
    BY <1>1, <1>8, <2>1, <2>2, LineKept DEF ParsedAsWritten
  <2>4. ReadSoFar'
    BY <2>1 DEF ReadSoFar
  <2>5. QED
    BY <1>6, <2>3, <2>4 DEF IInv
<1>9. QED
  BY <1>7, <1>8

-----------------------------------------------------------------------------
(***************************************************************************)
(* detail::parse_message, for lines of any length and any words: the       *)
(* message has the last value given for each coordinate, an error means    *)
(* that a word was wrong, and only a command that is too big throws.       *)
(***************************************************************************)
THEOREM ParserInvariant == Spec => []IInv
<1>1. IInv /\ [Next]_vars => IInv'
  <2> SUFFICES ASSUME IInv, [Next]_vars PROVE IInv'
    OBVIOUS
  <2>1. CASE UNCHANGED vars
    <3>1. UNCHANGED <<line, pc, pos, command, values, outcome>>
      BY <2>1 DEF vars
    <3>2. TypeOK'
      BY <3>1 DEF IInv, TypeOK
    <3>3. ReadSoFar'
      BY <3>1, LineKept DEF IInv, ReadSoFar
    <3>4. ParsedAsWritten'
      BY <3>1, LineKept DEF IInv, ParsedAsWritten, ValueOf
    <3>5. QED
      BY <3>2, <3>3, <3>4 DEF IInv
  <2>2. QED
    BY <2>1, CheckCommandIInv, TokenIInv, NoMoreTokensIInv DEF Next
<1>2. QED
  BY <1>1, InitIInv, PTL DEF Spec
=============================================================================
