------------------------------- MODULE Glyphs -------------------------------
(***************************************************************************)
(* The font of plotter/display.cpp.  Each character is drawn in the source *)
(* as rows of pixels, which parse_glyph turns into a list of points at     *)
(* compile time.  Here a glyph is what the layout of the screen depends on:*)
(* how far its ink reaches above and below the baseline and to the right   *)
(* of where it is printed, and how far the next character is from it.      *)
(***************************************************************************)
EXTENDS Integers, Sequences, FiniteSets, SequencesExt, TLC

(***************************************************************************)
(* parse_glyph, of rows of pixels.  Ink is what is neither blank nor a     *)
(* dot; the first dot or star in reading order is the origin, the last one *)
(* gives the advance.  A column or line that is a new minimum is not       *)
(* compared with the maximum (the "else if").                              *)
(***************************************************************************)
ParseGlyph(rows) ==
  LET points == (1 .. Len(rows)) \X (1 .. Len(rows[1]))
      At(p) == rows[p[1]][p[2]]
      Before(p, q) == p[1] < q[1] \/ (p[1] = q[1] /\ p[2] < q[2])
      ink == {p \in points : At(p) \notin {" ", "."}}
      marks == {p \in points : At(p) \in {".", "*"}}
      origin == CHOOSE p \in marks : \A q \in marks \ {p} : Before(p, q)
      last == CHOOSE p \in marks : \A q \in marks \ {p} : Before(q, p)
      Highest(i) == Max({0} \cup {p[i] - 1 : p \in {p \in ink : \E q \in ink : Before(q, p) /\ q[i] <= p[i]}})
      Lowest(i) == IF ink = {} THEN 0 ELSE Min({p[i] - 1 : p \in ink})
  IN  [left |-> Lowest(2), top |-> Lowest(1), right |-> Highest(2), bottom |-> Highest(1),
       origin |-> <<origin[2] - 1, origin[1] - 1>>,
       advance |-> IF last = origin THEN 0 ELSE last[2] - origin[2] + 1,
       size |-> Cardinality(ink)]

(***************************************************************************)
(* Where print_text puts the ink of a parsed glyph: it adds the glyph's    *)
(* top to lines that are counted from the same row, so that ink starts     *)
(* twice as far below the first row as drawn.                              *)
(***************************************************************************)
Drawn(g) ==
  [rise |-> g.origin[2] - 2 * g.top,
   drop |-> g.bottom + g.top - g.origin[2],
   advance |-> g.advance,
   ink |-> IF g.size = 0 THEN 0 ELSE g.right - g.left + 1]

Of(chars, rise, drop, advance, ink) ==
  [c \in chars |-> [rise |-> rise, drop |-> drop, advance |-> advance, ink |-> ink]]

Marks ==
  Of({" "}, 0, 0, 6, 0) @@
  Of({"!"}, 11, 0, 3, 1) @@
  Of({"\""}, 12, -8, 6, 4) @@
  Of({"#"}, 11, 0, 11, 9) @@
  Of({"$"}, 13, 2, 10, 8) @@
  Of({"%"}, 12, 1, 11, 9)

MorePunctuation ==
  Of({"&"}, 11, 0, 11, 9) @@
  Of({"'"}, 12, -8, 4, 2) @@
  Of({"(", ")"}, 12, 2, 5, 3) @@
  Of({"*"}, 12, -6, 9, 7) @@
  Of({"+"}, 7, -1, 9, 7) @@
  Of({","}, 1, 2, 4, 2) @@
  Of({"-"}, 4, -4, 7, 5) @@
  Of({"."}, 1, 0, 4, 2) @@
  Of({"/"}, 12, 1, 7, 5)

Digits ==
  Of({"0", "2", "3", "5", "6", "7", "8", "9"}, 11, 0, 9, 7) @@
  Of({"1"}, 11, 0, 5, 3) @@
  Of({"4"}, 11, 0, 8, 6)

Comparisons ==
  Of({":"}, 8, 0, 4, 2) @@
  Of({";"}, 8, 2, 4, 2) @@
  Of({"<", ">"}, 8, 0, 7, 5) @@
  Of({"="}, 6, -2, 9, 7) @@
  Of({"?"}, 11, 0, 9, 7) @@
  Of({"@"}, 11, 2, 13, 11)

Braces ==
  Of({"{", "}"}, 12, 2, 6, 4) @@
  Of({"|"}, 12, 2, 3, 1) @@
  Of({"~"}, 10, -7, 10, 8)

CapitalsAI ==
  Of({"A"}, 11, 0, 8, 7) @@
  Of({"B", "D", "E", "F", "H"}, 11, 0, 9, 7) @@
  Of({"C", "G"}, 11, 0, 10, 9) @@
  Of({"I"}, 11, 0, 5, 3)

CapitalsJR ==
  Of({"J"}, 11, 0, 8, 7) @@
  Of({"K", "L", "N", "P", "R"}, 11, 0, 9, 7) @@
  Of({"M"}, 11, 0, 11, 9) @@
  Of({"O", "Q"}, 11, 0, 12, 10)

CapitalsSZ ==
  Of({"S"}, 11, 0, 10, 8) @@
  Of({"T", "U", "X", "Y", "Z"}, 11, 0, 9, 7) @@
  Of({"V", "W"}, 11, 0, 11, 9)

Brackets ==
  Of({"[", "]"}, 12, 2, 5, 3) @@
  Of({"\\"}, 12, 1, 7, 5) @@
  Of({"^"}, 11, -5, 9, 7) @@
  Of({"_"}, -4, 4, 9, 7) @@
  Of({"grave_accent"}, 12, -9, 5, 3)

LettersAI ==
  Of({"a"}, 7, 0, 8, 7) @@
  Of({"b", "h"}, 11, 0, 8, 6) @@
  Of({"c", "e"}, 7, 0, 8, 6) @@
  Of({"d"}, 11, 0, 8, 7) @@
  Of({"f"}, 11, 0, 7, 6) @@
  Of({"g"}, 7, 4, 8, 6) @@
  Of({"i"}, 9, 0, 4, 2)

LettersJR ==
  Of({"j"}, 14, 0, 7, 5) @@
  Of({"k"}, 11, 0, 8, 6) @@
  Of({"l"}, 11, 0, 4, 1) @@
  Of({"m", "o"}, 7, 0, 9, 7) @@
  Of({"n", "r"}, 7, 0, 8, 6) @@
  Of({"p"}, 7, 4, 8, 6) @@
  Of({"q"}, 7, 4, 8, 7)

LettersSZ ==
  Of({"s", "u", "z"}, 7, 0, 8, 6) @@
  Of({"t"}, 11, 0, 8, 5) @@
  Of({"v", "w"}, 7, 0, 9, 7) @@
  Of({"x"}, 7, 0, 7, 5) @@
  Of({"y"}, 7, 4, 8, 7)

\* chars_, from the blank to the tilde.
Chars ==
  Marks @@ MorePunctuation @@ Digits @@ Comparisons @@ CapitalsAI @@ CapitalsJR @@ CapitalsSZ @@
  Brackets @@ LettersAI @@ LettersJR @@ LettersSZ @@ Braces

FindCh(c) == IF c \in DOMAIN Chars THEN Chars[c] ELSE Chars["?"]

\* How far print_text goes to the right for a text.
TextWidth(text) == FoldLeft(LAMBDA x, c : x + FindCh(c).advance, 0, text)
=============================================================================
