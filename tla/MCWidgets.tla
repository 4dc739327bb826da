----------------------------- MODULE MCWidgets -----------------------------
(***************************************************************************)
(* The screen of the EV3, and what can be said of characters, of the texts *)
(* the plotter prints, and of rectangles.                                  *)
(***************************************************************************)
EXTENDS Widgets

CONSTANTS t1, t2

MCTexts == {t1, t2}

Glyph == INSTANCE Glyphs

\* Characters as display.cpp draws them, two of them to test how it parses them.
TestChar ==
  <<<<" ", " ", "#", "#", "#", " ", " ">>,
    <<" ", "#", " ", " ", " ", "#", " ">>,
    <<" ", "#", " ", " ", " ", "#", " ">>,
    <<".", " ", "#", "#", "#", "#", ".">>,
    <<" ", " ", " ", " ", " ", "#", " ">>,
    <<" ", " ", " ", " ", " ", "#", " ">>,
    <<" ", " ", " ", " ", " ", "#", "#">>>>
LetterI ==
  <<<<" ", "#", " ", " ">>, <<" ", " ", " ", " ">>>> \o [i \in 1 .. 7 |-> <<" ", "#", " ", " ">>] \o
  <<<<".", " ", "#", ".">>>>
TestChar2 == <<<<" ", "#", " ">>, <<".", "#", ".">>>>

\* What display.cpp expects of the first and the last, and the table says of "i".
ASSUME ParsedGlyphs ==
  LET a == Glyph!ParseGlyph(TestChar)
      b == Glyph!ParseGlyph(TestChar2)
  IN  /\ <<a.left, a.top, a.right, a.bottom, a.advance>> = <<1, 0, 6, 6, 7>> /\ a.origin = <<0, 3>>
      /\ <<b.left, b.top, b.right, b.bottom, b.advance, b.size>> = <<1, 0, 1, 1, 3, 2>>
      /\ Glyph!Drawn(Glyph!ParseGlyph(LetterI)) = Glyph!FindCh("i")

\* No character reaches into the next one, nor out of the rows of the widgets.
ASSUME GlyphsFit ==
  /\ Cardinality(DOMAIN Glyph!Chars) = 95
  /\ \A c \in DOMAIN Glyph!Chars :
       /\ Glyph!FindCh(c).ink <= Glyph!FindCh(c).advance
       /\ Glyph!FindCh(c).rise <= ItemHeight - Padding /\ Glyph!FindCh(c).drop <= Padding

\* Headers of menus end left of the positions, captions within the button.
ASSUME TextsFit ==
  /\ \A header \in {<<"E", "x", "i", "t", "?">>, <<"M", "a", "i", "n", " ", "m", "e", "n", "u">>,
                    <<"U", "t", "i", "l", "i", "t", "i", "e", "s">>} :
       Padding + Glyph!TextWidth(header) <= Width \div 2
  /\ \A caption \in {<<"C", "l", "o", "s", "e">>, <<"S", "t", "o", "p">>, <<"E", "x", "i", "t">>} :
       Padding + Glyph!TextWidth(caption) <= Width \div 3

\* What is set, whatever the crop, is in the buffer: display.h asserts it.
ASSUME BufferKept ==
  \A x \in {-1, 0, 1, Width - 1, Width, Width + 1}, y \in {-1, 0, 1, Height - 1, Height, Height + 1} :
    Sets(Point(x, y), Screen) =>
      0 <= Index(Point(x, y)) /\ Index(Point(x, y)) < Width * Height * 4 - 3

\* A rectangle consists of the pixels on its edge, each once.
ASSUME Rectangles ==
  \A w, h \in 1 .. 5 :
    LET r == Rect(Point(3, 2), Point(2 + w, 1 + h))
        edge == {p \in [x : 3 .. 2 + w, y : 2 .. 1 + h] : p.x \in {3, 2 + w} \/ p.y \in {2, 1 + h}}
    IN  {p \in [x : 0 .. 9, y : 0 .. 9] : \E d \in Rectangle(r, TRUE) : Covers(d, p)} = edge
=============================================================================
