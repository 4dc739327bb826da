------------------------------- MODULE Display ------------------------------
(***************************************************************************)
(* The drawing operations of plotter/display.h and display.cpp.  An        *)
(* operation is the box of pixels its loops go through: "left" and "top"   *)
(* are the first column and row, "right" and "bottom" are where the loops  *)
(* stop, compared with !=.  What set() is given outside of the screen or   *)
(* the crop it ignores.                                                    *)
(***************************************************************************)
EXTENDS Integers

CONSTANTS
  Width,      \* display::width
  Height      \* display::height

ASSUME DisplayAssumption == Width \in Nat \ {0} /\ Height \in Nat \ {0}

Least(a, b) == IF a < b THEN a ELSE b
Greatest(a, b) == IF a < b THEN b ELSE a

\* std::clamp with limits in order.
Clamp(v, low, high) == IF v < low THEN low ELSE IF high < v THEN high ELSE v

Point(x, y) == [x |-> x, y |-> y]
Rect(topLeft, bottomRight) == [topLeft |-> topLeft, bottomRight |-> bottomRight]
RectWidth(r) == r.bottomRight.x - r.topLeft.x + 1
RectHeight(r) == r.bottomRight.y - r.topLeft.y + 1

\* The crop print_text uses when it is given none: one more than there is.
Screen == Rect(Point(0, 0), Point(Width, Height))

(***************************************************************************)
(* display::set writes the pixel p unless it is out of the crop or of the  *)
(* screen.                                                                 *)
(***************************************************************************)
Sets(p, crop) ==
  /\ p.x >= Greatest(crop.topLeft.x, 0) /\ p.x <= Least(Width - 1, crop.bottomRight.x)
  /\ p.y >= Greatest(crop.topLeft.y, 0) /\ p.y <= Least(Height - 1, crop.bottomRight.y)

\* Where the first byte of a pixel is in the buffer.
Index(p) == (p.y * Width + p.x) * 4

\* An operation that is left out.
Nothing == [op |-> "nothing"]

\* display::fill, which fills the buffer.
Clear(color) ==
  [op |-> "clear", left |-> 0, top |-> 0, right |-> Width, bottom |-> Height, color |-> color]

Fill(points, color) ==
  [op |-> "fill",
   left |-> Clamp(points.topLeft.x, 0, Width), top |-> Clamp(points.topLeft.y, 0, Height),
   right |-> Clamp(points.bottomRight.x + 1, 0, Width),
   bottom |-> Clamp(points.bottomRight.y + 1, 0, Height),
   color |-> color]

HLine(p, length, color) ==
  [op |-> "hline", left |-> Clamp(p.x, 0, Width), top |-> p.y,
   right |-> Clamp(p.x + length, 0, Width), bottom |-> p.y + 1, color |-> color, length |-> length]

VLine(p, length, color) ==
  [op |-> "vline", left |-> p.x, top |-> Clamp(p.y, 0, Height),
   right |-> p.x + 1, bottom |-> Clamp(p.y + length, 0, Height), color |-> color, length |-> length]

(***************************************************************************)
(* print_text: a text of the given width whose ink reaches rise above the  *)
(* baseline at where and drop below it, as far as set() lets it.           *)
(***************************************************************************)
PrintText(where, crop, width, rise, drop, color) ==
  [op |-> "text",
   left |-> Greatest(where.x, Greatest(crop.topLeft.x, 0)),
   top |-> Greatest(where.y - rise, Greatest(crop.topLeft.y, 0)),
   right |-> 1 + Least(where.x + width - 1, Least(Width - 1, crop.bottomRight.x)),
   bottom |-> 1 + Least(where.y + drop, Least(Height - 1, crop.bottomRight.y)),
   color |-> color,
   clipped |-> where.y + drop > Least(Height - 1, crop.bottomRight.y)
                 \/ where.y - rise < Greatest(crop.topLeft.y, 0)]

(***************************************************************************)
(* rectangle: four lines, the vertical ones only between the others.       *)
(***************************************************************************)
Rectangle(points, color) ==
  LET w == RectWidth(points)
      h == RectHeight(points)
      a == points.topLeft
      b == points.bottomRight
  IN  {HLine(a, w, color), HLine(Point(a.x, b.y), w, color)} \cup
      (IF h > 2 THEN {VLine(Point(a.x, a.y + 1), h - 2, color),
                      VLine(Point(b.x, a.y + 1), h - 2, color)}
                ELSE {})

-----------------------------------------------------------------------------
\* The loops of an operation count up to their ends and not past them.
LoopsStop(d) == d.op \in {"text", "nothing"} \/ (d.left <= d.right /\ (d.left = d.right \/ d.top <= d.bottom))

Covers(d, p) == d.left <= p.x /\ p.x < d.right /\ d.top <= p.y /\ p.y < d.bottom
=============================================================================
