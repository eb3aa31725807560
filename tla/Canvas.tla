------------------------------- MODULE Canvas -------------------------------
(***************************************************************************)
(* ui/Canvas.hpp: pixels, rectangles and text in a buffer of rows.  A      *)
(* character is two by two cells here, and takes one more for the spacing; *)
(* a glyph is the set of cells of its bitmap.                              *)
(*                                                                         *)
(* getFontBitmap numbers the characters as if all 40 were in fontData,     *)
(* which has the FontRows that were written down: a later number reads     *)
(* past the table, and any bitmap may be there.                            *)
(***************************************************************************)
EXTENDS Integers, FiniteSets, SequencesExt

CONSTANTS
    CanvasWidth, CanvasHeight,
    Colors

VARIABLES
    buffer,                  \* [index -> colour]
    dirty,
    picture                  \* history: [<<x, y>> -> colour], what was drawn by coordinates

vars == <<buffer, dirty, picture>>

Blank == 0

\* The coordinates drawn at, on and off the canvas.
Reach == -2 .. CanvasWidth

Place == (0 .. CanvasWidth - 1) \X (0 .. CanvasHeight - 1)

Init ==
    /\ buffer = [k \in 0 .. CanvasWidth * CanvasHeight - 1 |-> Blank]
    /\ dirty = FALSE
    /\ picture = [p \in Place |-> Blank]

\* Mutant: the right edge is not looked at, and a pixel beyond it is in the next row.
WithinOpenRight(p) == p[1] >= 0 /\ p[2] >= 0 /\ p[2] < CanvasHeight

Within(p) == p[1] >= 0 /\ p[1] < CanvasWidth /\ p[2] >= 0 /\ p[2] < CanvasHeight

Index(p) == p[2] * CanvasWidth + p[1]

\* drawPixel of color at every place of S.
Paint(S, color) ==
    LET hit == {Index(p) : p \in {q \in S : Within(q)}}
    IN  /\ buffer' = [k \in DOMAIN buffer \cup hit |-> IF k \in hit THEN color ELSE buffer[k]]
        /\ dirty' = (dirty \/ hit # {})
        /\ picture' = [p \in Place |-> IF p \in S THEN color ELSE picture[p]]

Clear(color) ==
    /\ buffer' = [k \in DOMAIN buffer |-> color]
    /\ dirty' = TRUE
    /\ picture' = [p \in Place |-> color]

DrawPixel(p, color) == Paint({p}, color)

DrawRect(p, w, h, color) == Paint((p[1] .. p[1] + w - 1) \X (p[2] .. p[2] + h - 1), color)

-----------------------------------------------------------------------------
\* Text

Cell == (0 .. 1) \X (0 .. 1)

\* The rows of fontData: space, A, B, C, 0, 1 and three marks, and their bitmaps.
FontRows == 9
FontData == [row \in 0 .. FontRows - 1 |-> {c \in Cell : row # 0 /\ (c[1] = 0 \/ c[2] = row % 2)}]

\* The number getFontBitmap gives a character: 1 is 'A', 4 'D', 27 '0', 0 space and the rest.
Characters == {0, 1, 4, 27}

GetFontBitmap(c) == IF c < FontRows THEN {FontData[c]} ELSE SUBSET Cell

\* drawText of two characters.
DrawText(p, c, d, color) ==
    \E first \in GetFontBitmap(c), second \in GetFontBitmap(d) :
        Paint({<<p[1] + cell[1], p[2] + cell[2]>> : cell \in first}
                \cup {<<p[1] + 3 + cell[1], p[2] + cell[2]>> : cell \in second}, color)

ClearDirty ==
    /\ dirty' = FALSE
    /\ UNCHANGED <<buffer, picture>>

Next ==
    \/ \E color \in Colors :
          \/ Clear(color)
          \/ \E p \in Reach \X Reach :
                \/ DrawPixel(p, color)
                \/ \E w, h \in 1 .. 2 : DrawRect(p, w, h, color)
                \/ \E c \in Characters : DrawText(p, c, 1, color)
    \/ ClearDirty

Spec == Init /\ [][Next]_vars

-----------------------------------------------------------------------------
\* Properties

TypeOK ==
    /\ DOMAIN buffer = 0 .. CanvasWidth * CanvasHeight - 1
    /\ \A k \in DOMAIN buffer : buffer[k] \in Colors \cup {Blank}
    /\ dirty \in BOOLEAN

\* Whatever is drawn, partly or wholly off the canvas, the buffer is the part of the
\* picture that is on it: nothing spills over an edge into another row (25-62).
BufferIsPicture == \A p \in Place : buffer[Index(p)] = picture[p]
=============================================================================
