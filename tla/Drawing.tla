------------------------------ MODULE Drawing ------------------------------
(***************************************************************************)
(* The drawing routines of the SSD1306 driver, as operators from a display *)
(* buffer to the one they leave.  A buffer is its set of lit bits, each by *)
(* column, page and bit, which is how the driver keeps them: 8 rows to a   *)
(* byte, the last row first.  A glyph or bitmap is the set of its lit      *)
(* points, counted from its corner.                                        *)
(***************************************************************************)
EXTENDS Integers, Sequences, FiniteSets

CONSTANTS
  WIDTH, HEIGHT,  \* the driver's 127 and 63 are WIDTH - 1 and HEIGHT - 1
  Font,           \* of a size: the glyphs of the characters from the blank on
  TextBound,      \* bound on the length of the texts that are looked at
  BigFonts        \* c_chFont1612 and c_chFont3216, by their glyphs' height

ASSUME ScreenAssumption == /\ WIDTH \in 1..128
                           /\ HEIGHT \in 1..64 /\ HEIGHT % 8 = 0

PAGES == HEIGHT \div 8
Screen == (0..(WIDTH - 1)) \X (0..(HEIGHT - 1))

Byte(n) == n % 256

Cell(p) == <<p[1], PAGES - 1 - (p[2] \div 8), 7 - (p[2] % 8)>>

(* Slip: points off the screen are written, too.                           *)
CellsUnclipped(points) == {Cell(<<Byte(q[1]), Byte(q[2])>>) : q \in points}
(* Points are bytes; those off the screen are passed over.                 *)
Cells(points) == {Cell(p) : p \in {<<Byte(q[1]), Byte(q[2])>> : q \in points} \cap Screen}

(* fill_point, over a set of points.                                       *)
fill_points(buf, points, dot) ==
  IF dot THEN buf \cup Cells(points) ELSE buf \ Cells(points)

(* A far corner at 255 would keep the loop's byte below it for ever.       *)
fill_rectangle(buf, x1, y1, x2, y2, dot) == fill_points(buf, (x1..x2) \X (y1..y2), dot)

-----------------------------------------------------------------------------
(* Characters.                                                             *)

Move(points, x, y) == {<<x + p[1], y + p[2]>> : p \in points}
Box(width, height) == (0..(width - 1)) \X (0..(height - 1))

(* At the two sizes there are, ssd1306_draw_char draws two bytes a column  *)
(* and so half as many columns as rows; the text's characters are in the   *)
(* font.                                                                   *)
ASSUME FontAssumption ==
  /\ TextBound \in Nat
  /\ DOMAIN Font \subseteq {12, 16}
  /\ \A size \in DOMAIN Font :
       /\ 1..TextBound \subseteq DOMAIN Font[size]
       /\ \A i \in DOMAIN Font[size] : Font[size][i] \subseteq Box(size \div 2, size)

(* Every point of the box is written, column by column, from the top.      *)
Stamp(buf, x, y, glyph, width, height) ==
  fill_points(fill_points(buf, Move(Box(width, height), x, y), FALSE),
              Move(glyph, x, y), TRUE)

Blank == 32
Zero == 48

Face(chr, size, mode) ==
  LET glyph == Font[size][chr - Blank]
  IN IF mode THEN glyph ELSE Box(size \div 2, size) \ glyph

draw_char(buf, x, y, chr, size, mode) ==
  Stamp(buf, x, y, Face(chr, size, mode), size \div 2, size)

(* draw_1616char and draw_3216char: 16 columns, digits and the colon.      *)
draw_big_char(buf, x, y, chr, height) ==
  Stamp(buf, x, y, BigFonts[height][chr - Zero], 16, height)

(* Where the pen is, and the buffer so far.  Past the last column the pen  *)
(* goes to the next line; past the last line it starts on a clear screen.  *)
NoWrap(pen, size) == pen
Wrapped(pen, size) ==
  LET y == Byte(pen.y + size)
  IN IF pen.x <= WIDTH - size \div 2 THEN pen
     ELSE IF y > HEIGHT - size THEN [buf |-> {}, x |-> 0, y |-> 0]
     ELSE [pen EXCEPT !.x = 0, !.y = y]

Put(pen, chr, size, mode) ==
  LET at == Wrapped(pen, size)
  IN [buf |-> draw_char(at.buf, at.x, at.y, chr, size, mode),
      x |-> at.x + size \div 2, y |-> at.y]

draw_string(buf, x0, y0, text, size, mode) ==
  LET pen[k \in 0..Len(text)] == IF k = 0 THEN [buf |-> buf, x |-> x0, y |-> y0]
                                 ELSE Put(pen[k - 1], text[k], size, mode)
  IN pen[Len(text)].buf

(* The digits of number, the highest first; chShow tells whether one other *)
(* than zero came before.  len is at most 10, or 10^len leaves 32 bits.    *)
(* Slip: every zero is taken for a leading one.                            *)
ShowNothing(show, digit) == 0
Show(show, digit) == IF show = 1 \/ digit # 0 THEN 1 ELSE 0

Characters(number, len) ==
  LET digit(i) == (number \div 10 ^ (len - i)) % 10
      show[i \in 0..len] == IF i = 0 THEN 0 ELSE Show(show[i - 1], digit(i))
  IN [i \in 1..len |-> IF show[i] = 1 \/ i = len THEN digit(i) + Zero ELSE Blank]

draw_num(buf, x, y, number, len, size) ==
  LET text == Characters(number, len)
      drawn[k \in 0..len] ==
        IF k = 0 THEN buf
        ELSE draw_char(drawn[k - 1], x + (size \div 2) * (k - 1), y, text[k], size, TRUE)
  IN drawn[len]

-----------------------------------------------------------------------------
(* Bitmaps and lines.  A bitmap's dark points leave the buffer as it is.   *)

draw_bitmap(buf, x, y, bitmap) == fill_points(buf, Move(bitmap, x, y), TRUE)

Abs(n) == IF n < 0 THEN -n ELSE n

(* Slip: one point less than there are steps.                              *)
LengthShort(long) == long - 1
Length(long) == long

(* Whenever the shorter axis' share adds up to a step, b moves by one.     *)
Advance(s, long, short, goal) ==
  LET moves == s.diff >= long
  IN [b |-> IF ~moves THEN s.b ELSE IF s.b < goal THEN s.b + 1 ELSE s.b - 1,
      diff |-> s.diff - (IF moves THEN long ELSE 0) + short]

(* From one end to the other along the longer axis, a, one step a point.   *)
Trace(a1, b1, a2, b2) ==
  LET swapped == a1 > a2
      long == Abs(a1 - a2)
      short == Abs(b1 - b2)
      b == IF swapped THEN b2 ELSE b1
      goal == IF swapped THEN b1 ELSE b2
      at[k \in 0..long] ==
        Advance(IF k = 0 THEN [b |-> b, diff |-> short] ELSE at[k - 1], long, short, goal)
  IN {<<(IF swapped THEN a2 ELSE a1) + k, at[k].b>> : k \in 0..Length(long)}

LinePoints(p, q) ==
  IF Abs(p[2] - q[2]) < Abs(p[1] - q[1])
  THEN Trace(p[1], p[2], q[1], q[2])
  ELSE {<<t[2], t[1]>> : t \in Trace(p[2], p[1], q[2], q[1])}

draw_line(buf, p, q) == fill_points(buf, LinePoints(p, q), TRUE)

-----------------------------------------------------------------------------
(* Properties, of all points of the screen.                                *)

Distance(p, q) == LET dx == Abs(p[1] - q[1])
                      dy == Abs(p[2] - q[2])
                  IN IF dx < dy THEN dy ELSE dx

(* A line that is no diagonal holds both its ends and, between them, one   *)
(* point for each step along its longer axis, each next to the one before. *)
(* (A diagonal misses them: the first step along the shorter axis is taken *)
(* before the first point.)                                                *)
LinesJoin ==
  \A p, q \in Screen :
    Abs(p[1] - q[1]) # Abs(p[2] - q[2]) =>
      LET line == LinePoints(p, q)
      IN /\ {p, q} \subseteq line
         /\ Cardinality(line) = Distance(p, q) + 1
         /\ \A t \in line \ {p} : \E u \in line :
              Distance(t, u) = 1 /\ Distance(u, p) = Distance(t, p) - 1

(* A number is written as one reads it: its last len digits, and blanks    *)
(* for the zeros in front, of which the last place alone keeps one.        *)
Numeral(number, len) ==
  [i \in 1..len |-> LET upTo == (number % 10 ^ len) \div 10 ^ (len - i)
                    IN IF upTo = 0 /\ i < len THEN Blank ELSE Zero + (upTo % 10)]

NumbersRead == \A len \in 1..4 : \A number \in 0..(10 ^ len + 10) :
                 Characters(number, len) = Numeral(number, len)

(* Where the k-th character of a text belongs that starts at (x, y): on    *)
(* the first line as many as fit behind x, on the others as many as fit;   *)
(* on the first page as many lines as fit below y.                         *)
TextPlace(k, x, y, size) ==
  LET width == size \div 2
      first == (WIDTH - x) \div width
      behind == k - first - 1
      line == IF behind < 0 THEN 0 ELSE 1 + behind \div (WIDTH \div width)
      lines == (HEIGHT - y) \div size
      further == line - lines
  IN [x |-> IF behind < 0 THEN x + width * (k - 1)
            ELSE width * (behind % (WIDTH \div width)),
      y |-> IF further < 0 THEN y + size * line
            ELSE size * (further % (HEIGHT \div size)),
      page |-> IF further < 0 THEN 0 ELSE 1 + further \div (HEIGHT \div size)]

(* However long a text is, all its characters since the screen was last    *)
(* cleared for it can be read, each at its place, and of those before      *)
(* nothing is left.                                                        *)
TextsRead ==
  \A size \in DOMAIN Font, mode \in BOOLEAN, p \in Screen, length \in 1..TextBound :
    p[1] + size \div 2 <= WIDTH /\ p[2] + size <= HEIGHT =>
      LET text == [k \in 1..length |-> Blank + k]
          place == [k \in 1..length |-> TextPlace(k, p[1], p[2], size)]
          last == {k \in 1..length : place[k].page = place[length].page}
      IN draw_string({}, p[1], p[2], text, size, mode) =
           UNION {Cells(Move(Face(text[k], size, mode), place[k].x, place[k].y)) : k \in last}
=============================================================================
