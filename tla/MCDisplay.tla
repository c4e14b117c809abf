----------------------------- MODULE MCDisplay -----------------------------
(* Display on small panels, with made-up glyphs of the fonts' sizes.       *)
EXTENDS Display

(* c_chBat816, as app_main draws it: 8 columns, a byte for each of 16 rows.*)
BatteryRows == <<\h0F, \hFE, \h30, \h02, \h26, \hDA, \h26, \hDA,
                 \h26, \hDA, \h26, \hDA, \h30, \h02, \h0F, \hFE>>
Battery == {<<i, j>> \in (0..7) \X (0..15) : Bit(BatteryRows[j + 1], 7 - i)}

(* A character's number in binary, over the points of its box.             *)
Glyph(n, size) == {p \in Box(size \div 2, size) : Bit(n, p[1] + (size \div 2) * (p[2] % 2))}
MCFont == [size \in {12, 16} |-> [n \in 0..94 |-> Glyph(n, size)]]
MCBigFonts == [height \in {16} |-> [n \in 0..10 |-> {<<n, n>>, <<2, 5>>}]]

MCPlaces == {<<3, 12>>}
MCTexts == {<<65, 66>>}
=============================================================================
