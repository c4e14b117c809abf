---------------------------- MODULE DisplayProofs ----------------------------
(***************************************************************************)
(* Proofs about Display, for any screen, fonts, arguments and bounds: the  *)
(* types, what the panel shows after any number of restarts and losses,    *)
(* that lines join their ends, and that numbers and texts can be read.     *)
(*                                                                         *)
(* The panel's state is followed byte by byte.  DisplayInv tells, of each  *)
(* moment of ssd1306_init, which settings the transfers sent so far have   *)
(* fixed, and what of a command may still be under way; after it, that a   *)
(* refresh starts where the panel's memory starts.  A refresh is an        *)
(* induction over its bytes, draw_line one over its steps, draw_num and    *)
(* draw_string over their characters.                                      *)
(***************************************************************************)
EXTENDS Display, FiniteSetTheorems, SequenceTheorems, WellFoundedInduction, TLAPS

-----------------------------------------------------------------------------
(* What the panel makes of the bytes it takes, one after the other.        *)

(* A set of numbers has a least one.                                       *)
LEMMA HasLeast ==
  ASSUME NEW S \in SUBSET Nat, S # {}
  PROVE  \E x \in S : \A y \in S : x <= y
<1>1. PICK x \in S : \A y \in S : <<y, x>> \notin OpToRel(<, Nat)
  BY WFMin, NatLessThanWellFounded
<1>2. \A y \in S : ~(y < x)
  BY <1>1 DEF OpToRel
<1>3. QED
  BY <1>2

(* The panel byte by byte: f gives it after each byte of a transfer.       *)
Taking(f, isData, p, bytes, n) ==
  f = [k \in 0..n |-> IF k = 0 THEN p ELSE Take(isData, f[k - 1], bytes[k])]

(* Such an f exists for every transfer,                                    *)
LEMMA TakingExists ==
  ASSUME NEW isData, NEW p, NEW bytes, NEW n \in Nat
  PROVE  \E f : Taking(f, isData, p, bytes, n)
<1> DEFINE Lacks(m) == ~ \E f : Taking(f, isData, p, bytes, m)
           S == {m \in Nat : Lacks(m)}
<1>1. SUFFICES ASSUME S # {} PROVE FALSE
  OBVIOUS
<1>2. PICK m \in S : \A j \in S : m <= j
  <2>1. S \in SUBSET Nat
    OBVIOUS
  <2>2. QED
    BY <1>1, <2>1, HasLeast
<1>3. m # 0
  <2>1. Taking([k \in 0..0 |-> p], isData, p, bytes, 0)
    BY DEF Taking
  <2>2. QED
    BY <2>1
<1>4. m - 1 \in Nat /\ m - 1 \notin S
  BY <1>2, <1>3
<1>5. PICK f : Taking(f, isData, p, bytes, m - 1)
  BY <1>4
<1> DEFINE g == [k \in 0..m |-> IF k = m THEN Take(isData, f[m - 1], bytes[m]) ELSE f[k]]
<1>6. Taking(g, isData, p, bytes, m)
  <2> DEFINE h == [k \in 0..m |-> IF k = 0 THEN p ELSE Take(isData, g[k - 1], bytes[k])]
  <2>1. \A k \in 0..(m - 1) : f[k] = IF k = 0 THEN p ELSE Take(isData, f[k - 1], bytes[k])
    BY <1>5 DEF Taking
  <2>2. ASSUME NEW k \in 0..m PROVE g[k] = h[k]
    <3>1. CASE k = m
      BY <3>1, <1>3
    <3>2. CASE k # m /\ k # 0
      <4>1. k - 1 \in 0..m /\ k - 1 # m
        BY <3>2
      <4>2. g[k - 1] = f[k - 1]
        BY <4>1
      <4>3. QED
        BY <2>1, <3>2, <4>2
    <3>3. CASE k # m /\ k = 0
      BY <2>1, <3>3
    <3>4. QED
      BY <3>1, <3>2, <3>3
  <2>3. g = h
    BY <2>2
  <2>4. QED
    BY <2>3 DEF Taking
<1>7. QED
  BY <1>6

(* two of them agree as far as both go,                                    *)
LEMMA TakingAgree ==
  ASSUME NEW isData, NEW p, NEW bytes, NEW n \in Nat, NEW m \in Nat, n <= m,
         NEW f, Taking(f, isData, p, bytes, n), NEW g, Taking(g, isData, p, bytes, m)
  PROVE  \A k \in 0..n : f[k] = g[k]
<1> DEFINE S == {k \in 0..n : f[k] # g[k]}
<1>1. SUFFICES ASSUME S # {} PROVE FALSE
  OBVIOUS
<1>2. PICK k \in S : \A j \in S : k <= j
  <2>1. S \in SUBSET Nat
    OBVIOUS
  <2>2. QED
    BY <1>1, <2>1, HasLeast
<1>3. f[k] = (IF k = 0 THEN p ELSE Take(isData, f[k - 1], bytes[k]))
  BY DEF Taking
<1>4. g[k] = (IF k = 0 THEN p ELSE Take(isData, g[k - 1], bytes[k]))
  BY DEF Taking
<1>5. CASE k = 0
  BY <1>3, <1>4, <1>5
<1>6. CASE k # 0
  <2>1. k - 1 \in 0..n /\ k - 1 \notin S
    BY <1>2, <1>6
  <2>2. QED
    BY <2>1, <1>3, <1>4, <1>6
<1>7. QED
  BY <1>5, <1>6

(* and Taken is the last value of one.                                     *)
LEMMA TakenIs ==
  ASSUME NEW isData, NEW p, NEW bytes, NEW n \in Nat
  PROVE  \E f : Taking(f, isData, p, bytes, n) /\ Taken(isData, p, bytes, n) = f[n]
<1> DEFINE f == CHOOSE f : Taking(f, isData, p, bytes, n)
<1>1. Taking(f, isData, p, bytes, n)
  BY TakingExists
<1>2. Taken(isData, p, bytes, n) = f[n]
  BY DEF Taken, Taking
<1>3. QED
  BY <1>1, <1>2

(* So nothing changes before the first byte,                               *)
LEMMA TakenNone ==
  ASSUME NEW isData, NEW p, NEW bytes
  PROVE  Taken(isData, p, bytes, 0) = p
<1>1. PICK f : Taking(f, isData, p, bytes, 0) /\ Taken(isData, p, bytes, 0) = f[0]
  BY TakenIs
<1>2. QED
  BY <1>1 DEF Taking

(* and every byte is taken by the panel the ones before it left.           *)
LEMMA TakenNext ==
  ASSUME NEW isData, NEW p, NEW bytes, NEW n \in Nat
  PROVE  Taken(isData, p, bytes, n + 1)
           = Take(isData, Taken(isData, p, bytes, n), bytes[n + 1])
<1>1. PICK f : Taking(f, isData, p, bytes, n) /\ Taken(isData, p, bytes, n) = f[n]
  BY TakenIs
<1>2. PICK g : Taking(g, isData, p, bytes, n + 1) /\ Taken(isData, p, bytes, n + 1) = g[n + 1]
  BY TakenIs
<1>3. f[n] = g[n]
  BY <1>1, <1>2, TakingAgree
<1>4. g[n + 1] = Take(isData, g[n], bytes[n + 1])
  BY <1>2 DEF Taking
<1>5. QED
  BY <1>1, <1>2, <1>3, <1>4

-----------------------------------------------------------------------------
(* The types: what the panel and the drawings can do to a state.           *)

(* The driver's screen: its height is a number of pages of 8 rows.         *)
LEMMA ScreenSizes ==
  /\ WIDTH \in 1..128 /\ HEIGHT \in 1..64 /\ PAGES \in 1..8 /\ HEIGHT = 8 * PAGES
BY ScreenAssumption DEF PAGES

(* ssd1306_fill_point lights bits of the screen only, whatever is drawn,   *)
LEMMA CellsOnScreen == \A points : Cells(points) \subseteq Cells(Screen)
<1> SUFFICES ASSUME NEW points, NEW c \in Cells(points)
             PROVE  c \in Cells(Screen)
  OBVIOUS
<1>1. PICK p \in Screen : c = Cell(p)
  BY DEF Cells
<1>2. p[1] \in 0..127 /\ p[2] \in 0..63 /\ p = <<p[1], p[2]>>
  BY <1>1, ScreenSizes DEF Screen
<1>3. Byte(p[1]) = p[1] /\ Byte(p[2]) = p[2]
  BY <1>2 DEF Byte
<1>4. p \in {<<Byte(q[1]), Byte(q[2])>> : q \in Screen}
  BY <1>1, <1>2, <1>3
<1>5. QED
  BY <1>1, <1>4 DEF Cells

(* and the bits of the screen are those of the panel's bytes.              *)
LEMMA ScreenCells ==
  Cells(Screen) = ((0..(WIDTH - 1)) \X (0..(PAGES - 1)) \X (0..7))
<1> DEFINE All == (0..(WIDTH - 1)) \X (0..(PAGES - 1)) \X (0..7)
<1>1. ASSUME NEW c \in Cells(Screen) PROVE c \in All
  <2>1. PICK p \in Screen : c = Cell(p)
    BY <1>1 DEF Cells
  <2>2. p[1] \in 0..(WIDTH - 1) /\ p[2] \in 0..(HEIGHT - 1)
    BY <2>1 DEF Screen
  <2>3. PAGES - 1 - (p[2] \div 8) \in 0..(PAGES - 1) /\ 7 - (p[2] % 8) \in 0..7
    BY <2>2, ScreenSizes
  <2>4. QED
    BY <2>1, <2>2, <2>3 DEF Cell
<1>2. ASSUME NEW x \in 0..(WIDTH - 1), NEW y \in 0..(PAGES - 1), NEW b \in 0..7
      PROVE  <<x, y, b>> \in Cells(Screen)
  <2> DEFINE r == 8 * (PAGES - 1 - y) + (7 - b)
  <2>1. r \in 0..(HEIGHT - 1) /\ r \div 8 = PAGES - 1 - y /\ r % 8 = 7 - b
    BY ScreenSizes
  <2>2. x \in 0..127 /\ r \in 0..63
    BY <2>1, ScreenSizes
  <2> HIDE DEF r
  <2>3. Byte(x) = x /\ Byte(r) = r
    BY <2>2 DEF Byte
  <2>4. <<x, r>> \in Screen
    BY <2>1 DEF Screen
  <2>5. Cell(<<x, r>>) = <<x, y, b>>
    <3>1. PAGES - 1 - (PAGES - 1 - y) = y /\ 7 - (7 - b) = b
      BY ScreenSizes
    <3>2. QED
      BY <2>1, <3>1 DEF Cell
  <2>6. <<x, r>> \in {<<Byte(q[1]), Byte(q[2])>> : q \in Screen}
    BY <2>3, <2>4
  <2>7. QED
    BY <2>4, <2>5, <2>6 DEF Cells
<1>3. ASSUME NEW c \in All PROVE c \in Cells(Screen)
  <2>1. PICK x \in 0..(WIDTH - 1), y \in 0..(PAGES - 1), b \in 0..7 : c = <<x, y, b>>
    OBVIOUS
  <2>2. QED
    BY <1>2, <2>1
<1>4. QED
  BY <1>1, <1>3

(* What a command sets stays within the panel's settings.                  *)
LEMMA AdjustType ==
  ASSUME NEW set \in Setting, NEW c, c[1] \in Nat,
         c[1] \in {\h20, \h8D, \hA8, \hDA, \h21, \h22} => c[2] \in Nat,
         c[1] \in {\h21, \h22} => c[3] \in Nat
  PROVE  Adjust(set, c) \in Setting
<1> DEFINE a == Adjust(set, c)
<1>2. a.on \in BOOLEAN /\ a.mirrored \in BOOLEAN /\ a.flipped \in BOOLEAN /\ a.inverse \in BOOLEAN
      /\ a.all \in BOOLEAN /\ a.pump \in BOOLEAN /\ a.pins \in BOOLEAN
  BY DEF Adjust, Setting, Bit
<1>3. a.start \in 0..(HEIGHT - 1)
  BY ScreenSizes DEF Adjust, Setting
<1>4. a.mux \in 0..63
  BY DEF Adjust, Setting
<1>5. a.mode \in 0..3
  BY DEF Adjust, Setting
<1>6. a.columns \in (0..(WIDTH - 1)) \X (0..(WIDTH - 1))
  BY ScreenSizes DEF Adjust, Setting, Window
<1>7. a.pages \in (0..(PAGES - 1)) \X (0..(PAGES - 1))
  BY ScreenSizes DEF Adjust, Setting, Window
<1>8. QED
  <2>1. a = [on |-> a.on, pump |-> a.pump, start |-> a.start, mirrored |-> a.mirrored,
             flipped |-> a.flipped, inverse |-> a.inverse, all |-> a.all, mux |-> a.mux,
             pins |-> a.pins, mode |-> a.mode, columns |-> a.columns, pages |-> a.pages]
    BY DEF Adjust
  <2> HIDE DEF a
  <2>2. a \in Setting
    BY <2>1, <1>2, <1>3, <1>4, <1>5, <1>6, <1>7 DEF Setting
  <2>3. QED
    BY <2>2 DEF a

(* A command that is not yet complete still lacks an argument.             *)
Waiting(c) == c # <<>> => Len(c) <= Arguments(c[1])

(* A panel in one of its states.                                           *)
Sane(p) == p \in Panel /\ Waiting(p.pending)

(* No command has more than two arguments.                                 *)
LEMMA ArgumentCount == \A c : Arguments(c) \in 0..2
BY DEF Arguments

(* The parts of a panel.                                                   *)
LEMMA PanelFields ==
  ASSUME NEW p \in Panel
  PROVE  /\ p.ram \subseteq Cells(Screen) /\ p.pending \in Seq(Octet)
         /\ p.at \in (0..(WIDTH - 1)) \X (0..(PAGES - 1)) /\ p.set \in Setting
         /\ p.at = <<p.at[1], p.at[2]>>
         /\ p.at[1] \in 0..(WIDTH - 1) /\ p.at[2] \in 0..(PAGES - 1)
         /\ p = [ram |-> p.ram, pending |-> p.pending, at |-> p.at, set |-> p.set]
BY DEF Panel, Buffers

(* A complete command leaves the panel in one of its states,               *)
LEMMA ExecuteType ==
  ASSUME NEW p \in Panel, NEW c \in Seq(Octet), Len(c) = Arguments(c[1]) + 1
  PROVE  Sane(Execute(p, c))
<1>1. Len(c) \in 1..3
  BY ArgumentCount
<1>2. /\ c[1] \in Octet
      /\ c[1] \in {\h20, \h8D, \hA8, \hDA, \h21, \h22} => c[2] \in Octet
      /\ c[1] \in {\h21, \h22} => c[3] \in Octet
  <2>1. /\ c[1] \in {\h20, \h8D, \hA8, \hDA, \h21, \h22} => Len(c) >= 2
        /\ c[1] \in {\h21, \h22} => Len(c) = 3
    BY DEF Arguments
  <2>2. \A k \in 1..Len(c) : c[k] \in Octet
    OBVIOUS
  <2>3. c[1] \in Octet
    BY <1>1, <2>2
  <2>4. Len(c) >= 2 => c[2] \in Octet
    BY <1>1, <2>2
  <2>5. Len(c) = 3 => c[3] \in Octet
    BY <1>1, <2>2
  <2>6. c[1] \in {\h20, \h8D, \hA8, \hDA, \h21, \h22} => c[2] \in Octet
    BY <2>1, <2>4
  <2>7. c[1] \in {\h21, \h22} => c[3] \in Octet
    BY <2>1, <2>5
  <2>8. QED
    BY <2>3, <2>6, <2>7
<1>3. /\ c[1] \in Nat
      /\ c[1] \in {\h20, \h8D, \hA8, \hDA, \h21, \h22} => c[2] \in Nat
      /\ c[1] \in {\h21, \h22} => c[3] \in Nat
  <2>1. Octet \subseteq Nat
    BY DEF Octet
  <2>2. QED
    BY <1>2, <2>1, Zenon
<1> DEFINE s == Adjust(p.set, c)
<1>4. s \in Setting
  <2>1. p.set \in Setting
    BY PanelFields
  <2>2. QED
    BY <2>1, <1>3, AdjustType
<1> HIDE DEF s
<1> DEFINE x == IF c[1] = \h21 THEN c[2] % WIDTH ELSE p.at[1]
           y == IF c[1] = \h22 THEN c[2] % PAGES ELSE p.at[2]
<1>5. x \in 0..(WIDTH - 1) /\ y \in 0..(PAGES - 1)
  <2>1. p.at[1] \in 0..(WIDTH - 1) /\ p.at[2] \in 0..(PAGES - 1)
    BY PanelFields
  <2>2. CASE c[1] = \h21
    <3>1. c[2] \in Nat
      BY <1>3, <2>2
    <3>2. c[2] % WIDTH \in 0..(WIDTH - 1)
      BY <3>1, ScreenSizes
    <3>3. QED
      BY <2>1, <2>2, <3>2
  <2>3. CASE c[1] = \h22
    <3>1. c[2] \in Nat
      BY <1>3, <2>3
    <3>2. c[2] % PAGES \in 0..(PAGES - 1)
      BY <3>1, ScreenSizes
    <3>3. QED
      BY <2>1, <2>3, <3>2
  <2>4. QED
    BY <2>1, <2>2, <2>3
<1> HIDE DEF x, y
<1>6. Execute(p, c) = [ram |-> p.ram, pending |-> <<>>, at |-> <<x, y>>, set |-> s]
  BY DEF Execute, x, y, s
<1>7. p.ram \in SUBSET Cells(Screen) /\ <<>> \in Seq(Octet)
  BY PanelFields
<1>8. Execute(p, c) \in Panel
  BY <1>4, <1>5, <1>6, <1>7 DEF Panel
<1>9. Waiting(Execute(p, c).pending)
  BY <1>6 DEF Waiting
<1>10. QED
  BY <1>8, <1>9 DEF Sane

(* so does a byte of one,                                                  *)
LEMMA TakeCommandType ==
  ASSUME NEW p, Sane(p), NEW byte \in Octet
  PROVE  Sane(TakeCommand(p, byte))
<1> DEFINE command == Append(p.pending, byte)
<1>0. p \in Panel /\ Waiting(p.pending) /\ p.pending \in Seq(Octet)
  BY PanelFields DEF Sane
<1>1. command \in Seq(Octet) /\ Len(command) = Len(p.pending) + 1 /\ Len(command) \in Nat
  BY <1>0
<1>2. Len(command) <= Arguments(command[1]) + 1
  <2>1. CASE p.pending = <<>>
    BY <2>1, <1>1, ArgumentCount
  <2>2. CASE p.pending # <<>>
    <3>1. command[1] = p.pending[1]
      BY <2>2, <1>0
    <3>2. QED
      BY <3>1, <2>2, <1>0, <1>1, ArgumentCount DEF Waiting
  <2>3. QED
    BY <2>1, <2>2
<1> HIDE DEF command
<1>3. CASE Len(command) <= Arguments(command[1])
  <2>1. TakeCommand(p, byte) = [p EXCEPT !.pending = command]
    BY <1>3 DEF TakeCommand, command
  <2>2. [p EXCEPT !.pending = command] \in Panel
    BY <1>0, <1>1 DEF Panel
  <2>3. [p EXCEPT !.pending = command].pending = command
    BY <1>0 DEF Panel
  <2>4. QED
    BY <1>3, <2>1, <2>2, <2>3 DEF Sane, Waiting
<1>4. CASE ~(Len(command) <= Arguments(command[1]))
  <2>1. TakeCommand(p, byte) = Execute(p, command)
    BY <1>4 DEF TakeCommand, command
  <2>2. Len(command) = Arguments(command[1]) + 1
    BY <1>1, <1>2, <1>4, ArgumentCount
  <2>3. QED
    BY <1>0, <1>1, <2>1, <2>2, ExecuteType
<1>5. QED
  BY <1>3, <1>4

(* and a byte of data.                                                     *)
LEMMA TakeDataType ==
  ASSUME NEW p, Sane(p), NEW bits \in SUBSET (0..7)
  PROVE  Sane(TakeData(p, bits))
<1>0. p \in Panel /\ Waiting(p.pending)
  BY DEF Sane
<1> DEFINE x == p.at[1]
           y == p.at[2]
           down == After(y, p.set.pages, PAGES)
           right == After(x, p.set.columns, WIDTH)
           ram == {c \in p.ram : <<c[1], c[2]>> # p.at} \cup {<<x, y, b>> : b \in bits}
           at == CASE p.set.mode = 1 -> <<IF down = p.set.pages[1] THEN right ELSE x, down>>
                   [] p.set.mode = 0 -> <<right, IF right = p.set.columns[1] THEN down ELSE y>>
                   [] OTHER -> <<right, y>>
<1>1. x \in 0..(WIDTH - 1) /\ y \in 0..(PAGES - 1)
  BY <1>0, PanelFields
<1>2. ram \subseteq Cells(Screen)
  <2>1. p.ram \subseteq Cells(Screen)
    BY <1>0, PanelFields
  <2>2. {<<x, y, b>> : b \in bits} \subseteq Cells(Screen)
    BY <1>1, ScreenCells
  <2>3. QED
    BY <2>1, <2>2
<1>3. down \in 0..(PAGES - 1) /\ right \in 0..(WIDTH - 1)
  <2>1. p.set.pages[1] \in 0..(PAGES - 1) /\ p.set.columns[1] \in 0..(WIDTH - 1)
    BY <1>0, PanelFields DEF Setting
  <2> HIDE DEF x, y
  <2>2. QED
    BY <2>1, <1>1, ScreenSizes DEF After
<1>4. TakeData(p, bits) = [p EXCEPT !.ram = ram, !.at = at]
  BY DEF TakeData
<1> HIDE DEF x, y, down, right
<1>5. at \in (0..(WIDTH - 1)) \X (0..(PAGES - 1))
  BY <1>1, <1>3
<1> HIDE DEF ram, at
<1>6. [p EXCEPT !.ram = ram, !.at = at] \in Panel
  BY <1>0, <1>2, <1>5 DEF Panel, Buffers
<1>7. [p EXCEPT !.ram = ram, !.at = at].pending = p.pending
  BY <1>0 DEF Panel
<1>8. QED
  BY <1>0, <1>4, <1>6, <1>7 DEF Sane

(* A byte of a command, or a byte of data as its lit bits.                 *)
Fits(isData, byte) == IF isData THEN byte \in SUBSET (0..7) ELSE byte \in Octet

(* The first n bytes of a transfer are such bytes.                         *)
AllFit(isData, bytes, n) == \A k \in 1..n : Fits(isData, bytes[k])

(* Either byte leaves the panel in one of its states,                      *)
LEMMA TakeSane ==
  ASSUME NEW isData, NEW p, Sane(p), NEW byte, Fits(isData, byte)
  PROVE  Sane(Take(isData, p, byte))
<1>1. CASE isData
  <2>1. Sane(TakeData(p, byte))
    BY <1>1, TakeDataType DEF Fits
  <2>2. QED
    BY <1>1, <2>1 DEF Take
<1>2. CASE ~isData
  <2>1. Sane(TakeCommand(p, byte))
    BY <1>2, TakeCommandType DEF Fits
  <2>2. QED
    BY <1>2, <2>1 DEF Take
<1>3. QED
  BY <1>1, <1>2

(* and so does whatever arrives of a transfer.                             *)
LEMMA TakenSane ==
  ASSUME NEW isData, NEW p, Sane(p), NEW bytes, NEW n \in Nat,
         AllFit(isData, bytes, n)
  PROVE  Sane(Taken(isData, p, bytes, n))
<1> DEFINE S == {k \in 0..n : ~ Sane(Taken(isData, p, bytes, k))}
<1>1. SUFFICES ASSUME S # {} PROVE FALSE
  OBVIOUS
<1>2. PICK k \in S : \A j \in S : k <= j
  <2>1. S \in SUBSET Nat
    OBVIOUS
  <2>2. QED
    BY <1>1, <2>1, HasLeast
<1>3. k # 0
  BY TakenNone
<1>4. PICK m \in 0..n : k = m + 1
  BY <1>2, <1>3
<1>5. m \notin S /\ Sane(Taken(isData, p, bytes, m))
  BY <1>2, <1>4
<1>6. m \in Nat /\ m + 1 \in 1..n
  BY <1>4
<1>7. Fits(isData, bytes[m + 1])
  BY <1>6 DEF AllFit
<1>8. Sane(Take(isData, Taken(isData, p, bytes, m), bytes[m + 1]))
  BY <1>5, <1>7, TakeSane
<1>9. Sane(Taken(isData, p, bytes, m + 1))
  BY <1>6, <1>8, TakenNext
<1>10. QED
  BY <1>2, <1>4, <1>9

(* Functions by recursion: f[k] comes of f[k - 1] by the k-th step.        *)
Iterates(f, first, G, n) == f[0] = first /\ \A k \in 1..n : f[k] = G[k][f[k - 1]]

(* There is one whenever every step stays within one set.                  *)
LEMMA Iteration ==
  ASSUME NEW n \in Nat, NEW V, NEW first \in V, NEW G \in [1..n -> [V -> V]]
  PROVE  \E f \in [0..n -> V] : Iterates(f, first, G, n)
<1> DEFINE Upto(f, m) == Iterates(f, first, G, m)
           S == {m \in 0..n : ~ \E f \in [0..n -> V] : Upto(f, m)}
<1>1. SUFFICES ASSUME S # {} PROVE FALSE
  <2>1. n \in 0..n
    OBVIOUS
  <2>2. QED
    BY <2>1
<1>2. PICK m \in S : \A j \in S : m <= j
  <2>1. S \in SUBSET Nat
    OBVIOUS
  <2>2. QED
    BY <1>1, <2>1, HasLeast
<1>3. m # 0
  <2>1. [k \in 0..n |-> first] \in [0..n -> V]
    OBVIOUS
  <2>2. Upto([k \in 0..n |-> first], 0)
    BY DEF Iterates
  <2>3. QED
    BY <1>2, <2>1, <2>2
<1>4. PICK i \in 0..n : m = i + 1 /\ i \notin S
  <2>1. m - 1 \in 0..n /\ m = (m - 1) + 1
    BY <1>2, <1>3
  <2>2. m - 1 \notin S
    BY <1>2, <2>1
  <2>3. QED
    BY <2>1, <2>2
<1>5. PICK f \in [0..n -> V] : Upto(f, i)
  BY <1>4
<1> DEFINE g == [f EXCEPT ![m] = G[m][f[i]]]
<1>6. m \in 1..n /\ i \in 0..n /\ f[i] \in V
  BY <1>2, <1>3, <1>4
<1>7. G[m][f[i]] \in V
  BY <1>6
<1>8. g \in [0..n -> V]
  BY <1>6, <1>7
<1>9. g[m] = G[m][f[i]] /\ \A k \in 0..i : g[k] = f[k]
  BY <1>4, <1>6
<1> HIDE DEF g
<1>10. Upto(g, m)
  <2>1. g[0] = first
    BY <1>5, <1>6, <1>9 DEF Iterates
  <2>2. ASSUME NEW k \in 1..m PROVE g[k] = G[k][g[k - 1]]
    <3>1. CASE k = m
      BY <3>1, <1>4, <1>6, <1>9
    <3>2. CASE k # m
      <4>1. k \in 1..i /\ k \in 0..i /\ k - 1 \in 0..i
        BY <3>2, <1>4
      <4>2. g[k] = f[k] /\ g[k - 1] = f[k - 1]
        BY <4>1, <1>9
      <4>3. QED
        BY <1>5, <4>1, <4>2 DEF Iterates
    <3>3. QED
      BY <3>1, <3>2
  <2>3. QED
    BY <2>1, <2>2 DEF Iterates
<1>11. QED
  BY <1>2, <1>8, <1>10

(* Filling points keeps to the buffer's bits,                              *)
LEMMA FillType ==
  ASSUME NEW b \in Buffers, NEW points, NEW dot
  PROVE  fill_points(b, points, dot) \in Buffers
BY CellsOnScreen DEF fill_points, Buffers

(* so does writing the box of a character,                                 *)
LEMMA StampType ==
  ASSUME NEW b \in Buffers, NEW x, NEW y, NEW glyph, NEW width, NEW height
  PROVE  Stamp(b, x, y, glyph, width, height) \in Buffers
BY FillType DEF Stamp

(* characters of either kind are written that way.                         *)
LEMMA CharType ==
  ASSUME NEW b \in Buffers, NEW x, NEW y, NEW chr, NEW size, NEW mode
  PROVE  /\ draw_char(b, x, y, chr, size, mode) \in Buffers
         /\ draw_big_char(b, x, y, chr, size) \in Buffers
BY StampType DEF draw_char, draw_big_char

(* The pen of ssd1306_draw_string, with the buffer so far.                 *)
Pens == [buf : Buffers, x : Nat, y : Nat]

(* Going to the next line or page, and writing a character there, gives    *)
(* such a pen again.                                                       *)
LEMMA PutType ==
  ASSUME NEW pen \in Pens, NEW chr, NEW size \in Nat, NEW mode
  PROVE  Wrapped(pen, size) \in Pens /\ Put(pen, chr, size, mode) \in Pens
<1>1. Wrapped(pen, size) \in Pens
  <2>1. pen.buf \in Buffers /\ pen.x \in Nat /\ pen.y \in Nat
        /\ pen = [buf |-> pen.buf, x |-> pen.x, y |-> pen.y]
    BY DEF Pens
  <2>2. Byte(pen.y + size) \in Nat
    BY <2>1 DEF Byte
  <2>3. {} \in Buffers
    BY DEF Buffers
  <2>4. [buf |-> {}, x |-> 0, y |-> 0] \in Pens
    BY <2>3 DEF Pens
  <2>5. [pen EXCEPT !.x = 0, !.y = Byte(pen.y + size)] \in Pens
    BY <2>2 DEF Pens
  <2>6. QED
    BY <2>4, <2>5 DEF Wrapped
<1> DEFINE at == Wrapped(pen, size)
<1>2. at.buf \in Buffers /\ at.x \in Nat /\ at.y \in Nat
  BY <1>1 DEF Pens
<1> HIDE DEF at
<1>3. draw_char(at.buf, at.x, at.y, chr, size, mode) \in Buffers
  BY <1>2, CharType
<1>4. at.x + size \div 2 \in Nat
  BY <1>2
<1>5. Put(pen, chr, size, mode) = [buf |-> draw_char(at.buf, at.x, at.y, chr, size, mode),
                                   x |-> at.x + size \div 2, y |-> at.y]
  BY DEF Put, at
<1>6. Put(pen, chr, size, mode) \in Pens
  BY <1>2, <1>3, <1>4, <1>5 DEF Pens
<1>7. QED
  BY <1>1, <1>6

(* Where the pen is after each character of a text.                        *)
Penned(pen, first, text, size, mode) ==
  pen = [k \in 0..Len(text) |-> IF k = 0 THEN first ELSE Put(pen[k - 1], text[k], size, mode)]

(* There is such a way of the pen for every text,                          *)
LEMMA PenExists ==
  ASSUME NEW first \in Pens, NEW text, Len(text) \in Nat, NEW size \in Nat, NEW mode
  PROVE  \E pen \in [0..Len(text) -> Pens] : Penned(pen, first, text, size, mode)
<1> DEFINE n == Len(text)
           G == [k \in 1..n |-> [v \in Pens |-> Put(v, text[k], size, mode)]]
<1> HIDE DEF n
<1>0. n \in Nat
  BY DEF n
<1>1. G \in [1..n -> [Pens -> Pens]]
  BY PutType
<1>2. \A v \in Pens, k \in 1..n : G[k][v] = Put(v, text[k], size, mode)
  OBVIOUS
<1> HIDE DEF G
<1>3. PICK f \in [0..n -> Pens] : Iterates(f, first, G, n)
  BY <1>0, <1>1, Iteration
<1>4. f[0] = first /\ \A k \in 1..n : f[k] = G[k][f[k - 1]]
  BY <1>3 DEF Iterates
<1>5. \A k \in 1..n : f[k - 1] \in Pens
  BY <1>0
<1>6. \A k \in 1..n : f[k] = Put(f[k - 1], text[k], size, mode)
  BY <1>2, <1>4, <1>5
<1>7. f = [k \in 0..n |-> IF k = 0 THEN first ELSE Put(f[k - 1], text[k], size, mode)]
  BY <1>0, <1>4, <1>6
<1>8. Penned(f, first, text, size, mode)
  BY <1>7 DEF Penned, n
<1>9. QED
  BY <1>8 DEF n

(* and draw_string is the buffer at its end,                               *)
LEMMA StringIs ==
  ASSUME NEW b \in Buffers, NEW x \in Nat, NEW y \in Nat, NEW text, Len(text) \in Nat,
         NEW size \in Nat, NEW mode
  PROVE  \E pen : /\ Penned(pen, [buf |-> b, x |-> x, y |-> y], text, size, mode)
                  /\ draw_string(b, x, y, text, size, mode) = pen[Len(text)].buf
<1> DEFINE first == [buf |-> b, x |-> x, y |-> y]
           pen == CHOOSE pen : Penned(pen, first, text, size, mode)
<1>1. first \in Pens
  BY DEF Pens
<1> HIDE DEF first
<1>2. Penned(pen, first, text, size, mode)
  BY <1>1, PenExists
<1>3. draw_string(b, x, y, text, size, mode) = pen[Len(text)].buf
  BY DEF draw_string, Penned, first
<1>4. QED
  BY <1>2, <1>3 DEF first

(* which is one of the buffer's contents.                                  *)
LEMMA StringType ==
  ASSUME NEW b \in Buffers, NEW x \in Nat, NEW y \in Nat, NEW text, Len(text) \in Nat,
         NEW size \in Nat, NEW mode
  PROVE  draw_string(b, x, y, text, size, mode) \in Buffers
<1> DEFINE first == [buf |-> b, x |-> x, y |-> y]
           n == Len(text)
<1>0. first \in Pens
  BY DEF Pens
<1> HIDE DEF first, n
<1>1. PICK pen : /\ Penned(pen, first, text, size, mode)
                 /\ draw_string(b, x, y, text, size, mode) = pen[n].buf
  BY StringIs DEF first, n
<1>2. n \in Nat
  BY DEF n
<1> DEFINE S == {k \in 0..n : pen[k] \notin Pens}
<1>3. SUFFICES ASSUME S # {} PROVE FALSE
  <2>1. S = {} => pen[n] \in Pens
    BY <1>2
  <2>2. pen[n] \in Pens => pen[n].buf \in Buffers
    BY DEF Pens
  <2>3. QED
    BY <1>1, <2>1, <2>2
<1>4. PICK k \in S : \A j \in S : k <= j
  <2>1. S \in SUBSET Nat
    OBVIOUS
  <2>2. QED
    BY <1>3, <2>1, HasLeast
<1>5. pen[k] = IF k = 0 THEN first ELSE Put(pen[k - 1], text[k], size, mode)
  BY <1>1 DEF Penned, n
<1>6. k # 0
  BY <1>0, <1>4, <1>5
<1>7. pen[k - 1] \in Pens
  <2>1. k - 1 \in 0..n /\ k - 1 \notin S
    BY <1>2, <1>4, <1>6
  <2>2. QED
    BY <2>1
<1>8. pen[k] \in Pens
  BY <1>5, <1>6, <1>7, PutType
<1>9. QED
  BY <1>4, <1>8

(* ssd1306_draw_num, character by character.                               *)
Drawn(drawn, b, x, y, text, len, size) ==
  drawn = [k \in 0..len |->
             IF k = 0 THEN b
             ELSE draw_char(drawn[k - 1], x + (size \div 2) * (k - 1), y, text[k], size, TRUE)]

(* There is such a row of buffers for every number,                        *)
LEMMA DrawnExists ==
  ASSUME NEW b \in Buffers, NEW x, NEW y, NEW text, NEW len \in Nat, NEW size
  PROVE  \E drawn \in [0..len -> Buffers] : Drawn(drawn, b, x, y, text, len, size)
<1> DEFINE Onward(v, k) == draw_char(v, x + (size \div 2) * (k - 1), y, text[k], size, TRUE)
           G == [k \in 1..len |-> [v \in Buffers |-> Onward(v, k)]]
<1>1. G \in [1..len -> [Buffers -> Buffers]]
  BY CharType
<1> HIDE DEF Onward
<1>2. \A v \in Buffers, k \in 1..len : G[k][v] = Onward(v, k)
  OBVIOUS
<1> HIDE DEF G
<1>3. PICK f \in [0..len -> Buffers] : Iterates(f, b, G, len)
  BY <1>1, Iteration
<1>4. f[0] = b /\ \A k \in 1..len : f[k] = G[k][f[k - 1]]
  BY <1>3 DEF Iterates
<1>5. \A k \in 1..len : f[k - 1] \in Buffers
  OBVIOUS
<1>6. \A k \in 1..len : f[k] = Onward(f[k - 1], k)
  BY <1>2, <1>4, <1>5
<1>7. f = [k \in 0..len |-> IF k = 0 THEN b ELSE Onward(f[k - 1], k)]
  BY <1>4, <1>6
<1>8. Drawn(f, b, x, y, text, len, size)
  BY <1>7 DEF Drawn, Onward
<1>9. QED
  BY <1>8

(* so draw_num leaves one of the buffer's contents.                        *)
LEMMA NumType ==
  ASSUME NEW b \in Buffers, NEW x, NEW y, NEW number, NEW len \in Nat, NEW size
  PROVE  draw_num(b, x, y, number, len, size) \in Buffers
<1> DEFINE text == Characters(number, len)
<1> HIDE DEF text
<1> DEFINE drawn == CHOOSE drawn : Drawn(drawn, b, x, y, text, len, size)
<1>1. Drawn(drawn, b, x, y, text, len, size)
  BY DrawnExists
<1>2. draw_num(b, x, y, number, len, size) = drawn[len]
  BY DEF draw_num, Drawn, text
<1> HIDE DEF drawn
<1> DEFINE S == {k \in 0..len : drawn[k] \notin Buffers}
<1>3. SUFFICES ASSUME S # {} PROVE FALSE
  <2>1. S = {} => drawn[len] \in Buffers
    OBVIOUS
  <2>2. QED
    BY <1>2, <2>1
<1>4. PICK k \in S : \A j \in S : k <= j
  <2>1. S \in SUBSET Nat
    OBVIOUS
  <2>2. QED
    BY <1>3, <2>1, HasLeast
<1> DEFINE at == x + (size \div 2) * (k - 1)
           char == text[k]
<1>5. drawn[k] = IF k = 0 THEN b ELSE draw_char(drawn[k - 1], at, y, char, size, TRUE)
  BY <1>1 DEF Drawn
<1> HIDE DEF at, char
<1>6. k # 0
  BY <1>4, <1>5
<1>7. drawn[k - 1] \in Buffers
  <2>1. k - 1 \in 0..len /\ k - 1 \notin S
    BY <1>4, <1>6
  <2>2. QED
    BY <2>1
<1>8. drawn[k] \in Buffers
  BY <1>5, <1>6, <1>7, CharType
<1>9. QED
  BY <1>4, <1>8

(* Whatever the application draws, the buffer holds bits of the screen.    *)
LEMMA PaintType ==
  ASSUME buf \in Buffers, Paint
  PROVE  buf' \in Buffers
<1>1. CASE \E p \in Places, dot \in BOOLEAN : buf' = fill_points(buf, {p}, dot)
  BY <1>1, FillType
<1>2. CASE \E p, q \in Places, dot \in BOOLEAN :
              buf' = fill_rectangle(buf, p[1], p[2], q[1], q[2], dot)
  BY <1>2, FillType DEF fill_rectangle
<1>3. CASE \E p \in Places, text \in Texts, size \in Sizes, mode \in BOOLEAN :
              buf' = draw_string(buf, p[1], p[2], text, size, mode)
  <2>1. PICK p \in Places, text \in Texts, size \in Sizes, mode \in BOOLEAN :
               buf' = draw_string(buf, p[1], p[2], text, size, mode)
    BY <1>3
  <2>2. p[1] \in Nat /\ p[2] \in Nat /\ size \in Nat
    <3>1. p \in Nat \X Nat /\ size \in DOMAIN Font
      BY <2>1, ArgumentAssumption
    <3>2. size \in {12, 16}
      BY <3>1, FontAssumption
    <3>3. QED
      BY <3>1, <3>2
  <2>3. Len(text) \in Nat
    BY ArgumentAssumption
  <2>4. QED
    BY <2>1, <2>2, <2>3, StringType
<1>4. CASE \E p \in Places, number \in Numbers, size \in Sizes :
              buf' = draw_num(buf, p[1], p[2], number, 2, size)
  BY <1>4, NumType
<1>5. CASE \E p \in Places, height \in DOMAIN BigFonts :
              buf' = draw_big_char(buf, p[1], p[2], Zero, height)
  BY <1>5, CharType
<1>6. CASE \E p \in Places : buf' = draw_bitmap(buf, p[1], p[2], Picture)
  BY <1>6, FillType DEF draw_bitmap
<1>7. CASE \E p, q \in Places : buf' = draw_line(buf, p, q)
  BY <1>7, FillType DEF draw_line
<1>8. CASE \E fill \in BOOLEAN : buf' = clear_screen(fill)
  BY <1>8 DEF clear_screen, Buffers
<1>9. QED
  BY <1>1, <1>2, <1>3, <1>4, <1>5, <1>6, <1>7, <1>8 DEF Paint

-----------------------------------------------------------------------------
(* ssd1306_init, transfer by transfer.                                     *)

(* The bytes ssd1306_init sends one by one.                                *)
LEMMA Singles ==
  /\ Len(SingleBytes) = 20 /\ SingleBytes \in Seq(Octet)
  /\ Bytes(SingleBytes) \in Seq(Seq(Octet)) /\ Len(Bytes(SingleBytes)) = 20
  /\ \A k \in 1..20 : Bytes(SingleBytes)[k] = <<SingleBytes[k]>>
<1>1. Len(SingleBytes) = 20
  BY DEF SingleBytes
<1>2. HEIGHT - 1 \in 0..255
  BY ScreenSizes
<1>3. \A k \in 1..20 : SingleBytes[k] \in 0..255
  BY <1>2 DEF SingleBytes
<1>4. SingleBytes \in Seq(Octet)
  <2>1. Octet \subseteq Int /\ \h00 \in Octet
    BY DEF Octet
  <2>2. SingleBytes \in Seq(Int)
    BY ScreenSizes DEF SingleBytes
  <2>3. SingleBytes \in [1..20 -> Int]
    BY <1>1, <2>2, LenProperties
  <2>4. SingleBytes \in [1..20 -> Octet]
    BY <1>3, <2>3 DEF Octet
  <2>5. QED
    BY <2>4, SeqDef
<1>5. Bytes(SingleBytes) = [k \in 1..20 |-> <<SingleBytes[k]>>]
  BY <1>1 DEF Bytes
<1>6. \A k \in 1..20 : <<SingleBytes[k]>> \in Seq(Octet)
  BY <1>3 DEF Octet
<1>7. Bytes(SingleBytes) \in Seq(Seq(Octet)) /\ Len(Bytes(SingleBytes)) = 20
  BY <1>5, <1>6
<1>8. QED
  BY <1>1, <1>4, <1>5, <1>7

(* A sequence of n elements of V.                                          *)
Row(s, V, n) == s \in Seq(V) /\ Len(s) = n

(* One after the other, two such sequences make one whose elements are     *)
(* theirs.                                                                 *)
Joins(u, s, t, V, m, n) == /\ Row(u, V, m + n)
                           /\ \A k \in 1..m : u[k] = s[k]
                           /\ \A k \in 1..n : u[m + k] = t[k]

(* That is what joining them gives.                                        *)
LEMMA Joined ==
  ASSUME NEW V, NEW m \in Nat, NEW n \in Nat, NEW s, Row(s, V, m), NEW t, Row(t, V, n)
  PROVE  Joins(s \o t, s, t, V, m, n)
<1>0. s \in Seq(V) /\ Len(s) = m /\ t \in Seq(V) /\ Len(t) = n
  BY DEF Row
<1>1. /\ s \o t \in Seq(V) /\ Len(s \o t) = Len(s) + Len(t)
      /\ \A k \in 1..(Len(s) + Len(t)) : (s \o t)[k] = IF k <= Len(s) THEN s[k] ELSE t[k - Len(s)]
  BY <1>0, ConcatProperties
<1>2. /\ s \o t \in Seq(V) /\ Len(s \o t) = m + n
      /\ \A k \in 1..(m + n) : (s \o t)[k] = IF k <= m THEN s[k] ELSE t[k - m]
  BY <1>0, <1>1
<1> DEFINE u == s \o t
<1> HIDE DEF u
<1>3. \A k \in 1..(m + n) : u[k] = IF k <= m THEN s[k] ELSE t[k - m]
  BY <1>2 DEF u
<1>4. ASSUME NEW k \in 1..m PROVE u[k] = s[k]
  BY <1>3
<1>5. ASSUME NEW k \in 1..n PROVE u[m + k] = t[k]
  <2>1. m + k \in 1..(m + n) /\ ~(m + k <= m) /\ m + k - m = k
    OBVIOUS
  <2>2. QED
    BY <2>1, <1>3
<1>6. Row(u, V, m + n)
  BY <1>2 DEF u, Row
<1>7. Joins(u, s, t, V, m, n)
  BY <1>4, <1>5, <1>6 DEF Joins
<1>8. QED
  BY <1>7 DEF u

(* The transfers of ssd1306_init: twenty of one byte, one of two, two of   *)
(* three and one of one.                                                   *)
LEMMA Commands ==
  /\ InitCommands \in Seq(Seq(Octet)) /\ Len(InitCommands) = 24
  /\ \A k \in 1..20 : InitCommands[k] = <<SingleBytes[k]>>
  /\ InitCommands[21] = <<\h20, 1>>
  /\ InitCommands[22] = <<\h21, 0, WIDTH - 1>>
  /\ InitCommands[23] = <<\h22, 0, PAGES - 1>>
  /\ InitCommands[24] = <<\hAF>>
<1> DEFINE A == Bytes(SingleBytes)
           B == <<<<\h20, 1>>>>
           C == Windows
           D == Bytes(<<\hAF>>)
<1>1. A \in Seq(Seq(Octet)) /\ Len(A) = 20 /\ \A k \in 1..20 : A[k] = <<SingleBytes[k]>>
  BY Singles
<1>2. B \in Seq(Seq(Octet)) /\ Len(B) = 1 /\ B[1] = <<\h20, 1>>
  BY DEF Octet
<1>3. C \in Seq(Seq(Octet)) /\ Len(C) = 2 /\ C[1] = <<\h21, 0, WIDTH - 1>>
      /\ C[2] = <<\h22, 0, PAGES - 1>>
  <2>1. WIDTH - 1 \in 0..255 /\ PAGES - 1 \in 0..255
    BY ScreenSizes
  <2>2. QED
    BY <2>1 DEF Windows, Octet
<1>4. D \in Seq(Seq(Octet)) /\ Len(D) = 1 /\ D[1] = <<\hAF>>
  BY DEF Bytes, Octet
<1> DEFINE w == <<\h20, 1>>
           x == <<\h21, 0, WIDTH - 1>>
           y == <<\h22, 0, PAGES - 1>>
           z == <<\hAF>>
           V == Seq(Octet)
           E(k) == <<SingleBytes[k]>>
<1> HIDE DEF A, B, C, D, w, x, y, z, V, E
<1>5. Row(A, V, 20) /\ Row(B, V, 1) /\ Row(C, V, 2) /\ Row(D, V, 1)
  BY <1>1, <1>2, <1>3, <1>4 DEF V, Row
<1>6. /\ \A k \in 1..20 : A[k] = E(k)
      /\ B[1] = w /\ C[1] = x /\ C[2] = y /\ D[1] = z
  BY <1>1, <1>2, <1>3, <1>4 DEF w, x, y, z, E
<1> DEFINE F == A \o B
           G == F \o C
           H == G \o D
<1>7. Joins(F, A, B, V, 20, 1)
  BY <1>5, Joined
<1> HIDE DEF F
<1>8. Row(F, V, 21)
  BY <1>7 DEF Joins
<1>9. Joins(G, F, C, V, 21, 2)
  BY <1>5, <1>8, Joined
<1> HIDE DEF G
<1>10. Row(G, V, 23)
  BY <1>9 DEF Joins
<1>11. Joins(H, G, D, V, 23, 1)
  BY <1>5, <1>10, Joined
<1> HIDE DEF H
<1>12. Row(H, V, 24)
  BY <1>11 DEF Joins
<1>13. \A k \in 1..23 : H[k] = G[k]
  BY <1>11 DEF Joins
<1>14. \A k \in 1..21 : G[k] = F[k]
  BY <1>9 DEF Joins
<1>15. \A k \in 1..20 : F[k] = A[k]
  BY <1>7 DEF Joins
<1>16. \A k \in 1..20 : H[k] = E(k)
  BY <1>6, <1>13, <1>14, <1>15
<1>17. H[21] = w
  <2>1. F[21] = B[1]
    BY <1>7 DEF Joins
  <2>2. QED
    BY <1>6, <1>13, <1>14, <2>1
<1>18. H[22] = x /\ H[23] = y
  <2>1. G[22] = C[1] /\ G[23] = C[2]
    BY <1>9 DEF Joins
  <2>2. QED
    BY <1>6, <1>13, <2>1
<1>19. H[24] = z
  <2>1. H[24] = D[1]
    BY <1>11 DEF Joins
  <2>2. QED
    BY <1>6, <2>1
<1>20. InitCommands = H
  BY DEF InitCommands, H, G, F, A, B, C, D
<1>21. H \in Seq(V) /\ Len(H) = 24
  BY <1>12 DEF Row
<1>22. QED
  BY <1>16, <1>17, <1>18, <1>19, <1>20, <1>21 DEF w, x, y, z, V, E

(* What is still to be sent after the first k transfers.                   *)
Rest(k) == SubSeq(InitCommands, k + 1, 24)

(* SendCommand goes through them one by one.                               *)
LEMMA Resting ==
  /\ Rest(0) = InitCommands
  /\ \A k \in 0..24 : Rest(k) = <<>> <=> k = 24
  /\ \A k \in 0..23 : Head(Rest(k)) = InitCommands[k + 1] /\ Tail(Rest(k)) = Rest(k + 1)
<1> DEFINE V == Seq(Octet)
           s == InitCommands
<1>1. s \in Seq(V) /\ Len(s) = 24
  BY Commands
<1> HIDE DEF V, s
<1>2. SubSeq(s, 0 + 1, 24) = s
  BY <1>1, SubSeqFull
<1>3. ASSUME NEW k \in 0..24 PROVE SubSeq(s, k + 1, 24) = <<>> <=> k = 24
  <2>1. \A i \in (k + 1)..24 : s[i] \in V
    <3>1. \A i \in 1..Len(s) : s[i] \in V
      BY <1>1, ElementOfSeq
    <3>2. \A i \in (k + 1)..24 : i \in 1..Len(s)
      BY <1>1
    <3>3. QED
      BY <3>1, <3>2
  <2>2. Len(SubSeq(s, k + 1, 24)) = IF k + 1 <= 24 THEN 24 - (k + 1) + 1 ELSE 0
    BY <2>1, SubSeqProperties
  <2>3. k = 24 => SubSeq(s, k + 1, 24) = <<>>
    BY SubSeqEmpty
  <2>4. k # 24 => Len(SubSeq(s, k + 1, 24)) # 0
    BY <2>2
  <2>5. QED
    BY <2>3, <2>4
<1>4. ASSUME NEW k \in 0..23
      PROVE  Head(SubSeq(s, k + 1, 24)) = s[k + 1]
             /\ Tail(SubSeq(s, k + 1, 24)) = SubSeq(s, k + 1 + 1, 24)
  <2>1. k + 1 \in 1..Len(s) /\ 24 \in (k + 1)..Len(s)
    BY <1>1
  <2>2. QED
    BY <1>1, <2>1, HeadTailOfSubSeq
<1>5. QED
  BY <1>2, <1>3, <1>4 DEF Rest, s

(* The settings after the first k transfers of ssd1306_init, none lost.    *)
Adjusted(set, k) ==
  /\ k >= 5 => set.mirrored
  /\ k >= 6 => ~set.flipped
  /\ k >= 7 => ~set.inverse
  /\ k >= 9 => set.mux = HEIGHT - 1
  /\ k >= 15 => set.pins
  /\ k >= 16 => set.start = 0
  /\ k >= 18 => set.pump
  /\ k >= 19 => ~set.all
  /\ k >= 21 => set.mode = 1
  /\ k >= 22 => set.columns = <<0, WIDTH - 1>>
  /\ k >= 23 => set.pages = <<0, PAGES - 1>>
  /\ k >= 24 => set.on

(* The command under way then.  The first byte may end, or be swallowed    *)
(* by, what an earlier boot left half sent.                                *)
Awaiting(pending, k) ==
  IF k = 0 THEN Len(pending) <= 2
  ELSE IF k = 1 THEN pending = <<>> \/ (Len(pending) = 2 /\ pending[1] \in {\h21, \h22})
  ELSE pending = IF k \in {3, 8, 10, 12, 14, 17} THEN <<SingleBytes[k]>> ELSE <<>>

(* The windows set the place, column and page.                             *)
Placed(at, k) == (k >= 22 => at[1] = 0) /\ (k >= 23 => at[2] = 0)

(* The panel after the first k transfers, none lost.                       *)
Prepared(p, k) == Adjusted(p.set, k) /\ Awaiting(p.pending, k) /\ Placed(p.at, k)

(* A command without arguments is executed at once,                        *)
LEMMA NoArgument ==
  ASSUME NEW p, p.pending = <<>>, NEW b, Arguments(b) = 0
  PROVE  TakeCommand(p, b) = Execute(p, <<b>>)
BY DEF TakeCommand

(* one with arguments is kept,                                             *)
LEMMA FirstByte ==
  ASSUME NEW p, p.pending = <<>>, NEW b, Arguments(b) >= 1
  PROVE  TakeCommand(p, b) = [p EXCEPT !.pending = <<b>>]
BY DEF TakeCommand

(* a byte behind another makes a pair,                                     *)
LEMMA Pair == ASSUME NEW c \in Octet, NEW b \in Octet PROVE Append(<<c>>, b) = <<c, b>>
<1> DEFINE t == Append(<<c>>, b)
           u == <<c, b>>
<1>1. t \in Seq(Octet) /\ Len(t) = 2
  OBVIOUS
<1>2. t[1] = c
  OBVIOUS
<1>3. t[2] = b
  OBVIOUS
<1>4. u \in Seq(Octet) /\ Len(u) = 2 /\ u[1] = c /\ u[2] = b
  OBVIOUS
<1> HIDE DEF t, u
<1>5. \A i \in 1..Len(t) : t[i] = u[i]
  BY <1>1, <1>2, <1>3, <1>4
<1>6. t = u
  BY <1>1, <1>4, <1>5, SeqEqual
<1>7. QED
  BY <1>6 DEF t, u

(* and a command with one argument is executed with it.                    *)
LEMMA LastByte ==
  ASSUME NEW p, NEW c \in Octet, p.pending = <<c>>, NEW b \in Octet, Arguments(c) = 1
  PROVE  TakeCommand(p, b) = Execute(p, <<c, b>>)
<1> DEFINE t == Append(p.pending, b)
<1>1. t = <<c, b>>
  BY Pair
<1> HIDE DEF t
<1>2. Len(t) = 2 /\ t[1] = c
  BY <1>1
<1>3. TakeCommand(p, b) = IF Len(t) <= Arguments(t[1]) THEN [p EXCEPT !.pending = t]
                                                         ELSE Execute(p, t)
  BY DEF TakeCommand, t
<1>4. ~(Len(t) <= Arguments(t[1]))
  BY <1>2
<1>5. QED
  BY <1>1, <1>3, <1>4

(* Each setting has its commands.                                          *)
LEMMA AdjustFields ==
  ASSUME NEW set \in Setting, NEW c, NEW a, a = Adjust(set, c)
  PROVE  /\ a.on <=> IF c[1] \in {\hAE, \hAF} THEN c[1] = \hAF ELSE set.on
         /\ a.pump <=> IF c[1] = \h8D THEN Bit(c[2], 2) ELSE set.pump
         /\ a.start = IF c[1] \in \h40..\h7F THEN (c[1] - \h40) % HEIGHT ELSE set.start
         /\ a.mirrored <=> IF c[1] \in {\hA0, \hA1} THEN c[1] = \hA1 ELSE set.mirrored
         /\ a.flipped <=> IF c[1] \in \hC0..\hCF THEN Bit(c[1], 3) ELSE set.flipped
         /\ a.inverse <=> IF c[1] \in {\hA6, \hA7} THEN c[1] = \hA7 ELSE set.inverse
         /\ a.all <=> IF c[1] \in {\hA4, \hA5} THEN c[1] = \hA5 ELSE set.all
         /\ a.mux = IF c[1] = \hA8 THEN c[2] % 64 ELSE set.mux
         /\ a.pins <=> IF c[1] = \hDA THEN Bit(c[2], 4) /\ ~Bit(c[2], 5) ELSE set.pins
         /\ a.mode = IF c[1] = \h20 THEN c[2] % 4 ELSE set.mode
         /\ a.columns = IF c[1] = \h21 THEN Window(c, WIDTH) ELSE set.columns
         /\ a.pages = IF c[1] = \h22 THEN Window(c, PAGES) ELSE set.pages
BY DEF Adjust, Setting

(* The command that the transfer after the first k completes.              *)
Completed(k, c) ==
  /\ k \in {3, 4, 5, 6, 8, 10, 12, 14, 15, 17, 18, 19, 20, 21, 22, 23}
  /\ k = 3 => c[1] = \h81
  /\ k = 4 => c[1] = \hA1
  /\ k = 5 => c[1] = \hC0
  /\ k \in {6, 19} => c[1] = \hA6
  /\ k = 8 => c[1] = \hA8 /\ c[2] = HEIGHT - 1
  /\ k = 10 => c[1] = \hD5
  /\ k = 12 => c[1] = \hD9
  /\ k = 14 => c[1] = \hDA /\ c[2] = \hDB
  /\ k = 15 => c[1] = \h40
  /\ k = 17 => c[1] = \h8D /\ c[2] = \h14
  /\ k = 18 => c[1] = \hA4
  /\ k = 20 => c[1] = \h20 /\ c[2] = 1
  /\ k = 21 => c[1] = \h21 /\ c[2] = 0 /\ c[3] = WIDTH - 1
  /\ k = 22 => c[1] = \h22 /\ c[2] = 0 /\ c[3] = PAGES - 1
  /\ k = 23 => c[1] = \hAF

(* It sets what is set from then on, and leaves what was set before,       *)
LEMMA Adjusting ==
  ASSUME NEW set \in Setting, NEW k, NEW c, Completed(k, c), Adjusted(set, k)
  PROVE  Adjusted(Adjust(set, c), k + 1)
<1> DEFINE a == Adjust(set, c)
<1> HIDE DEF a
<1>0. k \in {3, 4, 5, 6, 8, 10, 12, 14, 15, 17, 18, 19, 20, 21, 22, 23}
  BY DEF Completed
<1>1. CASE k \in {3, 4, 5, 6, 10, 12}
  BY <1>1, AdjustFields, ScreenSizes DEF Completed, Adjusted, a, Bit
<1>2. CASE k = 8
  <2>1. c[1] = \hA8 /\ c[2] % 64 = HEIGHT - 1
    BY <1>2, ScreenSizes DEF Completed
  <2>2. QED
    BY <1>2, <2>1, AdjustFields DEF Adjusted, a
<1>3. CASE k = 14
  <2>1. c[1] = \hDA /\ Bit(c[2], 4) /\ ~Bit(c[2], 5)
    BY <1>3 DEF Completed, Bit
  <2>2. QED
    BY <1>3, <2>1, AdjustFields DEF Adjusted, a
<1>4. CASE k = 15
  <2>1. c[1] = \h40 /\ (c[1] - \h40) % HEIGHT = 0
    BY <1>4, ScreenSizes DEF Completed
  <2>2. QED
    BY <1>4, <2>1, AdjustFields DEF Adjusted, a
<1>5. CASE k = 17
  <2>1. c[1] = \h8D /\ Bit(c[2], 2)
    BY <1>5 DEF Completed, Bit
  <2>2. QED
    BY <1>5, <2>1, AdjustFields DEF Adjusted, a
<1>6. CASE k \in {18, 19, 23}
  BY <1>6, AdjustFields DEF Completed, Adjusted, a
<1>7. CASE k = 20
  <2>1. c[1] = \h20 /\ c[2] % 4 = 1
    BY <1>7 DEF Completed
  <2>2. QED
    BY <1>7, <2>1, AdjustFields DEF Adjusted, a
<1>8. CASE k = 21
  <2>1. c[1] = \h21 /\ Window(c, WIDTH) = <<0, WIDTH - 1>>
    BY <1>8, ScreenSizes DEF Completed, Window
  <2>2. QED
    BY <1>8, <2>1, AdjustFields DEF Adjusted, a
<1>9. CASE k = 22
  <2>1. c[1] = \h22 /\ Window(c, PAGES) = <<0, PAGES - 1>>
    BY <1>9, ScreenSizes DEF Completed, Window
  <2>2. QED
    BY <1>9, <2>1, AdjustFields DEF Adjusted, a
<1>10. QED
  BY <1>0, <1>1, <1>2, <1>3, <1>4, <1>5, <1>6, <1>7, <1>8, <1>9

(* and so the panel is as far as one transfer more.                        *)
LEMMA Executed ==
  ASSUME NEW p \in Panel, NEW k, NEW c, Completed(k, c), Adjusted(p.set, k), Placed(p.at, k)
  PROVE  Prepared(Execute(p, c), k + 1)
<1> DEFINE e == Execute(p, c)
<1>1. e.pending = <<>> /\ e.set = Adjust(p.set, c)
      /\ e.at[1] = (IF c[1] = \h21 THEN c[2] % WIDTH ELSE p.at[1])
      /\ e.at[2] = (IF c[1] = \h22 THEN c[2] % PAGES ELSE p.at[2])
  BY DEF Execute
<1> HIDE DEF e
<1>2. k \in {3, 4, 5, 6, 8, 10, 12, 14, 15, 17, 18, 19, 20, 21, 22, 23}
  BY DEF Completed
<1>3. Adjusted(e.set, k + 1)
  BY <1>1, Adjusting, PanelFields
<1>4. Awaiting(e.pending, k + 1)
  BY <1>1, <1>2 DEF Awaiting
<1>5. Placed(e.at, k + 1)
  <2>1. 0 % WIDTH = 0 /\ 0 % PAGES = 0
    BY ScreenSizes
  <2>2. CASE k = 21
    <3>1. c[1] = \h21 /\ c[2] = 0
      BY <2>2 DEF Completed
    <3>2. QED
      BY <2>1, <2>2, <3>1, <1>1 DEF Placed
  <2>3. CASE k = 22
    <3>1. c[1] = \h22 /\ c[2] = 0
      BY <2>3 DEF Completed
    <3>2. QED
      BY <2>1, <2>3, <3>1, <1>1 DEF Placed
  <2>4. CASE k = 23
    <3>1. c[1] = \hAF
      BY <2>4 DEF Completed
    <3>2. QED
      BY <2>4, <3>1, <1>1 DEF Placed
  <2>5. CASE k < 21
    BY <2>5, <1>2 DEF Placed
  <2>6. QED
    BY <1>2, <2>2, <2>3, <2>4, <2>5
<1>6. QED
  BY <1>3, <1>4, <1>5 DEF Prepared, e

(* The first two bytes end whatever was left half sent: 0xAE and 0x40 are  *)
(* arguments of no harm.                                                   *)
LEMMA Flushing ==
  ASSUME NEW p, Sane(p), NEW k \in {0, 1}, Prepared(p, k)
  PROVE  Prepared(TakeCommand(p, SingleBytes[k + 1]), k + 1)
<1> DEFINE byte == SingleBytes[k + 1]
           command == Append(p.pending, byte)
           q == TakeCommand(p, byte)
<1>0. p \in Panel /\ Waiting(p.pending) /\ p.pending \in Seq(Octet) /\ Len(p.pending) \in Nat
  BY PanelFields DEF Sane
<1>1. byte \in Octet /\ (k = 0 => byte = \hAE) /\ (k = 1 => byte = \h40)
  BY DEF SingleBytes, Octet
<1> HIDE DEF byte
<1>2. command \in Seq(Octet) /\ Len(command) = Len(p.pending) + 1
      /\ command[1] = (IF p.pending = <<>> THEN byte ELSE p.pending[1])
  BY <1>0, <1>1
<1>3. q.pending = IF Len(command) <= Arguments(command[1]) THEN command ELSE <<>>
  <2>1. [p EXCEPT !.pending = command].pending = command
    BY <1>0 DEF Panel
  <2>2. Execute(p, command).pending = <<>>
    BY DEF Execute
  <2>3. QED
    BY <2>1, <2>2 DEF TakeCommand
<1> HIDE DEF command, q
<1>4. p.pending = <<>> => Arguments(command[1]) = 0
  BY <1>1, <1>2 DEF Arguments
<1>5. Awaiting(q.pending, k + 1)
  <2> DEFINE left == q.pending
  <2>0. left = q.pending
    OBVIOUS
  <2> HIDE DEF left
  <2>1. CASE left = <<>>
    <3>0. left = <<>> \/ (Len(left) = 2 /\ left[1] \in {\h21, \h22})
      BY <2>1
    <3>1. Awaiting(left, 1) /\ Awaiting(left, 2)
      BY <2>1, <3>0 DEF Awaiting
    <3>2. k + 1 = 1 \/ k + 1 = 2
      OBVIOUS
    <3>3. QED
      BY <2>0, <3>1, <3>2
  <2>2. CASE left # <<>>
    <3>1. left = command /\ Len(command) <= Arguments(command[1])
      BY <2>0, <2>2, <1>3
    <3>2. p.pending # <<>>
      BY <3>1, <1>2, <1>4
    <3>3. k = 0
      <4>1. k = 1 => Len(p.pending) = 2
        BY <3>2 DEF Prepared, Awaiting
      <4>2. QED
        BY <3>1, <4>1, <1>0, <1>2, ArgumentCount
    <3>4. Len(command) = 2
      BY <3>1, <3>2, <1>0, <1>2, ArgumentCount
    <3>5. command[1] \in {\h21, \h22}
      BY <3>1, <3>4 DEF Arguments
    <3>6. Awaiting(left, 1)
      BY <3>1, <3>4, <3>5 DEF Awaiting
    <3>7. QED
      BY <2>0, <3>3, <3>6
  <2>3. QED
    BY <2>1, <2>2
<1>6. Adjusted(q.set, k + 1) /\ Placed(q.at, k + 1)
  BY DEF Adjusted, Placed
<1>7. QED
  BY <1>5, <1>6 DEF Prepared, q, byte

(* Each of the twenty single bytes brings the panel one transfer further.  *)
LEMMA SettingUp ==
  ASSUME NEW p, Sane(p), NEW k \in 0..19, Prepared(p, k)
  PROVE  Prepared(TakeCommand(p, SingleBytes[k + 1]), k + 1)
<1> DEFINE b == SingleBytes[k + 1]
<1>0. p \in Panel /\ p.set \in Setting /\ Adjusted(p.set, k) /\ Placed(p.at, k)
  BY PanelFields DEF Sane, Prepared
<1>1. CASE k \in {0, 1}
  BY <1>1, Flushing
<1>2. CASE k \in {2, 7, 9, 11, 13, 16}
  <2>1. Arguments(b) >= 1
    BY <1>2 DEF Arguments, SingleBytes
  <2>2. p.pending = <<>>
    BY <1>2 DEF Prepared, Awaiting
  <2> HIDE DEF b
  <2> DEFINE q == [p EXCEPT !.pending = <<b>>]
  <2>3. TakeCommand(p, b) = q
    BY <2>1, <2>2, FirstByte
  <2>4. q.pending = <<b>> /\ q.set = p.set /\ q.at = p.at
    BY <1>0 DEF Panel
  <2> HIDE DEF q
  <2>5. Adjusted(q.set, k + 1) /\ Placed(q.at, k + 1)
    BY <1>0, <1>2, <2>4 DEF Adjusted, Placed
  <2>6. Awaiting(q.pending, k + 1)
    BY <1>2, <2>4 DEF Awaiting, b
  <2>7. QED
    BY <2>3, <2>5, <2>6 DEF Prepared, b
<1>3. CASE k \in {4, 5, 6, 15, 18, 19}
  <2>1. Arguments(b) = 0
    BY <1>3 DEF Arguments, SingleBytes
  <2>2. p.pending = <<>>
    BY <1>3 DEF Prepared, Awaiting
  <2>3. Completed(k, <<b>>)
    BY <1>3 DEF Completed, SingleBytes
  <2> HIDE DEF b
  <2>4. TakeCommand(p, b) = Execute(p, <<b>>)
    BY <2>1, <2>2, NoArgument
  <2>5. Prepared(Execute(p, <<b>>), k + 1)
    BY <1>0, <2>3, Executed
  <2>6. QED
    BY <2>4, <2>5 DEF b
<1>4. CASE k \in {3, 8, 10, 12, 14, 17}
  <2> DEFINE c == SingleBytes[k]
  <2>1. Arguments(c) = 1
    BY <1>4 DEF Arguments, SingleBytes
  <2>2. p.pending = <<c>>
    BY <1>4 DEF Prepared, Awaiting
  <2>3. Completed(k, <<c, b>>)
    BY <1>4 DEF Completed, SingleBytes
  <2>4. c \in Octet /\ b \in Octet
    <3>1. k \in 1..Len(SingleBytes) /\ k + 1 \in 1..Len(SingleBytes)
      BY <1>4, Singles
    <3>2. QED
      BY <3>1, Singles, ElementOfSeq
  <2> HIDE DEF b, c
  <2>5. TakeCommand(p, b) = Execute(p, <<c, b>>)
    BY <2>1, <2>2, <2>4, LastByte
  <2>6. Prepared(Execute(p, <<c, b>>), k + 1)
    BY <1>0, <2>3, Executed
  <2>7. QED
    BY <2>5, <2>6 DEF b
<1>5. QED
  BY <1>1, <1>2, <1>3, <1>4

(* Transfers of up to three bytes, one byte after the other.               *)
LEMMA FewTaken ==
  ASSUME NEW p, NEW bytes
  PROVE  /\ Taken(FALSE, p, bytes, 1) = TakeCommand(p, bytes[1])
         /\ Taken(FALSE, p, bytes, 2) = TakeCommand(TakeCommand(p, bytes[1]), bytes[2])
         /\ Taken(FALSE, p, bytes, 3)
              = TakeCommand(TakeCommand(TakeCommand(p, bytes[1]), bytes[2]), bytes[3])
<1>0. ASSUME NEW isData
      PROVE  /\ Taken(isData, p, bytes, 0) = p
             /\ Taken(isData, p, bytes, 1) = Take(isData, Taken(isData, p, bytes, 0), bytes[1])
             /\ Taken(isData, p, bytes, 2) = Take(isData, Taken(isData, p, bytes, 1), bytes[2])
             /\ Taken(isData, p, bytes, 3) = Take(isData, Taken(isData, p, bytes, 2), bytes[3])
  BY TakenNone, TakenNext
<1>1. Taken(FALSE, p, bytes, 0) = p
  BY <1>0, Zenon
<1>3. Taken(FALSE, p, bytes, 1) = Take(FALSE, Taken(FALSE, p, bytes, 0), bytes[1])
  BY <1>0, Zenon
<1>4. Taken(FALSE, p, bytes, 2) = Take(FALSE, Taken(FALSE, p, bytes, 1), bytes[2])
  BY <1>0, Zenon
<1>5. Taken(FALSE, p, bytes, 3) = Take(FALSE, Taken(FALSE, p, bytes, 2), bytes[3])
  BY <1>0, Zenon
<1>7. \A q, b : Take(FALSE, q, b) = TakeCommand(q, b)
  BY DEF Take
<1>8. Taken(FALSE, p, bytes, 1) = TakeCommand(p, bytes[1])
  BY <1>1, <1>3, <1>7
<1>9. Taken(FALSE, p, bytes, 2) = TakeCommand(TakeCommand(p, bytes[1]), bytes[2])
  BY <1>4, <1>7, <1>8
<1>10. Taken(FALSE, p, bytes, 3)
         = TakeCommand(TakeCommand(TakeCommand(p, bytes[1]), bytes[2]), bytes[3])
  BY <1>5, <1>7, <1>9
<1>11. QED
  BY <1>8, <1>9, <1>10

(* A byte behind a pair makes a triple.                                    *)
LEMMA Triple ==
  ASSUME NEW c \in Octet, NEW b \in Octet, NEW d \in Octet
  PROVE  Append(Append(<<c>>, b), d) = <<c, b, d>>
<1> DEFINE s == <<c, b>>
           t == Append(s, d)
           u == <<c, b, d>>
<1>1. Append(<<c>>, b) = s
  BY Pair
<1>2. s \in Seq(Octet) /\ Len(s) = 2 /\ s[1] = c /\ s[2] = b
  OBVIOUS
<1>3. u \in Seq(Octet) /\ Len(u) = 3 /\ u[1] = c /\ u[2] = b /\ u[3] = d
  OBVIOUS
<1> HIDE DEF s, u
<1>4. t \in Seq(Octet) /\ Len(t) = 3 /\ t[1] = c /\ t[2] = b /\ t[3] = d
  BY <1>2, AppendProperties
<1> HIDE DEF t
<1>5. \A i \in 1..Len(t) : t[i] = u[i]
  BY <1>3, <1>4
<1>6. t = u
  BY <1>3, <1>4, <1>5, SeqEqual
<1>7. QED
  BY <1>1, <1>6 DEF t, u

(* A command with two arguments is executed with both of them.             *)
LEMMA ThreeBytes ==
  ASSUME NEW p \in Panel, p.pending = <<>>, NEW c \in Octet, NEW b \in Octet, NEW d \in Octet,
         Arguments(c) = 2
  PROVE  \E q \in Panel : /\ q.set = p.set /\ q.at = p.at
                          /\ TakeCommand(TakeCommand(TakeCommand(p, c), b), d)
                               = Execute(q, <<c, b, d>>)
<1> DEFINE s == <<c>>
           t == Append(s, b)
           u == Append(t, d)
<1>1. TakeCommand(p, c) = [p EXCEPT !.pending = s]
  BY FirstByte
<1>2. s \in Seq(Octet) /\ Len(s) = 1 /\ s[1] = c
  OBVIOUS
<1>3. t \in Seq(Octet) /\ Len(t) = 2 /\ t[1] = c
  BY <1>2
<1>4. u \in Seq(Octet) /\ Len(u) = 3 /\ u[1] = c
  BY <1>3
<1>5. u = <<c, b, d>>
  BY Triple
<1> HIDE DEF s
<1> DEFINE q1 == [p EXCEPT !.pending = s]
<1>6. q1 \in Panel /\ q1.pending = s /\ q1.set = p.set /\ q1.at = p.at
  BY <1>2 DEF Panel
<1> HIDE DEF q1
<1>7. TakeCommand(q1, b) = [q1 EXCEPT !.pending = t]
  BY <1>3, <1>6 DEF TakeCommand
<1> HIDE DEF t
<1> DEFINE q2 == [q1 EXCEPT !.pending = t]
<1>8. q2 \in Panel /\ q2.pending = t /\ q2.set = p.set /\ q2.at = p.at
  BY <1>3, <1>6 DEF Panel
<1> HIDE DEF q2
<1>9. TakeCommand(q2, d) = Execute(q2, u)
  <2>1. TakeCommand(q2, d) = IF Len(u) <= Arguments(u[1]) THEN [q2 EXCEPT !.pending = u]
                                                         ELSE Execute(q2, u)
    BY <1>8 DEF TakeCommand
  <2> HIDE DEF u
  <2>2. ~(Len(u) <= Arguments(u[1]))
    BY <1>4
  <2>3. QED
    BY <2>1, <2>2
<1>10. QED
  BY <1>1, <1>5, <1>7, <1>8, <1>9 DEF q1, q2

(* The panel after a whole transfer of commands.                           *)
Sent(p, bytes) == Taken(FALSE, p, bytes, Len(bytes))

(* A transfer of one byte,                                                 *)
LEMMA OneByte ==
  ASSUME NEW p, NEW b, NEW bytes, bytes = <<b>>
  PROVE  Sent(p, bytes) = TakeCommand(p, b)
<1>1. Len(bytes) = 1 /\ bytes[1] = b
  OBVIOUS
<1>2. Taken(FALSE, p, bytes, 1) = TakeCommand(p, bytes[1])
  BY FewTaken
<1>3. QED
  BY <1>1, <1>2, Zenon DEF Sent

(* one of a command with one argument,                                     *)
LEMMA TwoBytes ==
  ASSUME NEW p \in Panel, p.pending = <<>>, NEW c \in Octet, NEW b \in Octet,
         Arguments(c) = 1, NEW bytes, bytes = <<c, b>>
  PROVE  \E q \in Panel : /\ q.set = p.set /\ q.at = p.at
                          /\ Sent(p, bytes) = Execute(q, <<c, b>>)
<1> DEFINE s == <<c>>
           q == [p EXCEPT !.pending = s]
<1>1. TakeCommand(p, c) = q
  BY FirstByte
<1>2. s \in Seq(Octet)
  OBVIOUS
<1>3. q \in Panel /\ q.pending = s /\ q.set = p.set /\ q.at = p.at
  <2> HIDE DEF s
  <2>1. QED
    BY <1>2 DEF Panel
<1>4. Len(bytes) = 2 /\ bytes[1] = c /\ bytes[2] = b
  OBVIOUS
<1> HIDE DEF q
<1>5. TakeCommand(q, b) = Execute(q, <<c, b>>)
  BY <1>3, LastByte
<1>6. Taken(FALSE, p, bytes, 2) = TakeCommand(TakeCommand(p, bytes[1]), bytes[2])
  BY FewTaken
<1>7. Sent(p, bytes) = Execute(q, <<c, b>>)
  BY <1>1, <1>4, <1>5, <1>6, Zenon DEF Sent
<1>8. QED
  BY <1>3, <1>7, Zenon

(* and one of a window.                                                    *)
LEMMA ThreeSent ==
  ASSUME NEW p \in Panel, p.pending = <<>>, NEW c \in Octet, NEW b \in Octet, NEW d \in Octet,
         Arguments(c) = 2, NEW bytes, bytes = <<c, b, d>>
  PROVE  \E q \in Panel : /\ q.set = p.set /\ q.at = p.at
                          /\ Sent(p, bytes) = Execute(q, <<c, b, d>>)
<1>1. PICK q \in Panel : /\ q.set = p.set /\ q.at = p.at
                         /\ TakeCommand(TakeCommand(TakeCommand(p, c), b), d)
                              = Execute(q, <<c, b, d>>)
  BY ThreeBytes
<1>2. Len(bytes) = 3 /\ bytes[1] = c /\ bytes[2] = b /\ bytes[3] = d
  OBVIOUS
<1>3. Taken(FALSE, p, bytes, 3)
        = TakeCommand(TakeCommand(TakeCommand(p, bytes[1]), bytes[2]), bytes[3])
  BY FewTaken
<1>4. Sent(p, bytes) = Execute(q, <<c, b, d>>)
  BY <1>1, <1>2, <1>3, Zenon DEF Sent
<1>5. QED
  BY <1>1, <1>4, Zenon

(* Each transfer of ssd1306_init that arrives whole brings the panel one   *)
(* further.                                                                *)
LEMMA WholeTransfers ==
  ASSUME NEW p, Sane(p), NEW k \in 0..23, Prepared(p, k),
         NEW bytes, bytes = InitCommands[k + 1]
  PROVE  Prepared(Sent(p, bytes), k + 1)
<1>0. p \in Panel /\ Adjusted(p.set, k) /\ Placed(p.at, k)
  BY DEF Sane, Prepared
<1>1. CASE k \in 0..19
  <2> DEFINE b == SingleBytes[k + 1]
  <2>1. InitCommands[k + 1] = <<b>>
    <3>1. \A j \in 1..20 : InitCommands[j] = <<SingleBytes[j]>>
      BY Commands
    <3>2. k + 1 \in 1..20
      BY <1>1
    <3>3. QED
      BY <3>1, <3>2, Zenon
  <2>2. Prepared(TakeCommand(p, b), k + 1)
    BY <1>1, SettingUp
  <2> HIDE DEF b
  <2>3. Sent(p, bytes) = TakeCommand(p, b)
    BY <2>1, OneByte
  <2>4. QED
    BY <2>2, <2>3, Zenon
<1>2. CASE k = 20
  <2>1. InitCommands[k + 1] = <<\h20, 1>>
    BY <1>2, Commands
  <2>2. p.pending = <<>>
    BY <1>2 DEF Prepared, Awaiting
  <2>3. Arguments(\h20) = 1 /\ \h20 \in Octet /\ 1 \in Octet
    BY DEF Arguments, Octet
  <2>4. Completed(k, <<\h20, 1>>)
    BY <1>2 DEF Completed
  <2>5. PICK q \in Panel : /\ q.set = p.set /\ q.at = p.at
                           /\ Sent(p, bytes) = Execute(q, <<\h20, 1>>)
    <3>1. bytes = <<\h20, 1>>
      BY <2>1
    <3>2. QED
      BY <1>0, <2>2, <2>3, <3>1, TwoBytes
  <2>6. Prepared(Execute(q, <<\h20, 1>>), k + 1)
    BY <1>0, <2>4, <2>5, Executed
  <2>7. QED
    BY <2>5, <2>6, Zenon
<1>3. CASE k \in {21, 22}
  <2> DEFINE c == IF k = 21 THEN \h21 ELSE \h22
             d == IF k = 21 THEN WIDTH - 1 ELSE PAGES - 1
  <2>1. InitCommands[k + 1] = <<c, 0, d>>
    <3>1. CASE k = 21
      BY <3>1, Commands
    <3>2. CASE k = 22
      BY <3>2, Commands
    <3>3. QED
      BY <1>3, <3>1, <3>2
  <2>2. p.pending = <<>>
    BY <1>3 DEF Prepared, Awaiting
  <2>3. Arguments(c) = 2 /\ c \in Octet /\ 0 \in Octet
    BY <1>3 DEF Arguments, Octet
  <2>4. d \in Octet
    BY <1>3, ScreenSizes DEF Octet
  <2>5. Completed(k, <<c, 0, d>>)
    BY <1>3 DEF Completed
  <2> HIDE DEF c, d
  <2>6. PICK q \in Panel : /\ q.set = p.set /\ q.at = p.at
                           /\ Sent(p, bytes) = Execute(q, <<c, 0, d>>)
    <3>1. bytes = <<c, 0, d>>
      BY <2>1
    <3>2. QED
      BY <1>0, <2>2, <2>3, <2>4, <3>1, ThreeSent
  <2>7. Prepared(Execute(q, <<c, 0, d>>), k + 1)
    BY <1>0, <2>5, <2>6, Executed
  <2>8. QED
    BY <2>6, <2>7, Zenon
<1>4. CASE k = 23
  <2>1. InitCommands[k + 1] = <<\hAF>>
    BY <1>4, Commands
  <2>2. p.pending = <<>>
    BY <1>4 DEF Prepared, Awaiting
  <2>3. Arguments(\hAF) = 0
    BY DEF Arguments
  <2>4. TakeCommand(p, \hAF) = Execute(p, <<\hAF>>)
    BY <2>2, <2>3, NoArgument
  <2>5. Completed(k, <<\hAF>>)
    BY <1>4 DEF Completed
  <2>6. Prepared(Execute(p, <<\hAF>>), k + 1)
    BY <1>0, <2>5, Executed
  <2>7. Sent(p, bytes) = TakeCommand(p, \hAF)
    BY <2>1, OneByte
  <2>8. QED
    BY <2>4, <2>6, <2>7, Zenon
<1>5. k \in 0..19 \/ k = 20 \/ k \in {21, 22} \/ k = 23
  OBVIOUS
<1>6. QED
  BY <1>1, <1>2, <1>3, <1>4, <1>5, Zenon

(* Initialised, and not under way with a refresh.                          *)
Ready(p) == /\ p.pending = <<>> /\ p.at = <<0, 0>>
            /\ p.set = [on |-> TRUE, pump |-> TRUE, start |-> 0, mirrored |-> TRUE,
                        flipped |-> FALSE, inverse |-> FALSE, all |-> FALSE,
                        mux |-> HEIGHT - 1, pins |-> TRUE, mode |-> 1,
                        columns |-> <<0, WIDTH - 1>>, pages |-> <<0, PAGES - 1>>]

(* That is the panel after all the transfers of ssd1306_init.              *)
LEMMA PreparedReady ==
  ASSUME NEW p, Sane(p), Prepared(p, 24)
  PROVE  Ready(p)
<1>1. p \in Panel /\ p.at = <<p.at[1], p.at[2]>>
  BY PanelFields DEF Sane
<1>2. p.pending = <<>>
  BY DEF Prepared, Awaiting
<1>3. p.at[1] = 0 /\ p.at[2] = 0
  BY DEF Prepared, Placed
<1>4. p.at = <<0, 0>>
  BY <1>1, <1>3
<1> DEFINE set == p.set
<1>5. set \in Setting /\ Adjusted(set, 24)
  BY <1>1, PanelFields DEF Prepared
<1> HIDE DEF set
<1>6. /\ set.mirrored /\ ~set.flipped /\ ~set.inverse /\ set.mux = HEIGHT - 1
      /\ set.pins /\ set.start = 0 /\ set.pump /\ ~set.all /\ set.mode = 1
      /\ set.columns = <<0, WIDTH - 1>> /\ set.pages = <<0, PAGES - 1>> /\ set.on
  BY <1>5 DEF Adjusted
<1>7. set = [on |-> set.on, pump |-> set.pump, start |-> set.start, mirrored |-> set.mirrored,
             flipped |-> set.flipped, inverse |-> set.inverse, all |-> set.all,
             mux |-> set.mux, pins |-> set.pins, mode |-> set.mode,
             columns |-> set.columns, pages |-> set.pages]
  BY <1>5 DEF Setting
<1>8. /\ set.on \in BOOLEAN /\ set.pump \in BOOLEAN /\ set.mirrored \in BOOLEAN
      /\ set.flipped \in BOOLEAN /\ set.inverse \in BOOLEAN /\ set.all \in BOOLEAN
      /\ set.pins \in BOOLEAN
  BY <1>5 DEF Setting
<1>9. /\ set.on = TRUE /\ set.pump = TRUE /\ set.mirrored = TRUE /\ set.flipped = FALSE
      /\ set.inverse = FALSE /\ set.all = FALSE /\ set.pins = TRUE
  BY <1>6, <1>8
<1>10. QED
  BY <1>2, <1>4, <1>6, <1>7, <1>9 DEF Ready, set

-----------------------------------------------------------------------------
(* ssd1306_refresh_gram, byte by byte.                                     *)

(* The panel after the first n bytes of a transfer of data,                *)
Filled(p, bytes, n) == Taken(TRUE, p, bytes, n)

(* of none of them,                                                        *)
LEMMA FilledNone ==
  ASSUME NEW p, NEW bytes
  PROVE  Filled(p, bytes, 0) = p
<1>1. ASSUME NEW isData PROVE Taken(isData, p, bytes, 0) = p
  BY TakenNone
<1>2. QED
  BY <1>1, Zenon DEF Filled

(* and of one byte more.                                                   *)
LEMMA FilledNext ==
  ASSUME NEW p, NEW bytes, NEW n \in Nat
  PROVE  Filled(p, bytes, n + 1) = TakeData(Filled(p, bytes, n), bytes[n + 1])
<1>1. ASSUME NEW isData
      PROVE  Taken(isData, p, bytes, n + 1) = Take(isData, Taken(isData, p, bytes, n), bytes[n + 1])
  BY TakenNext
<1>2. Taken(TRUE, p, bytes, n + 1) = Take(TRUE, Taken(TRUE, p, bytes, n), bytes[n + 1])
  BY <1>1, Zenon
<1>3. \A q, b : Take(TRUE, q, b) = TakeData(q, b)
  BY DEF Take
<1>4. Taken(TRUE, p, bytes, n + 1) = TakeData(Taken(TRUE, p, bytes, n), bytes[n + 1])
  BY <1>2, <1>3
<1>5. QED
  BY <1>4, Zenon DEF Filled

(* Where the byte after the first k goes.                                  *)
Column(k) == k \div PAGES
Page(k) == k % PAGES

(* From the top page down, then to the next column.                        *)
LEMMA Position ==
  /\ Column(0) = 0 /\ Page(0) = 0
  /\ \A k \in 0..(WIDTH * PAGES - 1) :
       /\ Column(k) \in 0..(WIDTH - 1) /\ Page(k) \in 0..(PAGES - 1)
       /\ Column(k + 1) = (IF Page(k) = PAGES - 1 THEN Column(k) + 1 ELSE Column(k))
       /\ Page(k + 1) = (IF Page(k) = PAGES - 1 THEN 0 ELSE Page(k) + 1)
  /\ Column(WIDTH * PAGES) = WIDTH /\ Page(WIDTH * PAGES) = 0
<1> DEFINE Claim == /\ Column(0) = 0 /\ Page(0) = 0
                    /\ \A k \in 0..(WIDTH * PAGES - 1) :
                         /\ Column(k) \in 0..(WIDTH - 1) /\ Page(k) \in 0..(PAGES - 1)
                         /\ Column(k + 1) = (IF Page(k) = PAGES - 1 THEN Column(k) + 1 ELSE Column(k))
                         /\ Page(k + 1) = (IF Page(k) = PAGES - 1 THEN 0 ELSE Page(k) + 1)
                    /\ Column(WIDTH * PAGES) = WIDTH /\ Page(WIDTH * PAGES) = 0
<1>0. WIDTH \in 1..128 /\ PAGES \in 1..8
  BY ScreenSizes
<1>1. CASE PAGES = 1
  BY <1>0, <1>1 DEF Column, Page
<1>2. CASE PAGES = 2
  BY <1>0, <1>2 DEF Column, Page
<1>3. CASE PAGES = 3
  BY <1>0, <1>3 DEF Column, Page
<1>4. CASE PAGES = 4
  BY <1>0, <1>4 DEF Column, Page
<1>5. CASE PAGES = 5
  BY <1>0, <1>5 DEF Column, Page
<1>6. CASE PAGES = 6
  BY <1>0, <1>6 DEF Column, Page
<1>7. CASE PAGES = 7
  BY <1>0, <1>7 DEF Column, Page
<1>8. CASE PAGES = 8
  BY <1>0, <1>8 DEF Column, Page
<1>9. QED
  BY <1>0, <1>1, <1>2, <1>3, <1>4, <1>5, <1>6, <1>7, <1>8

(* What a refresh uses of a panel that is ready.                           *)
LEMMA ReadyFields ==
  ASSUME NEW p, Ready(p)
  PROVE  /\ p.pending = <<>> /\ p.at = <<0, 0>>
         /\ p.set.mode = 1 /\ p.set.columns = <<0, WIDTH - 1>> /\ p.set.pages = <<0, PAGES - 1>>
BY DEF Ready

(* A byte of data in the mode and windows of ssd1306_init goes to the      *)
(* place, which moves down, or to the top of the next column.              *)
LEMMA DownThenRight ==
  ASSUME NEW p \in Panel, p.set.mode = 1, p.set.columns = <<0, WIDTH - 1>>,
         p.set.pages = <<0, PAGES - 1>>, NEW x \in 0..(WIDTH - 1), NEW y \in 0..(PAGES - 1),
         p.at = <<x, y>>, NEW bits
  PROVE  LET q == TakeData(p, bits)
         IN /\ q.set = p.set /\ q.pending = p.pending
            /\ q.ram = {c \in p.ram : <<c[1], c[2]>> # <<x, y>>} \cup {<<x, y, b>> : b \in bits}
            /\ q.at = IF y # PAGES - 1 THEN <<x, y + 1>>
                      ELSE <<IF x = WIDTH - 1 THEN 0 ELSE x + 1, 0>>
<1> DEFINE down == After(y, <<0, PAGES - 1>>, PAGES)
           right == After(x, <<0, WIDTH - 1>>, WIDTH)
           ram == {c \in p.ram : <<c[1], c[2]>> # <<x, y>>} \cup {<<x, y, b>> : b \in bits}
           at == <<IF down = 0 THEN right ELSE x, down>>
           q == [p EXCEPT !.ram = ram, !.at = at]
<1>1. TakeData(p, bits) = q
  BY DEF TakeData
<1>2. down = IF y = PAGES - 1 THEN 0 ELSE y + 1
  <2>1. y # PAGES - 1 => (y + 1) % PAGES = y + 1
    BY ScreenSizes
  <2>2. QED
    BY <2>1 DEF After
<1>3. right = IF x = WIDTH - 1 THEN 0 ELSE x + 1
  <2>1. x # WIDTH - 1 => (x + 1) % WIDTH = x + 1
    BY ScreenSizes
  <2>2. QED
    BY <2>1 DEF After
<1> HIDE DEF down, right
<1>4. at = IF y # PAGES - 1 THEN <<x, y + 1>>
           ELSE <<IF x = WIDTH - 1 THEN 0 ELSE x + 1, 0>>
  BY <1>2, <1>3
<1> HIDE DEF ram, at
<1>5. q.set = p.set /\ q.pending = p.pending /\ q.ram = ram /\ q.at = at
  BY DEF Panel
<1> HIDE DEF q
<1>6. QED
  BY <1>1, <1>4, <1>5 DEF ram

(* A buffer's byte holds its lit bits.                                     *)
BitsAt(b, x, y) == {e[3] : e \in {d \in b : <<d[1], d[2]>> = <<x, y>>}}

(* ssd1306_refresh_gram sends the buffer's bytes in the order the panel    *)
(* fills its memory.                                                       *)
LEMMA ContentsAt ==
  ASSUME NEW b \in Buffers
  PROVE  /\ Len(Contents(b)) = WIDTH * PAGES
         /\ \A k \in 0..(WIDTH * PAGES - 1) : Contents(b)[k + 1] = BitsAt(b, Column(k), Page(k))
         /\ \A x, y : BitsAt(b, x, y) \in SUBSET (0..7)
<1> DEFINE n == WIDTH * PAGES
<1>0. n \in Nat
  BY ScreenSizes
<1>1. Contents(b) = [k \in 1..n |-> BitsAt(b, (k - 1) \div PAGES, (k - 1) % PAGES)]
  BY DEF Contents, BitsAt
<1> HIDE DEF n
<1>2. Len(Contents(b)) = n
  BY <1>0, <1>1
<1>3. ASSUME NEW k \in 0..(n - 1)
      PROVE  Contents(b)[k + 1] = BitsAt(b, Column(k), Page(k))
  <2>1. k + 1 \in 1..n /\ (k + 1) - 1 = k
    BY <1>0
  <2>2. Contents(b)[k + 1] = BitsAt(b, ((k + 1) - 1) \div PAGES, ((k + 1) - 1) % PAGES)
    BY <1>1, <2>1
  <2>3. QED
    BY <2>1, <2>2 DEF Column, Page
<1>4. ASSUME NEW x, NEW y PROVE BitsAt(b, x, y) \in SUBSET (0..7)
  <2>1. \A d \in b : d[3] \in 0..7
    BY ScreenCells DEF Buffers
  <2>2. QED
    BY <2>1 DEF BitsAt
<1>5. QED
  BY <1>2, <1>3, <1>4 DEF n

(* A byte of the buffer has a bit lit exactly if the buffer has.           *)
LEMMA ByteBits ==
  ASSUME NEW b \in Buffers, NEW x, NEW y, NEW c \in Cells(Screen)
  PROVE  c \in {<<x, y, i>> : i \in BitsAt(b, x, y)} <=> c \in b /\ c[1] = x /\ c[2] = y
<1>1. \A d \in Cells(Screen) : d = <<d[1], d[2], d[3]>>
  BY ScreenCells
<1>2. b \subseteq Cells(Screen)
  BY DEF Buffers
<1>3. c = <<c[1], c[2], c[3]>>
  BY <1>1
<1>4. ASSUME NEW i \in BitsAt(b, x, y), c = <<x, y, i>>
      PROVE  c \in b /\ c[1] = x /\ c[2] = y
  <2>1. PICK e \in b : <<e[1], e[2]>> = <<x, y>> /\ i = e[3]
    BY DEF BitsAt
  <2>2. e = <<e[1], e[2], e[3]>>
    BY <1>1, <1>2
  <2>3. e[1] = x /\ e[2] = y
    BY <2>1
  <2>4. QED
    BY <1>4, <2>1, <2>2, <2>3
<1>5. ASSUME c \in b, c[1] = x, c[2] = y
      PROVE  c[3] \in BitsAt(b, x, y) /\ c = <<x, y, c[3]>>
  <2>1. c = <<x, y, c[3]>>
    BY <1>3, <1>5
  <2>2. <<c[1], c[2]>> = <<x, y>>
    BY <1>5
  <2>3. QED
    BY <1>5, <2>1, <2>2 DEF BitsAt
<1>6. QED
  BY <1>4, <1>5

(* The bits a refresh has sent with its first k bytes.                     *)
Past(c, k) == c[1] < Column(k) \/ (c[1] = Column(k) /\ c[2] < Page(k))

(* None at first, all at the end, a byte's bits at each step between.      *)
LEMMA PastNext ==
  /\ \A c \in Cells(Screen) : ~Past(c, 0) /\ Past(c, WIDTH * PAGES)
  /\ \A k \in 0..(WIDTH * PAGES - 1), c \in Cells(Screen) :
       Past(c, k + 1) <=> Past(c, k) \/ (c[1] = Column(k) /\ c[2] = Page(k))
<1>1. \A c \in Cells(Screen) : c[1] \in 0..(WIDTH - 1) /\ c[2] \in 0..(PAGES - 1)
  BY ScreenCells
<1>2. ASSUME NEW c \in Cells(Screen) PROVE ~Past(c, 0) /\ Past(c, WIDTH * PAGES)
  <2>1. c[1] \in 0..(WIDTH - 1) /\ c[2] \in 0..(PAGES - 1)
    BY <1>1
  <2>2. Column(0) = 0 /\ Page(0) = 0 /\ Column(WIDTH * PAGES) = WIDTH /\ Page(WIDTH * PAGES) = 0
    BY Position
  <2>3. QED
    BY <2>1, <2>2, ScreenSizes DEF Past
<1>3. ASSUME NEW k \in 0..(WIDTH * PAGES - 1), NEW c \in Cells(Screen)
      PROVE  Past(c, k + 1) <=> Past(c, k) \/ (c[1] = Column(k) /\ c[2] = Page(k))
  <2>1. c[1] \in 0..(WIDTH - 1) /\ c[2] \in 0..(PAGES - 1)
    BY <1>1
  <2>2. /\ Column(k) \in 0..(WIDTH - 1) /\ Page(k) \in 0..(PAGES - 1)
        /\ Column(k + 1) = (IF Page(k) = PAGES - 1 THEN Column(k) + 1 ELSE Column(k))
        /\ Page(k + 1) = (IF Page(k) = PAGES - 1 THEN 0 ELSE Page(k) + 1)
    BY Position
  <2>3. QED
    BY <2>1, <2>2, ScreenSizes DEF Past
<1>4. QED
  BY <1>2, <1>3

(* The panel after the first k bytes of a refresh: the memory is the       *)
(* buffer's as far as it was sent.                                         *)
Refreshing(q, p, b, k) ==
  /\ Sane(q) /\ q.set = p.set /\ q.pending = <<>>
  /\ q.at = IF k = WIDTH * PAGES THEN <<0, 0>> ELSE <<Column(k), Page(k)>>
  /\ \A c \in Cells(Screen) : c \in q.ram <=> IF Past(c, k) THEN c \in b ELSE c \in p.ram

(* Each byte brings it one further.                                        *)
LEMMA RefreshingNext ==
  ASSUME NEW p, Sane(p), Ready(p), NEW b \in Buffers, NEW k \in 0..(WIDTH * PAGES - 1),
         NEW q, Refreshing(q, p, b, k)
  PROVE  Refreshing(TakeData(q, Contents(b)[k + 1]), p, b, k + 1)
<1> DEFINE x == Column(k)
           y == Page(k)
           bits == Contents(b)[k + 1]
           r == TakeData(q, bits)
<1>1. bits = BitsAt(b, x, y) /\ bits \in SUBSET (0..7)
  BY ContentsAt
<1>2. Sane(q) /\ q \in Panel /\ q.set = p.set /\ q.pending = <<>>
  BY DEF Refreshing, Sane
<1>3. k # WIDTH * PAGES
  BY ScreenSizes
<1>4. q.at = <<x, y>>
  BY <1>3 DEF Refreshing
<1>5. x \in 0..(WIDTH - 1) /\ y \in 0..(PAGES - 1)
  BY Position
<1> HIDE DEF x, y, bits
<1>6. q.set.mode = 1 /\ q.set.columns = <<0, WIDTH - 1>> /\ q.set.pages = <<0, PAGES - 1>>
  BY <1>2, ReadyFields
<1>7. /\ r.set = q.set /\ r.pending = q.pending
      /\ r.ram = {c \in q.ram : <<c[1], c[2]>> # <<x, y>>} \cup {<<x, y, i>> : i \in bits}
      /\ r.at = IF y # PAGES - 1 THEN <<x, y + 1>>
                ELSE <<IF x = WIDTH - 1 THEN 0 ELSE x + 1, 0>>
  BY <1>2, <1>4, <1>5, <1>6, DownThenRight
<1>8. Sane(r)
  BY <1>1, <1>2, TakeDataType
<1> HIDE DEF r
<1>9. r.at = IF k + 1 = WIDTH * PAGES THEN <<0, 0>> ELSE <<Column(k + 1), Page(k + 1)>>
  <2>1. /\ Column(k + 1) = (IF y = PAGES - 1 THEN x + 1 ELSE x)
        /\ Page(k + 1) = (IF y = PAGES - 1 THEN 0 ELSE y + 1)
    BY Position DEF x, y
  <2>2. k + 1 = WIDTH * PAGES <=> y = PAGES - 1 /\ x = WIDTH - 1
    <3>1. k + 1 = WIDTH * PAGES => Column(k + 1) = WIDTH /\ Page(k + 1) = 0
      BY Position
    <3>2. k + 1 # WIDTH * PAGES => Column(k + 1) \in 0..(WIDTH - 1)
      <4>1. k + 1 # WIDTH * PAGES => k + 1 \in 0..(WIDTH * PAGES - 1)
        BY ScreenSizes
      <4>2. QED
        BY <4>1, Position
    <3>3. QED
      BY <2>1, <3>1, <3>2, <1>5, ScreenSizes
  <2>3. QED
    BY <1>5, <1>7, <2>1, <2>2, ScreenSizes
<1>10. ASSUME NEW c \in Cells(Screen)
       PROVE  c \in r.ram <=> IF Past(c, k + 1) THEN c \in b ELSE c \in p.ram
  <2>1. c \in q.ram <=> IF Past(c, k) THEN c \in b ELSE c \in p.ram
    BY DEF Refreshing
  <2>2. Past(c, k + 1) <=> Past(c, k) \/ (c[1] = x /\ c[2] = y)
    BY PastNext DEF x, y
  <2>3. c \in {<<x, y, i>> : i \in bits} <=> c \in b /\ c[1] = x /\ c[2] = y
    BY <1>1, ByteBits
  <2>4. <<c[1], c[2]>> # <<x, y>> <=> ~(c[1] = x /\ c[2] = y)
    OBVIOUS
  <2> DEFINE T == {<<x, y, i>> : i \in bits}
  <2>5. c \in r.ram <=> (c \in q.ram /\ <<c[1], c[2]>> # <<x, y>>) \/ c \in T
    BY <1>7
  <2> HIDE DEF T
  <2>6. c \in T <=> c \in b /\ c[1] = x /\ c[2] = y
    BY <2>3 DEF T
  <2> DEFINE here == c[1] = x /\ c[2] = y
  <2>7. c \in r.ram <=> (c \in q.ram /\ ~here) \/ (c \in b /\ here)
    BY <2>4, <2>5, <2>6
  <2>8. Past(c, k + 1) <=> Past(c, k) \/ here
    BY <2>2
  <2> HIDE DEF here
  <2>9. QED
    BY <2>1, <2>7, <2>8
<1>11. QED
  BY <1>2, <1>7, <1>8, <1>9, <1>10 DEF Refreshing, r, bits

(* A whole refresh leaves the panel ready, with the buffer in its memory.  *)
LEMMA Refreshed ==
  ASSUME NEW p, Sane(p), Ready(p), NEW b \in Buffers
  PROVE  LET q == Filled(p, Contents(b), WIDTH * PAGES)
         IN Sane(q) /\ Ready(q) /\ q.ram = b
<1> DEFINE n == WIDTH * PAGES
           f(k) == Filled(p, Contents(b), k)
           S == {k \in 0..n : ~Refreshing(f(k), p, b, k)}
<1>0. n \in Nat /\ n # 0
  BY ScreenSizes
<1>1. Refreshing(f(0), p, b, 0)
  <2>1. f(0) = p
    BY FilledNone
  <2>2. p.at = <<0, 0>> /\ p.pending = <<>>
    BY ReadyFields
  <2>3. p.at = IF 0 = n THEN <<0, 0>> ELSE <<Column(0), Page(0)>>
    BY <1>0, <2>2, Position
  <2>4. \A c \in Cells(Screen) : c \in p.ram <=> IF Past(c, 0) THEN c \in b ELSE c \in p.ram
    BY PastNext
  <2>5. QED
    BY <2>1, <2>2, <2>3, <2>4 DEF Refreshing
<1>2. S = {}
  <2>1. SUFFICES ASSUME S # {} PROVE FALSE
    OBVIOUS
  <2>2. PICK k \in S : \A j \in S : k <= j
    <3>1. S \in SUBSET Nat
      BY <1>0
    <3>2. QED
      BY <2>1, <3>1, HasLeast
  <2> HIDE DEF n, f
  <2>3. k # 0
    BY <1>1
  <2>4. PICK m \in 0..(n - 1) : k = m + 1
    BY <1>0, <2>2, <2>3
  <2>5. m \in 0..n /\ m \notin S
    BY <1>0, <2>2, <2>4
  <2>6. Refreshing(f(m), p, b, m)
    BY <2>5
  <2>7. Refreshing(TakeData(f(m), Contents(b)[m + 1]), p, b, m + 1)
    BY <2>6, RefreshingNext DEF n
  <2>8. f(m + 1) = TakeData(f(m), Contents(b)[m + 1])
    <3>1. m \in Nat
      BY <1>0
    <3>2. QED
      BY <3>1, FilledNext DEF f
  <2>9. Refreshing(f(k), p, b, k)
    BY <2>4, <2>7, <2>8
  <2>10. QED
    BY <2>9
<1> DEFINE q == f(n)
<1>3. Refreshing(q, p, b, n)
  BY <1>0, <1>2
<1> HIDE DEF f
<1> HIDE DEF q
<1>4. Sane(q) /\ q.set = p.set /\ q.pending = <<>> /\ q.at = <<0, 0>>
  BY <1>3 DEF Refreshing
<1>5. \A c \in Cells(Screen) : c \in q.ram <=> c \in b
  BY <1>3, PastNext DEF Refreshing
<1>6. q.ram = b
  <2>1. q.ram \subseteq Cells(Screen) /\ b \subseteq Cells(Screen)
    BY <1>4, PanelFields DEF Sane, Buffers
  <2>2. QED
    BY <1>5, <2>1
<1>7. Ready(q)
  BY <1>4 DEF Ready
<1>8. QED
  BY <1>4, <1>6, <1>7 DEF q, f

-----------------------------------------------------------------------------
(* The invariant, and what follows from it.                                *)

(* A transfer, whole or cut short, leaves the panel in one of its states,  *)
LEMMA TransferType ==
  ASSUME Sane(panel), lost \in 0..MaxLost, NEW isData, NEW bytes, NEW n,
         Len(bytes) \in Nat, AllFit(isData, bytes, Len(bytes)), Transfer(isData, bytes, n)
  PROVE  /\ Sane(panel') /\ lost' \in 0..MaxLost
         /\ n \in 0..Len(bytes) /\ panel' = Taken(isData, panel, bytes, n)
<1>1. n \in 0..Len(bytes) /\ panel' = Taken(isData, panel, bytes, n)
  BY DEF Transfer
<1>2. n \in Nat /\ AllFit(isData, bytes, n)
  BY <1>1 DEF AllFit
<1>3. Sane(panel')
  BY <1>1, <1>2, TakenSane
<1>4. lost' \in 0..MaxLost
  BY BoundAssumption DEF Transfer
<1>5. QED
  BY <1>1, <1>3, <1>4

(* one of commands,                                                        *)
LEMMA CommandType ==
  ASSUME Sane(panel), lost \in 0..MaxLost, NEW bytes \in Seq(Octet), NEW n,
         Transfer(FALSE, bytes, n)
  PROVE  /\ Sane(panel') /\ lost' \in 0..MaxLost /\ n \in 0..Len(bytes)
         /\ n = Len(bytes) => panel' = Sent(panel, bytes)
<1>1. Len(bytes) \in Nat /\ \A k \in 1..Len(bytes) : bytes[k] \in Octet
  BY ElementOfSeq
<1>2. AllFit(FALSE, bytes, Len(bytes))
  BY <1>1 DEF AllFit, Fits
<1>3. /\ Sane(panel') /\ lost' \in 0..MaxLost
      /\ n \in 0..Len(bytes) /\ panel' = Taken(FALSE, panel, bytes, n)
  BY <1>1, <1>2, TransferType, Zenon
<1>4. n = Len(bytes) => panel' = Sent(panel, bytes)
  BY <1>3, Zenon DEF Sent
<1>5. QED
  BY <1>3, <1>4, Zenon

(* and one of data.                                                        *)
LEMMA DataType ==
  ASSUME Sane(panel), lost \in 0..MaxLost, NEW b \in Buffers, NEW n,
         Transfer(TRUE, Contents(b), n)
  PROVE  /\ Sane(panel') /\ lost' \in 0..MaxLost /\ n \in 0..(WIDTH * PAGES)
         /\ panel' = Filled(panel, Contents(b), n)
<1> DEFINE bytes == Contents(b)
<1>1. Len(bytes) = WIDTH * PAGES /\ WIDTH * PAGES \in Nat
  BY ContentsAt, ScreenSizes
<1>2. ASSUME NEW k \in 1..(WIDTH * PAGES) PROVE bytes[k] \in SUBSET (0..7)
  <2>1. PICK j \in 0..(WIDTH * PAGES - 1) : k = j + 1
    BY <1>1
  <2>2. QED
    BY <2>1, ContentsAt
<1> HIDE DEF bytes
<1>3. \A k \in 1..Len(bytes) : bytes[k] \in SUBSET (0..7)
  BY <1>1, <1>2
<1>4. AllFit(TRUE, bytes, Len(bytes))
  BY <1>3 DEF AllFit, Fits
<1>5. Len(bytes) \in Nat
  BY <1>1
<1>6. Transfer(TRUE, bytes, n)
  BY DEF bytes
<1>7. /\ Sane(panel') /\ lost' \in 0..MaxLost
      /\ n \in 0..Len(bytes) /\ panel' = Taken(TRUE, panel, bytes, n)
  BY <1>4, <1>5, <1>6, TransferType, Zenon
<1>8. panel' = Filled(panel, Contents(b), n)
  BY <1>7, Zenon DEF Filled, bytes
<1>9. QED
  BY <1>1, <1>7, <1>8

-----------------------------------------------------------------------------
(* While ssd1306_init is under way, nothing was refreshed since and, if    *)
(* nothing was lost, the panel is as far.                                  *)
SettingUpOrDone ==
  \/ todo = <<>>
  \/ \E k \in 0..23 : /\ todo = Rest(k) /\ refreshed = NONE
                      /\ clean => Prepared(panel, k)

(* Once it is through, a refresh starts where the memory starts.           *)
Settled == clean /\ todo = <<>> => /\ Ready(panel)
                                   /\ refreshed # NONE => panel.ram = refreshed

(* The types, of which Sane adds that no command under way is complete.    *)
Typed ==
  /\ phase \in {"bus", "create", "again", "draw", "refresh", "running", "deleted"}
  /\ bus \in BOOLEAN /\ clean \in BOOLEAN
  /\ buf \in Buffers /\ Sane(panel)
  /\ calls \in 0..MaxCalls /\ lost \in 0..MaxLost
  /\ refreshed \in {NONE} \cup Buffers

(* The inductive invariant.                                                *)
DisplayInv == Typed /\ SettingUpOrDone /\ Settled /\ (phase = "refresh" => todo = <<>>)

(* It holds before app_main has done anything.                             *)
LEMMA InitInv == Init => DisplayInv
<1> SUFFICES ASSUME Init PROVE DisplayInv
  OBVIOUS
<1>1. ClearScreen = {}
  BY DEF ClearScreen, clear_screen
<1>2. buf \in Buffers
  BY <1>1 DEF Init, Buffers
<1>3. PICK noise \in {{}, Screen} : panel = PowerOn(Cells(noise))
  BY DEF Init
<1> DEFINE ram == Cells(noise)
<1>4. ram \subseteq Cells(Screen)
  BY CellsOnScreen
<1> HIDE DEF ram
<1>5. Settings \in Setting
  <2>1. HEIGHT - 1 \in 0..63
    BY ScreenSizes
  <2>2. /\ <<0, WIDTH - 1>> \in (0..(WIDTH - 1)) \X (0..(WIDTH - 1))
        /\ <<0, PAGES - 1>> \in (0..(PAGES - 1)) \X (0..(PAGES - 1))
        /\ 0 \in 0..(HEIGHT - 1)
    BY ScreenSizes
  <2>3. QED
    BY <2>1, <2>2 DEF Settings, Setting
<1>6. <<0, 0>> \in (0..(WIDTH - 1)) \X (0..(PAGES - 1)) /\ <<>> \in Seq(Octet)
  BY ScreenSizes
<1>7. panel = [ram |-> ram, pending |-> <<>>, at |-> <<0, 0>>, set |-> Settings]
  BY <1>3 DEF PowerOn, ram
<1>8. panel \in Panel /\ panel.pending = <<>>
  BY <1>4, <1>5, <1>6, <1>7 DEF Panel, Buffers
<1>9. Sane(panel)
  BY <1>8 DEF Sane, Waiting
<1>10. Typed
  <2>1. phase = "bus" /\ bus = FALSE /\ clean = FALSE /\ refreshed = NONE /\ calls = 0 /\ lost = 0
    BY DEF Init
  <2>2. 0 \in 0..MaxCalls /\ 0 \in 0..MaxLost
    BY BoundAssumption
  <2>3. QED
    BY <1>2, <1>9, <2>1, <2>2, Zenon DEF Typed
<1>11. QED
  BY <1>10 DEF Init, DisplayInv, SettingUpOrDone, Settled

(* ssd1306_init is called: nothing is sent yet, and all is to be sent.     *)
LEMMA StartInv ==
  ASSUME DisplayInv, StartInit, UNCHANGED <<panel, buf, bus, lost>>, calls' \in 0..MaxCalls,
         phase' \in {"again", "draw", "running"}
  PROVE  DisplayInv'
<1>1. todo' = Rest(0) /\ clean' = TRUE /\ refreshed' = NONE
  BY Resting DEF StartInit
<1>2. Typed'
  BY <1>1 DEF DisplayInv, Typed, Sane
<1>3. Prepared(panel, 0)
  <2>1. panel \in Panel /\ Waiting(panel.pending) /\ panel.pending \in Seq(Octet)
    BY PanelFields DEF DisplayInv, Typed, Sane
  <2>2. Len(panel.pending) <= 2
    <3> DEFINE left == panel.pending
    <3>1. Waiting(left) /\ left \in Seq(Octet)
      BY <2>1
    <3> HIDE DEF left
    <3>2. Len(left) <= 2
      BY <3>1, ArgumentCount DEF Waiting
    <3>3. QED
      BY <3>2 DEF left
  <2>3. Adjusted(panel.set, 0) /\ Placed(panel.at, 0)
    BY DEF Adjusted, Placed
  <2>4. Awaiting(panel.pending, 0)
    BY <2>2 DEF Awaiting
  <2>5. QED
    BY <2>3, <2>4 DEF Prepared
<1>4. Prepared(panel', 0)
  BY <1>3
<1>5. SettingUpOrDone'
  BY <1>1, <1>4 DEF SettingUpOrDone
<1>6. Rest(0) # <<>>
  BY Resting
<1>7. Settled'
  BY <1>1, <1>6 DEF Settled
<1>8. QED
  BY <1>2, <1>5, <1>7 DEF DisplayInv

(* ssd1306_init sends one transfer, whole or cut short.                    *)
LEMMA SendInv == ASSUME DisplayInv, SendCommand PROVE DisplayInv'
<1>1. PICK k \in 0..23 : /\ todo = Rest(k) /\ refreshed = NONE
                         /\ clean => Prepared(panel, k)
  BY DEF DisplayInv, SettingUpOrDone, SendCommand
<1> DEFINE bytes == InitCommands[k + 1]
<1>2. Head(todo) = bytes /\ todo' = Rest(k + 1)
  BY <1>1, Resting DEF SendCommand
<1>3. bytes \in Seq(Octet)
  <2>1. InitCommands \in Seq(Seq(Octet)) /\ Len(InitCommands) = 24
    BY Commands
  <2>2. k + 1 \in 1..24
    OBVIOUS
  <2>3. QED
    BY <2>1, <2>2, ElementOfSeq
<1> HIDE DEF bytes
<1>4. Sane(panel) /\ lost \in 0..MaxLost /\ clean \in BOOLEAN /\ buf \in Buffers
  BY DEF DisplayInv, Typed
<1>5. PICK n \in 0..3 : Transfer(FALSE, bytes, n) /\ clean' = (clean /\ n = Len(bytes))
  BY <1>2 DEF SendCommand
<1>6. /\ Sane(panel') /\ lost' \in 0..MaxLost /\ n \in 0..Len(bytes)
      /\ n = Len(bytes) => panel' = Sent(panel, bytes)
  BY <1>3, <1>4, <1>5, CommandType, Zenon
<1>7. buf' \in Buffers
  <2>1. ClearScreen \in Buffers
    BY DEF ClearScreen, clear_screen, Buffers
  <2>2. QED
    BY <1>4, <2>1 DEF SendCommand
<1>8. clean' \in BOOLEAN /\ (clean' => clean /\ n = Len(bytes))
  BY <1>4, <1>5
<1>9. refreshed' = NONE
  BY <1>1 DEF SendCommand
<1>10. Typed'
  BY <1>6, <1>7, <1>8, <1>9 DEF DisplayInv, Typed, SendCommand
<1>11. clean' => Prepared(panel', k + 1)
  <2>1. SUFFICES ASSUME clean' PROVE Prepared(panel', k + 1)
    OBVIOUS
  <2>2. Prepared(Sent(panel, bytes), k + 1)
    BY <1>1, <1>4, <1>8, <2>1, WholeTransfers DEF bytes
  <2>3. QED
    BY <1>6, <1>8, <2>1, <2>2
<1>12. CASE k # 23
  <2>1. k + 1 \in 0..23 /\ k + 1 # 24
    BY <1>12
  <2>2. todo' # <<>>
    <3>1. \A j \in 0..24 : Rest(j) = <<>> => j = 24
      BY Resting
    <3>2. QED
      BY <1>2, <2>1, <3>1
  <2>3. SettingUpOrDone'
    BY <1>2, <1>9, <1>11, <2>1 DEF SettingUpOrDone
  <2>4. Settled'
    BY <2>2 DEF Settled
  <2>5. phase # "refresh" /\ phase' = phase
    BY <1>1, Resting DEF DisplayInv, SendCommand
  <2>6. QED
    BY <1>10, <2>3, <2>4, <2>5 DEF DisplayInv
<1>13. CASE k = 23
  <2>1. todo' = <<>>
    BY <1>2, <1>13, Resting
  <2>2. clean' => Ready(panel')
    BY <1>6, <1>11, <1>13, PreparedReady
  <2>3. QED
    BY <1>9, <1>10, <2>1, <2>2 DEF DisplayInv, SettingUpOrDone, Settled
<1>14. QED
  BY <1>12, <1>13

(* ssd1306_refresh_gram, whole, cut short or without an answer.            *)
LEMMA RefreshInv ==
  ASSUME DisplayInv, Refresh, todo = <<>>, UNCHANGED <<todo, buf, bus>>,
         calls' \in 0..MaxCalls, phase' = "running"
  PROVE  DisplayInv'
<1> DEFINE size == WIDTH * PAGES
<1>1. PICK n \in 0..size : /\ Transfer(TRUE, Contents(buf), n)
                           /\ clean' = (clean /\ n \in {0, size})
                           /\ refreshed' = IF n = size THEN buf ELSE refreshed
  BY DEF Refresh
<1>2. /\ Sane(panel) /\ lost \in 0..MaxLost /\ clean \in BOOLEAN /\ buf \in Buffers
      /\ refreshed \in {NONE} \cup Buffers
  BY DEF DisplayInv, Typed
<1>3. /\ Sane(panel') /\ lost' \in 0..MaxLost
      /\ panel' = Filled(panel, Contents(buf), n)
  BY <1>1, <1>2, DataType, Zenon
<1>4. clean' \in BOOLEAN /\ refreshed' \in {NONE} \cup Buffers
  BY <1>1, <1>2
<1>5. Typed'
  BY <1>2, <1>3, <1>4 DEF DisplayInv, Typed
<1>6. Settled'
  <2>1. SUFFICES ASSUME clean'
                 PROVE  Ready(panel') /\ (refreshed' # NONE => panel'.ram = refreshed')
    BY DEF Settled
  <2>2. clean /\ n \in {0, size}
    BY <1>1, <2>1
  <2>3. Ready(panel) /\ (refreshed # NONE => panel.ram = refreshed)
    BY <2>2 DEF DisplayInv, Settled
  <2>4. size # 0
    BY ScreenSizes
  <2>5. CASE n = 0
    <3>1. panel' = panel
      BY <1>3, <2>5, FilledNone
    <3>2. refreshed' = refreshed
      BY <1>1, <2>4, <2>5
    <3>3. QED
      BY <2>3, <3>1, <3>2
  <2>6. CASE n = size
    <3> DEFINE q == Filled(panel, Contents(buf), WIDTH * PAGES)
    <3>1. Ready(q) /\ q.ram = buf
      BY <1>2, <2>3, Refreshed
    <3>2. panel' = q
      BY <1>3, <2>6
    <3>3. refreshed' = buf
      BY <1>1, <2>6
    <3> HIDE DEF q
    <3>4. QED
      BY <3>1, <3>2, <3>3
  <2>7. QED
    BY <2>2, <2>5, <2>6
<1>7. QED
  BY <1>5, <1>6 DEF DisplayInv, SettingUpOrDone

(* Every step of app_main, of ssd1306_init, of the application and of a    *)
(* restart keeps the invariant.                                            *)
LEMMA NextInv == DisplayInv /\ [Next]_vars => DisplayInv'
<1> SUFFICES ASSUME DisplayInv, [Next]_vars PROVE DisplayInv'
  OBVIOUS
<1>0. ClearScreen \in Buffers
  BY DEF ClearScreen, clear_screen, Buffers
<1>1. CASE UNCHANGED vars
  BY <1>1 DEF vars, driverVars, history, DisplayInv, Typed, SettingUpOrDone, Settled
<1>2. CASE StartBus
  <2>1. lost' \in 0..MaxLost /\ bus' \in BOOLEAN /\ phase' = "create"
    <3>1. lost \in 0..MaxLost
      BY DEF DisplayInv, Typed
    <3>2. lost' \in 0..MaxLost
      BY <1>2, <3>1, BoundAssumption DEF StartBus
    <3>3. bus' \in BOOLEAN /\ phase' = "create"
      BY <1>2 DEF StartBus
    <3>4. QED
      BY <3>2, <3>3
  <2>2. UNCHANGED <<todo, buf, calls, panel, clean, refreshed>>
    BY <1>2 DEF StartBus, history
  <2>3. QED
    BY <2>1, <2>2 DEF DisplayInv, Typed, SettingUpOrDone, Settled
<1>3. CASE Initialise("create", "again") \/ Initialise("again", "draw")
  <2>1. StartInit /\ UNCHANGED <<bus, buf, calls, panel, lost>> /\ phase' \in {"again", "draw"}
    BY <1>3 DEF Initialise
  <2>2. calls' \in 0..MaxCalls
    BY <2>1 DEF DisplayInv, Typed
  <2>3. QED
    BY <2>1, <2>2, StartInv
<1>4. CASE Draw
  <2>1. buf' \in Buffers
    BY <1>0, <1>4, FillType DEF Draw, draw_bitmap
  <2>2. phase' = "refresh" /\ todo = <<>> /\ UNCHANGED <<bus, todo, calls, panel, lost, clean, refreshed>>
    BY <1>4 DEF Draw, history
  <2>3. QED
    BY <2>1, <2>2 DEF DisplayInv, Typed, SettingUpOrDone, Settled
<1>5. CASE FirstRefresh
  <2>1. Refresh /\ phase = "refresh" /\ phase' = "running" /\ UNCHANGED <<bus, todo, buf, calls>>
    BY <1>5 DEF FirstRefresh
  <2>2. todo = <<>> /\ calls' \in 0..MaxCalls
    BY <2>1 DEF DisplayInv, Typed
  <2>3. QED
    BY <2>1, <2>2, RefreshInv
<1>6. CASE SendCommand
  BY <1>6, SendInv
<1>7. CASE Call
  <2>1. /\ phase = "running" /\ phase' = "running" /\ todo = <<>> /\ UNCHANGED bus
        /\ calls' \in 0..MaxCalls
    BY <1>7, BoundAssumption DEF Call, DisplayInv, Typed
  <2>2. CASE Paint /\ UNCHANGED <<todo, panel, lost, history>>
    <3>1. buf' \in Buffers
      BY <2>2, PaintType DEF DisplayInv, Typed
    <3>2. UNCHANGED <<todo, panel, lost, clean, refreshed>>
      BY <2>2 DEF history
    <3>3. QED
      BY <2>1, <3>1, <3>2 DEF DisplayInv, Typed, SettingUpOrDone, Settled
  <2>3. CASE Refresh /\ UNCHANGED <<todo, buf>>
    BY <2>1, <2>3, RefreshInv
  <2>4. CASE StartInit /\ UNCHANGED <<buf, panel, lost>>
    BY <2>1, <2>4, StartInv
  <2>5. QED
    BY <1>7, <2>2, <2>3, <2>4 DEF Call
<1>8. CASE Delete
  <2>1. /\ phase' = "deleted" /\ todo = <<>> /\ buf' \in Buffers /\ calls' = 0 /\ clean' = FALSE
        /\ refreshed' = NONE /\ UNCHANGED <<bus, todo, panel, lost>>
    BY <1>0, <1>8 DEF Delete
  <2>2. QED
    <3>1. 0 \in 0..MaxCalls
      BY BoundAssumption
    <3>2. Typed'
      BY <2>1, <3>1 DEF DisplayInv, Typed, Sane
    <3>3. QED
      BY <2>1, <3>2 DEF DisplayInv, SettingUpOrDone, Settled
<1>9. CASE Restart
  <2>1. /\ phase' = "bus" /\ bus' = FALSE /\ todo' = <<>> /\ buf' \in Buffers /\ calls' = 0
        /\ clean' = FALSE /\ refreshed' = NONE /\ UNCHANGED <<panel, lost>>
    BY <1>0, <1>9 DEF Restart
  <2>2. QED
    <3>1. 0 \in 0..MaxCalls
      BY BoundAssumption
    <3>2. Typed'
      BY <2>1, <3>1 DEF DisplayInv, Typed, Sane
    <3>3. QED
      BY <2>1, <3>2 DEF DisplayInv, SettingUpOrDone, Settled
<1>10. QED
  BY <1>1, <1>2, <1>3, <1>4, <1>5, <1>6, <1>7, <1>8, <1>9 DEF Next, AppMain

(* So it holds always.                                                     *)
LEMMA Invariance == Spec => []DisplayInv
<1>1. Init => DisplayInv
  BY InitInv
<1>2. DisplayInv /\ [Next]_vars => DisplayInv'
  BY NextInv
<1>3. QED
  BY <1>1, <1>2, PTL DEF Spec

(* The types follow from it.                                               *)
LEMMA InvTyped == DisplayInv => TypeOK
<1> SUFFICES ASSUME DisplayInv PROVE TypeOK
  OBVIOUS
<1>1. Sane(panel) /\ buf \subseteq Cells(Screen)
  BY DEF DisplayInv, Typed, Buffers
<1>2. panel \in Panel /\ Len(panel.pending) <= 2
  <2> DEFINE left == panel.pending
  <2>1. panel \in Panel /\ Waiting(left) /\ left \in Seq(Octet)
    BY <1>1, PanelFields DEF Sane
  <2> HIDE DEF left
  <2>2. Len(left) <= 2
    BY <2>1, ArgumentCount DEF Waiting
  <2>3. QED
    BY <2>1, <2>2 DEF left
<1>3. todo = <<>> \/ \E k \in 1..Len(InitCommands) :
                       todo = SubSeq(InitCommands, k, Len(InitCommands))
  <2>1. CASE todo = <<>>
    BY <2>1
  <2>2. CASE todo # <<>>
    <3>1. PICK k \in 0..23 : todo = Rest(k)
      BY <2>2 DEF DisplayInv, SettingUpOrDone
    <3>2. Len(InitCommands) = 24 /\ k + 1 \in 1..24
      BY Commands
    <3>3. todo = SubSeq(InitCommands, k + 1, Len(InitCommands))
      BY <3>1, <3>2 DEF Rest
    <3>4. QED
      BY <3>2, <3>3
  <2>3. QED
    BY <2>1, <2>2
<1>4. QED
  <2>1. /\ phase \in {"bus", "create", "again", "draw", "refresh", "running", "deleted"}
        /\ bus \in BOOLEAN /\ clean \in BOOLEAN
        /\ calls \in 0..MaxCalls /\ lost \in 0..MaxLost
    BY Zenon DEF DisplayInv, Typed
  <2>2. refreshed \in {NONE} \cup Buffers
    BY Zenon DEF DisplayInv, Typed
  <2>3. QED
    BY <1>1, <1>2, <1>3, <2>1, <2>2, Zenon DEF TypeOK, Buffers

(* A panel that is ready shows each bit of its memory where it was drawn.  *)
LEMMA ReadyShows ==
  ASSUME NEW p, Ready(p)
  PROVE  Shown(p) = {q \in Screen : Cell(q) \in p.ram}
<1>1. /\ p.set.on /\ p.set.pump /\ p.set.pins /\ p.set.mux = HEIGHT - 1
      /\ p.set.mirrored /\ ~p.set.flipped /\ p.set.start = 0
      /\ p.set.all = FALSE /\ p.set.inverse = FALSE
  BY DEF Ready
<1>2. Shown(p) = {q \in Screen : Lit(p, q[1], q[2])}
  BY <1>1 DEF Shown
<1>3. ASSUME NEW q \in Screen PROVE Lit(p, q[1], q[2]) <=> Cell(q) \in p.ram
  <2> DEFINE x == q[1]
             y == q[2]
             row == (HEIGHT - 1 - y + 0) % HEIGHT
             cell == <<x, row \div 8, row % 8>>
  <2>1. x \in 0..(WIDTH - 1) /\ y \in 0..(HEIGHT - 1)
    BY DEF Screen
  <2>2. row = HEIGHT - 1 - y
    BY <2>1, ScreenSizes
  <2>3. row \div 8 = PAGES - 1 - (y \div 8) /\ row % 8 = 7 - (y % 8)
    BY <2>1, <2>2, ScreenSizes
  <2>4. cell = Cell(q)
    BY <2>3 DEF Cell
  <2>5. Lit(p, x, y) <=> (p.set.all \/ IF p.set.inverse THEN cell \notin p.ram ELSE cell \in p.ram)
    BY <1>1 DEF Lit
  <2> HIDE DEF x, y, row, cell
  <2>6. Lit(p, x, y) <=> cell \in p.ram
    BY <1>1, <2>5, Zenon
  <2>7. QED
    BY <2>4, <2>6 DEF x, y
<1>4. QED
  BY <1>2, <1>3

(* The driver's buffer, the panel's memory, settings and place and the     *)
(* bookkeeping of ssd1306_init keep their types, whatever is drawn or      *)
(* lost.                                                                   *)
THEOREM TypeCorrect == Spec => []TypeOK
BY Invariance, InvTyped, PTL

(* What was refreshed last is in the memory of a panel that is ready.      *)
LEMMA InvShows == DisplayInv => ShowsLastRefresh
<1> SUFFICES ASSUME DisplayInv, clean, todo = <<>>, refreshed # NONE
             PROVE  Shown(panel) = {p \in Screen : Cell(p) \in refreshed}
  BY DEF ShowsLastRefresh
<1>1. Ready(panel) /\ panel.ram = refreshed
  BY DEF DisplayInv, Settled
<1>2. QED
  BY <1>1, ReadyShows

(* Once ssd1306_init went through without a loss, the panel shows the      *)
(* buffer as of the last refresh, whatever an earlier boot left in it.     *)
THEOREM LastRefreshShown == Spec => []ShowsLastRefresh
BY Invariance, InvShows, PTL

-----------------------------------------------------------------------------
(* ssd1306_draw_line.                                                      *)

(* ssd1306_draw_line step by step: b and its share after each of them.     *)
Traced(at, b, goal, long, short) ==
  at = [k \in 0..long |-> Advance(IF k = 0 THEN [b |-> b, diff |-> short] ELSE at[k - 1],
                                  long, short, goal)]

(* Where b stands, and what its shares add up to.                          *)
Shares == [b : Int, diff : Int]

(* A step keeps to numbers,                                                *)
LEMMA AdvanceType ==
  ASSUME NEW s \in Shares, NEW long \in Int, NEW short \in Int, NEW goal \in Int
  PROVE  /\ Advance(s, long, short, goal) \in Shares
         /\ Advance(s, long, short, goal).b = (IF s.diff < long THEN s.b
                                               ELSE IF s.b < goal THEN s.b + 1 ELSE s.b - 1)
         /\ Advance(s, long, short, goal).diff = s.diff - (IF s.diff < long THEN 0 ELSE long) + short
<1> DEFINE moves == s.diff >= long
           b == IF ~moves THEN s.b ELSE IF s.b < goal THEN s.b + 1 ELSE s.b - 1
           diff == s.diff - (IF moves THEN long ELSE 0) + short
<1>1. s.b \in Int /\ s.diff \in Int
  BY DEF Shares
<1>2. /\ b \in Int /\ diff \in Int
      /\ b = IF s.diff < long THEN s.b ELSE IF s.b < goal THEN s.b + 1 ELSE s.b - 1
      /\ diff = s.diff - (IF s.diff < long THEN 0 ELSE long) + short
  BY <1>1
<1>3. Advance(s, long, short, goal) = [b |-> b, diff |-> diff]
  BY DEF Advance
<1> HIDE DEF b, diff
<1>4. QED
  BY <1>2, <1>3 DEF Shares

(* so there are such steps for every line,                                 *)
LEMMA TracedExists ==
  ASSUME NEW b \in Int, NEW goal \in Int, NEW long \in Nat, NEW short \in Int
  PROVE  \E at \in [0..long -> Shares] : Traced(at, b, goal, long, short)
<1> DEFINE Step(v) == Advance(v, long, short, goal)
           first == Step([b |-> b, diff |-> short])
           G == [k \in 1..long |-> [v \in Shares |-> Step(v)]]
<1>1. [b |-> b, diff |-> short] \in Shares
  BY DEF Shares
<1>2. first \in Shares /\ G \in [1..long -> [Shares -> Shares]]
  BY <1>1, AdvanceType
<1>3. \A v \in Shares, k \in 1..long : G[k][v] = Step(v)
  OBVIOUS
<1> HIDE DEF Step, G
<1>4. PICK f \in [0..long -> Shares] : Iterates(f, first, G, long)
  BY <1>2, Iteration
<1>5. f[0] = first /\ \A k \in 1..long : f[k] = G[k][f[k - 1]]
  BY <1>4 DEF Iterates
<1>6. \A k \in 1..long : f[k - 1] \in Shares
  OBVIOUS
<1>7. \A k \in 1..long : f[k] = Step(f[k - 1])
  BY <1>3, <1>5, <1>6
<1>8. f = [k \in 0..long |-> Step(IF k = 0 THEN [b |-> b, diff |-> short] ELSE f[k - 1])]
  BY <1>5, <1>7
<1>9. Traced(f, b, goal, long, short)
  BY <1>8 DEF Traced, Step
<1>10. QED
  BY <1>9

(* The points of a line, in order.                                         *)
Listed(line, f, long) == line = {f[k] : k \in 0..long}

(* The points passed from a on.                                            *)
Dots(at, a, long) == [k \in 0..long |-> <<a + k, at[k].b>>]

(* and Trace lists the points they pass.                                   *)
LEMMA TraceIs ==
  ASSUME NEW a1 \in Int, NEW b1 \in Int, NEW a2 \in Int, NEW b2 \in Int,
         NEW long, long = Abs(a1 - a2), NEW short, short = Abs(b1 - b2),
         NEW a, a = (IF a1 > a2 THEN a2 ELSE a1), NEW b, b = (IF a1 > a2 THEN b2 ELSE b1),
         NEW goal, goal = (IF a1 > a2 THEN b1 ELSE b2)
  PROVE  \E at \in [0..long -> Shares] :
           /\ Traced(at, b, goal, long, short)
           /\ Listed(Trace(a1, b1, a2, b2), Dots(at, a, long), long)
<1> DEFINE at == CHOOSE at : Traced(at, b, goal, long, short)

<1>1. long \in Nat /\ short \in Int /\ b \in Int /\ goal \in Int
  BY DEF Abs
<1>2. Trace(a1, b1, a2, b2) = {<<a + k, at[k].b>> : k \in 0..long}
  BY DEF Trace, Traced, Length
<1>3. PICK f \in [0..long -> Shares] : Traced(f, b, goal, long, short)
  BY <1>1, TracedExists
<1>4. Traced(at, b, goal, long, short)
  BY <1>3
<1> HIDE DEF at
<1>5. at \in [0..long -> Shares]
  <2> DEFINE S == {k \in 0..long : at[k] \notin Shares}
  <2>1. at = [k \in 0..long |-> Advance(IF k = 0 THEN [b |-> b, diff |-> short] ELSE at[k - 1],
                                        long, short, goal)]
    BY <1>4 DEF Traced
  <2>2. S = {}
    <3>1. SUFFICES ASSUME S # {} PROVE FALSE
      OBVIOUS
    <3>2. PICK k \in S : \A j \in S : k <= j
      <4>1. S \in SUBSET Nat
        BY <1>1
      <4>2. QED
        BY <3>1, <4>1, HasLeast
    <3> DEFINE v == IF k = 0 THEN [b |-> b, diff |-> short] ELSE at[k - 1]
    <3>3. at[k] = Advance(v, long, short, goal)
      BY <2>1
    <3>4. v \in Shares
      <4>1. CASE k = 0
        BY <1>1, <4>1 DEF Shares
      <4>2. CASE k # 0
        <5>1. k - 1 \in 0..long /\ k - 1 \notin S
          BY <1>1, <3>2, <4>2
        <5>2. QED
          BY <4>2, <5>1
      <4>3. QED
        BY <4>1, <4>2
    <3> HIDE DEF v
    <3>5. QED
      BY <1>1, <3>2, <3>3, <3>4, AdvanceType
  <2>3. \A k \in 0..long : at[k] \in Shares
    BY <2>2
  <2>4. DOMAIN at = 0..long /\ at = [k \in 0..long |-> at[k]]
    BY <2>1
  <2>5. QED
    BY <2>3, <2>4
<1>6. Listed(Trace(a1, b1, a2, b2), Dots(at, a, long), long)
  BY <1>2 DEF Listed, Dots
<1>7. QED
  BY <1>4, <1>5, <1>6

(* Of two multiples of a number, the smaller has fewer of it.              *)
LEMMA Smaller ==
  ASSUME NEW x \in Int, NEW y \in Int, NEW l \in Int, l > 0, x * l < (y + 1) * l
  PROVE  x <= y
<1>1. SUFFICES ASSUME x >= y + 1 PROVE FALSE
  OBVIOUS
<1>2. (x - (y + 1)) * l >= 0
  BY <1>1
<1>3. x * l - (y + 1) * l >= 0
  BY <1>2
<1>4. x * l \in Int /\ (y + 1) * l \in Int
  OBVIOUS
<1>5. QED
  BY <1>3, <1>4

(* After k + 1 steps b has made m of its own, and what is left of its      *)
(* shares is less than a step.                                             *)
Even(s, m, k, b, goal, long, short) ==
  /\ m \in 0..short
  /\ s.b = (IF b < goal THEN b + m ELSE b - m)
  /\ s.diff = (k + 2) * short - m * long
  /\ s.diff - short \in 0..(long - 1)

(* The next step keeps it so, as long as the shorter axis is the shorter.  *)
LEMMA EvenNext ==
  ASSUME NEW s \in Shares, NEW b \in Int, NEW goal \in Int, NEW long \in Nat, NEW short \in Nat,
         short = Abs(b - goal), short < long, NEW k \in -1..(long - 1), NEW m \in Int,
         Even(s, m, k, b, goal, long, short)
  PROVE  \E n \in {m, m + 1} : Even(Advance(s, long, short, goal), n, k + 1, b, goal, long, short)
<1> DEFINE t == Advance(s, long, short, goal)
<1>1. /\ t \in Shares
      /\ t.b = (IF s.diff < long THEN s.b ELSE IF s.b < goal THEN s.b + 1 ELSE s.b - 1)
      /\ t.diff = s.diff - (IF s.diff < long THEN 0 ELSE long) + short
  BY AdvanceType
<1> HIDE DEF t
<1>2. s.b \in Int /\ s.diff \in Int
  BY DEF Shares
<1>3. /\ m \in 0..short /\ s.b = (IF b < goal THEN b + m ELSE b - m)
      /\ s.diff = (k + 2) * short - m * long /\ s.diff - short \in 0..(long - 1)
  BY DEF Even
<1>4. CASE s.diff < long
  <2>1. t.b = s.b /\ t.diff = s.diff + short
    BY <1>1, <1>2, <1>4
  <2>2. (k + 1 + 2) * short - m * long = (k + 2) * short - m * long + short
    OBVIOUS
  <2>3. t.diff = (k + 1 + 2) * short - m * long
    BY <1>3, <2>1, <2>2
  <2>4. t.diff - short \in 0..(long - 1)
    BY <1>2, <1>3, <1>4, <2>1
  <2>5. Even(t, m, k + 1, b, goal, long, short)
    BY <1>3, <2>1, <2>3, <2>4 DEF Even
  <2>6. QED
    BY <2>5 DEF t
<1>5. CASE ~(s.diff < long)
  <2>1. m + 1 <= short
    <3>1. (m + 1) * long <= (k + 2) * short
      <4>1. (m + 1) * long = m * long + long
        OBVIOUS
      <4>2. (k + 2) * short \in Int /\ m * long \in Int
        OBVIOUS
      <4>3. QED
        BY <1>2, <1>3, <1>5, <4>1, <4>2
    <3>2. (k + 2) * short <= (long + 1) * short
      <4>1. (long - 1 - k) * short >= 0
        OBVIOUS
      <4>2. (long + 1) * short - (k + 2) * short = (long - 1 - k) * short
        OBVIOUS
      <4>3. (k + 2) * short \in Int /\ (long + 1) * short \in Int
        OBVIOUS
      <4>4. QED
        BY <4>1, <4>2, <4>3
    <3>3. (long + 1) * short < (short + 1) * long
      <4>1. (long + 1) * short = long * short + short /\ (short + 1) * long = long * short + long
        OBVIOUS
      <4>2. long * short \in Int
        OBVIOUS
      <4>3. QED
        BY <4>1, <4>2
    <3>4. (m + 1) * long < (short + 1) * long
      <4>1. (m + 1) * long \in Int /\ (k + 2) * short \in Int /\ (long + 1) * short \in Int
            /\ (short + 1) * long \in Int
        OBVIOUS
      <4>2. QED
        BY <3>1, <3>2, <3>3, <4>1
    <3>5. QED
      BY <3>4, Smaller
  <2>2. t.diff = s.diff - long + short
    BY <1>1, <1>2, <1>5
  <2>3. t.b = IF b < goal THEN b + (m + 1) ELSE b - (m + 1)
    <3>1. CASE b < goal
      <4>1. goal = b + short
        BY <3>1 DEF Abs
      <4>2. s.b < goal
        BY <1>3, <2>1, <3>1, <4>1
      <4>3. QED
        BY <1>1, <1>3, <1>5, <3>1, <4>2
    <3>2. CASE ~(b < goal)
      <4>1. goal = b - short
        BY <3>2 DEF Abs
      <4>2. ~(s.b < goal)
        BY <1>3, <2>1, <3>2, <4>1
      <4>3. QED
        BY <1>1, <1>3, <1>5, <3>2, <4>2
    <3>3. QED
      BY <3>1, <3>2
  <2>4. (k + 1 + 2) * short - (m + 1) * long = (k + 2) * short - m * long - long + short
    OBVIOUS
  <2>5. t.diff = (k + 1 + 2) * short - (m + 1) * long
    BY <1>3, <2>2, <2>4
  <2>6. t.diff - short \in 0..(long - 1)
    BY <1>2, <1>3, <1>5, <2>2
  <2>7. m + 1 \in 0..short
    BY <1>3, <2>1
  <2>8. Even(t, m + 1, k + 1, b, goal, long, short)
    BY <2>3, <2>5, <2>6, <2>7 DEF Even
  <2>9. QED
    BY <2>8 DEF t
<1>6. QED
  BY <1>4, <1>5

(* Along the line, b moves from one end to the other, by at most one step  *)
(* at a time and never back.                                               *)
Straight(m, long, short) ==
  /\ m \in [0..long -> 0..short] /\ m[0] = 0 /\ m[long] = short
  /\ \A k \in 0..(long - 1) : m[k + 1] \in {m[k], m[k] + 1}

Follows(at, m, b, goal, long) ==
  \A k \in 0..long : at[k].b = IF b < goal THEN b + m[k] ELSE b - m[k]

(* That is how draw_line's steps go.                                       *)
LEMMA TracedStraight ==
  ASSUME NEW b \in Int, NEW goal \in Int, NEW long \in Nat, NEW short \in Nat,
         short = Abs(b - goal), short < long,
         NEW at \in [0..long -> Shares], Traced(at, b, goal, long, short)
  PROVE  \E m : Straight(m, long, short) /\ Follows(at, m, b, goal, long)
<1> DEFINE E(s, n, k) == Even(s, n, k, b, goal, long, short)
           Step(s) == Advance(s, long, short, goal)
           first == [b |-> b, diff |-> short]
<1>1. first \in Shares /\ E(first, 0, -1)
  <2>1. (-1 + 2) * short - 0 * long = short
    OBVIOUS
  <2>2. short - short \in 0..(long - 1) /\ 0 \in 0..short
    OBVIOUS
  <2>3. QED
    BY <2>1, <2>2 DEF Shares, Even
<1>2. at[0] = Step(first) /\ \A k \in 0..(long - 1) : at[k + 1] = Step(at[k])
  <2>1. at = [k \in 0..long |-> Step(IF k = 0 THEN first ELSE at[k - 1])]
    BY DEF Traced
  <2> HIDE DEF Step, first
  <2>2. 0 \in 0..long
    OBVIOUS
  <2>3. at[0] = Step(IF 0 = 0 THEN first ELSE at[0 - 1])
    BY <2>1, <2>2
  <2>4. ASSUME NEW k \in 0..(long - 1) PROVE at[k + 1] = Step(at[k])
    <3>1. k + 1 \in 0..long /\ k + 1 # 0 /\ (k + 1) - 1 = k
      OBVIOUS
    <3>2. at[k + 1] = Step(IF k + 1 = 0 THEN first ELSE at[(k + 1) - 1])
      BY <2>1, <3>1
    <3>3. QED
      BY <3>1, <3>2
  <2>5. QED
    BY <2>3, <2>4
<1>3. ASSUME NEW s \in Shares, NEW k \in -1..(long - 1), NEW n \in Int, E(s, n, k)
      PROVE  \E i \in {n, n + 1} : E(Step(s), i, k + 1)
  BY <1>3, EvenNext
<1> HIDE DEF E, Step, first
<1> DEFINE S == {k \in 0..long : ~ \E n \in Int : E(at[k], n, k)}
<1>4. \E n \in Int : E(at[0], n, 0)
  <2>1. \E i \in {0, 0 + 1} : E(Step(first), i, -1 + 1)
    <3>1. -1 \in -1..(long - 1) /\ 0 \in Int
      OBVIOUS
    <3>2. QED
      BY <1>1, <1>3, <3>1
  <2>2. -1 + 1 = 0
    OBVIOUS
  <2>3. QED
    BY <1>2, <2>1, <2>2
<1>5. S = {}
  <2>1. SUFFICES ASSUME S # {} PROVE FALSE
    OBVIOUS
  <2>2. PICK k \in S : \A j \in S : k <= j
    <3>1. S \in SUBSET Nat
      OBVIOUS
    <3>2. QED
      BY <2>1, <3>1, HasLeast
  <2>3. PICK j \in 0..(long - 1) : k = j + 1
    BY <1>4, <2>2
  <2>4. j \in 0..long /\ j \notin S
    BY <2>2, <2>3
  <2>5. PICK n \in Int : E(at[j], n, j)
    BY <2>4
  <2>6. j \in -1..(long - 1) /\ at[j] \in Shares
    BY <2>4
  <2>7. \E i \in {n, n + 1} : E(Step(at[j]), i, j + 1)
    BY <1>3, <2>5, <2>6
  <2>8. \E i \in Int : E(at[k], i, k)
    BY <1>2, <2>3, <2>7
  <2>9. QED
    BY <2>2, <2>8
<1>6. \A k \in 0..long : \E n \in Int : E(at[k], n, k)
  BY <1>5
<1> DEFINE m == [k \in 0..long |-> IF b < goal THEN at[k].b - b ELSE b - at[k].b]
<1>7. ASSUME NEW k \in 0..long, NEW n \in Int, E(at[k], n, k)
      PROVE  n = m[k] /\ n \in 0..short /\ at[k].b = IF b < goal THEN b + n ELSE b - n
  <2>1. n \in 0..short /\ at[k].b = IF b < goal THEN b + n ELSE b - n
    BY <1>7 DEF E, Even
  <2>2. m[k] = IF b < goal THEN at[k].b - b ELSE b - at[k].b
    OBVIOUS
  <2> DEFINE c == at[k].b
             i == m[k]
  <2>3. n \in Int /\ c = (IF b < goal THEN b + n ELSE b - n)
        /\ i = (IF b < goal THEN c - b ELSE b - c)
    BY <2>1, <2>2
  <2> HIDE DEF c, i, m
  <2>4. n = i
    BY <2>3
  <2>5. QED
    BY <2>1, <2>4 DEF i
<1>8. \A k \in 0..long : E(at[k], m[k], k)
  BY <1>6, <1>7
<1>9. m \in [0..long -> 0..short]
  BY <1>6, <1>7
<1>10. \A k \in 0..long : at[k].b = IF b < goal THEN b + m[k] ELSE b - m[k]
  BY <1>6, <1>7
<1> HIDE DEF m
<1>11. \A k \in 0..(long - 1) : m[k + 1] \in {m[k], m[k] + 1}
  <2> TAKE k \in 0..(long - 1)
  <2>1. k \in 0..long /\ k + 1 \in 0..long /\ k \in -1..(long - 1)
    OBVIOUS
  <2>2. at[k] \in Shares /\ m[k] \in Int /\ E(at[k], m[k], k)
    BY <1>8, <1>9, <2>1
  <2>3. PICK i \in {m[k], m[k] + 1} : E(Step(at[k]), i, k + 1)
    BY <1>3, <2>1, <2>2
  <2>4. i \in Int /\ E(at[k + 1], i, k + 1)
    BY <1>2, <2>2, <2>3
  <2>5. i = m[k + 1]
    BY <1>7, <2>1, <2>4
  <2>6. QED
    BY <2>3, <2>5
<1>12. m[0] = 0
  <2>1. E(at[0], m[0], 0) /\ m[0] \in 0..short
    BY <1>8, <1>9
  <2>2. (0 + 2) * short - m[0] * long - short >= 0
    BY <2>1 DEF E, Even
  <2>3. m[0] * long < (0 + 1) * long
    <3>1. m[0] * long \in Int
      BY <2>1
    <3>2. QED
      BY <2>2, <3>1
  <2>4. m[0] <= 0
    BY <2>1, <2>3, Smaller
  <2>5. QED
    BY <2>1, <2>4
<1>13. m[long] = short
  <2>1. E(at[long], m[long], long) /\ m[long] \in 0..short
    BY <1>8, <1>9
  <2>2. (long + 2) * short - m[long] * long - short <= long - 1
    BY <2>1 DEF E, Even
  <2>3. short * long < (m[long] + 1) * long
    <3>1. m[long] * long \in Int /\ short * long \in Int
      BY <2>1
    <3>2. (m[long] + 1) * long = m[long] * long + long
      BY <2>1
    <3>3. (long + 2) * short = short * long + 2 * short
      OBVIOUS
    <3> DEFINE A == m[long] * long
               B == short * long
               C == (long + 2) * short
               D == (m[long] + 1) * long
    <3>4. A \in Int /\ B \in Int /\ D = A + long /\ C = B + 2 * short /\ C - A - short <= long - 1
      BY <2>2, <3>1, <3>2, <3>3
    <3> HIDE DEF A, B, C, D
    <3>5. B < D
      BY <3>4
    <3>6. QED
      BY <3>5 DEF B, D
  <2>4. short <= m[long]
    BY <2>1, <2>3, Smaller
  <2>5. QED
    BY <2>1, <2>4
<1>14. Straight(m, long, short)
  BY <1>9, <1>11, <1>12, <1>13 DEF Straight
<1>15. Follows(at, m, b, goal, long)
  BY <1>10 DEF Follows
<1>16. QED
  BY <1>14, <1>15

(* Nowhere is b further from an end than a is.                             *)
LEMMA Slope ==
  ASSUME NEW long \in Nat, NEW short \in Nat, NEW m, Straight(m, long, short)
  PROVE  \A k \in 0..long : m[k] <= k /\ short - m[k] <= long - k
<1>0. /\ \A k \in 0..long : m[k] \in 0..short
      /\ \A k \in 0..(long - 1) : m[k + 1] = m[k] \/ m[k + 1] = m[k] + 1
      /\ m[0] = 0 /\ m[long] = short
  BY DEF Straight
<1> DEFINE S == {k \in 0..long : ~(m[k] <= k)}
           T == {j \in 0..long : ~(short - m[long - j] <= j)}
<1>1. S = {}
  <2>1. SUFFICES ASSUME S # {} PROVE FALSE
    OBVIOUS
  <2>2. PICK k \in S : \A j \in S : k <= j
    <3>1. S \in SUBSET Nat
      OBVIOUS
    <3>2. QED
      BY <2>1, <3>1, HasLeast
  <2>3. PICK j \in 0..(long - 1) : k = j + 1
    BY <1>0, <2>2
  <2>4. j \in 0..long /\ j \notin S
    BY <2>2, <2>3
  <2>5. m[j] <= j /\ m[j] \in Int
    BY <1>0, <2>4
  <2>6. m[k] <= k
    BY <1>0, <2>3, <2>5
  <2>7. QED
    BY <2>2, <2>6
<1>2. T = {}
  <2>1. SUFFICES ASSUME T # {} PROVE FALSE
    OBVIOUS
  <2>2. PICK k \in T : \A j \in T : k <= j
    <3>1. T \in SUBSET Nat
      OBVIOUS
    <3>2. QED
      BY <2>1, <3>1, HasLeast
  <2>3. k # 0
    <3>1. long - 0 = long
      OBVIOUS
    <3>2. QED
      BY <1>0, <2>2, <3>1
  <2>4. PICK j \in 0..(long - 1) : k = j + 1
    BY <2>2, <2>3
  <2>5. j \in 0..long /\ j \notin T
    BY <2>2, <2>4
  <2> DEFINE i == long - k
  <2>6. i \in 0..(long - 1) /\ i \in 0..long /\ i + 1 = long - j /\ i + 1 \in 0..long
    BY <2>2, <2>4
  <2>7. short - m[i + 1] <= j
    BY <2>5, <2>6
  <2> HIDE DEF i
  <2>8. short - m[i] <= k
    BY <1>0, <2>4, <2>6, <2>7
  <2>9. QED
    BY <2>2, <2>8 DEF i
<1>3. ASSUME NEW k \in 0..long PROVE m[k] <= k /\ short - m[k] <= long - k
  <2>1. m[k] <= k
    BY <1>1
  <2>2. long - k \in 0..long /\ long - (long - k) = k
    OBVIOUS
  <2>3. ~(long - k \in T)
    BY <1>2
  <2>4. short - m[k] <= long - k
    BY <2>2, <2>3
  <2>5. QED
    BY <2>1, <2>4
<1>4. QED
  BY <1>3

(* The k-th point of a line.                                               *)
PointAt(a, b, goal, m, k) == <<a + k, IF b < goal THEN b + m[k] ELSE b - m[k]>>

(* All of them, in order.                                                  *)
PointsOf(P, m, a, b, goal, long) == P = [k \in 0..long |-> PointAt(a, b, goal, m, k)]

(* How far two points are from each other, of which one coordinate is not  *)
(* further than the other.                                                 *)
LEMMA DistanceIs ==
  ASSUME NEW x1 \in Int, NEW y1 \in Int, NEW x2 \in Int, NEW y2 \in Int
  PROVE  Distance(<<x1, y1>>, <<x2, y2>>)
           = IF Abs(x1 - x2) < Abs(y1 - y2) THEN Abs(y1 - y2) ELSE Abs(x1 - x2)
<1> DEFINE p == <<x1, y1>>
           q == <<x2, y2>>
<1>1. p[1] = x1 /\ p[2] = y1 /\ q[1] = x2 /\ q[2] = y2
  OBVIOUS
<1> HIDE DEF p, q
<1>2. Distance(p, q) = IF Abs(x1 - x2) < Abs(y1 - y2) THEN Abs(y1 - y2) ELSE Abs(x1 - x2)
  BY <1>1 DEF Distance
<1>3. QED
  BY <1>2 DEF p, q

(* Each of its points is a step from the next, and as far from the ends as *)
(* there are steps between.                                                *)
Paced(P, a, b, goal, long) ==
  /\ P[0] = <<a, b>> /\ P[long] = <<a + long, goal>>
  /\ \A k \in 0..long : /\ P[k][1] = a + k /\ P[k] \in Int \X Int
                        /\ Distance(P[k], P[0]) = k
                        /\ Distance(P[k], P[long]) = long - k
  /\ \A k \in 0..(long - 1) : Distance(P[k], P[k + 1]) = 1 /\ Distance(P[k + 1], P[k]) = 1

(* The points of a straight line are such.                                 *)
LEMMA AlongLine ==
  ASSUME NEW a \in Int, NEW b \in Int, NEW goal \in Int, NEW long \in Nat, NEW short \in Nat,
         short = Abs(b - goal), short < long, NEW m, Straight(m, long, short),
         NEW P, PointsOf(P, m, a, b, goal, long)
  PROVE  Paced(P, a, b, goal, long)
<1> DEFINE y(k) == IF b < goal THEN b + m[k] ELSE b - m[k]
<1>1. /\ \A k \in 0..long : m[k] \in 0..short
      /\ \A k \in 0..(long - 1) : m[k + 1] = m[k] \/ m[k + 1] = m[k] + 1
      /\ m[0] = 0 /\ m[long] = short
  BY DEF Straight
<1>2. y(0) = b /\ y(long) = goal
  BY <1>1 DEF Abs
<1>3. \A k \in 0..long : y(k) \in Int /\ Abs(y(k) - b) = m[k] /\ Abs(y(k) - goal) = short - m[k]
  BY <1>1 DEF Abs
<1>4. \A k \in 0..(long - 1) : Abs(y(k) - y(k + 1)) \in 0..1 /\ Abs(y(k + 1) - y(k)) \in 0..1
  <2> TAKE k \in 0..(long - 1)
  <2>1. k \in 0..long /\ k + 1 \in 0..long
    OBVIOUS
  <2>2. m[k] \in Int /\ (m[k + 1] = m[k] \/ m[k + 1] = m[k] + 1)
    BY <1>1, <2>1
  <2>3. QED
    BY <2>2 DEF Abs
<1>5. \A k \in 0..long : P[k] = <<a + k, y(k)>>
  BY DEF PointAt, PointsOf
<1> HIDE DEF y
<1>6. P[0] = <<a, b>> /\ P[long] = <<a + long, goal>>
  <2>1. 0 \in 0..long /\ long \in 0..long /\ a + 0 = a
    OBVIOUS
  <2>2. QED
    BY <1>2, <1>5, <2>1
<1>7. ASSUME NEW k \in 0..long
      PROVE  /\ P[k][1] = a + k /\ P[k] \in Int \X Int
             /\ Distance(P[k], P[0]) = k /\ Distance(P[k], P[long]) = long - k
  <2>1. y(k) \in Int /\ Abs(y(k) - b) = m[k] /\ Abs(y(k) - goal) = short - m[k]
    BY <1>3
  <2>2. m[k] \in 0..short /\ m[k] <= k /\ short - m[k] <= long - k
    BY <1>1, Slope
  <2>3. Abs((a + k) - a) = k /\ Abs((a + k) - (a + long)) = long - k
    BY DEF Abs
  <2>4. Distance(<<a + k, y(k)>>, <<a, b>>) = k
    <3>1. Distance(<<a + k, y(k)>>, <<a, b>>)
            = IF Abs((a + k) - a) < Abs(y(k) - b) THEN Abs(y(k) - b) ELSE Abs((a + k) - a)
      BY <2>1, DistanceIs
    <3>2. QED
      BY <2>1, <2>2, <2>3, <3>1
  <2>5. Distance(<<a + k, y(k)>>, <<a + long, goal>>) = long - k
    <3>1. Distance(<<a + k, y(k)>>, <<a + long, goal>>)
            = IF Abs((a + k) - (a + long)) < Abs(y(k) - goal)
              THEN Abs(y(k) - goal) ELSE Abs((a + k) - (a + long))
      BY <2>1, DistanceIs
    <3>2. QED
      BY <2>1, <2>2, <2>3, <3>1
  <2>6. P[k] = <<a + k, y(k)>>
    BY <1>5
  <2>7. QED
    BY <1>6, <2>1, <2>4, <2>5, <2>6
<1>8. ASSUME NEW k \in 0..(long - 1)
      PROVE  Distance(P[k], P[k + 1]) = 1 /\ Distance(P[k + 1], P[k]) = 1
  <2>1. k \in 0..long /\ k + 1 \in 0..long
    OBVIOUS
  <2>2. y(k) \in Int /\ y(k + 1) \in Int
    BY <1>3, <2>1
  <2>3. Abs((a + k) - (a + (k + 1))) = 1 /\ Abs((a + (k + 1)) - (a + k)) = 1
    <3>1. (a + k) - (a + (k + 1)) = 0 - 1 /\ (a + (k + 1)) - (a + k) = 1
      OBVIOUS
    <3>2. \A n \in Int : n = 1 \/ n = 0 - 1 => Abs(n) = 1
      BY DEF Abs
    <3>3. QED
      BY <3>1, <3>2
  <2>4. Distance(<<a + k, y(k)>>, <<a + (k + 1), y(k + 1)>>) = 1
    <3>1. Distance(<<a + k, y(k)>>, <<a + (k + 1), y(k + 1)>>)
            = IF Abs((a + k) - (a + (k + 1))) < Abs(y(k) - y(k + 1))
              THEN Abs(y(k) - y(k + 1)) ELSE Abs((a + k) - (a + (k + 1)))
      BY <2>2, DistanceIs
    <3>2. QED
      BY <1>4, <2>3, <3>1
  <2>5. Distance(<<a + (k + 1), y(k + 1)>>, <<a + k, y(k)>>) = 1
    <3>1. Distance(<<a + (k + 1), y(k + 1)>>, <<a + k, y(k)>>)
            = IF Abs((a + (k + 1)) - (a + k)) < Abs(y(k + 1) - y(k))
              THEN Abs(y(k + 1) - y(k)) ELSE Abs((a + (k + 1)) - (a + k))
      BY <2>2, DistanceIs
    <3>2. QED
      BY <1>4, <2>3, <3>1
  <2>6. P[k] = <<a + k, y(k)>> /\ P[k + 1] = <<a + (k + 1), y(k + 1)>>
    BY <1>5, <2>1
  <2>7. QED
    BY <2>4, <2>5, <2>6
<1>9. QED
  BY <1>6, <1>7, <1>8 DEF Paced

(* A line is a set of points that joins its ends.                          *)
JoinsEnds(line, p, q) ==
  /\ {p, q} \subseteq line
  /\ Cardinality(line) = Distance(p, q) + 1
  /\ \A t \in line \ {p} : \E u \in line :
       Distance(t, u) = 1 /\ Distance(u, p) = Distance(t, p) - 1

(* The k-th point is k columns from a.                                     *)
Leads(f, a, long) == \A k \in 0..long : f[k][1] = a + k

(* So it has one point for each of them.                                   *)
LEMMA LineSize ==
  ASSUME NEW a \in Int, NEW long \in Nat, NEW f, Leads(f, a, long), NEW line, Listed(line, f, long)
  PROVE  IsFiniteSet(line) /\ Cardinality(line) = long + 1
<1> DEFINE K == 0..long
           g == [k \in K |-> f[k]]
<1>1. IsFiniteSet(K) /\ Cardinality(K) = long + 1
  BY FS_Interval
<1>2. g \in [K -> line] /\ \A t \in line : \E k \in K : g[k] = t
  BY DEF Listed
<1>3. ASSUME NEW i \in K, NEW j \in K, g[i] = g[j] PROVE i = j
  <2>1. f[i] = f[j]
    BY <1>3
  <2>2. a + i = a + j
    BY <2>1 DEF Leads
  <2>3. QED
    BY <2>2
<1> HIDE DEF K, g
<1>4. g \in Injection(K, line)
  <2>1. DOMAIN g = K
    BY <1>2
  <2>2. IsInjective(g)
    BY <1>3, <2>1 DEF IsInjective
  <2>3. QED
    BY <1>2, <2>2 DEF Injection
<1>5. g \in Surjection(K, line)
  BY <1>2 DEF Surjection
<1>6. ExistsBijection(K, line)
  BY <1>4, <1>5 DEF ExistsBijection, Bijection
<1>7. QED
  BY <1>1, <1>6, FS_Bijection

(* draw_line between points further apart along a joins them.              *)
LEMMA TraceJoins ==
  ASSUME NEW a1 \in Int, NEW b1 \in Int, NEW a2 \in Int, NEW b2 \in Int,
         Abs(b1 - b2) < Abs(a1 - a2)
  PROVE  /\ JoinsEnds(Trace(a1, b1, a2, b2), <<a1, b1>>, <<a2, b2>>)
         /\ IsFiniteSet(Trace(a1, b1, a2, b2))
         /\ \A t \in Trace(a1, b1, a2, b2) : t \in Int \X Int
<1> DEFINE swapped == a1 > a2
           long == Abs(a1 - a2)
           short == Abs(b1 - b2)
           a == IF a1 > a2 THEN a2 ELSE a1
           b == IF a1 > a2 THEN b2 ELSE b1
           goal == IF a1 > a2 THEN b1 ELSE b2
           line == Trace(a1, b1, a2, b2)
           p == <<a1, b1>>
           q == <<a2, b2>>
<1>1. /\ long \in Nat /\ short \in Nat /\ short < long /\ a \in Int /\ b \in Int /\ goal \in Int
      /\ short = Abs(b - goal)
      /\ (IF swapped THEN a + long = a1 /\ a = a2 /\ b = b2 /\ goal = b1
                     ELSE a + long = a2 /\ a = a1 /\ b = b1 /\ goal = b2)
  BY DEF Abs
<1>2. /\ long = Abs(a1 - a2) /\ short = Abs(b1 - b2)
      /\ a = (IF a1 > a2 THEN a2 ELSE a1) /\ b = (IF a1 > a2 THEN b2 ELSE b1)
      /\ goal = (IF a1 > a2 THEN b1 ELSE b2) /\ line = Trace(a1, b1, a2, b2)
  OBVIOUS
<1> HIDE DEF line, long, short, a, b, goal, swapped
<1>3. PICK at \in [0..long -> Shares] :
              /\ Traced(at, b, goal, long, short)
              /\ Listed(line, Dots(at, a, long), long)
  BY <1>2, TraceIs, Zenon
<1>4. Distance(p, q) = long
  <2>1. Distance(p, q) = IF Abs(a1 - a2) < Abs(b1 - b2) THEN Abs(b1 - b2) ELSE Abs(a1 - a2)
    BY DistanceIs
  <2> HIDE DEF p, q
  <2>2. Distance(p, q) = IF long < short THEN short ELSE long
    BY <1>2, <2>1
  <2>3. QED
    BY <1>1, <2>2
<1>5. \E m : Straight(m, long, short) /\ Follows(at, m, b, goal, long)
  <2>1. Traced(at, b, goal, long, short)
    BY <1>3
  <2>2. short = Abs(b - goal) /\ short < long
    BY <1>1
  <2>3. long \in Nat /\ short \in Nat /\ b \in Int /\ goal \in Int
    BY <1>1
  <2>4. QED
    BY <2>1, <2>2, <2>3, TracedStraight, Zenon
<1>6. PICK m : Straight(m, long, short) /\ Follows(at, m, b, goal, long)
  BY <1>5
<1> DEFINE P == [k \in 0..long |-> PointAt(a, b, goal, m, k)]
<1>7. PointsOf(P, m, a, b, goal, long)
  BY DEF PointsOf
<1>8. Listed(line, P, long)
  <2>1. Dots(at, a, long) = P
    BY <1>6 DEF PointAt, Dots, Follows
  <2>2. QED
    BY <1>3, <2>1
<1> HIDE DEF P
<1>81. Paced(P, a, b, goal, long)
  BY <1>1, <1>6, <1>7, AlongLine
<1>82. line = {P[k] : k \in 0..long}
  BY <1>8 DEF Listed
<1>9. IsFiniteSet(line) /\ Cardinality(line) = long + 1
  <2>1. Leads(P, a, long)
    BY <1>81 DEF Paced, Leads
  <2>2. QED
    BY <1>1, <1>8, <2>1, LineSize
<1>10. \A k \in 0..long : P[k] \in line
  BY <1>82
<1>11. 0 \in 0..long /\ long \in 0..long
  BY <1>1
<1>12. IF swapped THEN p = P[long] /\ q = P[0] ELSE p = P[0] /\ q = P[long]
  BY <1>1, <1>81 DEF Paced
<1>13. {p, q} \subseteq line
  BY <1>10, <1>11, <1>12
<1>14. ASSUME NEW t \in line \ {p}
       PROVE  \E u \in line : Distance(t, u) = 1 /\ Distance(u, p) = Distance(t, p) - 1
  <2>1. PICK k \in 0..long : t = P[k]
    BY <1>82
  <2>2. t # p
    OBVIOUS
  <2>3. /\ \A i \in 0..long : Distance(P[i], P[0]) = i /\ Distance(P[i], P[long]) = long - i
        /\ \A i \in 0..(long - 1) : Distance(P[i], P[i + 1]) = 1 /\ Distance(P[i + 1], P[i]) = 1
    BY <1>81 DEF Paced
  <2> HIDE DEF p, q
  <2>4. CASE swapped
    <3>1. p = P[long] /\ k # long
      BY <1>12, <2>1, <2>2, <2>4
    <3>2. k \in 0..(long - 1) /\ k + 1 \in 0..long
      BY <1>1, <3>1
    <3>3. Distance(t, P[k + 1]) = 1 /\ P[k + 1] \in line
      BY <1>10, <2>1, <2>3, <3>2
    <3>4. Distance(t, p) = long - k /\ Distance(P[k + 1], p) = long - (k + 1)
      BY <2>1, <2>3, <3>1, <3>2
    <3>5. Distance(P[k + 1], p) = Distance(t, p) - 1
      BY <1>1, <3>4
    <3>6. QED
      BY <3>3, <3>5
  <2>5. CASE ~swapped
    <3>1. p = P[0] /\ k # 0
      BY <1>12, <2>1, <2>2, <2>5
    <3>2. PICK j \in 0..(long - 1) : k = j + 1
      BY <1>1, <3>1
    <3>3. j \in 0..long
      BY <1>1
    <3>4. Distance(t, P[j]) = 1 /\ P[j] \in line
      BY <1>10, <2>1, <2>3, <3>2, <3>3
    <3>5. Distance(t, p) = k /\ Distance(P[j], p) = j
      BY <2>1, <2>3, <3>1, <3>3
    <3>6. Distance(P[j], p) = Distance(t, p) - 1
      BY <3>2, <3>5
    <3>7. QED
      BY <3>4, <3>6
  <2>6. QED
    BY <2>4, <2>5
<1> HIDE DEF p, q
<1>15. JoinsEnds(line, p, q)
  BY <1>4, <1>9, <1>13, <1>14 DEF JoinsEnds
<1>16. \A t \in line : t \in Int \X Int
  BY <1>81, <1>82 DEF Paced
<1>17. QED
  BY <1>9, <1>15, <1>16 DEF line, p, q

(* A line along the other axis is one with its coordinates exchanged.      *)
Turn(t) == <<t[2], t[1]>>

(* Exchanging them keeps distances,                                        *)
LEMMA Turning ==
  /\ \A t \in Int \X Int : Turn(Turn(t)) = t /\ Turn(t) \in Int \X Int
  /\ \A t, u \in Int \X Int : Distance(Turn(t), Turn(u)) = Distance(t, u)
<1>1. ASSUME NEW t \in Int \X Int PROVE Turn(Turn(t)) = t /\ Turn(t) \in Int \X Int
  BY DEF Turn
<1>2. ASSUME NEW t \in Int \X Int, NEW u \in Int \X Int
      PROVE  Distance(Turn(t), Turn(u)) = Distance(t, u)
  <2>1. PICK x \in Int, y \in Int : t = <<x, y>>
    OBVIOUS
  <2>2. PICK v \in Int, w \in Int : u = <<v, w>>
    OBVIOUS
  <2>3. Turn(t) = <<y, x>> /\ Turn(u) = <<w, v>>
    BY <2>1, <2>2 DEF Turn
  <2>4. Distance(<<x, y>>, <<v, w>>) = IF Abs(x - v) < Abs(y - w) THEN Abs(y - w) ELSE Abs(x - v)
    BY DistanceIs
  <2>5. Distance(<<y, x>>, <<w, v>>) = IF Abs(y - w) < Abs(x - v) THEN Abs(x - v) ELSE Abs(y - w)
    BY DistanceIs
  <2>6. Abs(x - v) \in Int /\ Abs(y - w) \in Int
    BY DEF Abs
  <2>7. Distance(<<y, x>>, <<w, v>>) = Distance(<<x, y>>, <<v, w>>)
    BY <2>4, <2>5, <2>6
  <2>8. QED
    BY <2>1, <2>2, <2>3, <2>7
<1>3. QED
  BY <1>1, <1>2

(* and so a line that joins its ends.                                      *)
LEMMA TurnedLine ==
  ASSUME NEW line \in SUBSET (Int \X Int), IsFiniteSet(line),
         NEW p \in Int \X Int, NEW q \in Int \X Int, JoinsEnds(line, p, q)
  PROVE  JoinsEnds({Turn(t) : t \in line}, Turn(p), Turn(q))
<1> DEFINE turned == {Turn(t) : t \in line}
           f == [t \in line |-> Turn(t)]
<1>1. \A t \in line : t \in Int \X Int
  OBVIOUS
<1>2. Cardinality(turned) = Cardinality(line)
  <2>1. f \in [line -> turned] /\ \A u \in turned : \E t \in line : f[t] = u
    OBVIOUS
  <2>2. ASSUME NEW t \in line, NEW u \in line, f[t] = f[u] PROVE t = u
    <3>1. Turn(t) = Turn(u)
      BY <2>2
    <3>2. Turn(Turn(t)) = t /\ Turn(Turn(u)) = u
      BY <1>1, Turning
    <3>3. QED
      BY <3>1, <3>2
  <2> HIDE DEF turned, f
  <2>3. DOMAIN f = line
    BY <2>1
  <2>4. IsInjective(f)
    BY <2>2, <2>3 DEF IsInjective
  <2>5. f \in Injection(line, turned)
    BY <2>1, <2>4 DEF Injection
  <2>6. f \in Surjection(line, turned)
    BY <2>1 DEF Surjection
  <2>7. ExistsBijection(line, turned)
    BY <2>5, <2>6 DEF ExistsBijection, Bijection
  <2>8. QED
    BY <2>7, FS_Bijection
<1>3. /\ {p, q} \subseteq line
      /\ Cardinality(line) = Distance(p, q) + 1
      /\ \A t \in line \ {p} : \E u \in line :
           Distance(t, u) = 1 /\ Distance(u, p) = Distance(t, p) - 1
  BY DEF JoinsEnds
<1>4. \A t \in line : Turn(t) \in turned
  OBVIOUS
<1>5. \A w \in turned : \E t \in line : w = Turn(t)
  OBVIOUS
<1> HIDE DEF turned
<1>6. {Turn(p), Turn(q)} \subseteq turned
  BY <1>3, <1>4
<1>7. Distance(Turn(p), Turn(q)) = Distance(p, q)
  BY Turning
<1>8. ASSUME NEW w \in turned \ {Turn(p)}
      PROVE  \E v \in turned : /\ Distance(w, v) = 1
                               /\ Distance(v, Turn(p)) = Distance(w, Turn(p)) - 1
  <2>1. PICK t \in line : w = Turn(t)
    BY <1>5
  <2>2. t # p
    BY <2>1
  <2>3. PICK u \in line : Distance(t, u) = 1 /\ Distance(u, p) = Distance(t, p) - 1
    BY <1>3, <2>2
  <2>4. /\ Distance(w, Turn(u)) = Distance(t, u)
        /\ Distance(Turn(u), Turn(p)) = Distance(u, p)
        /\ Distance(w, Turn(p)) = Distance(t, p)
    BY <1>1, <2>1, Turning
  <2>5. QED
    BY <1>4, <2>3, <2>4
<1>9. JoinsEnds(turned, Turn(p), Turn(q))
  BY <1>2, <1>3, <1>6, <1>7, <1>8 DEF JoinsEnds
<1>10. QED
  BY <1>9 DEF turned

(* ssd1306_draw_line between any two points of the screen, unless they lie *)
(* on a diagonal, holds both and one point for each step between them,     *)
(* each next to the one before.                                            *)
THEOREM LinesJoined == LinesJoin
<1> SUFFICES ASSUME NEW p \in Screen, NEW q \in Screen, Abs(p[1] - q[1]) # Abs(p[2] - q[2])
             PROVE  JoinsEnds(LinePoints(p, q), p, q)
  BY DEF LinesJoin, JoinsEnds
<1>1. PICK x1 \in Int, y1 \in Int : p = <<x1, y1>>
  BY DEF Screen
<1>2. PICK x2 \in Int, y2 \in Int : q = <<x2, y2>>
  BY DEF Screen
<1>3. p[1] = x1 /\ p[2] = y1 /\ q[1] = x2 /\ q[2] = y2
  BY <1>1, <1>2
<1>4. CASE Abs(y1 - y2) < Abs(x1 - x2)
  <2>1. LinePoints(p, q) = Trace(x1, y1, x2, y2)
    BY <1>3, <1>4 DEF LinePoints
  <2>2. JoinsEnds(Trace(x1, y1, x2, y2), <<x1, y1>>, <<x2, y2>>)
    BY <1>4, TraceJoins
  <2>3. QED
    BY <1>1, <1>2, <2>1, <2>2
<1>5. CASE ~(Abs(y1 - y2) < Abs(x1 - x2))
  <2> DEFINE line == Trace(y1, x1, y2, x2)
             r == <<y1, x1>>
             s == <<y2, x2>>
  <2>1. Abs(x1 - x2) < Abs(y1 - y2)
    <3>1. Abs(x1 - x2) \in Int /\ Abs(y1 - y2) \in Int
      BY DEF Abs
    <3>2. QED
      BY <1>3, <1>5, <3>1
  <2>2. LinePoints(p, q) = {Turn(t) : t \in line}
    BY <1>3, <1>5 DEF LinePoints, Turn
  <2>3. JoinsEnds(line, r, s) /\ IsFiniteSet(line) /\ \A t \in line : t \in Int \X Int
    BY <2>1, TraceJoins
  <2>4. r \in Int \X Int /\ s \in Int \X Int /\ Turn(r) = p /\ Turn(s) = q
    BY <1>1, <1>2 DEF Turn
  <2> HIDE DEF line, r, s
  <2>5. line \in SUBSET (Int \X Int)
    BY <2>3
  <2>6. JoinsEnds({Turn(t) : t \in line}, Turn(r), Turn(s))
    BY <2>3, <2>4, <2>5, TurnedLine
  <2>7. QED
    BY <2>2, <2>4, <2>6
<1>6. QED
  BY <1>4, <1>5

(* That is what the run looks at of ssd1306_draw_line.                     *)
THEOREM LinesAlwaysJoin == Spec => []LineJoinsEnds
<1>1. LineJoinsEnds
  BY LinesJoined DEF LineJoinsEnds
<1>2. QED
  BY <1>1, PTL

-----------------------------------------------------------------------------
(* ssd1306_draw_num.                                                       *)

(* A quotient and its remainder are the only ones.                         *)
LEMMA Quotient ==
  ASSUME NEW x \in Int, NEW c \in Int, c > 0, NEW y \in Int, NEW r \in Int,
         x = c * y + r, 0 <= r, r < c
  PROVE  x \div c = y /\ x % c = r
<1> DEFINE z == x \div c
           s == x % c
<1>1. z \in Int /\ s \in Int /\ x = c * z + s /\ 0 <= s /\ s < c
  OBVIOUS
<1> HIDE DEF z, s
<1>2. z <= y
  <2>1. z * c < (y + 1) * c
    <3> DEFINE A == z * c
               B == y * c
               D == (y + 1) * c
    <3>1. A \in Int /\ B \in Int /\ D = B + c /\ x = A + s /\ x = B + r
      BY <1>1
    <3> HIDE DEF A, B, D
    <3>2. A < D
      BY <1>1, <3>1
    <3>3. QED
      BY <3>2 DEF A, D
  <2>2. QED
    BY <1>1, <2>1, Smaller
<1>3. y <= z
  <2>1. y * c < (z + 1) * c
    <3> DEFINE A == z * c
               B == y * c
               D == (z + 1) * c
    <3>1. A \in Int /\ B \in Int /\ D = A + c /\ x = A + s /\ x = B + r
      BY <1>1
    <3> HIDE DEF A, B, D
    <3>2. B < D
      BY <1>1, <3>1
    <3>3. QED
      BY <3>2 DEF B, D
  <2>2. QED
    BY <1>1, <2>1, Smaller
<1>4. z = y
  BY <1>1, <1>2, <1>3
<1>5. s = r
  <2> DEFINE A == c * y
  <2>1. A \in Int /\ x = A + s /\ x = A + r
    BY <1>1, <1>4
  <2> HIDE DEF A
  <2>2. QED
    BY <1>1, <2>1
<1>6. QED
  BY <1>4, <1>5 DEF z, s

(* The powers of ten that the lengths of ssd1306_draw_num need,            *)
LEMMA Tens ==
  /\ 10 ^ 0 = 1
  /\ \A k \in 0..9 : 10 ^ (k + 1) = 10 * (10 ^ k)
  /\ \A k \in 0..10 : 10 ^ k \in Nat /\ 10 ^ k > 0
<1>1. /\ 10 ^ 0 = 1 /\ 10 ^ 1 = 10 /\ 10 ^ 2 = 100 /\ 10 ^ 3 = 1000 /\ 10 ^ 4 = 10000
      /\ 10 ^ 5 = 100000 /\ 10 ^ 6 = 1000000 /\ 10 ^ 7 = 10000000 /\ 10 ^ 8 = 100000000
      /\ 10 ^ 9 = 1000000000 /\ 10 ^ 10 = 10000000000
  OBVIOUS
<1> DEFINE T(k) == 10 ^ k
<1>2. /\ T(0) = 1 /\ T(1) = 10 /\ T(2) = 100 /\ T(3) = 1000 /\ T(4) = 10000
      /\ T(5) = 100000 /\ T(6) = 1000000 /\ T(7) = 10000000 /\ T(8) = 100000000
      /\ T(9) = 1000000000 /\ T(10) = 10000000000
  BY <1>1
<1> HIDE DEF T
<1>3. \A k \in 0..9 : T(k + 1) = 10 * T(k)
  BY <1>2
<1>4. \A k \in 0..10 : T(k) \in Nat /\ T(k) > 0
  BY <1>2
<1>5. QED
  BY <1>2, <1>3, <1>4 DEF T

(* and how they multiply.                                                  *)
LEMMA TensMultiply ==
  ASSUME NEW j \in Nat, NEW k \in Nat, j + k <= 10
  PROVE  10 ^ (j + k) = (10 ^ j) * (10 ^ k)
<1> DEFINE S == {n \in Nat : n + k <= 10 /\ 10 ^ (n + k) # (10 ^ n) * (10 ^ k)}
<1>1. SUFFICES ASSUME S # {} PROVE FALSE
  OBVIOUS
<1>2. PICK m \in S : \A n \in S : m <= n
  <2>1. S \in SUBSET Nat
    OBVIOUS
  <2>2. QED
    BY <1>1, <2>1, HasLeast
<1>3. m \in Nat /\ m + k <= 10 /\ 10 ^ (m + k) # (10 ^ m) * (10 ^ k)
  BY <1>2
<1>4. m # 0
  <2>1. 10 ^ (0 + k) = (10 ^ 0) * (10 ^ k)
    <3>1. 10 ^ k \in Nat
      <4>1. k \in 0..10
        BY <1>3
      <4>2. QED
        BY <4>1, Tens
    <3>2. 0 + k = k /\ 10 ^ 0 = 1
      BY Tens
    <3>3. QED
      BY <3>1, <3>2
  <2>2. QED
    BY <1>3, <2>1
<1>5. PICK n \in Nat : m = n + 1
  <2>1. m - 1 \in Nat /\ m = (m - 1) + 1
    BY <1>3, <1>4
  <2>2. QED
    BY <2>1
<1>6. 10 ^ (n + k) = (10 ^ n) * (10 ^ k)
  <2>1. n + k <= 10 /\ ~(m <= n)
    BY <1>3, <1>5
  <2>2. n \notin S
    BY <1>2, <2>1
  <2>3. QED
    BY <2>1, <2>2
<1>7. 10 ^ (n + 1) = 10 * (10 ^ n) /\ 10 ^ ((n + k) + 1) = 10 * (10 ^ (n + k))
  <2>1. n \in 0..9 /\ n + k \in 0..9
    BY <1>3, <1>5
  <2>2. QED
    BY <2>1, Tens
<1>8. 10 ^ n \in Nat /\ 10 ^ k \in Nat
  <2>1. n \in 0..10 /\ k \in 0..10
    BY <1>3, <1>5
  <2>2. QED
    BY <2>1, Tens
<1>9. (n + k) + 1 = m + k
  BY <1>5
<1>10. 10 ^ (m + k) = (10 ^ m) * (10 ^ k)
  <2> DEFINE a == 10 ^ n
             b == 10 ^ k
  <2>1. a \in Nat /\ b \in Nat
    BY <1>8
  <2>2. 10 ^ (m + k) = 10 * (a * b)
    BY <1>6, <1>7, <1>9
  <2>3. 10 ^ m = 10 * a
    BY <1>7, <1>5
  <2> HIDE DEF a
  <2>4. 10 * (a * b) = (10 * a) * b
    <3> HIDE DEF b
    <3>1. QED
      BY <2>1
  <2>5. QED
    BY <2>2, <2>3, <2>4
<1>11. QED
  BY <1>3, <1>10

(* Dividing by a number and then by ten is dividing by ten times as much.  *)
LEMMA Ten ==
  ASSUME NEW x \in Nat, NEW c \in Nat, c > 0
  PROVE  (x \div c) \div 10 = x \div (10 * c)
<1> DEFINE z == x \div c
           s == x % c
           w == z \div 10
           e == z % 10
<1>1. z \in Int /\ s \in Int /\ x = c * z + s /\ 0 <= s /\ s < c
  OBVIOUS
<1> HIDE DEF z, s
<1>2. w \in Int /\ e \in 0..9 /\ z = 10 * w + e
  BY <1>1
<1> HIDE DEF w, e
<1> DEFINE A == c * w
           B == c * e
           C == (10 * c) * w
<1>3. A \in Int /\ B \in Int /\ c * z = 10 * A + B
  BY <1>1, <1>2
<1>4. 0 <= B /\ B <= 9 * c
  <2>1. e = 0 \/ e = 1 \/ e = 2 \/ e = 3 \/ e = 4 \/ e = 5 \/ e = 6 \/ e = 7 \/ e = 8 \/ e = 9
    BY <1>2
  <2>2. QED
    BY <2>1
<1>5. C = 10 * A
  BY <1>1, <1>2
<1> HIDE DEF A, B, C
<1>6. x = C + (B + s) /\ 0 <= B + s /\ B + s < 10 * c /\ 10 * c > 0
  BY <1>1, <1>3, <1>4, <1>5
<1>7. 10 * c \in Int /\ B + s \in Int
  BY <1>1, <1>3
<1>8. x \div (10 * c) = w
  <2> DEFINE d == 10 * c
             f == B + s
  <2>1. d \in Int /\ d > 0 /\ f \in Int /\ w \in Int /\ x \in Int /\ x = d * w + f /\ 0 <= f /\ f < d
    BY <1>2, <1>6, <1>7 DEF C
  <2> HIDE DEF d, f
  <2>2. x \div d = w
    BY <2>1, Quotient
  <2>3. QED
    BY <2>2 DEF d
<1>9. QED
  BY <1>8 DEF w, z

(* The first i of a number's last len digits, read as one number, and the  *)
(* i-th of them as draw_num takes it.                                      *)
UpTo(number, len, i) == (number % 10 ^ len) \div 10 ^ (len - i)
Digit(number, len, i) == (number \div 10 ^ (len - i)) % 10

(* Of no digit that is zero.                                               *)
LEMMA NoDigit ==
  ASSUME NEW number \in Nat, NEW len \in 1..10
  PROVE  UpTo(number, len, 0) = 0
<1> DEFINE c == 10 ^ len
           x == number % c
<1>1. c \in Nat /\ c > 0
  <2>1. len \in 0..10
    OBVIOUS
  <2>2. QED
    BY <2>1, Tens
<1>2. len - 0 = len
  OBVIOUS
<1> HIDE DEF c
<1>3. x \in Int /\ 0 <= x /\ x < c
  BY <1>1
<1> HIDE DEF x
<1>4. x = c * 0 + x
  BY <1>1, <1>3
<1>5. x \div c = 0
  <2>1. 0 \in Int
    OBVIOUS
  <2>2. QED
    BY <1>1, <1>3, <1>4, <2>1, Quotient
<1>6. QED
  BY <1>2, <1>5 DEF UpTo, x, c

(* The i-th digit is the last of the first i, and without it they are the  *)
(* first i - 1, whatever stands before them.                               *)
LEMMA NextDigit ==
  ASSUME NEW number \in Nat, NEW len \in 1..10, NEW i \in 1..len
  PROVE  /\ UpTo(number, len, i) \in Nat
         /\ UpTo(number, len, i - 1) = UpTo(number, len, i) \div 10
         /\ Digit(number, len, i) = UpTo(number, len, i) % 10
<1> DEFINE P == 10 ^ len
           c == 10 ^ (len - i)
           t == 10 ^ (i - 1)
           q == number \div P
           r == number % P
           u == r \div c
           s == r % c
<1>1. P \in Nat /\ P > 0 /\ c \in Nat /\ c > 0 /\ t \in Nat
  <2>1. len \in 0..10 /\ len - i \in 0..10 /\ i - 1 \in 0..10
    OBVIOUS
  <2>2. QED
    BY <2>1, Tens
<1>2. P = (10 * t) * c
  <2>1. 10 ^ i = 10 * t
    <3>1. i - 1 \in 0..9 /\ (i - 1) + 1 = i
      OBVIOUS
    <3>2. QED
      BY <3>1, Tens
  <2>2. 10 ^ (i + (len - i)) = (10 ^ i) * c
    <3> DEFINE k == len - i
    <3>1. i \in Nat /\ k \in Nat /\ i + k <= 10
      OBVIOUS
    <3> HIDE DEF k
    <3>2. 10 ^ (i + k) = (10 ^ i) * (10 ^ k)
      BY <3>1, TensMultiply
    <3>3. QED
      BY <3>2 DEF k
  <2>3. i + (len - i) = len
    OBVIOUS
  <2>4. QED
    BY <2>1, <2>2, <2>3
<1>3. 10 ^ (len - (i - 1)) = 10 * c
  <2>1. len - i \in 0..9 /\ (len - i) + 1 = len - (i - 1)
    OBVIOUS
  <2>2. QED
    BY <2>1, Tens
<1>4. UpTo(number, len, i) = u /\ UpTo(number, len, i - 1) = r \div (10 * c)
      /\ Digit(number, len, i) = (number \div c) % 10
  BY <1>3 DEF UpTo, Digit
<1> HIDE DEF P, c, t
<1>5. q \in Nat /\ r \in Nat /\ number = P * q + r
  BY <1>1
<1> HIDE DEF q, r
<1>6. u \in Nat /\ s \in Nat /\ s < c /\ r = c * u + s
  BY <1>1, <1>5
<1>7. u \div 10 = r \div (10 * c)
  BY <1>1, <1>5, Ten
<1> HIDE DEF u, s
<1> DEFINE v == 10 * (t * q) + u
<1>8. number = c * v + s
  <2> DEFINE A == t * q
             B == c * A
             C == c * u
  <2>1. P * q = 10 * B
    <3>1. ((10 * t) * c) * q = 10 * (c * (t * q))
      BY <1>1, <1>5
    <3>2. QED
      BY <1>2, <3>1
  <2>2. A \in Int /\ B \in Int /\ C \in Int
    BY <1>1, <1>5, <1>6
  <2>3. c * v = 10 * B + C
    <3>1. c * (10 * A + u) = 10 * (c * A) + c * u
      <4> HIDE DEF A
      <4>1. QED
        BY <1>1, <1>6, <2>2
    <3>2. QED
      BY <3>1
  <2> HIDE DEF B, C, v
  <2>4. number = 10 * B + r /\ r = C + s
    BY <1>5, <1>6, <2>1 DEF C
  <2>5. QED
    BY <1>6, <2>2, <2>3, <2>4
<1>9. t * q \in Nat /\ v \in Nat
  BY <1>1, <1>5, <1>6
<1>10. number \div c = v
  <2> HIDE DEF v
  <2>1. number \in Int /\ c \in Int /\ v \in Int /\ s \in Int /\ 0 <= s
    BY <1>1, <1>6, <1>9
  <2>2. QED
    BY <1>1, <1>6, <1>8, <2>1, Quotient
<1>11. v % 10 = u % 10
  <2> DEFINE A == t * q
  <2>1. A \in Nat /\ v = 10 * A + u
    BY <1>9
  <2> HIDE DEF A, v
  <2>2. QED
    BY <1>6, <2>1
<1>12. QED
  BY <1>4, <1>6, <1>7, <1>10, <1>11

(* chShow after each digit.                                                *)
Showing(show, number, len) ==
  show = [i \in 0..len |-> IF i = 0 THEN 0 ELSE Show(show[i - 1], Digit(number, len, i))]

(* There is such a row for every number,                                   *)
LEMMA ShowingExists ==
  ASSUME NEW number \in Nat, NEW len \in 1..10
  PROVE  \E show : Showing(show, number, len)
<1> DEFINE u(i) == UpTo(number, len, i)
           f == [i \in 0..len |-> IF u(i) = 0 THEN 0 ELSE 1]
           g == [i \in 0..len |-> IF i = 0 THEN 0 ELSE Show(f[i - 1], Digit(number, len, i))]
<1>1. u(0) = 0
  BY NoDigit
<1>2. ASSUME NEW i \in 1..len
      PROVE  f[i] = Show(f[i - 1], Digit(number, len, i))
  <2>1. /\ u(i) \in Nat /\ u(i - 1) = u(i) \div 10
        /\ Digit(number, len, i) = u(i) % 10
    BY NextDigit
  <2>2. f[i] = (IF u(i) = 0 THEN 0 ELSE 1) /\ f[i - 1] = (IF u(i - 1) = 0 THEN 0 ELSE 1)
    OBVIOUS
  <2> HIDE DEF u, f
  <2>3. u(i) = 0 <=> u(i - 1) = 0 /\ u(i) % 10 = 0
    BY <2>1
  <2>4. QED
    BY <2>1, <2>2, <2>3 DEF Show
<1>3. \A i \in 0..len : f[i] = g[i]
  <2>1. f[0] = 0 /\ g[0] = 0
    BY <1>1
  <2>2. ASSUME NEW i \in 0..len, i # 0 PROVE f[i] = g[i]
    <3>1. i \in 1..len
      BY <2>2
    <3>2. f[i] = Show(f[i - 1], Digit(number, len, i))
      BY <3>1, <1>2
    <3>3. g[i] = Show(f[i - 1], Digit(number, len, i))
      BY <2>2
    <3>4. QED
      BY <3>2, <3>3
  <2>3. QED
    BY <2>1, <2>2
<1>4. f = g
  <2>1. f = [i \in 0..len |-> f[i]] /\ g = [i \in 0..len |-> g[i]]
    OBVIOUS
  <2> HIDE DEF f, g
  <2>2. QED
    BY <1>3, <2>1
<1>5. Showing(f, number, len)
  BY <1>4 DEF Showing
<1>6. QED
  BY <1>5

(* and it tells whether the digits so far are more than zeros.             *)
LEMMA ShowsDigits ==
  ASSUME NEW number \in Nat, NEW len \in 1..10, NEW show, Showing(show, number, len),
         NEW k \in 0..len
  PROVE  show[k] = IF UpTo(number, len, k) = 0 THEN 0 ELSE 1
<1> DEFINE Right(i) == show[i] = IF UpTo(number, len, i) = 0 THEN 0 ELSE 1
           S == {i \in 0..len : ~Right(i)}
<1>1. SUFFICES ASSUME S # {} PROVE FALSE
  OBVIOUS
<1>2. PICK m \in S : \A n \in S : m <= n
  <2>1. S \in SUBSET Nat
    OBVIOUS
  <2>2. QED
    BY <1>1, <2>1, HasLeast
<1>3. m \in 0..len /\ ~Right(m)
  BY <1>2
<1>4. show[m] = IF m = 0 THEN 0 ELSE Show(show[m - 1], Digit(number, len, m))
  BY <1>3 DEF Showing
<1>5. m # 0
  <2>1. ASSUME m = 0 PROVE FALSE
    <3>1. show[0] = 0
      BY <1>4, <2>1
    <3>2. UpTo(number, len, 0) = 0
      BY NoDigit
    <3>3. QED
      BY <1>3, <2>1, <3>1, <3>2
  <2>2. QED
    BY <2>1
<1>6. m \in 1..len
  BY <1>3, <1>5
<1>7. Right(m - 1)
  <2>1. m - 1 \in 0..len /\ ~(m <= m - 1)
    BY <1>6
  <2>2. m - 1 \notin S
    BY <1>2, <2>1
  <2>3. QED
    BY <2>1, <2>2
<1>8. /\ UpTo(number, len, m) \in Nat
      /\ UpTo(number, len, m - 1) = UpTo(number, len, m) \div 10
      /\ Digit(number, len, m) = UpTo(number, len, m) % 10
  BY <1>6, NextDigit
<1>9. Right(m)
  <2> DEFINE u == UpTo(number, len, m)
             v == UpTo(number, len, m - 1)
  <2>1. u \in Nat /\ v = u \div 10 /\ Digit(number, len, m) = u % 10
    BY <1>8
  <2>2. show[m - 1] = IF v = 0 THEN 0 ELSE 1
    BY <1>7
  <2>3. show[m] = Show(show[m - 1], u % 10)
    BY <1>4, <1>5, <2>1
  <2>4. SUFFICES show[m] = IF u = 0 THEN 0 ELSE 1
    OBVIOUS
  <2> HIDE DEF u, v
  <2>5. u = 0 <=> v = 0 /\ u % 10 = 0
    BY <2>1
  <2>6. QED
    BY <2>2, <2>3, <2>5 DEF Show
<1>10. QED
  BY <1>3, <1>9

(* draw_num's characters, by the names given here.                         *)
LEMMA WritesDigits ==
  ASSUME NEW number \in Nat, NEW len \in 1..10
  PROVE  \E show : /\ Showing(show, number, len)
                   /\ Characters(number, len) =
                        [i \in 1..len |-> IF show[i] = 1 \/ i = len
                                          THEN Digit(number, len, i) + Zero ELSE Blank]
<1> DEFINE show == CHOOSE f : Showing(f, number, len)
<1>1. Showing(show, number, len)
  BY ShowingExists
<1>2. Characters(number, len) =
        [i \in 1..len |-> IF show[i] = 1 \/ i = len
                          THEN Digit(number, len, i) + Zero ELSE Blank]
  BY DEF Characters, Showing, Digit
<1>3. QED
  BY <1>1, <1>2

(* ssd1306_draw_num writes every number, at every length it can have, as   *)
(* one reads it: its last len digits, blanks for the zeros in front, but   *)
(* never for the last.                                                     *)
THEOREM NumeralsWritten ==
  ASSUME NEW number \in Nat, NEW len \in 1..10
  PROVE  Characters(number, len) = Numeral(number, len)
<1>1. PICK show : /\ Showing(show, number, len)
                  /\ Characters(number, len) =
                       [i \in 1..len |-> IF show[i] = 1 \/ i = len
                                         THEN Digit(number, len, i) + Zero ELSE Blank]
  BY WritesDigits
<1>2. Numeral(number, len) =
        [i \in 1..len |-> IF UpTo(number, len, i) = 0 /\ i < len THEN Blank
                          ELSE Zero + (UpTo(number, len, i) % 10)]
  BY DEF Numeral, UpTo
<1>3. ASSUME NEW i \in 1..len
      PROVE  (IF show[i] = 1 \/ i = len THEN Digit(number, len, i) + Zero ELSE Blank)
             = (IF UpTo(number, len, i) = 0 /\ i < len THEN Blank
                ELSE Zero + (UpTo(number, len, i) % 10))
  <2> DEFINE u == UpTo(number, len, i)
             d == Digit(number, len, i)
  <2>1. u \in Nat /\ d = u % 10
    BY NextDigit
  <2>2. show[i] = IF u = 0 THEN 0 ELSE 1
    <3>1. i \in 0..len
      OBVIOUS
    <3>2. Showing(show, number, len)
      BY <1>1
    <3>3. QED
      BY <3>1, <3>2, ShowsDigits
  <2>3. SUFFICES (IF show[i] = 1 \/ i = len THEN d + Zero ELSE Blank)
                 = (IF u = 0 /\ i < len THEN Blank ELSE Zero + (u % 10))
    OBVIOUS
  <2> HIDE DEF u, d
  <2>4. QED
    BY <2>1, <2>2 DEF Zero
<1>4. QED
  BY <1>1, <1>2, <1>3

(* The numbers the run looks at are some of these.                         *)
THEOREM NumbersAlwaysRead == Spec => []NumberReads
<1>1. NumbersRead
  <2>1. ASSUME NEW len \in 1..4, NEW number \in 0..(10 ^ len + 10)
        PROVE  Characters(number, len) = Numeral(number, len)
    <3>1. len \in 1..10 /\ number \in Nat
      OBVIOUS
    <3>2. QED
      BY <3>1, NumeralsWritten
  <2>2. QED
    BY <2>1 DEF NumbersRead
<1>2. NumberReads
  BY <1>1 DEF NumberReads
<1>3. QED
  BY <1>2, PTL DEF Spec

-----------------------------------------------------------------------------
(* ssd1306_draw_string.                                                    *)

(* How often a number goes into another.                                   *)
LEMMA Multiple ==
  ASSUME NEW n \in Int, NEW a \in Int, NEW s \in Int, s > 0
  PROVE  n <= a \div s <=> n * s <= a
<1> DEFINE q == a \div s
           r == a % s
           A == n * s
           B == q * s
<1>1. q \in Int /\ r \in Int /\ a = s * q + r /\ 0 <= r /\ r < s
  OBVIOUS
<1> HIDE DEF q, r
<1>2. A \in Int /\ B \in Int /\ a = B + r
  BY <1>1
<1>3. ASSUME n <= q PROVE A <= a
  <2>1. (q - n) * s >= 0
    BY <1>1, <1>3
  <2>2. (q - n) * s = B - A
    BY <1>1
  <2> HIDE DEF A, B
  <2>3. B - A >= 0
    BY <2>1, <2>2
  <2>4. QED
    BY <1>1, <1>2, <2>3
<1>4. ASSUME A <= a PROVE n <= q
  <2>1. A < (q + 1) * s
    <3> DEFINE D == (q + 1) * s
    <3>1. D = B + s
      BY <1>1
    <3> HIDE DEF A, B, D
    <3>2. A < D
      BY <1>1, <1>2, <1>4, <3>1
    <3>3. QED
      BY <3>2 DEF D
  <2>2. QED
    BY <1>1, <2>1, Smaller
<1>5. QED
  BY <1>3, <1>4 DEF q

(* Counting on by one: to the next of a row, or to the start of the next   *)
(* row.                                                                    *)
LEMMA Onwards ==
  ASSUME NEW m \in Nat, NEW w \in Int, w > 0
  PROVE  /\ m \div w \in Nat /\ m % w \in 0..(w - 1)
         /\ IF (m % w) + 2 <= w THEN (m + 1) \div w = m \div w /\ (m + 1) % w = (m % w) + 1
            ELSE (m + 1) \div w = (m \div w) + 1 /\ (m + 1) % w = 0
<1> DEFINE q == m \div w
           r == m % w
<1>1. q \in Int /\ r \in Int /\ m = w * q + r /\ 0 <= r /\ r < w
  OBVIOUS
<1>2. q \in Nat
  OBVIOUS
<1> HIDE DEF q, r
<1>3. ASSUME r + 2 <= w PROVE (m + 1) \div w = q /\ (m + 1) % w = r + 1
  <2> DEFINE x == m + 1
             t == r + 1
  <2>1. x \in Int /\ t \in Int /\ 0 <= t /\ t < w
    BY <1>1, <1>3
  <2>2. x = w * q + t
    <3> DEFINE B == w * q
    <3>1. B \in Int /\ m = B + r
      BY <1>1
    <3> HIDE DEF B
    <3>2. x = B + t
      BY <1>1, <3>1
    <3>3. QED
      BY <3>2 DEF B
  <2> HIDE DEF x, t
  <2>3. x \div w = q /\ x % w = t
    BY <1>1, <2>1, <2>2, Quotient
  <2>4. QED
    BY <2>3 DEF x, t
<1>4. ASSUME ~(r + 2 <= w) PROVE (m + 1) \div w = q + 1 /\ (m + 1) % w = 0
  <2> DEFINE x == m + 1
             p == q + 1
  <2>1. x \in Int /\ p \in Int /\ 0 \in Int
    BY <1>1
  <2>2. x = w * p + 0
    <3> DEFINE B == w * q
               C == w * p
    <3>1. B \in Int /\ m = B + r /\ C = B + w
      BY <1>1
    <3> HIDE DEF B, C
    <3>2. x = C + 0
      BY <1>1, <1>4, <3>1
    <3>3. QED
      BY <3>2 DEF C
  <2> HIDE DEF x, p
  <2>3. x \div w = p /\ x % w = 0
    BY <1>1, <2>1, <2>2, Quotient
  <2>4. QED
    BY <2>3 DEF x, p
<1>5. QED
  BY <1>1, <1>2, <1>3, <1>4 DEF q, r

(* The i-th of a row of boxes of length s, from a to the end e and then    *)
(* again and again from 0; and in which row it is.                         *)
Spot(i, a, s, e) == LET first == (e - a) \div s
                    IN IF i < first THEN a + s * i ELSE s * ((i - first) % (e \div s))
Round(i, a, s, e) == LET first == (e - a) \div s
                     IN IF i < first THEN 0 ELSE 1 + ((i - first) \div (e \div s))

(* The first box is at a,                                                  *)
LEMMA FirstSpot ==
  ASSUME NEW a \in Nat, NEW s \in Nat, s > 0, NEW e \in Nat, a + s <= e
  PROVE  Spot(0, a, s, e) = a /\ Round(0, a, s, e) = 0
<1>1. 1 <= (e - a) \div s
  <2> DEFINE g == e - a
  <2>1. g \in Int /\ s \in Int /\ 1 * s <= g
    OBVIOUS
  <2> HIDE DEF g
  <2>2. 1 <= g \div s
    BY <2>1, Multiple
  <2>3. QED
    BY <2>2 DEF g
<1> DEFINE f == (e - a) \div s
<1>2. f \in Int
  OBVIOUS
<1>3. Spot(0, a, s, e) = (IF 0 < f THEN a + s * 0 ELSE s * ((0 - f) % (e \div s)))
      /\ Round(0, a, s, e) = (IF 0 < f THEN 0 ELSE 1 + ((0 - f) \div (e \div s)))
  BY DEF Spot, Round
<1> HIDE DEF f
<1>4. 0 < f
  BY <1>1, <1>2 DEF f
<1>5. s * 0 = 0
  OBVIOUS
<1>6. QED
  BY <1>3, <1>4, <1>5

(* From one box to the next: on in the row as long as one fits, then to    *)
(* the start of the next row.                                              *)
Steps(a, n, b, m, s, e) ==
  /\ a \in Nat /\ n \in Nat /\ a + s <= e
  /\ IF a + s + s <= e THEN b = a + s /\ m = n ELSE b = 0 /\ m = n + 1

(* and the others follow step by step,                                     *)
LEMMA SpotNext ==
  ASSUME NEW i \in Nat, NEW a \in Nat, NEW s \in Nat, s > 0, NEW e \in Nat, a + s <= e,
         NEW x, x = Spot(i, a, s, e), NEW n, n = Round(i, a, s, e)
  PROVE  Steps(x, n, Spot(i + 1, a, s, e), Round(i + 1, a, s, e), s, e)
<1>0. SUFFICES /\ x \in Nat /\ n \in Nat /\ x + s <= e
               /\ IF x + s + s <= e
                  THEN Spot(i + 1, a, s, e) = x + s /\ Round(i + 1, a, s, e) = n
                  ELSE Spot(i + 1, a, s, e) = 0 /\ Round(i + 1, a, s, e) = n + 1
  BY DEF Steps
<1> DEFINE g == e - a
           f == g \div s
           w == e \div s
           h == i - f
<1>1. g \in Int /\ s \in Int /\ e \in Int /\ s <= g /\ e = g + a
  OBVIOUS
<1>2. /\ x = IF i < f THEN a + s * i ELSE s * (h % w)
      /\ n = IF i < f THEN 0 ELSE 1 + (h \div w)
      /\ Spot(i + 1, a, s, e) = IF i + 1 < f THEN a + s * (i + 1) ELSE s * (((i + 1) - f) % w)
      /\ Round(i + 1, a, s, e) = IF i + 1 < f THEN 0 ELSE 1 + (((i + 1) - f) \div w)
  BY DEF Spot, Round
<1> HIDE DEF g
<1>3. f \in Int /\ w \in Int /\ \A j \in Int : (j <= f <=> j * s <= g) /\ (j <= w <=> j * s <= e)
  BY <1>1, Multiple
<1>4. f >= 1 /\ w >= 1
  <2>1. 1 * s = s
    OBVIOUS
  <2>2. QED
    BY <1>1, <1>3, <2>1
<1> HIDE DEF f, w
<1>5. CASE i < f
  <2> DEFINE A == s * i
             C == (i + 1) * s
             D == (i + 2) * s
  <2>1. A \in Nat /\ C = A + s /\ D = A + s + s /\ s * (i + 1) = C
    OBVIOUS
  <2>2. i + 1 <= f /\ i + 1 \in Int /\ i + 2 \in Int
    BY <1>3, <1>5
  <2>3. C <= g /\ (i + 2 <= f <=> D <= g)
    BY <1>3, <2>2
  <2>4. x = a + A /\ n = 0
    BY <1>2, <1>5
  <2> HIDE DEF A, C, D
  <2>5. x \in Nat /\ n \in Nat /\ x + s <= e
    BY <1>1, <2>1, <2>3, <2>4
  <2>6. x + s + s <= e <=> i + 1 < f
    BY <1>1, <1>3, <2>1, <2>3, <2>4
  <2>7. CASE i + 1 < f
    <3>1. Spot(i + 1, a, s, e) = a + C /\ Round(i + 1, a, s, e) = 0
      BY <1>2, <2>1, <2>7
    <3>2. a + C = x + s
      BY <2>1, <2>4
    <3>3. QED
      BY <2>4, <2>5, <2>6, <2>7, <3>1, <3>2
  <2>8. CASE ~(i + 1 < f)
    <3>1. (i + 1) - f = 0
      BY <1>3, <1>5, <2>8
    <3>2. 0 % w = 0 /\ 0 \div w = 0
      BY <1>3, <1>4
    <3>3. s * 0 = 0
      OBVIOUS
    <3>4. Spot(i + 1, a, s, e) = 0 /\ Round(i + 1, a, s, e) = 1
      BY <1>2, <2>8, <3>1, <3>2, <3>3
    <3>5. QED
      BY <2>4, <2>5, <2>6, <2>8, <3>4
  <2>9. QED
    BY <2>7, <2>8
<1>6. CASE ~(i < f)
  <2>1. h \in Nat /\ (i + 1) - f = h + 1 /\ ~(i + 1 < f)
    BY <1>3, <1>6
  <2> HIDE DEF h
  <2> DEFINE c == h % w
             d == h \div w
  <2>2. /\ d \in Nat /\ c \in 0..(w - 1)
        /\ IF c + 2 <= w THEN (h + 1) \div w = d /\ (h + 1) % w = c + 1
           ELSE (h + 1) \div w = d + 1 /\ (h + 1) % w = 0
    BY <1>3, <1>4, <2>1, Onwards
  <2>3. /\ x = s * c /\ n = 1 + d
        /\ Spot(i + 1, a, s, e) = s * ((h + 1) % w)
        /\ Round(i + 1, a, s, e) = 1 + ((h + 1) \div w)
    BY <1>2, <1>6, <2>1
  <2> HIDE DEF c, d
  <2> DEFINE A == s * c
             C == (c + 1) * s
             D == (c + 2) * s
  <2>4. c \in Nat /\ c + 1 \in Int /\ c + 2 \in Int /\ c + 1 <= w
    BY <1>3, <2>2
  <2>5. A \in Nat /\ C = A + s /\ D = A + s + s /\ s * (c + 1) = C
    BY <2>4
  <2>6. C <= e /\ (c + 2 <= w <=> D <= e)
    BY <1>3, <2>4
  <2>7. x = A
    BY <2>3
  <2> HIDE DEF A, C, D
  <2>8. x \in Nat /\ n \in Nat /\ x + s <= e
    BY <2>2, <2>3, <2>5, <2>6, <2>7
  <2>9. x + s + s <= e <=> c + 2 <= w
    BY <2>5, <2>6, <2>7
  <2>10. CASE c + 2 <= w
    <3>1. Spot(i + 1, a, s, e) = C /\ Round(i + 1, a, s, e) = n
      BY <2>2, <2>3, <2>5, <2>10
    <3>2. QED
      BY <2>5, <2>7, <2>8, <2>9, <2>10, <3>1
  <2>11. CASE ~(c + 2 <= w)
    <3>1. s * 0 = 0 /\ 1 + (d + 1) = (1 + d) + 1
      BY <2>2
    <3>2. Spot(i + 1, a, s, e) = 0 /\ Round(i + 1, a, s, e) = n + 1
      BY <2>2, <2>3, <2>11, <3>1
    <3>3. QED
      BY <2>8, <2>9, <2>11, <3>2
  <2>12. QED
    BY <2>10, <2>11
<1>7. QED
  BY <1>5, <1>6

(* Points of the screen are written as they are,                           *)
LEMMA OnScreen ==
  ASSUME NEW points \in SUBSET Screen
  PROVE  Cells(points) = {Cell(p) : p \in points}
<1>1. ASSUME NEW p \in points
      PROVE  p \in Screen /\ <<Byte(p[1]), Byte(p[2])>> = p
  <2>1. p \in Screen
    OBVIOUS
  <2>2. p[1] \in 0..127 /\ p[2] \in 0..63 /\ p = <<p[1], p[2]>>
    BY <2>1, ScreenSizes DEF Screen
  <2>3. Byte(p[1]) = p[1] /\ Byte(p[2]) = p[2]
    BY <2>2 DEF Byte
  <2>4. QED
    BY <2>1, <2>2, <2>3
<1>2. {<<Byte(q[1]), Byte(q[2])>> : q \in points} \cap Screen = points
  BY <1>1
<1>3. QED
  BY <1>2 DEF Cells

(* each to a bit of its own,                                               *)
LEMMA CellOnce ==
  ASSUME NEW p \in Screen, NEW q \in Screen, Cell(p) = Cell(q)
  PROVE  p = q
<1>1. p = <<p[1], p[2]>> /\ q = <<q[1], q[2]>> /\ p[2] \in Nat /\ q[2] \in Nat
  BY ScreenSizes DEF Screen
<1>2. /\ p[1] = q[1] /\ PAGES - 1 - (p[2] \div 8) = PAGES - 1 - (q[2] \div 8)
      /\ 7 - (p[2] % 8) = 7 - (q[2] % 8)
  BY DEF Cell
<1> DEFINE x == p[2]
           y == q[2]
<1>3. x \in Nat /\ y \in Nat /\ PAGES - 1 - (x \div 8) = PAGES - 1 - (y \div 8)
      /\ 7 - (x % 8) = 7 - (y % 8)
  BY <1>1, <1>2
<1> HIDE DEF x, y
<1>4. x = y
  BY <1>3, ScreenSizes
<1>5. QED
  BY <1>1, <1>2, <1>4 DEF x, y

(* so that sets of points without a common one have no common bit,         *)
LEMMA Apart ==
  ASSUME NEW A \in SUBSET Screen, NEW B \in SUBSET Screen, A \cap B = {}
  PROVE  Cells(A) \cap Cells(B) = {}
<1>1. Cells(A) = {Cell(p) : p \in A} /\ Cells(B) = {Cell(p) : p \in B}
  BY OnScreen
<1>2. ASSUME NEW c \in Cells(A), c \in Cells(B) PROVE FALSE
  <2>1. PICK p \in A : c = Cell(p)
    BY <1>1, <1>2
  <2>2. PICK q \in B : c = Cell(q)
    BY <1>1, <1>2
  <2>3. p \in Screen /\ q \in Screen /\ Cell(p) = Cell(q)
    BY <2>1, <2>2
  <2>4. p = q
    BY <2>3, CellOnce
  <2>5. QED
    BY <2>4
<1>3. QED
  BY <1>2

(* and a part of them a part of the bits.                                  *)
LEMMA Within ==
  ASSUME NEW A, NEW B, A \subseteq B
  PROVE  Cells(A) \subseteq Cells(B)
BY DEF Cells

(* The box of a character at a place.                                      *)
Area(q, w, s) == Move(Box(w, s), q.x, q.y)

(* A box that fits is on the screen.                                       *)
LEMMA AreaOnScreen ==
  ASSUME NEW q, q.x \in Nat, q.y \in Nat, NEW w \in Nat, NEW s \in Nat,
         q.x + w <= WIDTH, q.y + s <= HEIGHT
  PROVE  Area(q, w, s) \in SUBSET Screen
<1> DEFINE x == q.x
           y == q.y
<1>1. x \in Nat /\ y \in Nat /\ x + w <= WIDTH /\ y + s <= HEIGHT
  OBVIOUS
<1>2. Area(q, w, s) = {<<x + p[1], y + p[2]>> : p \in Box(w, s)}
  BY DEF Area, Move
<1> HIDE DEF x, y
<1>3. ASSUME NEW p \in Box(w, s) PROVE <<x + p[1], y + p[2]>> \in Screen
  <2>1. p[1] \in 0..(w - 1) /\ p[2] \in 0..(s - 1)
    BY DEF Box
  <2>2. x + p[1] \in 0..(WIDTH - 1) /\ y + p[2] \in 0..(HEIGHT - 1)
    BY <1>1, <2>1, ScreenSizes
  <2>3. QED
    BY <2>2 DEF Screen
<1>4. QED
  BY <1>2, <1>3

(* One place is ahead of another on a page: lines above, or in the line    *)
(* before it.                                                              *)
Ahead(q, r, w, s) == q.y + s <= r.y \/ (q.y = r.y /\ q.x + w <= r.x)

(* Their boxes have no common point.                                       *)
LEMMA AreasApart ==
  ASSUME NEW q, q.x \in Nat, q.y \in Nat, NEW r, r.x \in Nat, r.y \in Nat,
         NEW w \in Nat, NEW s \in Nat, Ahead(q, r, w, s)
  PROVE  Area(q, w, s) \cap Area(r, w, s) = {}
<1> DEFINE a == q.x
           b == q.y
           c == r.x
           d == r.y
<1>1. a \in Nat /\ b \in Nat /\ c \in Nat /\ d \in Nat /\ (b + s <= d \/ (b = d /\ a + w <= c))
  BY DEF Ahead
<1>2. /\ Area(q, w, s) = {<<a + p[1], b + p[2]>> : p \in Box(w, s)}
      /\ Area(r, w, s) = {<<c + p[1], d + p[2]>> : p \in Box(w, s)}
  BY DEF Area, Move
<1> HIDE DEF a, b, c, d
<1>3. ASSUME NEW t \in Box(w, s), NEW u \in Box(w, s),
             <<a + t[1], b + t[2]>> = <<c + u[1], d + u[2]>>
      PROVE  FALSE
  <2>1. t[1] \in 0..(w - 1) /\ t[2] \in 0..(s - 1) /\ u[1] \in 0..(w - 1) /\ u[2] \in 0..(s - 1)
    BY DEF Box
  <2>2. a + t[1] = c + u[1] /\ b + t[2] = d + u[2]
    BY <1>3
  <2>3. QED
    BY <1>1, <2>1, <2>2
<1>4. QED
  BY <1>2, <1>3

(* said without the names.                                                 *)
LEMMA SpotSteps ==
  ASSUME NEW i \in Nat, NEW k, k = i + 1, NEW a \in Nat, NEW s \in Nat, s > 0,
         NEW e \in Nat, a + s <= e
  PROVE  Steps(Spot(i, a, s, e), Round(i, a, s, e), Spot(k, a, s, e), Round(k, a, s, e), s, e)
<1> DEFINE x == Spot(i, a, s, e)
           n == Round(i, a, s, e)
<1>1. x = Spot(i, a, s, e) /\ n = Round(i, a, s, e)
  OBVIOUS
<1> HIDE DEF x, n
<1>2. Steps(x, n, Spot(i + 1, a, s, e), Round(i + 1, a, s, e), s, e)
  BY <1>1, SpotNext
<1>3. QED
  BY <1>1, <1>2

(* A place by its spot in the line, and the line by its spot on the page.  *)
PlaceAt(q, i, x, y, w, s) ==
  q = [x |-> Spot(i, x, w, WIDTH), y |-> Spot(Round(i, x, w, WIDTH), y, s, HEIGHT),
       page |-> Round(Round(i, x, w, WIDTH), y, s, HEIGHT)]

(* That is what TextPlace says, once for columns and once for lines.       *)
LEMMA PlaceIs ==
  ASSUME NEW k \in Nat, NEW i \in Nat, k = i + 1, NEW x \in Nat, NEW y \in Nat,
         NEW s \in Nat, s > 1, x + (s \div 2) <= WIDTH, NEW w, w = s \div 2
  PROVE  PlaceAt(TextPlace(k, x, y, s), i, x, y, w, s)
<1> DEFINE first == (WIDTH - x) \div w
           each == WIDTH \div w
           behind == k - first - 1
           line == IF behind < 0 THEN 0 ELSE 1 + (behind \div each)
           lines == (HEIGHT - y) \div s
           further == line - lines
           page == HEIGHT \div s
<1>0. k - 1 = i
  OBVIOUS
<1>1. w \in Nat /\ w > 0 /\ WIDTH \in Nat /\ HEIGHT \in Nat
  BY ScreenSizes
<1>2. TextPlace(k, x, y, s) =
        [x |-> IF behind < 0 THEN x + w * (k - 1) ELSE w * (behind % each),
         y |-> IF further < 0 THEN y + s * line ELSE s * (further % page),
         page |-> IF further < 0 THEN 0 ELSE 1 + (further \div page)]
  BY DEF TextPlace
<1>3. /\ Spot(i, x, w, WIDTH) = IF i < first THEN x + w * i
                                    ELSE w * ((i - first) % each)
      /\ Round(i, x, w, WIDTH) = IF i < first THEN 0
                                     ELSE 1 + ((i - first) \div each)
  BY DEF Spot, Round
<1>4. /\ Spot(line, y, s, HEIGHT) = IF line < lines THEN y + s * line
                                    ELSE s * ((line - lines) % page)
      /\ Round(line, y, s, HEIGHT) = IF line < lines THEN 0
                                     ELSE 1 + ((line - lines) \div page)
  BY DEF Spot, Round
<1>5. first \in Int /\ each \in Int /\ lines \in Int
  BY <1>1
<1>6. (behind < 0 <=> i < first) /\ i - first = behind
  <2> HIDE DEF first
  <2>1. QED
    BY <1>5
<1>7. /\ Spot(i, x, w, WIDTH) = IF behind < 0 THEN x + w * i ELSE w * (behind % each)
      /\ Round(i, x, w, WIDTH) = line
  BY <1>3, <1>6
<1>8. line \in Int
  <2>1. each >= 1
    <3>1. 1 * w = w /\ w <= WIDTH /\ WIDTH \in Int /\ w \in Int
      BY <1>1
    <3>2. 1 <= each
      BY <1>1, <3>1, Multiple
    <3>3. QED
      BY <1>5, <3>2
  <2>2. behind \in Int
    BY <1>5
  <2> HIDE DEF behind, each
  <2>3. QED
    BY <1>5, <2>1, <2>2
<1>9. further < 0 <=> line < lines
  <2> HIDE DEF line, lines
  <2>1. QED
    BY <1>5, <1>8
<1>10. QED
  BY <1>2, <1>4, <1>7, <1>9, <1>0 DEF PlaceAt

(* Where the next character belongs: behind, on the next line or on a new  *)
(* page.                                                                   *)
Succeeds(q, r, w, s) ==
  IF q.x + w + w <= WIDTH THEN r = [q EXCEPT !.x = q.x + w]
  ELSE IF q.y + s + s <= HEIGHT THEN r = [x |-> 0, y |-> q.y + s, page |-> q.page]
  ELSE r = [x |-> 0, y |-> 0, page |-> q.page + 1]

(* A place of a character.                                                 *)
Placing == [x : Nat, y : Nat, page : Nat]

(* A text's first character belongs where it starts,                       *)
LEMMA FirstPlace ==
  ASSUME NEW x \in Nat, NEW y \in Nat, NEW s \in Nat, s > 1,
         x + (s \div 2) <= WIDTH, y + s <= HEIGHT
  PROVE  TextPlace(1, x, y, s) = [x |-> x, y |-> y, page |-> 0]
<1> DEFINE w == s \div 2
<1>1. w \in Nat /\ w > 0 /\ WIDTH \in Nat /\ HEIGHT \in Nat /\ s > 0
  BY ScreenSizes
<1>2. Spot(0, x, w, WIDTH) = x /\ Round(0, x, w, WIDTH) = 0
      /\ Spot(0, y, s, HEIGHT) = y /\ Round(0, y, s, HEIGHT) = 0
  <2>1. x + w <= WIDTH
    OBVIOUS
  <2> HIDE DEF w
  <2>2. QED
    BY <1>1, <2>1, FirstSpot
<1>3. PlaceAt(TextPlace(1, x, y, s), 0, x, y, w, s)
  <2>1. w = s \div 2 /\ 1 = 0 + 1 /\ 1 \in Nat /\ 0 \in Nat
    OBVIOUS
  <2> HIDE DEF w
  <2>2. QED
    BY <2>1, PlaceIs
<1>4. QED
  BY <1>2, <1>3 DEF PlaceAt

(* each fits on the screen, and the next belongs behind it as long as it   *)
(* fits.                                                                   *)
LEMMA PlaceNext ==
  ASSUME NEW x \in Nat, NEW y \in Nat, NEW s \in Nat, s > 1,
         x + (s \div 2) <= WIDTH, y + s <= HEIGHT, NEW k \in Nat, k > 0
  PROVE  /\ TextPlace(k, x, y, s) \in Placing
         /\ TextPlace(k, x, y, s).x + (s \div 2) <= WIDTH
         /\ TextPlace(k, x, y, s).y + s <= HEIGHT
         /\ Succeeds(TextPlace(k, x, y, s), TextPlace(k + 1, x, y, s), s \div 2, s)
<1> DEFINE w == s \div 2
           i == k - 1
           line == Round(i, x, w, WIDTH)
           after == Round(k, x, w, WIDTH)
           a == Spot(i, x, w, WIDTH)
           b == Spot(line, y, s, HEIGHT)
           p == Round(line, y, s, HEIGHT)
           q == TextPlace(k, x, y, s)
           r == TextPlace(k + 1, x, y, s)
<1>1. w \in Nat /\ w > 0 /\ WIDTH \in Nat /\ HEIGHT \in Nat /\ s > 0 /\ x + w <= WIDTH
      /\ i \in Nat /\ i + 1 = k
  BY ScreenSizes
<1>2. PlaceAt(q, i, x, y, w, s)
  <2>1. w = s \div 2 /\ k = i + 1 /\ i \in Nat
    BY <1>1
  <2> HIDE DEF w, i
  <2>2. QED
    BY <2>1, PlaceIs
<1>3. PlaceAt(r, k, x, y, w, s)
  <2> DEFINE j == k + 1
  <2>1. w = s \div 2 /\ j = k + 1 /\ j \in Nat
    OBVIOUS
  <2> HIDE DEF w, j, r
  <2>2. PlaceAt(TextPlace(j, x, y, s), k, x, y, w, s)
    BY <2>1, PlaceIs
  <2>3. QED
    BY <2>2 DEF r, j
<1> HIDE DEF q, r
<1>4. /\ a \in Nat /\ line \in Nat /\ a + w <= WIDTH
      /\ IF a + w + w <= WIDTH
         THEN Spot(k, x, w, WIDTH) = a + w /\ after = line
         ELSE Spot(k, x, w, WIDTH) = 0 /\ after = line + 1
  <2> HIDE DEF w, i
  <2>1. Steps(Spot(i, x, w, WIDTH), Round(i, x, w, WIDTH),
              Spot(k, x, w, WIDTH), Round(k, x, w, WIDTH), w, WIDTH)
    BY <1>1, SpotSteps
  <2>2. QED
    BY <2>1 DEF Steps
<1>10. q = [x |-> a, y |-> b, page |-> p]
  BY <1>2 DEF PlaceAt
<1>11. r = [x |-> Spot(k, x, w, WIDTH), y |-> Spot(after, y, s, HEIGHT),
            page |-> Round(after, y, s, HEIGHT)]
  BY <1>3 DEF PlaceAt
<1> HIDE DEF a, line, after, i, w
<1>5. /\ b \in Nat /\ p \in Nat /\ b + s <= HEIGHT
      /\ IF b + s + s <= HEIGHT
         THEN Spot(line + 1, y, s, HEIGHT) = b + s /\ Round(line + 1, y, s, HEIGHT) = p
         ELSE Spot(line + 1, y, s, HEIGHT) = 0 /\ Round(line + 1, y, s, HEIGHT) = p + 1
  <2> DEFINE m == line + 1
  <2>1. m = line + 1
    OBVIOUS
  <2> HIDE DEF m
  <2>2. Steps(Spot(line, y, s, HEIGHT), Round(line, y, s, HEIGHT),
              Spot(m, y, s, HEIGHT), Round(m, y, s, HEIGHT), s, HEIGHT)
    BY <1>1, <1>4, <2>1, SpotSteps
  <2>3. QED
    BY <2>2 DEF Steps, m
<1>6. q \in Placing /\ q.x + w <= WIDTH /\ q.y + s <= HEIGHT
  <2> HIDE DEF b, p
  <2>1. QED
    BY <1>10, <1>4, <1>5 DEF Placing
<1>7. Succeeds(q, r, w, s)
  <2>1. CASE a + w + w <= WIDTH
    <3>1. r = [x |-> a + w, y |-> b, page |-> p]
      BY <1>11, <1>4, <2>1
    <3> HIDE DEF b, p
    <3>2. QED
      BY <1>10, <2>1, <3>1 DEF Succeeds
  <2>2. CASE ~(a + w + w <= WIDTH) /\ b + s + s <= HEIGHT
    <3>1. r = [x |-> 0, y |-> b + s, page |-> p]
      BY <1>11, <1>4, <1>5, <2>2
    <3> HIDE DEF b, p
    <3>2. QED
      BY <1>10, <2>2, <3>1 DEF Succeeds
  <2>3. CASE ~(a + w + w <= WIDTH) /\ ~(b + s + s <= HEIGHT)
    <3>1. r = [x |-> 0, y |-> 0, page |-> p + 1]
      BY <1>11, <1>4, <1>5, <2>3
    <3> HIDE DEF b, p
    <3>2. QED
      BY <1>10, <2>3, <3>1 DEF Succeeds
  <2>4. QED
    BY <2>1, <2>2, <2>3
<1>8. QED
  BY <1>6, <1>7 DEF q, r, w

(* One place comes before another: on a page before, or ahead on the same. *)
Before(q, r, w, s) == q.page <= r.page /\ (q.page = r.page => Ahead(q, r, w, s))

(* Each place comes before the next,                                       *)
LEMMA StepBefore ==
  ASSUME NEW q \in Placing, NEW r, NEW w \in Nat, w > 0, NEW s \in Nat, s > 0,
         Succeeds(q, r, w, s)
  PROVE  Before(q, r, w, s)
<1>1. q.x \in Nat /\ q.y \in Nat /\ q.page \in Nat /\ q = [x |-> q.x, y |-> q.y, page |-> q.page]
  BY DEF Placing
<1>2. CASE r = [x |-> q.x + w, y |-> q.y, page |-> q.page]
  <2>1. r.x = q.x + w /\ r.y = q.y /\ r.page = q.page
    BY <1>2
  <2>2. QED
    BY <1>1, <2>1 DEF Before, Ahead
<1>3. CASE r = [x |-> 0, y |-> q.y + s, page |-> q.page]
  <2>1. r.x = 0 /\ r.y = q.y + s /\ r.page = q.page
    BY <1>3
  <2>2. QED
    BY <1>1, <2>1 DEF Before, Ahead
<1>4. CASE r = [x |-> 0, y |-> 0, page |-> q.page + 1]
  <2>1. r.page = q.page + 1
    BY <1>4
  <2>2. QED
    BY <1>1, <2>1 DEF Before
<1>5. [q EXCEPT !.x = q.x + w] = [x |-> q.x + w, y |-> q.y, page |-> q.page]
  BY <1>1
<1>6. QED
  BY <1>2, <1>3, <1>4, <1>5 DEF Succeeds

(* and what comes before it comes before the next, too,                    *)
LEMMA BeforeStep ==
  ASSUME NEW p \in Placing, NEW q \in Placing, NEW r, NEW w \in Nat, w > 0,
         NEW s \in Nat, s > 0, Before(p, q, w, s), Succeeds(q, r, w, s)
  PROVE  Before(p, r, w, s)
<1>1. /\ q.x \in Nat /\ q.y \in Nat /\ q.page \in Nat /\ q = [x |-> q.x, y |-> q.y, page |-> q.page]
      /\ p.x \in Nat /\ p.y \in Nat /\ p.page \in Nat
  BY DEF Placing
<1>2. p.page <= q.page /\ (p.page = q.page => p.y + s <= q.y \/ (p.y = q.y /\ p.x + w <= q.x))
  BY DEF Before, Ahead
<1>3. CASE r = [x |-> q.x + w, y |-> q.y, page |-> q.page]
  <2>1. r.x = q.x + w /\ r.y = q.y /\ r.page = q.page
    BY <1>3
  <2>2. QED
    BY <1>1, <1>2, <2>1 DEF Before, Ahead
<1>4. CASE r = [x |-> 0, y |-> q.y + s, page |-> q.page]
  <2>1. r.x = 0 /\ r.y = q.y + s /\ r.page = q.page
    BY <1>4
  <2>2. QED
    BY <1>1, <1>2, <2>1 DEF Before, Ahead
<1>5. CASE r = [x |-> 0, y |-> 0, page |-> q.page + 1]
  <2>1. r.page = q.page + 1
    BY <1>5
  <2>2. QED
    BY <1>1, <1>2, <2>1 DEF Before
<1>6. [q EXCEPT !.x = q.x + w] = [x |-> q.x + w, y |-> q.y, page |-> q.page]
  BY <1>1
<1>7. QED
  BY <1>3, <1>4, <1>5, <1>6 DEF Succeeds

(* A text that starts on the screen.                                       *)
Starts(x, y, s) == /\ x \in Nat /\ y \in Nat /\ s \in Nat /\ s > 1
                   /\ x + (s \div 2) <= WIDTH /\ y + s <= HEIGHT

(* so that the places of a text come one before the other.                 *)
LEMMA InOrder ==
  ASSUME NEW x, NEW y, NEW s, Starts(x, y, s), NEW k \in Nat, NEW j \in 1..(k - 1)
  PROVE  Before(TextPlace(j, x, y, s), TextPlace(k, x, y, s), s \div 2, s)
<1> DEFINE w == s \div 2
           B(i, n) == Before(TextPlace(i, x, y, s), TextPlace(n, x, y, s), w, s)
           S == {n \in Nat : ~ \A i \in 1..(n - 1) : B(i, n)}
<1>1. SUFFICES ASSUME S # {} PROVE FALSE
  OBVIOUS
<1>2. PICK m \in S : \A n \in S : m <= n
  <2>1. S \in SUBSET Nat
    OBVIOUS
  <2>2. QED
    BY <1>1, <2>1, HasLeast
<1>3. m \in Nat
  BY <1>2
<1>4. PICK i \in 1..(m - 1) : ~B(i, m)
  BY <1>2
<1>5. m - 1 \in Nat /\ m - 1 > 0 /\ i \in Nat /\ i > 0
  BY <1>3, <1>4
<1>6. PICK n \in Nat : n = m - 1
  BY <1>5
<1>7. n > 0 /\ m = n + 1 /\ i <= n /\ ~(m <= n)
  BY <1>3, <1>4, <1>5, <1>6
<1>8. s \in Nat /\ s > 1 /\ s > 0 /\ x \in Nat /\ y \in Nat /\ w \in Nat /\ w > 0
      /\ x + (s \div 2) <= WIDTH /\ y + s <= HEIGHT
  BY DEF Starts
<1> HIDE DEF w
<1>9. /\ TextPlace(n, x, y, s) \in Placing
      /\ Succeeds(TextPlace(n, x, y, s), TextPlace(m, x, y, s), w, s)
  BY <1>7, <1>8, PlaceNext DEF w
<1>10. TextPlace(i, x, y, s) \in Placing
  BY <1>5, <1>8, PlaceNext
<1>11. CASE i = n
  BY <1>4, <1>8, <1>9, <1>11, StepBefore
<1>12. CASE i # n
  <2>1. n \notin S
    BY <1>2, <1>7
  <2>2. i \in 1..(n - 1)
    BY <1>5, <1>7, <1>12
  <2>3. B(i, n)
    BY <2>1, <2>2
  <2>4. B(i, m)
    BY <1>8, <1>9, <1>10, <2>3, BeforeStep
  <2>5. QED
    BY <1>4, <2>4
<1>13. QED
  BY <1>11, <1>12

(* A pen that stands at a place, and one behind the character there.       *)
Standing(v, b, q) == v = [buf |-> b, x |-> q.x, y |-> q.y]
Passed(v, b, q, s) == v = [buf |-> b, x |-> q.x + (s \div 2), y |-> q.y]

(* Where nothing is written, a character is added to what is there, and    *)
(* the pen is behind it.                                                   *)
LEMMA PutThere ==
  ASSUME NEW v, NEW b, NEW q, NEW s, NEW chr, NEW mode, Standing(Wrapped(v, s), b, q),
         b \cap Cells(Area(q, s \div 2, s)) = {}
  PROVE  Passed(Put(v, chr, s, mode), b \cup Cells(Move(Face(chr, s, mode), q.x, q.y)), q, s)
<1> USE DEF Standing, Passed
<1> DEFINE w == s \div 2
           area == Move(Box(w, s), q.x, q.y)
           face == Move(Face(chr, s, mode), q.x, q.y)
<1>1. draw_char(b, q.x, q.y, chr, s, mode)
        = fill_points(fill_points(b, area, FALSE), face, TRUE)
  BY DEF draw_char, Stamp
<1>2. fill_points(b, area, FALSE) = b \ Cells(area)
  BY DEF fill_points
<1>3. b \ Cells(area) = b
  BY DEF Area
<1>4. fill_points(b, face, TRUE) = b \cup Cells(face)
  BY DEF fill_points
<1>5. Put(v, chr, s, mode) = [buf |-> draw_char(b, q.x, q.y, chr, s, mode),
                              x |-> q.x + w, y |-> q.y]
  BY DEF Put
<1>6. QED
  BY <1>1, <1>2, <1>3, <1>4, <1>5

(* ssd1306_draw_string goes on where the next character belongs, and       *)
(* clears the screen for a new page.                                       *)
LEMMA WrappedTo ==
  ASSUME NEW b, NEW q \in Placing, NEW r, NEW s \in Nat, s > 1,
         q.x + (s \div 2) <= WIDTH, q.y + s <= HEIGHT, Succeeds(q, r, s \div 2, s)
  PROVE  Wrapped([buf |-> b, x |-> q.x + (s \div 2), y |-> q.y], s)
           = [buf |-> IF r.page = q.page THEN b ELSE {}, x |-> r.x, y |-> r.y]
<1> DEFINE w == s \div 2
           v == [buf |-> b, x |-> q.x + w, y |-> q.y]
<1>1. q.x \in Nat /\ q.y \in Nat /\ q.page \in Nat /\ q = [x |-> q.x, y |-> q.y, page |-> q.page]
      /\ w \in Nat /\ w > 0
  BY DEF Placing
<1>2. v.buf = b /\ v.x = q.x + w /\ v.y = q.y
  OBVIOUS
<1>3. Byte(v.y + s) = q.y + s
  <2> DEFINE c == q.y + s
  <2>1. c \in Nat /\ c <= HEIGHT
    BY <1>1
  <2>2. v.y + s = c
    BY <1>2
  <2> HIDE DEF c, v
  <2>3. c % 256 = c
    BY <2>1, ScreenSizes
  <2>4. Byte(c) = c
    BY <2>3 DEF Byte
  <2>5. QED
    BY <2>2, <2>4 DEF c
<1>4. Wrapped(v, s) = IF v.x <= WIDTH - w THEN v
                      ELSE IF q.y + s > HEIGHT - s THEN [buf |-> {}, x |-> 0, y |-> 0]
                      ELSE [v EXCEPT !.x = 0, !.y = q.y + s]
  BY <1>3 DEF Wrapped
<1>5. [v EXCEPT !.x = 0, !.y = q.y + s] = [buf |-> b, x |-> 0, y |-> q.y + s]
  <2>1. ASSUME NEW u \in [buf : {b}, x : Nat, y : Nat], NEW d \in Nat
        PROVE  [u EXCEPT !.x = 0, !.y = d] = [buf |-> b, x |-> 0, y |-> d]
    <3> DEFINE e == [u EXCEPT !.x = 0, !.y = d]
    <3>1. e \in [buf : {b}, x : Nat, y : Nat]
      OBVIOUS
    <3>2. e.x = 0 /\ e.y = d /\ e.buf = b
      OBVIOUS
    <3> HIDE DEF e
    <3>3. e = [buf |-> b, x |-> 0, y |-> d]
      BY <3>1, <3>2
    <3>4. QED
      BY <3>3 DEF e
  <2>2. v \in [buf : {b}, x : Nat, y : Nat] /\ q.y + s \in Nat
    BY <1>1
  <2> HIDE DEF v
  <2>3. QED
    BY <2>1, <2>2
<1> HIDE DEF v
<1>6. /\ v.x <= WIDTH - w <=> q.x + w + w <= WIDTH
      /\ q.y + s > HEIGHT - s <=> ~(q.y + s + s <= HEIGHT)
  BY <1>1, <1>2, ScreenSizes
<1>7. [q EXCEPT !.x = q.x + w] = [x |-> q.x + w, y |-> q.y, page |-> q.page]
  BY <1>1
<1>8. CASE q.x + w + w <= WIDTH
  <2>1. r = [x |-> q.x + w, y |-> q.y, page |-> q.page]
    BY <1>7, <1>8 DEF Succeeds
  <2>2. Wrapped(v, s) = v
    BY <1>4, <1>6, <1>8
  <2>3. r.x = q.x + w /\ r.y = q.y /\ r.page = q.page
    BY <2>1
  <2>4. QED
    BY <2>2, <2>3 DEF v
<1>9. CASE ~(q.x + w + w <= WIDTH) /\ q.y + s + s <= HEIGHT
  <2>1. r = [x |-> 0, y |-> q.y + s, page |-> q.page]
    BY <1>9 DEF Succeeds
  <2>2. Wrapped(v, s) = [buf |-> b, x |-> 0, y |-> q.y + s]
    BY <1>4, <1>5, <1>6, <1>9
  <2>3. r.x = 0 /\ r.y = q.y + s /\ r.page = q.page
    BY <2>1
  <2>4. QED
    BY <2>2, <2>3 DEF v
<1>10. CASE ~(q.x + w + w <= WIDTH) /\ ~(q.y + s + s <= HEIGHT)
  <2>1. r = [x |-> 0, y |-> 0, page |-> q.page + 1]
    BY <1>10 DEF Succeeds
  <2>2. Wrapped(v, s) = [buf |-> {}, x |-> 0, y |-> 0]
    BY <1>4, <1>6, <1>10
  <2>3. r.x = 0 /\ r.y = 0 /\ r.page # q.page
    BY <1>1, <2>1
  <2>4. QED
    BY <2>2, <2>3 DEF v
<1>11. QED
  BY <1>8, <1>9, <1>10

(* Every character of a text has a glyph that keeps to its box.            *)
Legible(text, s, mode) ==
  /\ Len(text) \in Nat
  /\ \A k \in 1..Len(text) : Face(text[k], s, mode) \subseteq Box(s \div 2, s)

(* The bits of the k-th character of a text,                               *)
Ink(text, k, x, y, s, mode) ==
  Cells(Move(Face(text[k], s, mode), TextPlace(k, x, y, s).x, TextPlace(k, x, y, s).y))

(* the first n characters that are on the page of the k-th,                *)
OnPage(n, k, x, y, s) ==
  {j \in 1..n : TextPlace(j, x, y, s).page = TextPlace(k, x, y, s).page}

(* and what is seen of them.                                               *)
Seen(n, k, text, x, y, s, mode) ==
  UNION {Ink(text, j, x, y, s, mode) : j \in OnPage(n, k, x, y, s)}

(* A character's bits are in its box,                                      *)
LEMMA InkInArea ==
  ASSUME NEW text, NEW s, NEW mode, Legible(text, s, mode), NEW k \in 1..Len(text), NEW x, NEW y
  PROVE  Ink(text, k, x, y, s, mode) \subseteq Cells(Area(TextPlace(k, x, y, s), s \div 2, s))
<1> DEFINE q == TextPlace(k, x, y, s)
<1>1. Face(text[k], s, mode) \subseteq Box(s \div 2, s)
  BY DEF Legible
<1>2. Move(Face(text[k], s, mode), q.x, q.y) \subseteq Area(q, s \div 2, s)
  <2> HIDE DEF q
  <2>1. QED
    BY <1>1 DEF Area, Move
<1>3. QED
  BY <1>2, Within DEF Ink

(* which none of the others on its page touches.                           *)
LEMMA InkApart ==
  ASSUME NEW text, NEW s, NEW mode, Legible(text, s, mode), NEW x, NEW y, Starts(x, y, s),
         NEW k \in 1..Len(text), NEW j \in OnPage(k - 1, k, x, y, s)
  PROVE  Ink(text, j, x, y, s, mode) \cap Cells(Area(TextPlace(k, x, y, s), s \div 2, s)) = {}
<1> DEFINE q == TextPlace(j, x, y, s)
           r == TextPlace(k, x, y, s)
           w == s \div 2
<1>1. /\ j \in 1..(k - 1) /\ q.page = r.page /\ Len(text) \in Nat
  BY DEF OnPage, Legible
<1>2. k \in Nat /\ k > 0 /\ j \in Nat /\ j > 0 /\ j \in 1..Len(text)
  BY <1>1
<1>3. s \in Nat /\ s > 1 /\ x \in Nat /\ y \in Nat /\ w \in Nat /\ x + (s \div 2) <= WIDTH
      /\ y + s <= HEIGHT
  BY DEF Starts
<1> HIDE DEF w
<1>4. q \in Placing /\ q.x + w <= WIDTH /\ q.y + s <= HEIGHT
      /\ r \in Placing /\ r.x + w <= WIDTH /\ r.y + s <= HEIGHT
  BY <1>2, <1>3, PlaceNext DEF w
<1>5. Before(q, r, w, s)
  BY <1>1, <1>2, InOrder DEF w
<1>6. Ink(text, j, x, y, s, mode) \subseteq Cells(Area(q, w, s))
  BY <1>2, InkInArea DEF w
<1> HIDE DEF q, r
<1>7. q.x \in Nat /\ q.y \in Nat /\ r.x \in Nat /\ r.y \in Nat
  BY <1>4 DEF Placing
<1>8. Ahead(q, r, w, s)
  BY <1>1, <1>5 DEF Before
<1>9. Area(q, w, s) \cap Area(r, w, s) = {}
  BY <1>3, <1>7, <1>8, AreasApart
<1>10. Area(q, w, s) \in SUBSET Screen /\ Area(r, w, s) \in SUBSET Screen
  BY <1>3, <1>4, <1>7, AreaOnScreen
<1>11. Cells(Area(q, w, s)) \cap Cells(Area(r, w, s)) = {}
  BY <1>9, <1>10, Apart
<1>12. QED
  BY <1>6, <1>11 DEF r, w

(* When the next character comes, the page is seen as it is, or cleared.   *)
LEMMA TurnPage ==
  ASSUME NEW text, NEW s, NEW mode, NEW x, NEW y, Starts(x, y, s), NEW k \in Nat, k > 0,
         NEW n, n = k + 1
  PROVE  Seen(k, n, text, x, y, s, mode)
           = IF TextPlace(n, x, y, s).page = TextPlace(k, x, y, s).page
             THEN Seen(k, k, text, x, y, s, mode) ELSE {}
<1> DEFINE P(i) == TextPlace(i, x, y, s)
<1>1. CASE P(n).page = P(k).page
  <2>1. OnPage(k, n, x, y, s) = OnPage(k, k, x, y, s)
    BY <1>1 DEF OnPage
  <2>2. QED
    BY <1>1, <2>1 DEF Seen
<1>2. CASE P(n).page # P(k).page
  <2>1. ASSUME NEW j \in 1..k PROVE P(j).page # P(n).page
    <3>1. s \in Nat /\ s > 1 /\ x \in Nat /\ y \in Nat /\ x + (s \div 2) <= WIDTH
          /\ y + s <= HEIGHT
      BY DEF Starts
    <3>2. n \in Nat /\ k \in 1..(n - 1) /\ j \in Nat /\ j > 0 /\ n > 0
      OBVIOUS
    <3>3. P(j) \in Placing /\ P(k) \in Placing /\ P(n) \in Placing
      BY <3>1, <3>2, PlaceNext
    <3>4. Before(P(k), P(n), s \div 2, s)
      BY <3>2, InOrder
    <3>5. j = k \/ Before(P(j), P(k), s \div 2, s)
      <4>1. CASE j # k
        <5>1. j \in 1..(k - 1)
          BY <4>1
        <5>2. QED
          BY <5>1, InOrder
      <4>2. QED
        BY <4>1
    <3> DEFINE a == P(j).page
               b == P(k).page
               c == P(n).page
    <3>6. a \in Nat /\ b \in Nat /\ c \in Nat
      <4> HIDE DEF P
      <4>1. QED
        BY <3>3 DEF Placing
    <3>7. b <= c /\ a <= b /\ c # b
      <4>1. b <= c /\ c # b
        BY <1>2, <3>4 DEF Before
      <4>2. a = b \/ a <= b
        BY <3>5 DEF Before
      <4> HIDE DEF a, b, c
      <4>3. QED
        BY <3>6, <4>1, <4>2
    <3> HIDE DEF a, b, c
    <3>8. a # c
      BY <3>6, <3>7
    <3>9. QED
      BY <3>8 DEF a, c
  <2>2. OnPage(k, n, x, y, s) = {}
    BY <2>1 DEF OnPage
  <2>3. QED
    BY <1>2, <2>2 DEF Seen
<1>3. QED
  BY <1>1, <1>2

(* Then its bits are added.                                                *)
LEMMA OneMore ==
  ASSUME NEW text, NEW s, NEW mode, NEW x, NEW y, NEW k \in Nat, k > 0
  PROVE  Seen(k, k, text, x, y, s, mode)
           = Seen(k - 1, k, text, x, y, s, mode) \cup Ink(text, k, x, y, s, mode)
<1>1. OnPage(k, k, x, y, s) = OnPage(k - 1, k, x, y, s) \cup {k}
  <2>1. 1..k = (1..(k - 1)) \cup {k}
    OBVIOUS
  <2>2. QED
    BY <2>1 DEF OnPage
<1>2. QED
  BY <1>1 DEF Seen

(* The pen after the k-th character, with the page so far, and before it.  *)
Behind(v, k, text, x, y, s, mode) ==
  Passed(v, Seen(k, k, text, x, y, s, mode), TextPlace(k, x, y, s), s)
AtPlace(v, k, text, x, y, s, mode) ==
  Standing(v, Seen(k - 1, k, text, x, y, s, mode), TextPlace(k, x, y, s))

(* So the pen stands before the first,                                     *)
LEMMA PenStarts ==
  ASSUME NEW text, NEW s, NEW mode, NEW x, NEW y, Starts(x, y, s)
  PROVE  AtPlace(Wrapped([buf |-> {}, x |-> x, y |-> y], s), 1, text, x, y, s, mode)
<1> DEFINE v == [buf |-> {}, x |-> x, y |-> y]
<1>1. s \in Nat /\ s > 1 /\ x \in Nat /\ y \in Nat /\ x + (s \div 2) <= WIDTH /\ y + s <= HEIGHT
  BY DEF Starts
<1>2. TextPlace(1, x, y, s) = [x |-> x, y |-> y, page |-> 0]
  BY <1>1, FirstPlace
<1>3. x <= WIDTH - (s \div 2)
  BY <1>1, ScreenSizes
<1>4. Wrapped(v, s) = v
  BY <1>3 DEF Wrapped
<1>5. Seen(1 - 1, 1, text, x, y, s, mode) = {}
  <2>1. OnPage(1 - 1, 1, x, y, s) = {}
    BY DEF OnPage
  <2>2. QED
    BY <2>1 DEF Seen
<1>6. TextPlace(1, x, y, s).x = x /\ TextPlace(1, x, y, s).y = y
  BY <1>2
<1>7. QED
  BY <1>4, <1>5, <1>6 DEF AtPlace, Standing

(* moves from behind each to before the next,                              *)
LEMMA PenMoves ==
  ASSUME NEW text, NEW s, NEW mode, NEW x, NEW y, Starts(x, y, s), NEW k \in Nat, k > 0,
         NEW n, n = k + 1, NEW v, Behind(v, k, text, x, y, s, mode)
  PROVE  AtPlace(Wrapped(v, s), n, text, x, y, s, mode)
<1> DEFINE q == TextPlace(k, x, y, s)
           r == TextPlace(n, x, y, s)
           b == Seen(k, k, text, x, y, s, mode)
<1>1. s \in Nat /\ s > 1 /\ x \in Nat /\ y \in Nat /\ x + (s \div 2) <= WIDTH /\ y + s <= HEIGHT
  BY DEF Starts
<1>2. q \in Placing /\ q.x + (s \div 2) <= WIDTH /\ q.y + s <= HEIGHT /\ Succeeds(q, r, s \div 2, s)
  BY <1>1, PlaceNext
<1>3. v = [buf |-> b, x |-> q.x + (s \div 2), y |-> q.y]
  BY DEF Behind, Passed
<1>4. Wrapped(v, s) = [buf |-> IF r.page = q.page THEN b ELSE {}, x |-> r.x, y |-> r.y]
  <2> HIDE DEF q, r, b
  <2>1. Wrapped([buf |-> b, x |-> q.x + (s \div 2), y |-> q.y], s)
          = [buf |-> IF r.page = q.page THEN b ELSE {}, x |-> r.x, y |-> r.y]
    BY <1>1, <1>2, WrappedTo
  <2>2. QED
    BY <1>3, <2>1
<1>5. Seen(k, n, text, x, y, s, mode) = IF r.page = q.page THEN b ELSE {}
  BY TurnPage
<1>6. n - 1 = k
  OBVIOUS
<1>7. QED
  BY <1>4, <1>5, <1>6 DEF AtPlace, Standing

(* and writes it;                                                          *)
LEMMA PenWrites ==
  ASSUME NEW text, NEW s, NEW mode, Legible(text, s, mode), NEW x, NEW y, Starts(x, y, s),
         NEW k \in 1..Len(text), NEW v, AtPlace(Wrapped(v, s), k, text, x, y, s, mode)
  PROVE  Behind(Put(v, text[k], s, mode), k, text, x, y, s, mode)
<1> DEFINE q == TextPlace(k, x, y, s)
           b == Seen(k - 1, k, text, x, y, s, mode)
           area == Cells(Area(q, s \div 2, s))
<1>1. Standing(Wrapped(v, s), b, q)
  BY DEF AtPlace
<1>2. b \cap area = {}
  <2>1. ASSUME NEW j \in OnPage(k - 1, k, x, y, s)
        PROVE  Ink(text, j, x, y, s, mode) \cap area = {}
    BY InkApart
  <2>2. QED
    BY <2>1 DEF Seen
<1>3. Ink(text, k, x, y, s, mode) = Cells(Move(Face(text[k], s, mode), q.x, q.y))
  BY DEF Ink
<1>4. k \in Nat /\ k > 0
  BY DEF Legible
<1>5. Seen(k, k, text, x, y, s, mode) = b \cup Ink(text, k, x, y, s, mode)
  BY <1>4, OneMore
<1> HIDE DEF q, b
<1>6. Passed(Put(v, text[k], s, mode),
             b \cup Cells(Move(Face(text[k], s, mode), q.x, q.y)), q, s)
  <2> DEFINE c == text[k]
  <2>1. b \cap Cells(Area(q, s \div 2, s)) = {}
    BY <1>2
  <2> HIDE DEF c, area
  <2>2. Passed(Put(v, c, s, mode), b \cup Cells(Move(Face(c, s, mode), q.x, q.y)), q, s)
    BY <1>1, <2>1, PutThere
  <2>3. QED
    BY <2>2 DEF c
<1>7. QED
  BY <1>3, <1>5, <1>6 DEF Behind, q

(* hence it is behind each of them in turn.                                *)
LEMMA PenFollows ==
  ASSUME NEW text, NEW s, NEW mode, Legible(text, s, mode), NEW x, NEW y, Starts(x, y, s),
         NEW pen, Penned(pen, [buf |-> {}, x |-> x, y |-> y], text, s, mode),
         NEW k \in 1..Len(text)
  PROVE  Behind(pen[k], k, text, x, y, s, mode)
<1> DEFINE B(i) == Behind(pen[i], i, text, x, y, s, mode)
           S == {i \in 1..Len(text) : ~B(i)}
<1>0. Len(text) \in Nat
  BY DEF Legible
<1>1. SUFFICES ASSUME S # {} PROVE FALSE
  OBVIOUS
<1>2. PICK m \in S : \A i \in S : m <= i
  <2>1. S \in SUBSET Nat
    BY <1>0
  <2>2. QED
    BY <1>1, <2>1, HasLeast
<1>3. m \in 1..Len(text) /\ ~B(m)
  BY <1>2
<1>4. pen[m] = Put(pen[m - 1], text[m], s, mode)
  <2>1. m \in 0..Len(text) /\ m # 0
    BY <1>0, <1>3
  <2>2. QED
    BY <2>1 DEF Penned
<1>5. AtPlace(Wrapped(pen[m - 1], s), m, text, x, y, s, mode)
  <2>1. CASE m = 1
    <3>1. 0 \in 0..Len(text) /\ m - 1 = 0
      BY <1>0, <2>1
    <3>2. pen[m - 1] = [buf |-> {}, x |-> x, y |-> y]
      BY <3>1 DEF Penned
    <3>3. QED
      BY <2>1, <3>2, PenStarts
  <2>2. CASE m # 1
    <3>1. PICK i0 \in Nat : i0 = m - 1
      BY <1>0, <1>3
    <3>2. i0 > 0 /\ m = i0 + 1 /\ i0 \in 1..Len(text) /\ ~(m <= i0)
      BY <1>0, <1>3, <2>2, <3>1
    <3>3. B(i0)
      <4>1. i0 \notin S
        BY <1>2, <3>2
      <4>2. QED
        BY <3>2, <4>1
    <3>4. QED
      BY <3>1, <3>2, <3>3, PenMoves
  <2>3. QED
    BY <2>1, <2>2
<1>6. B(m)
  BY <1>3, <1>4, <1>5, PenWrites
<1>7. QED
  BY <1>3, <1>6

(* ssd1306_draw_string writes every text, wherever it starts on the        *)
(* screen, so that each of its characters since the screen was last        *)
(* cleared for it can be read at its place, and nothing of those before is *)
(* left.                                                                   *)
THEOREM TextsReadBack ==
  ASSUME NEW text, NEW s, NEW mode, Legible(text, s, mode), Len(text) > 0,
         NEW x, NEW y, Starts(x, y, s)
  PROVE  draw_string({}, x, y, text, s, mode) = Seen(Len(text), Len(text), text, x, y, s, mode)
<1> DEFINE n == Len(text)
<1>1. n \in Nat /\ n \in 1..n /\ s \in Nat /\ x \in Nat /\ y \in Nat
  BY DEF Legible, Starts
<1>2. {} \in Buffers
  BY DEF Buffers
<1>3. PICK pen : /\ Penned(pen, [buf |-> {}, x |-> x, y |-> y], text, s, mode)
                 /\ draw_string({}, x, y, text, s, mode) = pen[n].buf
  <2> DEFINE e == {}
  <2>1. e \in Buffers /\ Len(text) \in Nat
    BY <1>1, <1>2
  <2> HIDE DEF e
  <2>2. \E pen : /\ Penned(pen, [buf |-> e, x |-> x, y |-> y], text, s, mode)
                 /\ draw_string(e, x, y, text, s, mode) = pen[Len(text)].buf
    BY <1>1, <2>1, StringIs
  <2>3. QED
    BY <2>2 DEF e
<1>4. Behind(pen[n], n, text, x, y, s, mode)
  BY <1>1, <1>3, PenFollows
<1>5. pen[n].buf = Seen(n, n, text, x, y, s, mode)
  BY <1>4 DEF Behind, Passed
<1>6. QED
  BY <1>3, <1>5

(* The texts the run looks at are some of these.                           *)
THEOREM TextsAlwaysRead == Spec => []TextReads
<1>1. ASSUME NEW s \in DOMAIN Font, NEW mode \in BOOLEAN, NEW p \in Screen,
             NEW length \in 1..TextBound,
             p[1] + s \div 2 <= WIDTH /\ p[2] + s <= HEIGHT
      PROVE  LET text == [k \in 1..length |-> Blank + k]
                 place == [k \in 1..length |-> TextPlace(k, p[1], p[2], s)]
                 last == {k \in 1..length : place[k].page = place[length].page}
             IN draw_string({}, p[1], p[2], text, s, mode) =
                  UNION {Cells(Move(Face(text[k], s, mode), place[k].x, place[k].y)) : k \in last}
  <2> DEFINE text == [k \in 1..length |-> Blank + k]
             place == [k \in 1..length |-> TextPlace(k, p[1], p[2], s)]
             last == {k \in 1..length : place[k].page = place[length].page}
             x == p[1]
             y == p[2]
  <2>1. length \in Nat /\ length > 0 /\ length \in 1..length /\ TextBound \in Nat
    BY FontAssumption
  <2>2. Len(text) = length
    BY <2>1
  <2>3. s \in Nat /\ s > 1
    BY FontAssumption
  <2>4. x \in Nat /\ y \in Nat
    BY ScreenSizes DEF Screen
  <2>5. Starts(x, y, s)
    BY <1>1, <2>3, <2>4 DEF Starts
  <2>6. Legible(text, s, mode)
    <3>1. ASSUME NEW k \in 1..length PROVE Face(text[k], s, mode) \subseteq Box(s \div 2, s)
      <4>1. k \in DOMAIN Font[s]
        BY <2>1, FontAssumption
      <4>2. text[k] - Blank = k
        BY DEF Blank
      <4>3. Font[s][k] \subseteq Box(s \div 2, s)
        BY <4>1, FontAssumption
      <4>4. QED
        BY <4>2, <4>3 DEF Face
    <3>2. QED
      BY <2>1, <2>2, <3>1 DEF Legible
  <2>7. draw_string({}, x, y, text, s, mode) = Seen(length, length, text, x, y, s, mode)
    <3> HIDE DEF text, x, y
    <3>1. QED
      BY <2>1, <2>2, <2>5, <2>6, TextsReadBack
  <2>8. last = OnPage(length, length, x, y, s)
    BY <2>1 DEF OnPage
  <2>9. ASSUME NEW k \in last
        PROVE  Cells(Move(Face(text[k], s, mode), place[k].x, place[k].y))
                 = Ink(text, k, x, y, s, mode)
    BY DEF Ink
  <2>10. UNION {Cells(Move(Face(text[k], s, mode), place[k].x, place[k].y)) : k \in last}
           = Seen(length, length, text, x, y, s, mode)
    <3> HIDE DEF last, text, place, x, y
    <3>1. QED
      BY <2>8, <2>9 DEF Seen
  <2>11. QED
    BY <2>7, <2>10
<1>2. TextsRead
  BY <1>1 DEF TextsRead
<1>3. TextReads
  BY <1>2 DEF TextReads
<1>4. QED
  BY <1>3, PTL
=============================================================================
