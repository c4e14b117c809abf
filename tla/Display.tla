------------------------------ MODULE Display ------------------------------
(***************************************************************************)
(* The OLED display: app_main sets up the I2C bus, creates the device and  *)
(* draws its picture, then the application may call what the driver        *)
(* offers.  The driver keeps a buffer and sends it whole; it never sends   *)
(* where to put it but in ssd1306_init, and no caller looks at whether a   *)
(* transfer went through.  The panel keeps its memory, its settings and    *)
(* its place in both when the chip restarts: nothing is wired to its reset.*)
(*                                                                         *)
(* The panel (SSD1306) is modelled from the bytes sent to it, as far as    *)
(* they decide on the picture.                                             *)
(***************************************************************************)
EXTENDS Drawing

CONSTANTS
  Picture,   \* what app_main draws
  Places, Sizes, Texts, Numbers,  \* arguments the application draws with
  MaxCalls,  \* bound on the application's calls after each boot
  MaxLost,   \* bound on transfers cut short, and bus set-ups failed, in all
  NONE       \* nothing was refreshed yet

ASSUME BoundAssumption == MaxCalls \in Nat /\ MaxLost \in Nat

(* The loops of the characters miss the end of a column whose rows pass    *)
(* 255.                                                                    *)
ASSUME ArgumentAssumption ==
  /\ Places \subseteq Nat \X Nat /\ Sizes \subseteq DOMAIN Font
  /\ DOMAIN BigFonts \subseteq {16, 32}
  /\ \A p \in Places, rows \in Sizes \cup DOMAIN BigFonts : p[2] + rows <= 256
  /\ Texts \subseteq Seq(Nat) /\ Numbers \subseteq Nat

VARIABLES
  phase,     \* where app_main stands
  bus,       \* the I2C driver is installed
  todo,      \* transfers ssd1306_init has still to make
  buf,       \* s_chDisplayBuffer
  panel,
  calls,     \* calls the application made since the boot
  lost,      \* what was lost so far
  clean,     \* history: none was, since ssd1306_init was last called
  refreshed  \* history: the buffer at the last refresh since then

driverVars == <<phase, bus, todo, buf, calls>>
history == <<clean, refreshed>>
vars == <<driverVars, panel, lost, history>>

-----------------------------------------------------------------------------
(* The panel.                                                              *)

Settings == [on |-> FALSE, pump |-> FALSE, start |-> 0, mirrored |-> FALSE,
             flipped |-> FALSE, inverse |-> FALSE, all |-> FALSE,
             mux |-> HEIGHT - 1, pins |-> TRUE, mode |-> 2,
             columns |-> <<0, WIDTH - 1>>, pages |-> <<0, PAGES - 1>>]

PowerOn(ram) == [ram |-> ram, pending |-> <<>>, at |-> <<0, 0>>, set |-> Settings]

(* How many arguments follow a command.                                    *)
Arguments(command) ==
  IF command \in {\h21, \h22} THEN 2
  ELSE IF command \in {\h20, \h81, \h8D, \hA8, \hD3, \hD5, \hD9, \hDA, \hDB} THEN 1
  ELSE 0

Bit(n, b) == (n \div 2 ^ b) % 2 = 1

Window(c, size) == <<c[2] % size, c[3] % size>>

(* What a command sets, with its arguments; a window sets the place, too.  *)
Adjust(set, c) ==
  LET By(commands, value, old) == IF c[1] \in commands THEN value ELSE old
  IN [on |-> By({\hAE, \hAF}, c[1] = \hAF, set.on),
      pump |-> By({\h8D}, Bit(c[2], 2), set.pump),
      start |-> By(\h40..\h7F, (c[1] - \h40) % HEIGHT, set.start),
      mirrored |-> By({\hA0, \hA1}, c[1] = \hA1, set.mirrored),
      flipped |-> By(\hC0..\hCF, Bit(c[1], 3), set.flipped),
      inverse |-> By({\hA6, \hA7}, c[1] = \hA7, set.inverse),
      all |-> By({\hA4, \hA5}, c[1] = \hA5, set.all),
      mux |-> By({\hA8}, c[2] % 64, set.mux),
      pins |-> By({\hDA}, Bit(c[2], 4) /\ ~Bit(c[2], 5), set.pins),
      mode |-> By({\h20}, c[2] % 4, set.mode),
      columns |-> By({\h21}, Window(c, WIDTH), set.columns),
      pages |-> By({\h22}, Window(c, PAGES), set.pages)]

Execute(p, c) ==
  [ram |-> p.ram, pending |-> <<>>,
   at |-> <<IF c[1] = \h21 THEN c[2] % WIDTH ELSE p.at[1],
            IF c[1] = \h22 THEN c[2] % PAGES ELSE p.at[2]>>,
   set |-> Adjust(p.set, c)]

TakeCommand(p, byte) ==
  LET command == Append(p.pending, byte)
  IN IF Len(command) <= Arguments(command[1])
     THEN [p EXCEPT !.pending = command]
     ELSE Execute(p, command)

After(n, window, size) == IF n = window[2] THEN window[1] ELSE (n + 1) % size

(* A byte of data, as its lit bits, goes to the place, which moves on.     *)
TakeData(p, bits) ==
  LET x == p.at[1]
      y == p.at[2]
      down == After(y, p.set.pages, PAGES)
      right == After(x, p.set.columns, WIDTH)
  IN [p EXCEPT !.ram = {c \in @ : <<c[1], c[2]>> # p.at} \cup {<<x, y, b>> : b \in bits},
               !.at = CASE p.set.mode = 1 -> <<IF down = p.set.pages[1] THEN right ELSE x, down>>
                        [] p.set.mode = 0 -> <<right, IF right = p.set.columns[1] THEN down ELSE y>>
                        [] OTHER -> <<right, y>>]

Take(isData, p, byte) == IF isData THEN TakeData(p, byte) ELSE TakeCommand(p, byte)

(* The panel after the first n bytes of a transfer.                        *)
Taken(isData, p, bytes, n) ==
  LET after[k \in 0..n] == IF k = 0 THEN p ELSE Take(isData, after[k - 1], bytes[k])
  IN after[n]

(* What is seen: mounted as it is, the panel shows its memory mirrored.    *)
Lit(p, x, y) ==
  LET column == IF p.set.mirrored THEN x ELSE WIDTH - 1 - x
      row == ((IF p.set.flipped THEN y ELSE HEIGHT - 1 - y) + p.set.start) % HEIGHT
      cell == <<column, row \div 8, row % 8>>
  IN p.set.all \/ IF p.set.inverse THEN cell \notin p.ram ELSE cell \in p.ram

Shown(p) == IF p.set.on /\ p.set.pump /\ p.set.pins /\ p.set.mux = HEIGHT - 1
            THEN {q \in Screen : Lit(p, q[1], q[2])}
            ELSE {}

-----------------------------------------------------------------------------
(* The driver.                                                             *)

Bytes(seq) == [k \in 1..Len(seq) |-> <<seq[k]>>]

(* The commands of ssd1306_init, arguments included, go one byte a         *)
(* transfer but for three.  0xDA takes 0xDB for its argument, and the 0x40 *)
(* behind it sets the start line again.                                    *)
SingleBytes == <<\hAE, \h40, \h81, \hCF, \hA1, \hC0, \hA6, \hA8, HEIGHT - 1, \hD5,
                 \h80, \hD9, \hF1, \hDA, \hDB, \h40, \h8D, \h14, \hA4, \hA6>>

(* Slip: the panel is left to write where it stands.                       *)
WindowsLeft == <<>>
Windows == <<<<\h21, 0, WIDTH - 1>>, <<\h22, 0, PAGES - 1>>>>

InitCommands == Bytes(SingleBytes) \o <<<<\h20, 1>>>> \o Windows \o Bytes(<<\hAF>>)

clear_screen(fill) == IF fill THEN Cells(Screen) ELSE {}
ClearScreen == clear_screen(FALSE)

(* The buffer's bytes, column by column, each page by page.                *)
Contents(buffer) ==
  [k \in 1..(WIDTH * PAGES) |->
     LET x == (k - 1) \div PAGES
         page == (k - 1) % PAGES
     IN {c[3] : c \in {d \in buffer : <<d[1], d[2]>> = <<x, page>>}}]

(* A transfer brings all its bytes to the panel, or only the first n: none *)
(* without the bus, or if the panel does not answer.                       *)
Transfer(isData, bytes, n) ==
  /\ n \in 0..Len(bytes)
  /\ n < Len(bytes) => lost < MaxLost \/ ~bus
  /\ ~bus => n = 0
  /\ panel' = Taken(isData, panel, bytes, n)
  /\ lost' = IF n < Len(bytes) /\ bus THEN lost + 1 ELSE lost

StartInit == /\ todo' = InitCommands
             /\ clean' = TRUE /\ refreshed' = NONE

(* ssd1306_init goes on whatever comes back, and clears the buffer last.   *)
SendCommand == /\ todo # <<>>
               /\ todo' = Tail(todo)
               /\ buf' = IF todo' = <<>> THEN ClearScreen ELSE buf
               /\ \E n \in 0..3 : /\ Transfer(FALSE, Head(todo), n)
                                  /\ clean' = (clean /\ n = Len(Head(todo)))
               /\ UNCHANGED <<phase, bus, calls, refreshed>>

(* ssd1306_refresh_gram.                                                   *)
Refresh == \E n \in 0..(WIDTH * PAGES) :
             /\ Transfer(TRUE, Contents(buf), n)
             /\ clean' = (clean /\ n \in {0, WIDTH * PAGES})
             /\ refreshed' = IF n = WIDTH * PAGES THEN buf ELSE refreshed

-----------------------------------------------------------------------------
(* app_main.                                                               *)

Init == /\ phase = "bus" /\ bus = FALSE
        /\ todo = <<>> /\ buf = ClearScreen
        /\ \E noise \in {{}, Screen} : panel = PowerOn(Cells(noise))
        /\ calls = 0 /\ lost = 0 /\ clean = FALSE /\ refreshed = NONE

(* i2c_bus_init; what its two calls return is not looked at.               *)
StartBus == /\ phase = "bus" /\ phase' = "create"
            /\ \/ bus' = TRUE /\ UNCHANGED lost
               \/ bus' = FALSE /\ lost < MaxLost /\ lost' = lost + 1
            /\ UNCHANGED <<todo, buf, calls, panel, history>>

(* ssd1306_create, and ssd1306_init once more.                             *)
Initialise(from, to) == /\ phase = from /\ phase' = to
                        /\ todo = <<>> /\ StartInit
                        /\ UNCHANGED <<bus, buf, calls, panel, lost>>

Draw == /\ phase = "draw" /\ phase' = "refresh"
        /\ todo = <<>>
        /\ buf' = draw_bitmap(ClearScreen, 0, 0, Picture)
        /\ UNCHANGED <<bus, todo, calls, panel, lost, history>>

FirstRefresh == /\ phase = "refresh" /\ phase' = "running"
                /\ Refresh
                /\ UNCHANGED <<bus, todo, buf, calls>>

(* The chip restarts at any point: a failed assert or allocation, the      *)
(* reset button, the restart after the portal.                             *)
Restart == /\ phase' = "bus" /\ bus' = FALSE
           /\ todo' = <<>> /\ buf' = ClearScreen /\ calls' = 0
           /\ clean' = FALSE /\ refreshed' = NONE
           /\ UNCHANGED <<panel, lost>>

AppMain == \/ StartBus \/ Draw \/ FirstRefresh
           \/ Initialise("create", "again") \/ Initialise("again", "draw")

(* What an application does with the driver once it runs; the arguments of *)
(* its drawings are taken from small sets.                                 *)
Paint == \/ \E p \in Places, dot \in BOOLEAN : buf' = fill_points(buf, {p}, dot)
         \/ \E p, q \in Places, dot \in BOOLEAN :
              buf' = fill_rectangle(buf, p[1], p[2], q[1], q[2], dot)
         \/ \E p \in Places, text \in Texts, size \in Sizes, mode \in BOOLEAN :
              buf' = draw_string(buf, p[1], p[2], text, size, mode)
         \/ \E p \in Places, number \in Numbers, size \in Sizes :
              buf' = draw_num(buf, p[1], p[2], number, 2, size)
         \/ \E p \in Places, height \in DOMAIN BigFonts :
              buf' = draw_big_char(buf, p[1], p[2], Zero, height)
         \/ \E p \in Places : buf' = draw_bitmap(buf, p[1], p[2], Picture)
         \/ \E p, q \in Places : buf' = draw_line(buf, p, q)
         \/ \E fill \in BOOLEAN : buf' = clear_screen(fill)

Call == /\ phase = "running" /\ todo = <<>>
        /\ calls < MaxCalls /\ calls' = calls + 1
        /\ UNCHANGED <<phase, bus>>
        /\ \/ Paint /\ UNCHANGED <<todo, panel, lost, history>>
           \/ Refresh /\ UNCHANGED <<todo, buf>>
           \/ StartInit /\ UNCHANGED <<buf, panel, lost>>

(* ssd1306_delete: only a restart makes a new device.                      *)
Delete == /\ phase = "running" /\ todo = <<>> /\ phase' = "deleted"
          /\ buf' = ClearScreen /\ calls' = 0 /\ clean' = FALSE /\ refreshed' = NONE
          /\ UNCHANGED <<bus, todo, panel, lost>>

Next == AppMain \/ SendCommand \/ Call \/ Delete \/ Restart

Spec == Init /\ [][Next]_vars

-----------------------------------------------------------------------------
(* Properties.                                                             *)

Setting == [on : BOOLEAN, pump : BOOLEAN, start : 0..(HEIGHT - 1),
            mirrored : BOOLEAN, flipped : BOOLEAN, inverse : BOOLEAN,
            all : BOOLEAN, mux : 0..63, pins : BOOLEAN, mode : 0..3,
            columns : (0..(WIDTH - 1)) \X (0..(WIDTH - 1)),
            pages : (0..(PAGES - 1)) \X (0..(PAGES - 1))]

Octet == 0..255

(* What s_chDisplayBuffer, and the panel's memory, can hold.              *)
Buffers == SUBSET Cells(Screen)

Panel == [ram : Buffers,
          pending : Seq(Octet),
          at : (0..(WIDTH - 1)) \X (0..(PAGES - 1)),
          set : Setting]

TypeOK ==
  /\ phase \in {"bus", "create", "again", "draw", "refresh", "running", "deleted"}
  /\ bus \in BOOLEAN /\ clean \in BOOLEAN
  /\ todo = <<>> \/ \E k \in 1..Len(InitCommands) :
                      todo = SubSeq(InitCommands, k, Len(InitCommands))
  /\ buf \in Buffers /\ panel \in Panel /\ Len(panel.pending) <= 2
  /\ calls \in 0..MaxCalls /\ lost \in 0..MaxLost
  /\ refreshed \in {NONE} \cup Buffers

(* The panel's place in its memory is set in ssd1306_init alone, and its   *)
(* settings outlive the chip's restarts.  Still, whatever an earlier boot  *)
(* left half sent: once ssd1306_init went through without a loss, the      *)
(* panel shows the buffer as of the last refresh, each point where it was  *)
(* drawn, until a transfer breaks off; a refresh the panel did not answer  *)
(* at all changes nothing.                                                 *)
ShowsLastRefresh ==
  clean /\ todo = <<>> /\ refreshed # NONE =>
    Shown(panel) = {p \in Screen : Cell(p) \in refreshed}

(* What the drawing routines promise (see Drawing) depends on no state; it *)
(* is looked at once, before anything happens.  Lines that are no diagonals*)
(* hold their ends and all between them;                                   *)
LineJoinsEnds == Init => LinesJoin

(* a text can be read back to where the screen was last cleared for it;    *)
TextReads == Init => TextsRead

(* a number is written as one reads it.                                    *)
NumberReads == Init => NumbersRead
=============================================================================
