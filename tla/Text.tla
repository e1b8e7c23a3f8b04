-------------------------------- MODULE Text --------------------------------
(***************************************************************************)
(* nop/arch/i386/tasks/text.c: the text mode screen, a flat array of cells *)
(* in video memory and the place of the next character. A line is left     *)
(* when the character after its last one is written, not before.           *)
(*                                                                         *)
(* A cell is a character and its colours. A char above 0x7F is negative    *)
(* and widens to 0xFFxx: the OR with text_color leaves all colour bits set.*)
(***************************************************************************)
EXTENDS Integers, Sequences, SequencesExt

CONSTANTS
  Width, Height,  \* 80 and 25
  Plain, High,    \* the characters up to and above 0x7F that are written
  Newline

ASSUME TextAssumption ==
  /\ Width \in Nat \ {0} /\ Height \in Nat \ {0}
  /\ Plain \cap High = {} /\ Newline \notin Plain \cup High

Cells == 0 .. Width * Height - 1

Ink(c) == <<c, IF c \in High THEN "all" ELSE "color">>
Blank == <<"blank", "color">>
Firmware == <<"firmware", "firmware">>

(* text_init; it does not clear what the firmware has left on the screen. *)
TextInit == [screen |-> [k \in Cells |-> Firmware], x |-> 0, y |-> 0]

-----------------------------------------------------------------------------
(* Variant: the cells are copied from the last to the first. *)
ScrollDown(t) ==
  LET n == Width * (Height - 1)
      moved == FoldRight(LAMBDA k, s : [s EXCEPT ![k] = s[k + Width]],
                         [k \in 1 .. n |-> k - 1], t.screen)
  IN  [t EXCEPT !.screen = [k \in Cells |-> IF k < n THEN moved[k] ELSE Blank]]

(* text_scroll: memmove to a lower address copies upwards. *)
Scroll(t) ==
  LET n == Width * (Height - 1)
      moved == FoldLeft(LAMBDA s, k : [s EXCEPT ![k] = s[k + Width]],
                        t.screen, [k \in 1 .. n |-> k - 1])
  IN  [t EXCEPT !.screen = [k \in Cells |-> IF k < n THEN moved[k] ELSE Blank]]

NextLine(t) ==
  IF t.y + 1 >= Height THEN [Scroll(t) EXCEPT !.x = 0]
                       ELSE [t EXCEPT !.x = 0, !.y = t.y + 1]

(* text_putchar. *)
Put(t, c) ==
  LET u == IF t.x >= Width \/ c = Newline THEN NextLine(t) ELSE t
  IN  IF c = Newline THEN u
        ELSE [u EXCEPT !.screen[u.x + u.y * Width] = Ink(c), !.x = u.x + 1]

(* text_write. *)
TextWrite(t, str) == FoldLeft(Put, t, str)

-----------------------------------------------------------------------------
(* An endless sheet of paper, which starts as the firmware's screen: its   *)
(* cells one after the other, and where on it the next character goes.     *)
Repeated(cell, n) == FoldLeft(LAMBDA s, j : Append(s, cell), <<>>, [j \in 1 .. n |-> j])

FeedLine(sheet) ==
  LET row == sheet.row + 1
  IN  [cells |-> IF row * Width >= Len(sheet.cells) THEN sheet.cells \o Repeated(Blank, Width)
                                                    ELSE sheet.cells,
       row |-> row, col |-> 0]

Type(sheet, c) ==
  LET at == IF c = Newline \/ sheet.col = Width THEN FeedLine(sheet) ELSE sheet
  IN  IF c = Newline THEN at
        ELSE [cells |-> ReplaceAt(at.cells, at.row * Width + at.col + 1, Ink(c)),
              row |-> at.row, col |-> at.col + 1]

Sheet(str) ==
  FoldLeft(Type, [cells |-> Repeated(Firmware, Width * Height),
                  row |-> 0, col |-> 0], str)

(* The screen is the last Height lines of the sheet on which str was typed. *)
ShowsEndOf(t, str) ==
  LET sheet == Sheet(str)
      above == Len(sheet.cells) - Width * Height
  IN  /\ t.screen = [k \in Cells |-> sheet.cells[above + k + 1]]
      /\ t.x = sheet.col /\ (t.y * Width = sheet.row * Width - above)
=============================================================================
