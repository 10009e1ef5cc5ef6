---------------------------- MODULE ScreenConsole ----------------------------
(***************************************************************************)
(* The text console (core/screen_console.c) and the timer interrupt that   *)
(* blinks its cursor (core/timer.c).  The writer is cut where an interrupt *)
(* can fall between two accesses of the shared cursor and buffer; the      *)
(* interrupt handler is one action, for it runs with interrupts disabled.  *)
(* The kernel's messages are written with interrupts disabled until main   *)
(* executes sti (core/kernel.c), and with the timer running afterwards.    *)
(*                                                                         *)
(* A blank cell has no colour, and a cleared (0) cell is a blank one: both *)
(* are drawn empty.  A colour escape is one token, the colour it selects.  *)
(***************************************************************************)
EXTENDS Integers

CONSTANTS Rows, Cols,
          Glyphs,      \* printable characters
          Colors, White,
          MaxHistory   \* bound: tokens written before interrupts are enabled

ASSUME ConsoleAssumption ==
  /\ Rows \in Nat /\ Rows >= 2 /\ Rows <= 127   \* console_get_offset(char row, ..)
  /\ Cols \in Nat \ {0}
  /\ White \in Colors
  /\ Glyphs \cap {"blank", "mark", "esc", "nl", "cr", "bs"} = {}
  /\ MaxHistory \in Nat

Cells == Rows * Cols     \* console_cells
Blank == "blank"
Empty == <<Blank, White>>        \* a cell that shows nothing
Cell == {Empty} \cup ((Glyphs \cup {"mark", "esc"}) \X Colors)

\* What console_write_char is given: an escape reaches it only by mistake.
Written == Glyphs \cup {"esc", "nl", "cr", "bs", Blank}

VARIABLES buffer,      \* console_buffer
          cursor,      \* the cell the next character goes to
          color,       \* current_color
          interrupts,  \* the interrupt flag: FALSE until main's sti
          pc,          \* where the writer is
          ch,          \* the character being written
          afterEscape, \* console_write has just consumed a colour escape
          row,         \* the row console_scroll copies next
          reg,         \* cursor as read by "cursor -= console_cols"
          dead,        \* die was called: the kernel hangs
          page         \* history: what was written while interrupts were disabled

vars == <<buffer, cursor, color, interrupts, pc, ch, afterEscape, row, reg,
          dead, page>>

(* A reference terminal: an endless page with a window of Rows rows on it.   *)
(* It is given each character as console_write passes it on, the one after a *)
(* colour escape too, whatever that is.                                      *)

MaxPos == (MaxHistory + 1) * Cols + Cells

EmptyPage == [text |-> [i \in 0..MaxPos |-> Empty], pos |-> 0, top |-> 0,
              color |-> White, tokens |-> 0]

\* What a token does to the text and the place of the next character.
OnText(p, t) ==
  LET blanked == [p.text EXCEPT ![p.pos] = Empty]
  IN CASE t[1] = "color" -> [p EXCEPT !.color = t[2]]
       [] t = <<"char", "nl">> ->
            [p EXCEPT !.text = blanked, !.pos = (p.pos \div Cols + 1) * Cols]
       [] t = <<"char", "cr">> ->
            [p EXCEPT !.text = blanked, !.pos = (p.pos \div Cols) * Cols]
       [] t = <<"char", "bs">> ->
            IF p.pos = p.top * Cols THEN p
            ELSE [p EXCEPT !.text = [blanked EXCEPT ![p.pos - 1] = Empty],
                           !.pos = p.pos - 1]
       [] OTHER ->
            [p EXCEPT !.text[p.pos] = IF t[2] = Blank THEN Empty ELSE <<t[2], p.color>>,
                      !.pos = p.pos + 1]

\* The window moves down by a row when the text reaches its end.
OnPage(p, t) ==
  LET moved == [OnText(p, t) EXCEPT !.tokens = p.tokens + 1]
  IN IF moved.pos = (moved.top + Rows) * Cols
       THEN [moved EXCEPT !.top = moved.top + 1] ELSE moved

Init == /\ buffer = [i \in 0..Cells-1 |-> Empty]
        /\ cursor = 0
        /\ color = White
        /\ interrupts = FALSE
        /\ pc = "idle"
        /\ ch = Blank
        /\ afterEscape = FALSE
        /\ row = 0
        /\ reg = 0
        /\ dead = FALSE
        /\ page = EmptyPage

-----------------------------------------------------------------------------
(* Helpers *)

Shown(c) == IF c = Blank THEN Empty ELSE <<c, color>>

\* console_put_char_fixed(offset, c): checks the offset, then stores.
Put(offset, c) ==
  IF offset >= Cells
    THEN /\ dead' = TRUE
         /\ cursor' = 0
         /\ UNCHANGED buffer
    ELSE /\ buffer' = [buffer EXCEPT ![offset] = Shown(c)]
         /\ UNCHANGED <<dead, cursor>>

\* Fault: the rows are moved down instead of up.
RowCopiedDown(b, r) ==
  [i \in DOMAIN b |-> IF i \div Cols = r THEN b[i - Cols] ELSE b[i]]

\* console_scroll's memcpy, one row at a time: row r goes to row r - 1.
RowCopied(b, r) ==
  [i \in DOMAIN b |-> IF i \div Cols = r - 1 THEN b[i + Cols] ELSE b[i]]

LastRowCleared(b) ==
  [i \in DOMAIN b |-> IF i >= Cells - Cols THEN Empty ELSE b[i]]

\* The whole of console_scroll, as the interrupt handler runs it.
Scrolled(b) ==
  [i \in DOMAIN b |-> IF i >= Cells - Cols THEN Empty ELSE b[i + Cols]]

Record(t) == page' = IF interrupts THEN page ELSE OnPage(page, t)

-----------------------------------------------------------------------------
(* The writer: console_write and console_write_char *)

\* console_write meets a colour escape.  It skips it and passes what follows
\* to console_write_char without looking at it: see WriteNext.
Escape(c) ==
  /\ pc = "idle" /\ ~dead /\ ~afterEscape
  /\ interrupts \/ page.tokens < MaxHistory
  /\ color' = c
  /\ afterEscape' = TRUE
  /\ Record(<<"color", c>>)
  /\ UNCHANGED <<buffer, cursor, interrupts, pc, ch, row, reg, dead>>

\* Fault: backspace does not stop at the first cell.
BackspaceUnchecked(c) ==
  /\ pc = "idle" /\ ~dead
  /\ interrupts \/ page.tokens < MaxHistory
  /\ c \in {"esc", Blank} => afterEscape
  /\ ch' = c
  /\ pc' = "put"
  /\ afterEscape' = FALSE
  /\ Record(<<"char", c>>)
  /\ UNCHANGED <<buffer, cursor, color, interrupts, row, reg, dead>>

\* console_write passes the next character to console_write_char.  After an
\* escape that character may be another escape's first, or the NUL that ends
\* the string, which is shown as a blank.
WriteNext(c) ==
  /\ pc = "idle" /\ ~dead
  /\ interrupts \/ page.tokens < MaxHistory
  /\ c \in {"esc", Blank} => afterEscape
  /\ ch' = c
  /\ pc' = IF c = "bs" /\ cursor = 0 THEN "idle" ELSE "put"
  /\ afterEscape' = FALSE
  /\ Record(<<"char", c>>)
  /\ UNCHANGED <<buffer, cursor, color, interrupts, row, reg, dead>>

\* The first store: the character itself, or a blank over the cursor.
PutStep ==
  /\ pc = "put" /\ ~dead
  /\ Put(cursor, IF ch \in {"nl", "cr", "bs"} THEN Blank ELSE ch)
  /\ pc' = CASE ch = "nl" -> "newline" [] ch = "cr" -> "return"
             [] ch = "bs" -> "dec"     [] OTHER   -> "inc"
  /\ UNCHANGED <<color, interrupts, ch, afterEscape, row, reg, page>>

unchangedByMove == <<buffer, color, interrupts, ch, afterEscape, row, reg, dead, page>>

Inc == /\ pc = "inc" /\ ~dead
       /\ cursor' = cursor + 1
       /\ pc' = "check"
       /\ UNCHANGED unchangedByMove

NewLine == /\ pc = "newline" /\ ~dead
           /\ cursor' = (cursor \div Cols + 1) * Cols
           /\ pc' = "check"
           /\ UNCHANGED unchangedByMove

CarriageReturn == /\ pc = "return" /\ ~dead
                  /\ cursor' = (cursor \div Cols) * Cols
                  /\ pc' = "idle"
                  /\ UNCHANGED unchangedByMove

\* Backspace: back one cell, which is erased too.
Dec == /\ pc = "dec" /\ ~dead
       /\ cursor' = cursor - 1
       /\ pc' = "erase"
       /\ UNCHANGED unchangedByMove

Erase == /\ pc = "erase" /\ ~dead
         /\ Put(cursor, Blank)
         /\ pc' = "idle"
         /\ UNCHANGED <<color, interrupts, ch, afterEscape, row, reg, page>>

\* Fault: the scroll is due one cell too late.
CheckLate == /\ pc = "check" /\ ~dead
             /\ pc' = IF cursor > Cells THEN "copy" ELSE "idle"
             /\ row' = 1
             /\ UNCHANGED <<buffer, cursor, color, interrupts, ch, afterEscape,
                            reg, dead, page>>

\* console_check_scroll reads the cursor ...
Check == /\ pc = "check" /\ ~dead
         /\ pc' = IF cursor = Cells THEN "copy" ELSE "idle"
         /\ row' = 1
         /\ UNCHANGED <<buffer, cursor, color, interrupts, ch, afterEscape,
                        reg, dead, page>>

unchangedByScroll == <<cursor, color, interrupts, ch, afterEscape, dead, page>>

\* ... console_scroll moves every row up ...
CopyRow == /\ pc = "copy" /\ ~dead
           /\ buffer' = RowCopied(buffer, row)
           /\ row' = row + 1
           /\ pc' = IF row + 1 < Rows THEN "copy" ELSE "clear"
           /\ UNCHANGED <<reg, unchangedByScroll>>

\* ... clears the last one ...
ClearRow == /\ pc = "clear" /\ ~dead
            /\ buffer' = LastRowCleared(buffer)
            /\ pc' = "load"
            /\ UNCHANGED <<reg, row, unchangedByScroll>>

\* ... and the cursor goes up: a read, a subtraction and a store.
LoadCursor == /\ pc = "load" /\ ~dead
              /\ reg' = cursor
              /\ pc' = "store"
              /\ UNCHANGED <<buffer, row, unchangedByScroll>>

StoreCursor == /\ pc = "store" /\ ~dead
               /\ cursor' = reg - Cols
               /\ pc' = "idle"
               /\ UNCHANGED <<buffer, color, interrupts, ch, afterEscape, row,
                              reg, dead, page>>

Writer == \/ PutStep \/ Inc \/ NewLine \/ CarriageReturn \/ Dec \/ Erase
          \/ Check \/ CopyRow \/ ClearRow \/ LoadCursor \/ StoreCursor

-----------------------------------------------------------------------------
(* Interrupts *)

\* main's sti, between two messages.
EnableInterrupts == /\ pc = "idle" /\ ~interrupts
                    /\ interrupts' = TRUE
                    /\ page' = EmptyPage
                    /\ UNCHANGED <<buffer, cursor, color, pc, ch, afterEscape,
                                   row, reg, dead>>

\* console_update_cursor(on), called from the timer interrupt.
TimerIRQ(on) ==
  LET due    == cursor = Cells
      screen == IF due THEN Scrolled(buffer) ELSE buffer
      at     == IF due THEN cursor - Cols ELSE cursor
  IN /\ interrupts /\ ~dead
     /\ IF at >= Cells
          THEN /\ dead' = TRUE
               /\ cursor' = 0
               /\ UNCHANGED buffer
          ELSE /\ buffer' = [screen EXCEPT ![at] = Shown(IF on THEN "mark" ELSE Blank)]
               /\ cursor' = at
               /\ UNCHANGED dead
     /\ UNCHANGED <<color, interrupts, pc, ch, afterEscape, row, reg, page>>

Next == \/ \E c \in Colors : Escape(c)
        \/ \E c \in Written : WriteNext(c)
        \/ Writer
        \/ EnableInterrupts
        \/ \E on \in BOOLEAN : TimerIRQ(on)

Spec == Init /\ [][Next]_vars

\* The processor keeps running the writer.
FairSpec == Spec /\ WF_vars(Writer)

-----------------------------------------------------------------------------
(* Properties *)

WriterPlaces == {"idle", "put", "inc", "newline", "return", "dec", "erase",
                 "check", "copy", "clear", "load", "store"}

TypeOK == /\ buffer \in [0..Cells-1 -> Cell]
          /\ cursor \in 0..Cells
          /\ color \in Colors
          /\ interrupts \in BOOLEAN
          /\ pc \in WriterPlaces
          /\ ch \in Written
          /\ afterEscape \in BOOLEAN
          /\ row \in 0..Rows
          /\ reg \in 0..Cells
          /\ dead \in BOOLEAN

\* Whenever the timer interrupts a write, even inside a scroll that it then
\* does a second time, the cursor never leaves the screen: console_put_char_fixed
\* never stops the kernel with "Invalid cursor position".
CursorStaysOnScreen == /\ ~dead
                       /\ cursor \in 0..Cells
                       /\ pc = "idle" => cursor < Cells

\* Until interrupts are enabled the screen shows exactly the last rows of
\* what was written, with its colours, through line wrap, scrolling and
\* backspacing over the end of a row.
BootTextExact ==
  (~interrupts /\ pc = "idle") =>
    /\ cursor = page.pos - page.top * Cols
    /\ color = page.color
    /\ \A i \in 0..Cells-1 : buffer[i] = page.text[page.top * Cols + i]

\* "i.e. one row up" (screen_console.c:74): after a scroll the cursor is at
\* the start of the last row.  When the timer scrolls too, it is a row higher.
ScrollIsOneRowUp ==
  [][pc = "store" /\ pc' = "idle" => cursor' = Cells - Cols]_vars
=============================================================================
