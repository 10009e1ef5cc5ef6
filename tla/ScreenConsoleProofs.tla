------------------------ MODULE ScreenConsoleProofs ------------------------
(***************************************************************************)
(* For a screen of any size of at least two rows: however the timer falls  *)
(* among the writer's steps, the cursor stays on the screen and the kernel *)
(* is never stopped by console_put_char_fixed's check; and what is written *)
(* before interrupts are enabled is shown as on a terminal.                *)
(***************************************************************************)
EXTENDS ScreenConsole, TLAPS

USE ConsoleAssumption

\* Products are monotonic: what the solver needs for rows of any width.
LEMMA TimesMonotonic ==
  ASSUME NEW a \in Int, NEW b \in Int, NEW c \in Nat, a <= b
  PROVE  a * c <= b * c
<1>1. (b - a) * c >= 0
  OBVIOUS
<1> QED BY <1>1

LEMMA CellsIsNat == Cells \in Nat /\ 2 * Cols <= Cells /\ Cols <= Cells - Cols
<1>1. 2 * Cols <= Rows * Cols
  BY TimesMonotonic
<1> QED BY <1>1 DEF Cells

\* The row of a cell of the screen, and where the row after it starts.
LEMMA RowOfCell ==
  ASSUME NEW c \in 0..Cells-1
  PROVE  /\ c \div Cols \in 0..Rows-1
         /\ (c \div Cols) * Cols \in 0..c
         /\ (c \div Cols + 1) * Cols \in 0..Cells
<1> DEFINE q == c \div Cols
<1>1. q \in Int /\ q * Cols <= c /\ c < (q + 1) * Cols
  OBVIOUS
<1>2. q < Rows
  <2> SUFFICES ASSUME Rows <= q PROVE FALSE
    BY <1>1
  <2>1. Rows * Cols <= q * Cols
    BY <1>1, TimesMonotonic
  <2> QED BY <1>1, <2>1 DEF Cells
<1>3. q >= 0
  <2> SUFFICES ASSUME q + 1 <= 0 PROVE FALSE
    BY <1>1
  <2>1. (q + 1) * Cols <= 0 * Cols
    BY <1>1, TimesMonotonic
  <2> QED BY <1>1, <2>1
<1>4. (q + 1) * Cols <= Rows * Cols
  BY <1>1, <1>2, TimesMonotonic
<1>5. q * Cols >= 0 /\ (q + 1) * Cols >= 0
  BY <1>3
<1> QED BY <1>1, <1>2, <1>3, <1>4, <1>5 DEF Cells

\* Where the writer is determines where the cursor can be.  A scroll that the
\* timer does in the middle of the writer's moves it to the last row early.
Located ==
  /\ pc \in {"idle", "put", "inc", "newline", "return", "erase"} => cursor < Cells
  /\ pc = "dec" => cursor \in 1..Cells-1
  /\ pc \in {"copy", "clear", "load"} => cursor \in {Cells, Cells - Cols}
  /\ pc = "store" => /\ cursor \in {Cells, Cells - Cols}
                     /\ reg \in {Cells, Cells - Cols}
  /\ pc = "copy" => row \in 1..Rows-1
  /\ pc = "put" /\ ch = "bs" => cursor > 0

ConsoleInv == TypeOK /\ dead = FALSE /\ Located

LEMMA InitConsoleInv == ASSUME Init PROVE ConsoleInv
<1>1. Empty \in Cell
  BY DEF Cell
<1>2. TypeOK
  <2>1. buffer \in [0..Cells-1 -> Cell]
    BY <1>1 DEF Init
  <2>2. cursor \in 0..Cells /\ row \in 0..Rows /\ reg \in 0..Cells
    BY CellsIsNat DEF Init
  <2>3. pc \in WriterPlaces /\ ch \in Written /\ color \in Colors
    BY DEF Init, WriterPlaces, Written
  <2>4. interrupts \in BOOLEAN /\ afterEscape \in BOOLEAN /\ dead \in BOOLEAN
    BY DEF Init
  <2> QED BY <2>1, <2>2, <2>3, <2>4 DEF TypeOK
<1>3. Located
  BY CellsIsNat DEF Init, Located
<1> QED BY <1>2, <1>3 DEF Init, ConsoleInv

LEMMA ShownType ==
  ASSUME TypeOK, NEW c \in Glyphs \cup {"mark", "esc", Blank}
  PROVE  Shown(c) \in Cell
  BY DEF TypeOK, Shown, Cell, Empty, Blank

LEMMA PutType ==
  ASSUME TypeOK, NEW at \in 0..Cells-1, NEW c \in Glyphs \cup {"mark", "esc", Blank},
         Put(at, c), dead = FALSE
  PROVE  /\ buffer' \in [0..Cells-1 -> Cell]
         /\ dead' = FALSE
         /\ cursor' = cursor
<1>1. ~(at >= Cells)
  BY CellsIsNat
<1> QED BY <1>1, ShownType DEF Put, TypeOK

\* The buffer keeps its type when it is scrolled, in one go or row by row.
LEMMA ScrollTypes ==
  ASSUME NEW b \in [0..Cells-1 -> Cell]
  PROVE  /\ Scrolled(b) \in [0..Cells-1 -> Cell]
         /\ LastRowCleared(b) \in [0..Cells-1 -> Cell]
         /\ \A r \in 1..Rows-1 : RowCopied(b, r) \in [0..Cells-1 -> Cell]
<1>0. Empty \in Cell
  BY DEF Cell
<1>1. Scrolled(b) \in [0..Cells-1 -> Cell]
  BY <1>0, CellsIsNat DEF Scrolled
<1>2. LastRowCleared(b) \in [0..Cells-1 -> Cell]
  BY <1>0, CellsIsNat DEF LastRowCleared
<1>3. ASSUME NEW r \in 1..Rows-1
      PROVE  RowCopied(b, r) \in [0..Cells-1 -> Cell]
  <2>1. ASSUME NEW i \in 0..Cells-1, i \div Cols = r - 1
        PROVE  i + Cols \in 0..Cells-1
    <3>1. i < (r - 1 + 1) * Cols
      BY <2>1
    <3>2. (r + 1) * Cols <= Rows * Cols
      BY TimesMonotonic
    <3>3. (r + 1) * Cols = r * Cols + Cols
      OBVIOUS
    <3>4. r - 1 + 1 = r
      OBVIOUS
    <3> QED BY <3>1, <3>2, <3>3, <3>4 DEF Cells
  <2> QED BY <2>1 DEF RowCopied
<1> QED BY <1>1, <1>2, <1>3

LEMMA StartKeepsInv ==
  ASSUME ConsoleInv,
         \/ \E c \in Colors : Escape(c)
         \/ \E c \in Written : WriteNext(c)
         \/ EnableInterrupts
  PROVE  ConsoleInv'
<1> USE DEF ConsoleInv
<1>1. ASSUME NEW c \in Colors, Escape(c) PROVE ConsoleInv'
  <2>1. TypeOK' BY <1>1 DEF TypeOK, Escape
  <2>2. Located' BY <1>1 DEF Located, Escape
  <2> QED BY <1>1, <2>1, <2>2 DEF Escape
<1>2. ASSUME NEW c \in Written, WriteNext(c) PROVE ConsoleInv'
  <2>1. TypeOK' BY <1>2 DEF TypeOK, WriteNext, WriterPlaces
  <2>2. Located' BY <1>2 DEF TypeOK, Located, WriteNext
  <2> QED BY <1>2, <2>1, <2>2 DEF WriteNext
<1>3. CASE EnableInterrupts
  <2>1. TypeOK' BY <1>3 DEF TypeOK, EnableInterrupts
  <2>2. Located' BY <1>3 DEF Located, EnableInterrupts
  <2> QED BY <1>3, <2>1, <2>2 DEF EnableInterrupts
<1> QED BY <1>1, <1>2, <1>3

LEMMA PutStepKeepsInv == ASSUME ConsoleInv, PutStep PROVE ConsoleInv'
<1> DEFINE c == IF ch \in {"nl", "cr", "bs"} THEN Blank ELSE ch
<1>1. c \in Glyphs \cup {"mark", "esc", Blank}
  BY DEF ConsoleInv, TypeOK, Written
<1>2. cursor \in 0..Cells-1
  BY CellsIsNat DEF ConsoleInv, TypeOK, Located, PutStep
<1>3. /\ buffer' \in [0..Cells-1 -> Cell]
      /\ dead' = FALSE
      /\ cursor' = cursor
  BY <1>1, <1>2, PutType DEF ConsoleInv, PutStep
<1>4. /\ pc' = "dec" => ch = "bs"
      /\ pc' \in {"newline", "return", "dec", "inc"}
      /\ pc = "put"
      /\ UNCHANGED <<color, interrupts, ch, afterEscape, row, reg>>
  BY DEF PutStep
<1>5. TypeOK'
  BY <1>3, <1>4 DEF ConsoleInv, TypeOK, WriterPlaces
<1>6. Located'
  BY <1>2, <1>3, <1>4, CellsIsNat DEF ConsoleInv, TypeOK, Located
<1> QED BY <1>3, <1>5, <1>6 DEF ConsoleInv

LEMMA EraseKeepsInv == ASSUME ConsoleInv, Erase PROVE ConsoleInv'
<1>1. cursor \in 0..Cells-1
  BY CellsIsNat DEF ConsoleInv, TypeOK, Located, Erase
<1>2. /\ buffer' \in [0..Cells-1 -> Cell]
      /\ dead' = FALSE
      /\ cursor' = cursor
  BY <1>1, PutType DEF ConsoleInv, Erase
<1> QED BY <1>1, <1>2, CellsIsNat
     DEF ConsoleInv, TypeOK, Located, WriterPlaces, Erase

LEMMA MoveKeepsInv ==
  ASSUME ConsoleInv, Inc \/ NewLine \/ CarriageReturn \/ Dec
  PROVE  ConsoleInv'
<1> USE CellsIsNat DEF ConsoleInv, TypeOK, Located, WriterPlaces, unchangedByMove
<1>1. CASE Inc BY <1>1 DEF Inc
<1>2. CASE NewLine
  <2>1. cursor \in 0..Cells-1
    BY <1>2 DEF NewLine
  <2> QED BY <1>2, <2>1, RowOfCell DEF NewLine
<1>3. CASE CarriageReturn
  <2>1. cursor \in 0..Cells-1
    BY <1>3 DEF CarriageReturn
  <2>2. (cursor \div Cols) * Cols \in 0..cursor
    BY <2>1, RowOfCell
  <2>3. cursor' \in 0..Cells-1 /\ pc' = "idle"
    BY <1>3, <2>1, <2>2 DEF CarriageReturn
  <2>4. TypeOK' BY <1>3, <2>3 DEF CarriageReturn
  <2>5. Located' BY <2>3
  <2> QED BY <1>3, <2>4, <2>5 DEF CarriageReturn
<1>4. CASE Dec
  <2>1. cursor' \in 0..Cells-1 /\ pc' = "erase"
    BY <1>4 DEF Dec
  <2>2. TypeOK' BY <1>4, <2>1 DEF Dec
  <2>3. Located' BY <2>1
  <2> QED BY <1>4, <2>2, <2>3 DEF Dec
<1> QED BY <1>1, <1>2, <1>3, <1>4

LEMMA ScrollKeepsInv ==
  ASSUME ConsoleInv, Check \/ CopyRow \/ ClearRow \/ LoadCursor \/ StoreCursor
  PROVE  ConsoleInv'
<1> USE CellsIsNat DEF ConsoleInv, TypeOK, Located, WriterPlaces, unchangedByScroll
<1>1. CASE Check BY <1>1 DEF Check
<1>2. CASE CopyRow
  <2>1. row \in 1..Rows-1 /\ buffer' \in [0..Cells-1 -> Cell]
    BY <1>2, ScrollTypes DEF CopyRow
  <2>2. TypeOK' BY <1>2, <2>1 DEF CopyRow
  <2>3. Located' BY <1>2, <2>1 DEF CopyRow
  <2> QED BY <1>2, <2>2, <2>3 DEF CopyRow
<1>3. CASE ClearRow BY <1>3, ScrollTypes DEF ClearRow
<1>4. CASE LoadCursor BY <1>4 DEF LoadCursor
<1>5. CASE StoreCursor BY <1>5 DEF StoreCursor
<1> QED BY <1>1, <1>2, <1>3, <1>4, <1>5

LEMMA TimerKeepsInv ==
  ASSUME ConsoleInv, NEW on \in BOOLEAN, TimerIRQ(on)
  PROVE  ConsoleInv'
<1> DEFINE due    == cursor = Cells
           screen == IF due THEN Scrolled(buffer) ELSE buffer
           at     == IF due THEN cursor - Cols ELSE cursor
           mark   == Shown(IF on THEN "mark" ELSE Blank)
<1>1. at \in 0..Cells-1 /\ ~(at >= Cells)
  BY CellsIsNat DEF ConsoleInv, TypeOK
<1>2. screen \in [0..Cells-1 -> Cell]
  BY ScrollTypes DEF ConsoleInv, TypeOK
<1>3. mark \in Cell
  BY ShownType DEF ConsoleInv
<1>4. buffer' = [screen EXCEPT ![at] = mark] /\ cursor' = at /\ dead' = FALSE
  BY <1>1 DEF TimerIRQ, ConsoleInv
<1>5. UNCHANGED <<color, interrupts, pc, ch, afterEscape, row, reg>>
  BY DEF TimerIRQ
<1>6. TypeOK'
  <2>1. buffer' \in [0..Cells-1 -> Cell]
    BY <1>2, <1>3, <1>4
  <2>2. cursor' \in 0..Cells
    BY <1>1, <1>4, CellsIsNat
  <2> QED BY <1>4, <1>5, <2>1, <2>2 DEF ConsoleInv, TypeOK
<1>7. Located'
  BY <1>1, <1>4, <1>5, CellsIsNat DEF ConsoleInv, TypeOK, Located
<1> QED BY <1>4, <1>6, <1>7 DEF ConsoleInv

\* The inductive invariant holds in every reachable state.
THEOREM ConsoleInvariance == Spec => []ConsoleInv
<1>1. ConsoleInv /\ [Next]_vars => ConsoleInv'
  <2> SUFFICES ASSUME ConsoleInv, [Next]_vars PROVE ConsoleInv'
    OBVIOUS
  <2>1. CASE Writer
    BY <2>1, PutStepKeepsInv, EraseKeepsInv, MoveKeepsInv, ScrollKeepsInv DEF Writer
  <2>2. CASE UNCHANGED vars
    BY <2>2 DEF vars, ConsoleInv, TypeOK, Located
  <2> QED BY <2>1, <2>2, StartKeepsInv, TimerKeepsInv DEF Next
<1> QED BY <1>1, InitConsoleInv, PTL DEF Spec

\* On a screen of any size, no interleaving of the writer with the timer takes
\* the cursor off the screen: the "Invalid cursor position" stop is unreachable.
THEOREM CursorNeverLeavesScreen == Spec => []CursorStaysOnScreen
<1>1. ConsoleInv => CursorStaysOnScreen
  BY DEF ConsoleInv, CursorStaysOnScreen, TypeOK, Located
<1> QED BY <1>1, ConsoleInvariance, PTL

\* Everything is of its type, with the cursor at most behind the last cell.
THEOREM ConsoleTypes == Spec => []TypeOK
  BY ConsoleInvariance, PTL DEF ConsoleInv

-----------------------------------------------------------------------------
(***************************************************************************)
(* What the screen shows.  While interrupts are disabled the reference     *)
(* page is one token ahead of the screen: it has taken the token in one    *)
(* step, and the writer's steps bring the screen after it.                 *)
(***************************************************************************)
\* What the reference page is: a text with a place in it that the tokens so far
\* can have reached.
PageTyped ==
  /\ page \in [text : [0..MaxPos -> Cell], pos : Nat, top : Nat, color : Colors,
               tokens : 0..MaxHistory]
  /\ page.pos <= page.tokens * Cols
  /\ color = page.color

\* The screen has the window that begins at row t of the page, but for the cells
\* S that are yet to be stored; the token being written takes the cursor to at,
\* and what lies below that window is empty.
Window(p, screen, t, S, at) ==
  /\ t \in 0..MaxHistory
  /\ p.pos = t * Cols + at
  /\ p.top = IF at = Cells THEN t + 1 ELSE t
  /\ \A i \in (0..Cells-1) \ S : screen[i] = p.text[t * Cols + i]
  /\ \A j \in t * Cols + Cells .. MaxPos : p.text[j] = Empty

EmptyAt(p, t, i) == p.text[t * Cols + i] = Empty

\* The same in the middle of a scroll: the rows above r have been moved up.
Scrolling(p, screen, t, r) ==
  /\ t \in 0..MaxHistory
  /\ p.pos = t * Cols + Cells
  /\ p.top = t + 1
  /\ \A i \in 0..Cells-1 :
       screen[i] = IF i \div Cols < r THEN p.text[t * Cols + Cols + i]
                   ELSE p.text[t * Cols + i]
  /\ \A j \in t * Cols + Cells .. MaxPos : p.text[j] = Empty

RowStart(c) == (c \div Cols) * Cols

PutDue(t) ==
  \/ /\ ch = "nl"
     /\ Window(page, buffer, t, {cursor}, RowStart(cursor) + Cols)
     /\ EmptyAt(page, t, cursor)
  \/ /\ ch = "cr"
     /\ Window(page, buffer, t, {cursor}, RowStart(cursor))
     /\ EmptyAt(page, t, cursor)
  \/ /\ ch = "bs" /\ cursor > 0
     /\ Window(page, buffer, t, {cursor, cursor - 1}, cursor - 1)
     /\ EmptyAt(page, t, cursor) /\ EmptyAt(page, t, cursor - 1)
  \/ /\ ch \notin {"nl", "cr", "bs"}
     /\ Window(page, buffer, t, {cursor}, cursor + 1)
     /\ page.text[t * Cols + cursor] = Shown(ch)

AtPlace ==
  /\ pc = "idle" => Window(page, buffer, page.top, {}, cursor)
  /\ pc = "put" => \E t \in Nat : PutDue(t)
  /\ pc = "inc" => \E t \in Nat : Window(page, buffer, t, {}, cursor + 1)
  /\ pc = "newline" => \E t \in Nat : Window(page, buffer, t, {}, RowStart(cursor) + Cols)
  /\ pc = "return" => \E t \in Nat : Window(page, buffer, t, {}, RowStart(cursor))
  /\ pc = "dec" => \E t \in Nat : Window(page, buffer, t, {cursor - 1}, cursor - 1)
                                  /\ EmptyAt(page, t, cursor - 1)
  /\ pc = "erase" => \E t \in Nat : Window(page, buffer, t, {cursor}, cursor) /\ EmptyAt(page, t, cursor)
  /\ pc = "check" => \E t \in Nat : Window(page, buffer, t, {}, cursor)
  /\ pc = "copy" => cursor = Cells /\ \E t \in Nat : Scrolling(page, buffer, t, row - 1)
  /\ pc = "clear" => cursor = Cells /\ \E t \in Nat : Scrolling(page, buffer, t, Rows - 1)
  /\ pc \in {"load", "store"} => Window(page, buffer, page.top, {}, Cells - Cols)
  /\ pc = "load" => cursor = Cells
  /\ pc = "store" => reg = Cells

PageInv == ~interrupts => PageTyped /\ AtPlace

LEMMA RowBase ==
  ASSUME NEW t \in Nat
  PROVE  /\ t * Cols \in Nat
         /\ (t + 1) * Cols = t * Cols + Cols
         /\ (t + Rows) * Cols = t * Cols + Cells
BY DEF Cells

\* A page has place for a window behind every text that can have been written.
LEMMA PageRoom ==
  /\ MaxPos \in Nat
  /\ \A t \in 0..MaxHistory : t * Cols + Cols + Cells <= MaxPos
<1>1. MaxHistory * Cols \in Nat /\ (MaxHistory + 1) * Cols = MaxHistory * Cols + Cols
  OBVIOUS
<1>2. ASSUME NEW t \in 0..MaxHistory PROVE t * Cols <= MaxHistory * Cols
  BY TimesMonotonic
<1>3. ASSUME NEW t \in 0..MaxHistory PROVE t * Cols \in Nat
  OBVIOUS
<1> QED BY <1>1, <1>2, <1>3, CellsIsNat DEF MaxPos

\* The quotient of a division is where it has to be.
LEMMA DivIs ==
  ASSUME NEW x \in Nat, NEW q \in Nat, q * Cols <= x, x < (q + 1) * Cols
  PROVE  x \div Cols = q
<1> DEFINE d == x \div Cols
<1>1. d \in Int /\ d * Cols <= x /\ x < (d + 1) * Cols
  OBVIOUS
<1> HIDE DEF d
<1>2. ~(d + 1 <= q)
  <2> SUFFICES ASSUME d + 1 <= q PROVE FALSE
    OBVIOUS
  <2>1. (d + 1) * Cols <= q * Cols
    BY <1>1, TimesMonotonic
  <2> QED BY <1>1, <2>1
<1>3. ~(q + 1 <= d)
  <2> SUFFICES ASSUME q + 1 <= d PROVE FALSE
    OBVIOUS
  <2>1. (q + 1) * Cols <= d * Cols
    BY <1>1, TimesMonotonic
  <2> QED BY <1>1, <2>1
<1>4. d = q
  BY <1>1, <1>2, <1>3
<1> QED BY <1>4 DEF d

\* The start of a row of the page, counted from the window that begins at t.
LEMMA RowOfPage ==
  ASSUME NEW t \in Nat, NEW c \in 0..Cells-1
  PROVE  /\ ((t * Cols + c) \div Cols) * Cols = t * Cols + RowStart(c)
         /\ ((t * Cols + c) \div Cols + 1) * Cols = t * Cols + RowStart(c) + Cols
         /\ (c \div Cols + 1) * Cols = RowStart(c) + Cols
         /\ RowStart(c) \in 0..c
         /\ RowStart(c) + Cols \in 0..Cells
         /\ c < RowStart(c) + Cols
<1> DEFINE q == c \div Cols
<1>1. q \in Nat /\ q * Cols \in 0..c /\ (q + 1) * Cols \in 0..Cells
  BY RowOfCell
<1>2. c < (q + 1) * Cols
  OBVIOUS
<1>3. (q + 1) * Cols = q * Cols + Cols
  BY <1>1
<1>4. RowStart(c) = q * Cols
  BY DEF RowStart
<1> HIDE DEF q
<1>5. (t + q) * Cols = t * Cols + q * Cols /\ (t + q + 1) * Cols = t * Cols + q * Cols + Cols
  BY <1>1
<1>6. t * Cols \in Nat /\ q * Cols \in Nat
  BY <1>1, RowBase
<1>7. (t * Cols + c) \div Cols = t + q
  <2>1. t * Cols + c \in Nat /\ t + q \in Nat
    BY <1>1, <1>6
  <2>2. (t + q) * Cols <= t * Cols + c /\ t * Cols + c < (t + q + 1) * Cols
    BY <1>1, <1>2, <1>3, <1>5, <1>6
  <2> QED BY <2>1, <2>2, DivIs
<1>8. (c \div Cols + 1) * Cols = q * Cols + Cols
  BY <1>3 DEF q
<1> QED BY <1>1, <1>2, <1>3, <1>4, <1>5, <1>6, <1>7, <1>8

\* Moving down by a row of cells.
LEMMA NextRow ==
  ASSUME NEW c \in 0..Cells-1
  PROVE  /\ (c + Cols) \div Cols = c \div Cols + 1
         /\ c \div Cols \in 0..Rows-1
         /\ c \div Cols < Rows - 1 => c + Cols \in 0..Cells-1
         /\ c \div Cols < Rows - 1 <=> c < Cells - Cols
<1> DEFINE q == c \div Cols
<1>1. q \in 0..Rows-1 /\ q * Cols <= c
  BY RowOfCell
<1>2. c < (q + 1) * Cols
  OBVIOUS
<1> HIDE DEF q
<1>3. (q + 1) * Cols = q * Cols + Cols /\ (q + 1 + 1) * Cols = q * Cols + Cols + Cols
  BY <1>1
<1>4. q * Cols \in Nat
  BY <1>1, RowBase
<1>5. (c + Cols) \div Cols = q + 1
  <2>1. c + Cols \in Nat /\ q + 1 \in Nat
    BY <1>1
  <2>2. (q + 1) * Cols <= c + Cols /\ c + Cols < (q + 1 + 1) * Cols
    BY <1>1, <1>2, <1>3, <1>4
  <2> QED BY <2>1, <2>2, DivIs
<1>6. (Rows - 1) * Cols = Cells - Cols
  BY DEF Cells
<1>7. ASSUME q < Rows - 1 PROVE c < Cells - Cols
  <2>1. (q + 1) * Cols <= (Rows - 1) * Cols
    BY <1>1, <1>7, TimesMonotonic
  <2> QED BY <1>2, <1>3, <1>4, <1>6, <2>1, CellsIsNat
<1>8. ASSUME ~(q < Rows - 1) PROVE ~(c < Cells - Cols)
  <2>1. (Rows - 1) * Cols <= q * Cols
    BY <1>1, <1>8, TimesMonotonic
  <2> QED BY <1>1, <1>4, <1>6, <2>1, CellsIsNat
<1>9. q < Rows - 1 <=> c < Cells - Cols
  BY <1>7, <1>8
<1>10. c < Cells - Cols => c + Cols \in 0..Cells-1
  BY CellsIsNat
<1> QED BY <1>1, <1>5, <1>9, <1>10 DEF q


-----------------------------------------------------------------------------
(* The step that takes a token *)

Text == [0..MaxPos -> Cell]

PageRecord == [text : Text, pos : Nat, top : Nat, color : Colors,
               tokens : Nat]

LEMMA OnPageIs ==
  ASSUME NEW p \in PageRecord, NEW token, OnText(p, token) \in PageRecord
  PROVE  LET m == OnText(p, token) IN
         /\ OnPage(p, token) \in PageRecord
         /\ OnPage(p, token).text = m.text
         /\ OnPage(p, token).pos = m.pos
         /\ OnPage(p, token).color = m.color
         /\ OnPage(p, token).tokens = p.tokens + 1
         /\ OnPage(p, token).top = IF m.pos = (m.top + Rows) * Cols
                                     THEN m.top + 1 ELSE m.top
<1> DEFINE m == OnText(p, token)
           n == [m EXCEPT !.tokens = p.tokens + 1]
<1>1. OnPage(p, token) = IF n.pos = (n.top + Rows) * Cols
                           THEN [n EXCEPT !.top = n.top + 1] ELSE n
  BY DEF OnPage
<1>2. m \in PageRecord
  OBVIOUS
<1>3. p.tokens + 1 \in Nat
  BY DEF PageRecord
<1> HIDE DEF m
<1>4. /\ n \in PageRecord
      /\ n.text = m.text /\ n.pos = m.pos /\ n.top = m.top /\ n.color = m.color
      /\ n.tokens = p.tokens + 1
  BY <1>2, <1>3 DEF PageRecord
<1> HIDE DEF n
<1>5. n.top + 1 \in Nat
  BY <1>4 DEF PageRecord
<1>6. CASE n.pos = (n.top + Rows) * Cols
  <2>1. OnPage(p, token) = [n EXCEPT !.top = n.top + 1]
    BY <1>1, <1>6
  <2>2. m.pos = (m.top + Rows) * Cols
    BY <1>4, <1>6
  <2> QED BY <1>4, <1>5, <2>1, <2>2 DEF PageRecord, m
<1>7. CASE n.pos # (n.top + Rows) * Cols
  <2>1. OnPage(p, token) = n
    BY <1>1, <1>7
  <2>2. m.pos # (m.top + Rows) * Cols
    BY <1>4, <1>7
  <2> QED BY <1>4, <2>1, <2>2 DEF m
<1> QED BY <1>6, <1>7

\* A page with another text and another place in it.
Rewrite(p, text, pos) == [p EXCEPT !.text = text, !.pos = pos]

IsRewrite(m, p, text, pos) ==
  /\ m \in PageRecord
  /\ m.text = text /\ m.pos = pos /\ m.top = p.top /\ m.color = p.color

LEMMA Rewritten ==
  ASSUME NEW p \in PageRecord, NEW text \in Text, NEW pos \in Nat
  PROVE  IsRewrite(Rewrite(p, text, pos), p, text, pos)
BY DEF PageRecord, Rewrite, IsRewrite

\* A text that differs from the page's in the cells S of a window only.
ChangesIn(p, text, t, S) ==
  \A j \in 0..MaxPos : text[j] = p.text[j]
                         \/ \E i \in (0..Cells-1) \cap S : j = t * Cols + i

\* The page after a token that changes the text only in the cells S of the
\* window and takes the place of the next character to the cell at.
LEMMA Accept ==
  ASSUME PageTyped, NEW t \in Nat, t = page.top, Window(page, buffer, t, {}, cursor),
         cursor \in 0..Cells-1, page.tokens < MaxHistory,
         NEW token, NEW text \in Text, NEW at \in 0..Cells,
         at <= cursor + Cols, NEW S,
         NEW pos \in Nat, pos = t * Cols + at,
         OnText(page, token) = Rewrite(page, text, pos),
         ChangesIn(page, text, t, S),
         page' = OnPage(page, token), UNCHANGED <<buffer, cursor, color>>
  PROVE  /\ PageTyped'
         /\ Window(page', buffer', t, S, at)
         /\ page'.text = text
<1> DEFINE b == t * Cols
<1>1. b \in Nat /\ (t + Rows) * Cols = b + Cells
  BY RowBase
<1>2. page \in PageRecord /\ page.tokens \in 0..MaxHistory
  BY DEF PageTyped, PageRecord, Text
<1> HIDE DEF b
<1>3. b \in Nat /\ b + at \in Nat
  BY <1>1
<1> DEFINE m == OnText(page, token)
<1>4. m \in PageRecord /\ m.text = text /\ m.pos = b + at /\ m.top = t /\ m.color = page.color
  <2>1. m \in PageRecord /\ m.text = text /\ m.pos = pos /\ m.top = page.top /\ m.color = page.color
    <3>1. page \in PageRecord /\ text \in Text /\ pos \in Nat
      BY <1>2
    <3>2. IsRewrite(m, page, text, pos)
      BY <3>1, Rewritten
    <3> HIDE DEF m
    <3> QED BY <3>2 DEF IsRewrite
  <2> QED BY <2>1 DEF b
<1>5. /\ page' \in PageRecord
      /\ page'.text = text
      /\ page'.pos = b + at
      /\ page'.color = page.color
      /\ page'.tokens = page.tokens + 1
      /\ page'.top = IF b + at = b + Cells THEN t + 1 ELSE t
  <2>1. page'.top = IF m.pos = (m.top + Rows) * Cols THEN m.top + 1 ELSE m.top
    BY <1>2, <1>4, OnPageIs
  <2>2. m.pos = (m.top + Rows) * Cols <=> b + at = b + Cells
    BY <1>1, <1>4
  <2> HIDE DEF m
  <2>3. page'.top = IF b + at = b + Cells THEN t + 1 ELSE t
    BY <1>4, <2>1, <2>2
  <2> QED BY <1>2, <1>4, <2>3, OnPageIs DEF m
<1>6. (page.tokens + 1) * Cols = page.tokens * Cols + Cols /\ page.tokens * Cols \in Nat
  BY <1>2, RowBase
<1>7. page.pos = b + cursor /\ page.pos <= page.tokens * Cols
  BY DEF Window, PageTyped, b
<1>8. PageTyped'
  <2>1. page'.tokens \in 0..MaxHistory
    BY <1>2, <1>5, ConsoleAssumption
  <2>2. page' \in [text : [0..MaxPos -> Cell], pos : Nat, top : Nat, color : Colors,
                   tokens : 0..MaxHistory]
    BY <1>5, <2>1 DEF PageRecord, Text
  <2>3. page'.tokens * Cols = page.tokens * Cols + Cols
    BY <1>5, <1>6
  <2>4. page'.pos <= page'.tokens * Cols
    BY <1>1, <1>5, <1>6, <1>7, <2>3
  <2>5. color' = page'.color
    BY <1>5 DEF PageTyped
  <2> QED BY <2>2, <2>4, <2>5 DEF PageTyped
<1>9. Window(page', buffer', t, S, at)
  <2>1. t \in 0..MaxHistory
    BY DEF Window
  <2>2. page'.pos = t * Cols + at /\ page'.top = IF at = Cells THEN t + 1 ELSE t
    BY <1>1, <1>5, CellsIsNat DEF b
  <2>3. b + Cols + Cells <= MaxPos /\ MaxPos \in Nat
    BY <2>1, PageRoom DEF b
  <2>4. ASSUME NEW i \in (0..Cells-1) \ S
        PROVE  buffer[i] = text[b + i]
    <3>1. buffer[i] = page.text[b + i]
      BY DEF Window, b
    <3>2. b + i \in 0..MaxPos
      <4>1. i \in Int /\ 0 <= i /\ i <= Cells - 1
        BY CellsIsNat
      <4>2. Cells \in Nat /\ Cols \in Nat
        BY CellsIsNat
      <4>3. b \in Nat /\ MaxPos \in Nat /\ b + Cols + Cells <= MaxPos
        BY <1>3, <2>3
      <4> QED BY <4>1, <4>2, <4>3
    <3>3. ~\E k \in (0..Cells-1) \cap S : b + i = b + k
      BY <1>1, CellsIsNat
    <3> QED BY <3>1, <3>2, <3>3 DEF b, ChangesIn
  <2>5. ASSUME NEW j \in b + Cells .. MaxPos
        PROVE  text[j] = Empty
    <3>1. page.text[j] = Empty
      BY DEF Window, b
    <3>2. j \in 0..MaxPos /\ ~\E k \in (0..Cells-1) \cap S : j = b + k
      BY <1>1, CellsIsNat
    <3> QED BY <3>1, <3>2 DEF b, ChangesIn
  <2>6. \A i \in (0..Cells-1) \ S : buffer'[i] = page'.text[t * Cols + i]
    BY <1>5, <2>4 DEF b
  <2>7. \A j \in t * Cols + Cells .. MaxPos : page'.text[j] = Empty
    BY <1>5, <2>5 DEF b
  <2> QED BY <2>1, <2>2, <2>6, <2>7 DEF Window
<1> QED BY <1>5, <1>8, <1>9


\* Each kind of token, given to a page whose window is on the screen.
LEMMA TokenTaken ==
  ASSUME PageTyped, NEW t \in Nat, t = page.top, Window(page, buffer, t, {}, cursor),
         cursor \in 0..Cells-1, page.tokens < MaxHistory, NEW c \in Written,
         page' = OnPage(page, <<"char", c>>), UNCHANGED <<buffer, cursor, color>>
  PROVE  /\ PageTyped'
         /\ c = "nl" => /\ Window(page', buffer', t, {cursor}, RowStart(cursor) + Cols)
                        /\ EmptyAt(page', t, cursor)
         /\ c = "cr" => /\ Window(page', buffer', t, {cursor}, RowStart(cursor))
                        /\ EmptyAt(page', t, cursor)
         /\ c = "bs" /\ cursor > 0 =>
              /\ Window(page', buffer', t, {cursor, cursor - 1}, cursor - 1)
              /\ EmptyAt(page', t, cursor) /\ EmptyAt(page', t, cursor - 1)
         /\ c = "bs" /\ cursor = 0 => Window(page', buffer', t, {}, cursor)
         /\ c \notin {"nl", "cr", "bs"} =>
              /\ Window(page', buffer', t, {cursor}, cursor + 1)
              /\ page'.text[t * Cols + cursor]
                   = IF c = Blank THEN Empty ELSE <<c, color>>
<1> DEFINE b == t * Cols
           token == <<"char", c>>
<1>1. b \in Nat /\ page.pos = b + cursor
  BY RowBase DEF Window
<1>2. b + Cols + Cells <= MaxPos /\ MaxPos \in Nat
  BY PageRoom DEF Window
<1>3. /\ page.text \in Text /\ page.color = color /\ color \in Colors
      /\ page.pos \in Nat
  BY DEF PageTyped, Text
<1>16. page \in PageRecord
  BY DEF PageTyped, PageRecord, Text
<1>4. Empty \in Cell
  BY DEF Cell
<1>5. RowStart(cursor) \in 0..cursor /\ RowStart(cursor) + Cols \in 0..Cells
  BY RowOfPage
<1> DEFINE blanked == [page.text EXCEPT ![page.pos] = Empty]
<1>6. b + cursor \in 0..MaxPos
  <2>1. Cells \in Nat /\ Cols \in Nat
    BY CellsIsNat
  <2> QED BY <1>1, <1>2, <2>1
<1>7. blanked \in Text /\ blanked[b + cursor] = Empty
  BY <1>1, <1>3, <1>4, <1>6 DEF Text
<1>8. \A j \in 0..MaxPos : blanked[j] = page.text[j] \/ j = b + cursor
  BY <1>1, <1>3 DEF Text
<1>9. cursor \in 0..Cells /\ cursor <= cursor + Cols
  BY CellsIsNat
<1>17. page' = OnPage(page, token)
  OBVIOUS
<1>10. token[1] # "color" /\ token[2] = c
  OBVIOUS
<1>11. CASE c = "nl"
  <2> DEFINE at == RowStart(cursor) + Cols
  <2>1. OnText(page, token) = Rewrite(page, blanked, (page.pos \div Cols + 1) * Cols)
    BY <1>11 DEF OnText, Rewrite
  <2>2. (page.pos \div Cols + 1) * Cols = b + at
    <3>1. ((b + cursor) \div Cols + 1) * Cols = b + RowStart(cursor) + Cols
      BY RowOfPage
    <3>2. b + RowStart(cursor) + Cols = b + at
      BY <1>1, <1>5, CellsIsNat
    <3> QED BY <1>1, <3>1, <3>2
  <2>3. at \in 0..Cells /\ at <= cursor + Cols
    BY <1>5, CellsIsNat
  <2>4. ChangesIn(page, blanked, t, {cursor})
    BY <1>8 DEF ChangesIn
  <2>5. OnText(page, token) = Rewrite(page, blanked, b + at)
    BY <2>1, <2>2
  <2>6. /\ PageTyped' /\ page'.text = blanked /\ Window(page', buffer', t, {cursor}, at)
    <3>0. b + at \in Nat /\ b = t * Cols
      BY <1>1, <2>3, CellsIsNat
    <3>1. blanked \in Text
      BY <1>7
    <3> HIDE DEF blanked, at, token, b
    <3> QED BY <1>17, <3>0, <3>1, <2>3, <2>4, <2>5, Accept
  <2>7. EmptyAt(page', t, cursor)
    BY <1>7, <2>6 DEF EmptyAt
  <2> QED BY <1>11, <2>6, <2>7
<1>12. CASE c = "cr"
  <2> DEFINE at == RowStart(cursor)
  <2>1. OnText(page, token) = Rewrite(page, blanked, (page.pos \div Cols) * Cols)
    BY <1>12 DEF OnText, Rewrite
  <2>2. (page.pos \div Cols) * Cols = b + at
    <3>1. ((b + cursor) \div Cols) * Cols = b + RowStart(cursor)
      BY RowOfPage
    <3> HIDE DEF b
    <3> QED BY <1>1, <3>1
  <2>3. at \in 0..Cells /\ at <= cursor + Cols
    BY <1>5, CellsIsNat
  <2>4. ChangesIn(page, blanked, t, {cursor})
    BY <1>8 DEF ChangesIn
  <2>5. OnText(page, token) = Rewrite(page, blanked, b + at)
    BY <2>1, <2>2
  <2>6. /\ PageTyped' /\ page'.text = blanked /\ Window(page', buffer', t, {cursor}, at)
    <3>0. b + at \in Nat /\ b = t * Cols
      BY <1>1, <2>3, CellsIsNat
    <3>1. blanked \in Text
      BY <1>7
    <3> HIDE DEF blanked, at, token, b
    <3> QED BY <1>17, <3>0, <3>1, <2>3, <2>4, <2>5, Accept
  <2>7. EmptyAt(page', t, cursor)
    BY <1>7, <2>6 DEF EmptyAt
  <2> QED BY <1>12, <2>6, <2>7
<1>13. CASE c = "bs" /\ cursor > 0
  <2> DEFINE at == cursor - 1
             text == [blanked EXCEPT ![page.pos - 1] = Empty]
  <2>1. page.pos # page.top * Cols
    BY <1>1, <1>13
  <2>2. OnText(page, token) = Rewrite(page, text, page.pos - 1)
    BY <1>13, <2>1 DEF OnText, Rewrite
  <2>3. page.pos - 1 = b + at /\ b + at \in 0..MaxPos
    <3> HIDE DEF b
    <3>1. cursor \in Nat /\ cursor >= 1 /\ MaxPos \in Nat
      BY <1>2, <1>13, CellsIsNat
    <3> QED BY <1>1, <1>6, <3>1
  <2>4. at \in 0..Cells /\ at <= cursor + Cols
    BY <1>13, CellsIsNat
  <2>5. text \in Text /\ text[b + cursor] = Empty /\ text[b + at] = Empty
    BY <1>1, <1>4, <1>6, <1>7, <2>3 DEF Text
  <2>6. \A j \in 0..MaxPos :
          text[j] = page.text[j]
            \/ \E i \in (0..Cells-1) \cap {cursor, cursor - 1} : j = b + i
    <3>1. \A j \in 0..MaxPos : text[j] = blanked[j] \/ j = b + at
      BY <1>7, <2>3 DEF Text
    <3>2. cursor \in (0..Cells-1) \cap {cursor, cursor - 1}
      OBVIOUS
    <3>3. at \in (0..Cells-1) \cap {cursor, cursor - 1}
      <4>1. cursor - 1 \in 0..Cells-1
        BY <1>13, CellsIsNat
      <4> QED BY <4>1
    <3> HIDE DEF b, blanked, text, at
    <3> QED BY <1>8, <3>1, <3>2, <3>3
  <2>7. OnText(page, token) = Rewrite(page, text, b + at)
    BY <2>2, <2>3
  <2>8. /\ PageTyped' /\ page'.text = text /\ Window(page', buffer', t, {cursor, cursor - 1}, at)
    <3> DEFINE S == {cursor, cursor - 1}
    <3>0. b + at \in Nat /\ b = t * Cols
      BY <1>1, <2>4, CellsIsNat
    <3> HIDE DEF blanked, at, token, text, S, b
    <3>1. ChangesIn(page, text, t, S)
      BY <3>0, <2>6 DEF S, ChangesIn
    <3>2. /\ PageTyped' /\ page'.text = text /\ Window(page', buffer', t, S, at)
      BY <1>17, <3>0, <2>4, <2>5, <2>7, <3>1, Accept
    <3> QED BY <3>2 DEF S
  <2>9. EmptyAt(page', t, cursor) /\ EmptyAt(page', t, cursor - 1)
    BY <2>5, <2>8 DEF EmptyAt
  <2> QED BY <1>13, <2>8, <2>9
<1>14. CASE c = "bs" /\ cursor = 0
  <2>1. page.pos = page.top * Cols
    BY <1>1, <1>14
  <2>2. OnText(page, token) = page
    BY <1>14, <2>1 DEF OnText
  <2>3. page = Rewrite(page, page.text, b + cursor)
    BY <1>1, <1>16 DEF PageRecord, Rewrite
  <2>5. ChangesIn(page, page.text, t, {})
    BY DEF ChangesIn
  <2>4. /\ PageTyped' /\ Window(page', buffer', t, {}, cursor)
    <3>0. b + cursor \in Nat /\ b = t * Cols
      BY <1>1
    <3> HIDE DEF token, b
    <3> QED BY <1>17, <3>0, <1>3, <1>9, <2>2, <2>3, <2>5, Accept
  <2> QED BY <1>14, <2>4
<1>15. CASE c \notin {"nl", "cr", "bs"}
  <2> DEFINE cell == IF c = Blank THEN Empty ELSE <<c, color>>
             text == [page.text EXCEPT ![page.pos] = cell]
             at == cursor + 1
  <2>1. OnText(page, token) = Rewrite(page, text, page.pos + 1)
    BY <1>3, <1>15 DEF OnText, Rewrite
  <2>2. cell \in Cell
    BY <1>3, <1>4, <1>15 DEF Written, Cell
  <2> HIDE DEF cell
  <2>3. text \in Text /\ text[b + cursor] = cell
    BY <1>1, <1>3, <1>6, <2>2 DEF Text
  <2>4. ChangesIn(page, text, t, {cursor})
    BY <1>1, <1>3 DEF ChangesIn, Text
  <2>5. page.pos + 1 = b + at
    BY <1>1
  <2>6. at \in 0..Cells /\ at <= cursor + Cols
    BY CellsIsNat
  <2>7. OnText(page, token) = Rewrite(page, text, b + at)
    BY <2>1, <2>5
  <2>8. /\ PageTyped' /\ page'.text = text /\ Window(page', buffer', t, {cursor}, at)
    <3>0. b + at \in Nat /\ b = t * Cols
      BY <1>1, <2>6, CellsIsNat
    <3> HIDE DEF at, token, text, b
    <3> QED BY <1>17, <3>0, <2>3, <2>4, <2>6, <2>7, Accept
  <2> QED BY <1>15, <2>3, <2>8 DEF cell
<1> QED
  <2>1. cursor > 0 \/ cursor = 0
    OBVIOUS
  <2>2. PageTyped'
    BY <1>11, <1>12, <1>13, <1>14, <1>15, <2>1
  <2> QED BY <1>11, <1>12, <1>13, <1>14, <1>15, <2>2


-----------------------------------------------------------------------------
(* The writer's steps bring the screen after the page *)

\* What holds from the beginning of a token to the next.
Writing == ConsoleInv /\ PageInv /\ ~interrupts /\ interrupts' = interrupts

LEMMA WindowIsTop ==
  ASSUME NEW p, NEW screen, NEW t, NEW S, NEW at \in 0..Cells-1, Window(p, screen, t, S, at)
  PROVE  p.top = t
<1>1. at # Cells
  BY CellsIsNat
<1> QED BY <1>1 DEF Window

LEMMA InitPageInv == ASSUME Init PROVE PageInv
<1>1. Empty \in Cell /\ 0 * Cols = 0
  BY DEF Cell
<1>2. /\ page.text = [i \in 0..MaxPos |-> Empty]
      /\ page.pos = 0 /\ page.top = 0 /\ page.color = White /\ page.tokens = 0
  BY DEF Init, EmptyPage
<1>3. PageTyped
  <2>1. page \in [text : [0..MaxPos -> Cell], pos : Nat, top : Nat, color : Colors,
                  tokens : 0..MaxHistory]
    BY <1>1 DEF Init, EmptyPage
  <2>2. page.pos <= page.tokens * Cols
    BY <1>1, <1>2
  <2> QED BY <1>2, <2>1, <2>2 DEF Init, PageTyped
<1>4. Cells \in Nat /\ Cells # 0 /\ MaxPos \in Nat /\ Cells + Cols <= MaxPos
  <2>1. 0 \in 0..MaxHistory
    OBVIOUS
  <2>2. 0 + Cols + Cells <= MaxPos
    BY <1>1, <2>1, PageRoom
  <2> QED BY <2>2, PageRoom, CellsIsNat
<1>5. Window(page, buffer, page.top, {}, cursor)
  <2>1. \A i \in 0..Cells-1 : buffer[i] = Empty /\ page.text[i] = Empty
    BY <1>2, <1>4 DEF Init
  <2>2. \A j \in 0..MaxPos : page.text[j] = Empty
    BY <1>2
  <2>3. cursor = 0 /\ page.top * Cols = 0
    BY <1>1, <1>2 DEF Init
  <2>4. \A i \in 0..Cells-1 : buffer[i] = page.text[page.top * Cols + i]
    BY <2>1, <2>3
  <2>5. \A j \in page.top * Cols + Cells .. MaxPos : page.text[j] = Empty
    BY <1>4, <2>2, <2>3
  <2> QED BY <1>2, <1>4, <2>3, <2>4, <2>5 DEF Window
<1>6. AtPlace
  BY <1>5 DEF Init, AtPlace
<1> QED BY <1>3, <1>6 DEF PageInv

\* console_write takes a character.
LEMMA WriteNextTaken ==
  ASSUME Writing, NEW c \in Written, WriteNext(c)
  PROVE  PageInv'
<1>1. /\ PageTyped /\ Window(page, buffer, page.top, {}, cursor)
      /\ page.tokens < MaxHistory
      /\ page' = OnPage(page, <<"char", c>>) /\ UNCHANGED <<buffer, cursor, color>>
      /\ ch' = c /\ pc' = IF c = "bs" /\ cursor = 0 THEN "idle" ELSE "put"
  BY DEF Writing, PageInv, AtPlace, WriteNext, Record
<1>2. cursor \in 0..Cells-1
  <2>1. cursor \in 0..Cells /\ cursor < Cells
    BY DEF Writing, ConsoleInv, TypeOK, Located, WriteNext
  <2> QED BY <2>1, CellsIsNat
<1>3. PICK t \in Nat : t = page.top
  BY <1>1 DEF PageTyped
<1>4. /\ PageTyped'
      /\ c = "nl" => /\ Window(page', buffer', t, {cursor}, RowStart(cursor) + Cols)
                     /\ EmptyAt(page', t, cursor)
      /\ c = "cr" => /\ Window(page', buffer', t, {cursor}, RowStart(cursor))
                     /\ EmptyAt(page', t, cursor)
      /\ c = "bs" /\ cursor > 0 =>
           /\ Window(page', buffer', t, {cursor, cursor - 1}, cursor - 1)
           /\ EmptyAt(page', t, cursor) /\ EmptyAt(page', t, cursor - 1)
      /\ c = "bs" /\ cursor = 0 => Window(page', buffer', t, {}, cursor)
      /\ c \notin {"nl", "cr", "bs"} =>
           /\ Window(page', buffer', t, {cursor}, cursor + 1)
           /\ page'.text[t * Cols + cursor]
                = IF c = Blank THEN Empty ELSE <<c, color>>
  BY <1>1, <1>2, <1>3, TokenTaken
<1>5. CASE c = "bs" /\ cursor = 0
  <2>1. Window(page', buffer', page'.top, {}, cursor')
    BY <1>1, <1>2, <1>4, <1>5, WindowIsTop
  <2> QED BY <1>1, <1>4, <1>5, <2>1 DEF PageInv, AtPlace
<1>6. CASE ~(c = "bs" /\ cursor = 0)
  <2>1. cursor > 0 \/ c # "bs"
    BY <1>2, <1>6
  <2>2. Shown(c)' = IF c = Blank THEN Empty ELSE <<c, color>>
    BY <1>1 DEF Shown
  <2>3. PutDue(t)'
    BY <1>1, <1>4, <2>1, <2>2 DEF PutDue
  <2>4. \E u \in Nat : PutDue(u)'
    BY <2>3
  <2> QED BY <1>1, <1>4, <1>6, <2>4 DEF PageInv, AtPlace
<1> QED BY <1>5, <1>6

\* console_write takes an escape: only the colour changes.
LEMMA EscapeTaken ==
  ASSUME Writing, NEW c \in Colors, Escape(c)
  PROVE  PageInv'
<1> DEFINE t == page.top
           token == <<"color", c>>
           m == [page EXCEPT !.color = c]
<1>1. /\ PageTyped /\ Window(page, buffer, t, {}, cursor) /\ page.tokens < MaxHistory
      /\ page' = OnPage(page, token) /\ UNCHANGED <<buffer, cursor, pc>>
      /\ color' = c /\ pc = "idle"
  BY DEF Writing, PageInv, AtPlace, Escape, Record
<1>2. cursor \in 0..Cells-1 /\ t \in Nat
  <2>1. cursor \in 0..Cells /\ cursor < Cells
    BY DEF Writing, ConsoleInv, TypeOK, Located, Escape
  <2>2. cursor \in 0..Cells-1
    BY <2>1, CellsIsNat
  <2> QED BY <1>1, <2>2 DEF PageTyped
<1>3. page \in PageRecord /\ page.tokens \in 0..MaxHistory
  BY <1>1 DEF PageTyped, PageRecord, Text
<1>4. OnText(page, token) = m
  BY DEF OnText
<1>5. /\ m \in PageRecord
      /\ m.text = page.text /\ m.pos = page.pos /\ m.top = page.top /\ m.color = c
  BY <1>3 DEF PageRecord
<1> HIDE DEF m
<1>6. /\ page' \in PageRecord
      /\ page'.text = page.text
      /\ page'.pos = page.pos
      /\ page'.color = c
      /\ page'.tokens = page.tokens + 1
      /\ page'.top = IF m.pos = (m.top + Rows) * Cols THEN m.top + 1 ELSE m.top
  BY <1>1, <1>3, <1>4, <1>5, OnPageIs
<1>7. page.pos = t * Cols + cursor /\ t * Cols \in Nat /\ (t + Rows) * Cols = t * Cols + Cells
  BY <1>1, <1>2, RowBase DEF Window
<1>8. page'.top = t
  <2>1. m.pos # (m.top + Rows) * Cols
    BY <1>2, <1>5, <1>7, CellsIsNat
  <2> QED BY <1>5, <1>6, <2>1
<1>9. PageTyped'
  <2>1. (page.tokens + 1) * Cols = page.tokens * Cols + Cols /\ page.tokens * Cols \in Nat
    BY <1>3, RowBase
  <2>2. page.pos <= page.tokens * Cols
    BY <1>1 DEF PageTyped
  <2>3. page'.pos <= page'.tokens * Cols
    BY <1>3, <1>6, <1>7, <1>2, <2>1, <2>2
  <2>4. page'.tokens \in 0..MaxHistory
    BY <1>1, <1>3, <1>6
  <2>5. page' \in [text : [0..MaxPos -> Cell], pos : Nat, top : Nat, color : Colors,
                   tokens : 0..MaxHistory]
    BY <1>6, <2>4 DEF PageRecord, Text
  <2> QED BY <1>1, <1>6, <2>3, <2>5 DEF PageTyped
<1>10. Window(page', buffer', page'.top, {}, cursor')
  BY <1>1, <1>6, <1>8 DEF Window
<1> QED BY <1>1, <1>9, <1>10 DEF PageInv, AtPlace


Store(b, k, v) == [b EXCEPT ![k] = v]

\* A store into a cell that was left out of the window: the rest of the cells
\* S are those of R.
LEMMA StoreFills ==
  ASSUME TypeOK, NEW t \in Nat, NEW S, NEW R, NEW at, NEW c, NEW k \in 0..Cells-1,
         Window(page, buffer, t, S, at), page.text[t * Cols + k] = Shown(c),
         \A i \in S : i \in R \/ i = k,
         NEW v, v = Shown(c), buffer' = Store(buffer, k, v), page' = page
  PROVE  Window(page', buffer', t, R, at)
<1>1. buffer \in [0..Cells-1 -> Cell]
  BY DEF TypeOK
<1>2. ASSUME NEW i \in (0..Cells-1) \ R
      PROVE  buffer'[i] = page.text[t * Cols + i]
  <2>1. CASE i = k
    BY <1>1, <2>1 DEF Store
  <2>2. CASE i # k
    <3>1. i \in (0..Cells-1) \ S
      BY <2>2
    <3>2. buffer[i] = page.text[t * Cols + i]
      BY <3>1 DEF Window
    <3> QED BY <1>1, <2>2, <3>2 DEF Store
  <2> QED BY <2>1, <2>2
<1> QED BY <1>2 DEF Window

LEMMA PutStepShows == ASSUME Writing, PutStep PROVE PageInv'
<1> DEFINE c == IF ch \in {"nl", "cr", "bs"} THEN Blank ELSE ch
<1>1. TypeOK /\ cursor \in 0..Cells-1
  BY CellsIsNat DEF Writing, ConsoleInv, TypeOK, Located, PutStep
<1>2. /\ buffer' = Store(buffer, cursor, Shown(c))
      /\ cursor' = cursor /\ page' = page /\ color' = color /\ ch' = ch
  <2>1. ~(cursor >= Cells)
    BY <1>1, CellsIsNat
  <2> QED BY <2>1 DEF PutStep, Put, Store
<1>3. pc' = CASE ch = "nl" -> "newline" [] ch = "cr" -> "return"
              [] ch = "bs" -> "dec"     [] OTHER   -> "inc"
  BY DEF PutStep
<1>4. PageTyped /\ PageTyped'
  BY <1>2 DEF Writing, PageInv, PageTyped
<1>5. PICK t \in Nat : PutDue(t)
  BY DEF Writing, PageInv, AtPlace, PutStep
<1>6. Shown(Blank) = Empty
  BY DEF Shown
<1>7. CASE ch = "nl"
  <2>1. Window(page, buffer, t, {cursor}, RowStart(cursor) + Cols)
        /\ page.text[t * Cols + cursor] = Shown(c)
    BY <1>5, <1>6, <1>7 DEF PutDue, EmptyAt
  <2> HIDE DEF c
  <2>2. Window(page', buffer', t, {}, RowStart(cursor) + Cols)
    BY <1>1, <1>2, <2>1, StoreFills
  <2> QED BY <1>2, <1>3, <1>4, <1>7, <2>2 DEF PageInv, AtPlace
<1>8. CASE ch = "cr"
  <2>1. Window(page, buffer, t, {cursor}, RowStart(cursor))
        /\ page.text[t * Cols + cursor] = Shown(c)
    BY <1>5, <1>6, <1>8 DEF PutDue, EmptyAt
  <2> HIDE DEF c
  <2>2. Window(page', buffer', t, {}, RowStart(cursor))
    BY <1>1, <1>2, <2>1, StoreFills
  <2> QED BY <1>2, <1>3, <1>4, <1>8, <2>2 DEF PageInv, AtPlace
<1>9. CASE ch = "bs"
  <2>1. Window(page, buffer, t, {cursor, cursor - 1}, cursor - 1)
        /\ page.text[t * Cols + cursor] = Shown(c) /\ EmptyAt(page, t, cursor - 1)
    BY <1>5, <1>6, <1>9 DEF PutDue, EmptyAt
  <2> HIDE DEF c
  <2>2. \A i \in {cursor, cursor - 1} : i \in {cursor - 1} \/ i = cursor
    OBVIOUS
  <2>3. Window(page', buffer', t, {cursor - 1}, cursor - 1)
    BY <1>1, <1>2, <2>1, <2>2, StoreFills
  <2>4. Window(page', buffer', t, {cursor' - 1}, cursor' - 1)
        /\ EmptyAt(page', t, cursor' - 1)
    BY <1>2, <2>1, <2>3
  <2> QED BY <1>3, <1>4, <1>9, <2>4 DEF PageInv, AtPlace
<1>10. CASE ch \notin {"nl", "cr", "bs"}
  <2>1. Window(page, buffer, t, {cursor}, cursor + 1)
        /\ page.text[t * Cols + cursor] = Shown(c)
    BY <1>5, <1>10 DEF PutDue
  <2> HIDE DEF c
  <2>2. Window(page', buffer', t, {}, cursor + 1)
    BY <1>1, <1>2, <2>1, StoreFills
  <2> QED BY <1>2, <1>3, <1>4, <1>10, <2>2 DEF PageInv, AtPlace
<1> QED BY <1>7, <1>8, <1>9, <1>10

LEMMA EraseShows == ASSUME Writing, Erase PROVE PageInv'
<1>1. TypeOK /\ cursor \in 0..Cells-1
  BY CellsIsNat DEF Writing, ConsoleInv, TypeOK, Located, Erase
<1>2. /\ buffer' = Store(buffer, cursor, Shown(Blank))
      /\ cursor' = cursor /\ page' = page /\ color' = color /\ pc' = "idle"
  <2>1. ~(cursor >= Cells)
    BY <1>1, CellsIsNat
  <2> QED BY <2>1 DEF Erase, Put, Store
<1>3. PageTyped'
  BY <1>2 DEF Writing, PageInv, PageTyped
<1>4. PICK t \in Nat : Window(page, buffer, t, {cursor}, cursor) /\ EmptyAt(page, t, cursor)
  BY DEF Writing, PageInv, AtPlace, Erase
<1>5. page.text[t * Cols + cursor] = Shown(Blank)
  BY <1>4 DEF Shown, EmptyAt
<1>6. Window(page', buffer', t, {}, cursor)
  BY <1>1, <1>2, <1>4, <1>5, StoreFills
<1>7. Window(page', buffer', page'.top, {}, cursor')
  BY <1>1, <1>2, <1>6, WindowIsTop
<1> QED BY <1>2, <1>3, <1>7 DEF PageInv, AtPlace

LEMMA MoveShows ==
  ASSUME Writing, Inc \/ NewLine \/ CarriageReturn \/ Dec
  PROVE  PageInv'
<1>1. UNCHANGED <<page, buffer, color>> /\ TypeOK
  BY DEF Inc, NewLine, CarriageReturn, Dec, unchangedByMove, Writing, ConsoleInv
<1>2. PageTyped'
  BY <1>1 DEF Writing, PageInv, PageTyped
<1>3. AtPlace
  BY DEF Writing, PageInv
<1>4. CASE Inc
  <2>1. PICK t \in Nat : Window(page, buffer, t, {}, cursor + 1)
    BY <1>3, <1>4 DEF Inc, AtPlace
  <2>2. Window(page', buffer', t, {}, cursor')
    BY <1>1, <1>4, <2>1 DEF Inc
  <2> QED BY <1>2, <1>4, <2>2 DEF PageInv, AtPlace, Inc
<1>5. CASE NewLine
  <2>1. PICK t \in Nat : Window(page, buffer, t, {}, RowStart(cursor) + Cols)
    BY <1>3, <1>5 DEF NewLine, AtPlace
  <2>2. cursor \in 0..Cells-1
    BY <1>1, <1>5, CellsIsNat DEF NewLine, TypeOK, Located, Writing, ConsoleInv
  <2>3. cursor' = RowStart(cursor) + Cols
    BY <1>5, <2>2, RowOfPage DEF NewLine
  <2>4. Window(page', buffer', t, {}, cursor')
    BY <1>1, <2>1, <2>3
  <2> QED BY <1>2, <1>5, <2>4 DEF PageInv, AtPlace, NewLine
<1>6. CASE CarriageReturn
  <2>1. PICK t \in Nat : Window(page, buffer, t, {}, RowStart(cursor))
    BY <1>3, <1>6 DEF CarriageReturn, AtPlace
  <2>2. cursor \in 0..Cells-1
    BY <1>1, <1>6, CellsIsNat DEF CarriageReturn, TypeOK, Located, Writing, ConsoleInv
  <2>3. cursor' = RowStart(cursor)
    BY <1>6 DEF CarriageReturn, RowStart
  <2>4. RowStart(cursor) \in 0..cursor
    BY <2>2, RowOfPage
  <2>5. cursor' \in 0..Cells-1
    BY <2>2, <2>3, <2>4, CellsIsNat
  <2>6. Window(page', buffer', t, {}, cursor')
    BY <1>1, <2>1, <2>3
  <2>7. Window(page', buffer', page'.top, {}, cursor')
    BY <2>5, <2>6, WindowIsTop
  <2> QED BY <1>2, <1>6, <2>7 DEF PageInv, AtPlace, CarriageReturn
<1>7. CASE Dec
  <2>1. PICK t \in Nat : Window(page, buffer, t, {cursor - 1}, cursor - 1)
                         /\ EmptyAt(page, t, cursor - 1)
    BY <1>3, <1>7 DEF Dec, AtPlace
  <2>2. cursor' = cursor - 1
    BY <1>7 DEF Dec
  <2>3. Window(page', buffer', t, {cursor'}, cursor') /\ EmptyAt(page', t, cursor')
    BY <1>1, <2>1, <2>2
  <2> QED BY <1>2, <1>7, <2>3 DEF PageInv, AtPlace, Dec
<1> QED BY <1>4, <1>5, <1>6, <1>7


\* The next row of the page is one of those a token can have reached.
LEMMA NextTop ==
  ASSUME PageTyped, NEW t \in 0..MaxHistory, page.pos = t * Cols + Cells
  PROVE  t + 1 \in 0..MaxHistory
<1>1. page.tokens \in 0..MaxHistory /\ page.pos <= page.tokens * Cols
  BY DEF PageTyped
<1>2. page.tokens * Cols <= MaxHistory * Cols
  BY <1>1, TimesMonotonic
<1>3. SUFFICES ASSUME MaxHistory <= t PROVE FALSE
  OBVIOUS
<1>4. MaxHistory * Cols <= t * Cols
  BY <1>3, TimesMonotonic
<1>5. t * Cols \in Nat /\ MaxHistory * Cols \in Nat /\ page.tokens * Cols \in Nat
  BY <1>1, RowBase
<1> QED BY <1>1, <1>2, <1>4, <1>5, CellsIsNat

LEMMA CheckShows == ASSUME Writing, Check PROVE PageInv'
<1>1. /\ UNCHANGED <<page, buffer, color, cursor>> /\ TypeOK
      /\ row' = 1 /\ pc' = IF cursor = Cells THEN "copy" ELSE "idle"
  BY DEF Check, Writing, ConsoleInv
<1>2. PageTyped'
  BY <1>1 DEF Writing, PageInv, PageTyped
<1>3. PICK t \in Nat : Window(page, buffer, t, {}, cursor)
  BY DEF Writing, PageInv, AtPlace, Check
<1>4. CASE cursor = Cells
  <2>1. \A i \in 0..Cells-1 : ~(i \div Cols < 0)
    BY NextRow
  <2>2. Scrolling(page, buffer, t, 0)
    BY <1>3, <1>4, <2>1 DEF Window, Scrolling
  <2>3. Scrolling(page', buffer', t, row' - 1)
    BY <1>1, <2>2
  <2> QED BY <1>1, <1>2, <1>4, <2>3 DEF PageInv, AtPlace
<1>5. CASE cursor # Cells
  <2>1. cursor \in 0..Cells-1
    BY <1>1, <1>5, CellsIsNat DEF TypeOK
  <2>2. Window(page', buffer', page'.top, {}, cursor')
    BY <1>1, <1>3, <2>1, WindowIsTop
  <2> QED BY <1>1, <1>2, <1>5, <2>2 DEF PageInv, AtPlace
<1> QED BY <1>4, <1>5

LEMMA CopyRowShows == ASSUME Writing, CopyRow PROVE PageInv'
<1>1. /\ UNCHANGED <<page, color, cursor>> /\ TypeOK /\ row \in 1..Rows-1
      /\ row' = row + 1 /\ pc' = IF row + 1 < Rows THEN "copy" ELSE "clear"
      /\ buffer' = RowCopied(buffer, row)
  BY DEF CopyRow, unchangedByScroll, Writing, ConsoleInv, Located
<1>2. PageTyped'
  BY <1>1 DEF Writing, PageInv, PageTyped
<1>3. cursor = Cells
  BY DEF Writing, PageInv, AtPlace, CopyRow
<1>4. PICK t \in Nat : Scrolling(page, buffer, t, row - 1)
  BY DEF Writing, PageInv, AtPlace, CopyRow
<1> DEFINE b == t * Cols
<1>5. b \in Nat
  BY RowBase
<1>6. ASSUME NEW i \in 0..Cells-1
      PROVE  buffer'[i] = IF i \div Cols < row THEN page.text[b + Cols + i]
                          ELSE page.text[b + i]
  <2> DEFINE q == i \div Cols
  <2>1. /\ q \in 0..Rows-1
        /\ (i + Cols) \div Cols = q + 1
        /\ q < Rows - 1 => i + Cols \in 0..Cells-1
    BY NextRow
  <2>2. buffer'[i] = IF q = row - 1 THEN buffer[i + Cols] ELSE buffer[i]
    BY <1>1 DEF RowCopied, TypeOK
  <2>3. \A k \in 0..Cells-1 : buffer[k] = IF k \div Cols < row - 1
                                            THEN page.text[b + Cols + k]
                                            ELSE page.text[b + k]
    BY <1>4 DEF Scrolling
  <2>4. b + (i + Cols) = b + Cols + i
    BY <1>5, CellsIsNat
  <2>5. CASE q = row - 1
    <3>1. i + Cols \in 0..Cells-1 /\ ~((i + Cols) \div Cols < row - 1)
      BY <1>1, <2>1, <2>5
    <3>2. buffer[i + Cols] = page.text[b + (i + Cols)]
      BY <2>3, <3>1
    <3>3. q < row
      BY <1>1, <2>5
    <3> HIDE DEF b
    <3> QED BY <2>2, <2>4, <2>5, <3>2, <3>3
  <2>6. CASE q # row - 1
    <3>1. q < row - 1 <=> q < row
      BY <1>1, <2>1, <2>6
    <3>2. buffer[i] = IF q < row - 1 THEN page.text[b + Cols + i] ELSE page.text[b + i]
      BY <2>3
    <3> HIDE DEF b, q
    <3> QED BY <2>2, <2>6, <3>1, <3>2 DEF q
  <2> QED BY <2>5, <2>6
<1>7. Scrolling(page', buffer', t, row)
  BY <1>1, <1>4, <1>6 DEF Scrolling
<1>8. CASE row + 1 < Rows
  <2>1. Scrolling(page', buffer', t, row' - 1)
    <3>1. row' - 1 = row
      BY <1>1
    <3> QED BY <1>7, <3>1
  <2> QED BY <1>1, <1>2, <1>3, <1>8, <2>1 DEF PageInv, AtPlace
<1>9. CASE ~(row + 1 < Rows)
  <2>1. Scrolling(page', buffer', t, Rows - 1)
    <3>1. row = Rows - 1
      BY <1>1, <1>9
    <3> QED BY <1>7, <3>1
  <2> QED BY <1>1, <1>2, <1>3, <1>9, <2>1 DEF PageInv, AtPlace
<1> QED BY <1>8, <1>9

LEMMA ClearRowShows == ASSUME Writing, ClearRow PROVE PageInv'
<1>1. /\ UNCHANGED <<page, color, cursor>> /\ TypeOK /\ pc' = "load"
      /\ buffer' = LastRowCleared(buffer)
  BY DEF ClearRow, unchangedByScroll, Writing, ConsoleInv
<1>2. PageTyped /\ PageTyped' /\ cursor = Cells
  BY <1>1 DEF Writing, PageInv, PageTyped, AtPlace, ClearRow
<1>3. PICK t \in Nat : Scrolling(page, buffer, t, Rows - 1)
  BY DEF Writing, PageInv, AtPlace, ClearRow
<1> DEFINE b == t * Cols
<1>4. b \in Nat /\ (t + 1) * Cols = b + Cols
  BY RowBase
<1>5. t + 1 \in 0..MaxHistory /\ page.top = t + 1 /\ page.pos = b + Cells
  BY <1>2, <1>3, NextTop DEF Scrolling
<1>6. b + Cols + Cols + Cells <= MaxPos /\ MaxPos \in Nat
  BY <1>4, <1>5, PageRoom
<1>7. ASSUME NEW i \in 0..Cells-1
      PROVE  buffer'[i] = page.text[b + Cols + i]
  <2>1. buffer'[i] = IF i >= Cells - Cols THEN Empty ELSE buffer[i]
    BY <1>1 DEF LastRowCleared, TypeOK
  <2>2. CASE i >= Cells - Cols
    <3>1. b + Cols + i \in b + Cells .. MaxPos
      <4> HIDE DEF b
      <4> QED BY <1>4, <1>6, <2>2, CellsIsNat
    <3>2. page.text[b + Cols + i] = Empty
      BY <1>3, <3>1 DEF Scrolling
    <3> QED BY <2>1, <2>2, <3>2
  <2>3. CASE ~(i >= Cells - Cols)
    <3>1. i \div Cols < Rows - 1
      <4>1. i < Cells - Cols
        BY <2>3, CellsIsNat
      <4> QED BY <4>1, NextRow
    <3>2. buffer[i] = page.text[b + Cols + i]
      BY <1>3, <3>1 DEF Scrolling
    <3> QED BY <2>1, <2>3, <3>2
  <2> QED BY <2>2, <2>3
<1>8. Window(page, buffer', t + 1, {}, Cells - Cols)
  <2>1. page.pos = (t + 1) * Cols + (Cells - Cols)
    <3> HIDE DEF b
    <3> QED BY <1>4, <1>5, CellsIsNat
  <2>2. Cells - Cols # Cells
    BY CellsIsNat
  <2>3. \A i \in 0..Cells-1 : buffer'[i] = page.text[(t + 1) * Cols + i]
    <3> HIDE DEF b
    <3> QED BY <1>4, <1>7
  <2>4. \A j \in (t + 1) * Cols + Cells .. MaxPos : page.text[j] = Empty
    <3>1. \A j \in b + Cells .. MaxPos : page.text[j] = Empty
      BY <1>3 DEF Scrolling
    <3>2. \A j \in b + Cols + Cells .. MaxPos : j \in b + Cells .. MaxPos
      <4> HIDE DEF b
      <4> QED BY <1>4, <1>6, CellsIsNat
    <3> HIDE DEF b
    <3> QED BY <1>4, <3>1, <3>2
  <2> QED BY <1>5, <2>1, <2>2, <2>3, <2>4 DEF Window
<1>9. Window(page', buffer', page'.top, {}, Cells - Cols)
  BY <1>1, <1>5, <1>8
<1> QED BY <1>1, <1>2, <1>9 DEF PageInv, AtPlace

LEMMA ScrollEndShows == ASSUME Writing, LoadCursor \/ StoreCursor PROVE PageInv'
<1>1. UNCHANGED <<page, buffer, color>> /\ AtPlace
  BY DEF LoadCursor, StoreCursor, unchangedByScroll, Writing, PageInv
<1>2. PageTyped'
  BY <1>1 DEF Writing, PageInv, PageTyped
<1>3. CASE LoadCursor
  BY <1>1, <1>2, <1>3 DEF LoadCursor, AtPlace, PageInv
<1>4. CASE StoreCursor
  BY <1>1, <1>2, <1>4 DEF StoreCursor, AtPlace, PageInv
<1> QED BY <1>3, <1>4

\* What the screen shows at every step, with interrupts disabled.
THEOREM PageInvariance == Spec => []PageInv
<1>1. ConsoleInv /\ PageInv /\ [Next]_vars => PageInv'
  <2> SUFFICES ASSUME ConsoleInv, PageInv, [Next]_vars PROVE PageInv'
    OBVIOUS
  <2>1. CASE UNCHANGED vars
    BY <2>1 DEF vars, PageInv, PageTyped, AtPlace, PutDue, Shown
  <2>2. CASE EnableInterrupts
    BY <2>2 DEF EnableInterrupts, PageInv
  <2>3. ASSUME NEW on \in BOOLEAN, TimerIRQ(on) PROVE PageInv'
    BY <2>3 DEF TimerIRQ, PageInv
  <2>4. ASSUME NEW c \in Colors, Escape(c) PROVE PageInv'
    <3>1. interrupts' = interrupts
      BY <2>4 DEF Escape
    <3> QED BY <2>4, <3>1, EscapeTaken DEF Writing, PageInv
  <2>5. ASSUME NEW c \in Written, WriteNext(c) PROVE PageInv'
    <3>1. interrupts' = interrupts
      BY <2>5 DEF WriteNext
    <3> QED BY <2>5, <3>1, WriteNextTaken DEF Writing, PageInv
  <2>6. CASE Writer
    <3>1. interrupts' = interrupts
      BY <2>6 DEF Writer, PutStep, Inc, NewLine, CarriageReturn, Dec, Erase, Check,
                  CopyRow, ClearRow, LoadCursor, StoreCursor, unchangedByMove,
                  unchangedByScroll
    <3>2. CASE interrupts
      BY <3>1, <3>2 DEF PageInv
    <3>3. CASE ~interrupts
      <4>1. Writing
        BY <3>1, <3>3 DEF Writing
      <4> QED BY <2>6, <4>1, PutStepShows, EraseShows, MoveShows, CheckShows,
                 CopyRowShows, ClearRowShows, ScrollEndShows DEF Writer
    <3> QED BY <3>2, <3>3
  <2> QED BY <2>1, <2>2, <2>3, <2>4, <2>5, <2>6 DEF Next
<1> QED BY <1>1, InitPageInv, ConsoleInvariance, PTL DEF Spec

\* On a screen of any size and for a text of any length written before
\* interrupts are enabled, the screen shows the last rows of the reference page.
THEOREM BootTextShown == Spec => []BootTextExact
<1>1. ConsoleInv /\ PageInv => BootTextExact
  <2> SUFFICES ASSUME ConsoleInv, PageInv, ~interrupts, pc = "idle"
               PROVE  /\ cursor = page.pos - page.top * Cols
                      /\ color = page.color
                      /\ \A i \in 0..Cells-1 : buffer[i] = page.text[page.top * Cols + i]
    BY DEF BootTextExact
  <2>1. PageTyped /\ Window(page, buffer, page.top, {}, cursor)
    BY DEF PageInv, AtPlace
  <2>2. page.top * Cols \in Nat
    BY <2>1, RowBase DEF PageTyped
  <2>3. page.pos = page.top * Cols + cursor /\ cursor \in Nat
    BY <2>1, CellsIsNat DEF Window, ConsoleInv, TypeOK
  <2> QED BY <2>1, <2>2, <2>3 DEF Window, PageTyped
<1> QED BY <1>1, ConsoleInvariance, PageInvariance, PTL
=============================================================================
