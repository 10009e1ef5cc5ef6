------------------------------ MODULE LineInput ------------------------------
(***************************************************************************)
(* What the console's line reader (get_string in core/console.c) promises  *)
(* the program that reads standard input: characters are consumed in the   *)
(* order they were typed, none is consumed twice, Backspace and the length *)
(* limit edit the line being collected, and Enter hands it over.  It does  *)
(* NOT promise that every typed character is consumed: the code keeps one  *)
(* character only, so any number of them may be skipped.                   *)
(***************************************************************************)
EXTENDS Naturals, Sequences

CONSTANTS Printable,  \* characters 32..126
          Unhandled,  \* characters get_string ignores (Escape, Tab)
          Backspace,
          Newline,
          Limit       \* size of the caller's buffer

Chars == Printable \cup Unhandled \cup {Backspace, Newline}

VARIABLES typed,  \* every character the keyboard produced so far
          upto,   \* position in typed of the last character consumed
          line,   \* the line being collected
          lines   \* the lines handed over

vars == <<typed, upto, line, lines>>

\* The line after one character that is not Enter.
Edited(l, c) ==
  IF c = Backspace /\ l # <<>> THEN SubSeq(l, 1, Len(l) - 1)
  ELSE IF c \in Printable /\ Len(l) < Limit - 1 THEN Append(l, c)
  ELSE l

Init == /\ typed = <<>>
        /\ upto = 0
        /\ line = <<>>
        /\ lines = <<>>

\* The user types a character.
Type(c) == /\ typed' = Append(typed, c)
           /\ UNCHANGED <<upto, line, lines>>

\* The reader consumes the i-th typed character, skipping those before it.
Consume(i) ==
  /\ upto < i
  /\ upto' = i
  /\ \/ /\ typed[i] = Newline
        /\ lines' = Append(lines, line)
        /\ line' = <<>>
     \/ /\ typed[i] # Newline
        /\ line' = Edited(line, typed[i])
        /\ UNCHANGED lines
  /\ UNCHANGED typed

\* The machine restarts: the line being collected is lost.
Abandon == /\ line' = <<>>
           /\ UNCHANGED <<typed, upto, lines>>

Next == \/ \E c \in Chars : Type(c)
        \/ \E i \in DOMAIN typed : Consume(i)
        \/ Abandon

Spec == Init /\ [][Next]_vars
=============================================================================
