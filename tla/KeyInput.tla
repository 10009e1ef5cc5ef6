------------------------------ MODULE KeyInput ------------------------------
(***************************************************************************)
(* The keyboard path of the 32-bit kernel: the PS/2 interrupt handler      *)
(* (drivers/ps2_keyboard.c) stores a character in the one-character slot   *)
(* next_char_received (core/console.c); get_char sleeps with HLT until the *)
(* slot is not 0, captures it and clears it in two separate steps;         *)
(* get_string builds the line.  The interrupt handlers run with interrupts *)
(* disabled, so each is one action; they may run between any two steps of  *)
(* the reader.                                                             *)
(*                                                                         *)
(* A character is represented by its position in typed, the history of     *)
(* characters that reached on_key_event; 0 is the NUL of an empty slot.    *)
(***************************************************************************)
EXTENDS Naturals, Sequences

CONSTANTS Printable, Unhandled, Backspace, Newline, Limit,
          CharKeys,   \* physical keys whose scancode has a character
          Lower,      \* lower_ascii_codes
          Upper,      \* upper_ascii_codes
          InUse,      \* the keys the user touches
          MaxTyped    \* bound: characters typed in a behaviour

Chars == Printable \cup Unhandled \cup {Backspace, Newline}

ShiftKeys == {"LeftShift", "RightShift"}
\* The right-hand keys send the left key's scancode after an 0xE0 prefix,
\* which the handler takes for the release of a key it does not know.
CtrlKeys  == {"LeftControl", "RightControl"}
AltKeys   == {"LeftAlt", "RightAlt"}
ModifierKeys == ShiftKeys \cup CtrlKeys \cup AltKeys
Keys == CharKeys \cup ModifierKeys \cup {"F12"}

ASSUME KeyInputAssumption ==
  /\ Limit \in Nat \ {0}
  /\ Backspace # Newline
  /\ {Backspace, Newline} \cap (Printable \cup Unhandled) = {}
  /\ Printable \cap Unhandled = {}
  /\ CharKeys \cap (ModifierKeys \cup {"F12"}) = {}
  /\ Lower \in [CharKeys -> Chars]
  /\ Upper \in [CharKeys -> Chars]
  /\ InUse \subseteq Keys
  /\ MaxTyped \in Nat

VARIABLES held,       \* the modifier keys physically down
          keyStatus,  \* key_status: the modifiers the driver believes are down
          typed,      \* history of the characters that reached on_key_event
          slot,       \* next_char_received
          pc,         \* where the reader is
          captured,   \* captured_char in get_char
          line,       \* buffer[0 .. index-1] in get_string
          upto,       \* history: the last character get_string handled
          lines       \* history: the lines returned by get_string

vars == <<held, keyStatus, typed, slot, pc, captured, line, upto, lines>>
readerVars == <<captured, line, upto, lines>>

InGetChar == {"test", "hlt", "asleep", "capture", "clear"}

NoModifier == [shift |-> FALSE, ctrl |-> FALSE, alt |-> FALSE]

Init == /\ held = {}
        /\ keyStatus = NoModifier
        /\ typed = <<>>
        /\ slot = 0
        /\ pc = "away"
        /\ captured = 0
        /\ line = <<>>
        /\ upto = 0
        /\ lines = <<>>

-----------------------------------------------------------------------------
(* Interrupts *)

\* Any interrupt ends the HLT.
Woken == IF pc = "asleep" THEN "test" ELSE pc

\* Fault: the release of right shift is not handled.
StatusAfterLeftOnly(k, down) ==
  [shift |-> IF k = "LeftShift" \/ (k = "RightShift" /\ down) THEN down
             ELSE keyStatus.shift,
   ctrl  |-> IF k \in CtrlKeys  THEN down ELSE keyStatus.ctrl,
   alt   |-> IF k \in AltKeys   THEN down ELSE keyStatus.alt]

\* keyboard_handler's update of key_status for a press or release of k.
StatusAfter(k, down) ==
  [shift |-> IF k \in ShiftKeys THEN down ELSE keyStatus.shift,
   ctrl  |-> IF k \in CtrlKeys  THEN down ELSE keyStatus.ctrl,
   alt   |-> IF k \in AltKeys   THEN down ELSE keyStatus.alt]

CharOf(k, shift) == IF shift THEN Upper[k] ELSE Lower[k]

\* The processor is reset: the kernel starts again with the keys still held.
Restart == /\ keyStatus' = NoModifier
           /\ slot' = 0
           /\ pc' = "away"
           /\ captured' = 0
           /\ line' = <<>>
           /\ UNCHANGED <<typed, upto, lines>>

\* on_key_event for a press: a character replaces whatever the slot holds.
StoreChar(k) ==
  /\ Len(typed) < MaxTyped
  /\ typed' = Append(typed, CharOf(k, keyStatus.shift))
  /\ slot' = Len(typed) + 1

\* A key goes down, or repeats while it is held.
Press(k) ==
  /\ held' = held \cup ({k} \cap ModifierKeys)
  /\ \/ /\ k = "Delete" /\ keyStatus.ctrl /\ keyStatus.alt
        /\ Restart
     \/ /\ ~(k = "Delete" /\ keyStatus.ctrl /\ keyStatus.alt)
        /\ keyStatus' = StatusAfter(k, TRUE)
        /\ IF k \in CharKeys THEN StoreChar(k) ELSE UNCHANGED <<typed, slot>>
        /\ pc' = Woken
        /\ UNCHANGED readerVars

\* A modifier or F12 goes up: F12 resets the processor.  The release of any
\* other key changes nothing: on_key_event ignores it.
Release(k) ==
  /\ k \in held \cup {"F12"}
  /\ held' = held \ {k}
  /\ \/ /\ k = "F12"
        /\ Restart
     \/ /\ k # "F12"
        /\ keyStatus' = StatusAfter(k, FALSE)
        /\ pc' = Woken
        /\ UNCHANGED <<typed, slot, readerVars>>

\* Fault: the timer is masked, so nothing ends the HLT but a key.
TimerMasked == FALSE /\ UNCHANGED vars

\* The 1000 Hz timer: all it does here is end the HLT.
TimerIRQ == /\ pc = "asleep"
            /\ pc' = "test"
            /\ UNCHANGED <<held, keyStatus, typed, slot, readerVars>>

-----------------------------------------------------------------------------
(* The reader: get_string and, inside it, get_char *)

\* The program reads standard input: get_string starts with index 0.
Call == /\ pc = "away"
        /\ pc' = "test"
        /\ line' = <<>>
        /\ UNCHANGED <<held, keyStatus, typed, slot, captured, upto, lines>>

Test == /\ pc = "test"
        /\ pc' = IF slot = 0 THEN "hlt" ELSE "capture"
        /\ UNCHANGED <<held, keyStatus, typed, slot, readerVars>>

Halt == /\ pc = "hlt"
        /\ pc' = "asleep"
        /\ UNCHANGED <<held, keyStatus, typed, slot, readerVars>>

\* Fault: the slot is cleared before it is captured.
ClearThenCapture == /\ pc = "capture"
                    /\ slot' = 0
                    /\ captured' = upto
                    /\ pc' = "clear"
                    /\ UNCHANGED <<held, keyStatus, typed, line, upto, lines>>

Capture == /\ pc = "capture"
           /\ captured' = slot
           /\ pc' = "clear"
           /\ UNCHANGED <<held, keyStatus, typed, slot, line, upto, lines>>

\* Fault: the slot is not cleared.
ClearForgotten == /\ pc = "clear"
                  /\ pc' = "edit"
                  /\ UNCHANGED <<held, keyStatus, typed, slot, readerVars>>

Clear == /\ pc = "clear"
         /\ slot' = 0
         /\ pc' = "edit"
         /\ UNCHANGED <<held, keyStatus, typed, readerVars>>

\* Fault: the limit leaves no room for the terminator.
EditedLineOffByOne(l, c) ==
  IF c = Backspace /\ l # <<>> THEN SubSeq(l, 1, Len(l) - 1)
  ELSE IF c \in Printable /\ Len(l) < Limit THEN Append(l, c)
  ELSE l

\* Fault: Backspace is stored when the line is empty.
EditedLineRaw(l, c) ==
  IF c = Backspace /\ l # <<>> THEN SubSeq(l, 1, Len(l) - 1)
  ELSE IF Len(l) < Limit - 1 THEN Append(l, c)
  ELSE l

\* The body of get_string's loop for a character that is not Enter.
EditedLine(l, c) ==
  IF c = Backspace /\ l # <<>> THEN SubSeq(l, 1, Len(l) - 1)
  ELSE IF c \in Printable /\ Len(l) < Limit - 1 THEN Append(l, c)
  ELSE l

Edit == /\ pc = "edit"
        /\ typed[captured] # Newline
        /\ line' = EditedLine(line, typed[captured])
        /\ upto' = captured
        /\ pc' = "test"
        /\ UNCHANGED <<held, keyStatus, typed, slot, captured, lines>>

\* Enter: the terminator is written and get_string returns.
Return == /\ pc = "edit"
          /\ typed[captured] = Newline
          /\ lines' = Append(lines, line)
          /\ line' = <<>>
          /\ upto' = captured
          /\ pc' = "away"
          /\ UNCHANGED <<held, keyStatus, typed, slot, captured>>

Reader == Call \/ Test \/ Halt \/ Capture \/ Clear \/ Edit \/ Return

Next == \/ \E k \in InUse : Press(k) \/ Release(k)
        \/ TimerIRQ
        \/ Reader

Spec == Init /\ [][Next]_vars

\* The processor runs the reader, and the timer keeps interrupting.
FairSpec == Spec /\ WF_vars(Reader) /\ WF_vars(TimerIRQ)

-----------------------------------------------------------------------------
(* Properties *)

TypeOK == /\ held \subseteq ModifierKeys
          /\ keyStatus \in [shift : BOOLEAN, ctrl : BOOLEAN, alt : BOOLEAN]
          /\ typed \in Seq(Chars)
          /\ slot \in 0..Len(typed)
          /\ pc \in {"away", "edit"} \cup InGetChar
          /\ captured \in 0..Len(typed)
          /\ line \in Seq(Printable)
          /\ upto \in 0..Len(typed)
          /\ lines \in Seq(Seq(Printable))

\* The capture/clear handshake of get_char with the interrupt handler: a
\* character that has been captured is newer than every character handled
\* before, and once the slot is cleared it never again holds the captured
\* character.  This is what makes delivery in order and at most once
\* although get_char takes no lock (core/console.c get_char).
Handshake == /\ slot # 0 /\ pc # "clear" => slot > upto
             /\ pc = "capture" => slot # 0
             /\ pc = "clear" => captured > upto /\ slot >= captured
             /\ pc = "edit" => captured > upto /\ (slot # 0 => slot > captured)

\* get_string never writes outside the caller's buffer: the terminator
\* always has room, for the line being collected and every line returned.
LineFits == /\ Len(line) < Limit
            /\ \A i \in DOMAIN lines : Len(lines[i]) < Limit

\* The driver never believes a modifier is down after every key that sets it
\* is up: a modifier cannot get stuck (keyboard_handler's key_status).
ModifiersNotStuck == /\ keyStatus.shift => held \cap ShiftKeys # {}
                     /\ keyStatus.ctrl => held \cap CtrlKeys # {}
                     /\ keyStatus.alt => held \cap AltKeys # {}

\* A key typed while a program waits in get_char reaches it, even when the
\* interrupt falls between the test of the slot and the HLT: the next timer
\* interrupt wakes the reader.  A restart abandons the wait.
KeyReachesReader == (slot # 0 /\ pc \in InGetChar) ~> pc \in {"edit", "away"}

LI == INSTANCE LineInput

\* The interrupt-driven reader implements the abstract one: typed characters
\* are consumed in order, at most once, with the editing get_string defines.
ImplementsLineInput == LI!Spec
=============================================================================
