--------------------------- MODULE KeyInputProofs ---------------------------
(***************************************************************************)
(* Proofs about KeyInput for every keyboard, buffer size and number of     *)
(* typed characters: the types, the handshake between get_char and the     *)
(* interrupt handler, the bound on the line, and that the reader           *)
(* implements LineInput.                                                   *)
(***************************************************************************)
EXTENDS KeyInput, TLAPS

USE KeyInputAssumption

\* A line of printable characters stays one when it is edited, and an edit
\* never takes it to the limit (the body of get_string's loop).
LEMMA EditedLineFits ==
  ASSUME NEW l \in Seq(Printable), Len(l) < Limit, NEW c \in Chars
  PROVE  /\ EditedLine(l, c) \in Seq(Printable)
         /\ Len(EditedLine(l, c)) < Limit
<1>1. CASE c = Backspace /\ l # <<>>
  BY <1>1 DEF EditedLine
<1>2. CASE ~(c = Backspace /\ l # <<>>) /\ c \in Printable /\ Len(l) < Limit - 1
  BY <1>2 DEF EditedLine
<1>3. CASE ~(c = Backspace /\ l # <<>>) /\ ~(c \in Printable /\ Len(l) < Limit - 1)
  BY <1>3 DEF EditedLine
<1> QED BY <1>1, <1>2, <1>3

\* The inductive invariant: types, handshake and bound.
KeyInv == TypeOK /\ Handshake /\ LineFits

LEMMA InitKeyInv == Init => KeyInv
  BY DEF Init, KeyInv, TypeOK, Handshake, LineFits, NoModifier, InGetChar

LEMMA RestartKeyInv ==
  ASSUME KeyInv, Restart, held' \subseteq ModifierKeys
  PROVE  KeyInv'
  BY DEF Restart, KeyInv, TypeOK, Handshake, LineFits, NoModifier, InGetChar

LEMMA StatusType ==
  ASSUME TypeOK, NEW k, NEW down \in BOOLEAN
  PROVE  StatusAfter(k, down) \in [shift : BOOLEAN, ctrl : BOOLEAN, alt : BOOLEAN]
<1>1. StatusAfter(k, down).shift \in BOOLEAN
  BY DEF StatusAfter, TypeOK
<1>2. StatusAfter(k, down).ctrl \in BOOLEAN
  BY DEF StatusAfter, TypeOK
<1>3. StatusAfter(k, down).alt \in BOOLEAN
  BY DEF StatusAfter, TypeOK
<1> QED BY <1>1, <1>2, <1>3 DEF StatusAfter

LEMMA StoreCharKeyInv ==
  ASSUME KeyInv, NEW k \in CharKeys, StoreChar(k)
  PROVE  /\ typed' \in Seq(Chars)
         /\ Len(typed') = Len(typed) + 1
         /\ slot' = Len(typed) + 1
<1>1. CharOf(k, keyStatus.shift) \in Chars
  BY DEF CharOf
<1> QED BY <1>1 DEF StoreChar, KeyInv, TypeOK

LEMMA PressKeyInv ==
  ASSUME KeyInv, NEW k \in InUse, Press(k)
  PROVE  KeyInv'
<1>0. held' \subseteq ModifierKeys
  BY DEF Press, KeyInv, TypeOK
<1>1. CASE k = "Delete" /\ keyStatus.ctrl /\ keyStatus.alt
  BY <1>0, <1>1, RestartKeyInv DEF Press
<1>2. CASE ~(k = "Delete" /\ keyStatus.ctrl /\ keyStatus.alt)
  <2>1. /\ keyStatus' \in [shift : BOOLEAN, ctrl : BOOLEAN, alt : BOOLEAN]
        /\ pc' = Woken
        /\ UNCHANGED readerVars
    BY <1>2, StatusType DEF Press, KeyInv
  <2>2. \/ /\ typed' \in Seq(Chars)
           /\ Len(typed') = Len(typed) + 1
           /\ slot' = Len(typed) + 1
        \/ UNCHANGED <<typed, slot>>
    BY <1>2, StoreCharKeyInv DEF Press
  <2> QED BY <1>0, <2>1, <2>2
       DEF KeyInv, TypeOK, Handshake, LineFits, Woken, InGetChar, readerVars
<1> QED BY <1>1, <1>2

LEMMA ReleaseKeyInv ==
  ASSUME KeyInv, NEW k \in InUse, Release(k)
  PROVE  KeyInv'
<1>0. held' \subseteq ModifierKeys
  BY DEF Release, KeyInv, TypeOK
<1>1. CASE k = "F12"
  BY <1>0, <1>1, RestartKeyInv DEF Release
<1>2. CASE k # "F12"
  <2>1. /\ keyStatus' \in [shift : BOOLEAN, ctrl : BOOLEAN, alt : BOOLEAN]
        /\ pc' = Woken
        /\ UNCHANGED <<typed, slot, readerVars>>
    BY <1>2, StatusType DEF Release, KeyInv
  <2> QED BY <1>0, <2>1
       DEF KeyInv, TypeOK, Handshake, LineFits, Woken, InGetChar, readerVars
<1> QED BY <1>1, <1>2

LEMMA TimerKeyInv == KeyInv /\ TimerIRQ => KeyInv'
  BY DEF TimerIRQ, KeyInv, TypeOK, Handshake, LineFits, InGetChar, readerVars

LEMMA AppendElement ==
  ASSUME NEW S, NEW s \in Seq(S), NEW x \in S
  PROVE  \A i \in DOMAIN Append(s, x) :
           Append(s, x)[i] = x \/ (i \in DOMAIN s /\ Append(s, x)[i] = s[i])
<1>1. Len(s) \in Nat /\ DOMAIN s = 1..Len(s) /\ DOMAIN Append(s, x) = 1..Len(s) + 1
  OBVIOUS
<1>2. Append(s, x)[Len(s) + 1] = x
  OBVIOUS
<1>3. ASSUME NEW k \in 1..Len(s) PROVE Append(s, x)[k] = s[k]
  OBVIOUS
<1> SUFFICES ASSUME NEW i \in 1..Len(s) + 1
             PROVE  Append(s, x)[i] = x \/ (i \in 1..Len(s) /\ Append(s, x)[i] = s[i])
  BY <1>1
<1>4. i = Len(s) + 1 \/ i \in 1..Len(s)
  BY <1>1
<1>5. CASE i = Len(s) + 1
  BY <1>2, <1>5, Zenon
<1>6. CASE i \in 1..Len(s)
  BY <1>3, <1>6, Zenon
<1> QED BY <1>4, <1>5, <1>6

LEMMA ReaderKeyInv == KeyInv /\ Reader => KeyInv'
<1> SUFFICES ASSUME KeyInv, Reader PROVE KeyInv'
  OBVIOUS
<1> USE DEF KeyInv, TypeOK, Handshake, LineFits, InGetChar, readerVars
<1>1. CASE Call BY <1>1 DEF Call
<1>2. CASE Test BY <1>2 DEF Test
<1>3. CASE Halt BY <1>3 DEF Halt
<1>4. CASE Capture BY <1>4 DEF Capture
<1>5. CASE Clear BY <1>5 DEF Clear
<1>6. CASE Edit
  <2>1. typed[captured] \in Chars
    BY <1>6 DEF Edit
  <2> QED BY <1>6, <2>1, EditedLineFits DEF Edit
<1>7. CASE Return
  <2>1. lines' = Append(lines, line) /\ lines' \in Seq(Seq(Printable))
    BY <1>7 DEF Return
  <2>2. \A i \in DOMAIN lines' : Len(lines'[i]) < Limit
    <3>1. Len(line) < Limit /\ \A i \in DOMAIN lines : Len(lines[i]) < Limit
      OBVIOUS
    <3>2. lines \in Seq(Seq(Printable)) /\ line \in Seq(Printable)
      OBVIOUS
    <3>3. \A i \in DOMAIN lines' : lines'[i] = line \/ (i \in DOMAIN lines /\ lines'[i] = lines[i])
      BY <2>1, <3>2, AppendElement
    <3> QED BY <3>1, <3>3
  <2> QED BY <1>7, <2>1, <2>2 DEF Return
<1> QED BY <1>1, <1>2, <1>3, <1>4, <1>5, <1>6, <1>7 DEF Reader

\* The invariant holds in every reachable state, whatever is typed and
\* whenever the interrupts fall.
THEOREM KeyInvariance == Spec => []KeyInv
<1>1. KeyInv /\ [Next]_vars => KeyInv'
  <2> SUFFICES ASSUME KeyInv, [Next]_vars PROVE KeyInv'
    OBVIOUS
  <2>1. CASE \E k \in InUse : Press(k) \/ Release(k)
    BY <2>1, PressKeyInv, ReleaseKeyInv
  <2>2. CASE TimerIRQ BY <2>2, TimerKeyInv
  <2>3. CASE Reader BY <2>3, ReaderKeyInv
  <2>4. CASE UNCHANGED vars
    BY <2>4 DEF vars, KeyInv, TypeOK, Handshake, LineFits, InGetChar
  <2> QED BY <2>1, <2>2, <2>3, <2>4 DEF Next
<1> QED BY <1>1, InitKeyInv, PTL DEF Spec

\* No line, complete or being collected, ever fills the caller's buffer, so
\* get_string's terminator is always written inside it (console.c get_string).
THEOREM LinesFit == Spec => []LineFits
  BY KeyInvariance, PTL DEF KeyInv

\* get_char and the interrupt handler keep the handshake that makes delivery
\* in order and at most once, without a lock.
THEOREM HandshakeHolds == Spec => []Handshake
  BY KeyInvariance, PTL DEF KeyInv

\* Everything is of its type.
THEOREM KeyTypes == Spec => []TypeOK
  BY KeyInvariance, PTL DEF KeyInv

-----------------------------------------------------------------------------

\* A key that is pressed is held if it is a modifier, and one that is released
\* and was the last of its kind takes the modifier with it.
LEMMA PressNotStuck ==
  ASSUME ModifiersNotStuck, NEW k \in InUse, Press(k)
  PROVE  ModifiersNotStuck'
<1>1. /\ held \subseteq held'
      /\ k \in ShiftKeys \cup CtrlKeys \cup AltKeys => k \in held'
  BY DEF Press, ModifierKeys
<1>2. CASE keyStatus' = NoModifier
  BY <1>2 DEF ModifiersNotStuck, NoModifier
<1>3. CASE keyStatus' = StatusAfter(k, TRUE)
  <2>1. keyStatus'.shift => k \in ShiftKeys \/ keyStatus.shift
    BY <1>3 DEF StatusAfter
  <2>2. keyStatus'.ctrl => k \in CtrlKeys \/ keyStatus.ctrl
    BY <1>3 DEF StatusAfter
  <2>3. keyStatus'.alt => k \in AltKeys \/ keyStatus.alt
    BY <1>3 DEF StatusAfter
  <2> QED
    BY <1>1, <2>1, <2>2, <2>3 DEF ModifiersNotStuck
<1> QED
  BY <1>2, <1>3 DEF Press, Restart

LEMMA ReleaseNotStuck ==
  ASSUME ModifiersNotStuck, NEW k \in InUse, Release(k)
  PROVE  ModifiersNotStuck'
<1>1. held' = held \ {k}
  BY DEF Release
<1>2. CASE keyStatus' = NoModifier
  BY <1>2 DEF ModifiersNotStuck, NoModifier
<1>3. CASE keyStatus' = StatusAfter(k, FALSE)
  <2>1. keyStatus'.shift => k \notin ShiftKeys /\ keyStatus.shift
    BY <1>3 DEF StatusAfter
  <2>2. keyStatus'.ctrl => k \notin CtrlKeys /\ keyStatus.ctrl
    BY <1>3 DEF StatusAfter
  <2>3. keyStatus'.alt => k \notin AltKeys /\ keyStatus.alt
    BY <1>3 DEF StatusAfter
  <2> QED
    BY <1>1, <2>1, <2>2, <2>3 DEF ModifiersNotStuck
<1> QED
  BY <1>2, <1>3 DEF Release, Restart

\* However keys are pressed, released, repeated or still down when the kernel
\* starts again, the driver never believes in a modifier that no key holds
\* (key_status of ps2_keyboard.c).
THEOREM ModifiersNeverStuck == Spec => []ModifiersNotStuck
<1>1. Init => ModifiersNotStuck
  BY DEF Init, ModifiersNotStuck, NoModifier
<1>2. ModifiersNotStuck /\ [Next]_vars => ModifiersNotStuck'
  <2> SUFFICES ASSUME ModifiersNotStuck, [Next]_vars PROVE ModifiersNotStuck'
    OBVIOUS
  <2>1. CASE \E k \in InUse : Press(k) \/ Release(k)
    BY <2>1, PressNotStuck, ReleaseNotStuck
  <2>2. CASE TimerIRQ \/ Reader \/ UNCHANGED vars
    <3>1. UNCHANGED <<held, keyStatus>>
      BY <2>2 DEF TimerIRQ, Reader, Call, Test, Halt, Capture, Clear, Edit, Return, vars
    <3> QED
      BY <3>1 DEF ModifiersNotStuck
  <2> QED
    BY <2>1, <2>2 DEF Next
<1> QED
  BY <1>1, <1>2, PTL DEF Spec

-----------------------------------------------------------------------------

LEMMA InitImplements == Init => LI!Init
  BY DEF Init, LI!Init

\* Every step of the reader and of the interrupt handlers is a step of
\* LineInput or changes none of its variables.
LEMMA StepImplements ==
  ASSUME KeyInv, [Next]_vars
  PROVE  [LI!Next]_(LI!vars)
<1> USE DEF LI!vars, LI!Next, LI!Abandon
<1>1. ASSUME NEW k \in InUse, Press(k) PROVE [LI!Next]_(LI!vars)
  <2>1. CASE k = "Delete" /\ keyStatus.ctrl /\ keyStatus.alt
    BY <1>1, <2>1 DEF Press, Restart
  <2>2. CASE ~(k = "Delete" /\ keyStatus.ctrl /\ keyStatus.alt) /\ k \in CharKeys
    <3>1. CharOf(k, keyStatus.shift) \in LI!Chars
      BY <2>2 DEF CharOf, Chars, LI!Chars
    <3>2. LI!Type(CharOf(k, keyStatus.shift))
      BY <1>1, <2>2 DEF Press, StoreChar, LI!Type, readerVars
    <3> QED BY <3>1, <3>2
  <2>3. CASE ~(k = "Delete" /\ keyStatus.ctrl /\ keyStatus.alt) /\ k \notin CharKeys
    BY <1>1, <2>3 DEF Press, readerVars
  <2> QED BY <2>1, <2>2, <2>3
<1>2. ASSUME NEW k \in InUse, Release(k) PROVE [LI!Next]_(LI!vars)
  BY <1>2 DEF Release, Restart, readerVars
<1>3. CASE TimerIRQ BY <1>3 DEF TimerIRQ, readerVars
<1>4. CASE Reader
  <2>1. CASE Call BY <2>1 DEF Call
  <2>2. CASE Test \/ Halt \/ Capture \/ Clear
    BY <2>2 DEF Test, Halt, Capture, Clear, readerVars
  <2>3. CASE Edit \/ Return
    <3>1. captured \in DOMAIN typed /\ upto < captured
      BY <2>3 DEF Edit, Return, KeyInv, TypeOK, Handshake
    <3>2. LI!Consume(captured)
      BY <2>3, <3>1 DEF Edit, Return, EditedLine, LI!Consume, LI!Edited
    <3> QED BY <3>1, <3>2
  <2> QED BY <1>4, <2>1, <2>2, <2>3 DEF Reader
<1>5. CASE UNCHANGED vars BY <1>5 DEF vars
<1> QED BY <1>1, <1>2, <1>3, <1>4, <1>5 DEF Next

\* The interrupt-driven line reader implements LineInput: typed characters
\* are consumed in the order typed, at most once each, and edited as promised.
THEOREM KeyInputImplementsLineInput == Spec => ImplementsLineInput
<1>1. KeyInv /\ [Next]_vars => [LI!Next]_(LI!vars)
  BY StepImplements
<1> QED BY <1>1, InitImplements, KeyInvariance, PTL
     DEF Spec, ImplementsLineInput, LI!Spec
=============================================================================
