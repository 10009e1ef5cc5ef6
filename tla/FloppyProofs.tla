---------------------------- MODULE FloppyProofs ----------------------------
(***************************************************************************)
(* Proofs about the floppy driver: its types, that the timer can always    *)
(* turn the motor off, and that the driver is a Disk.                      *)
(***************************************************************************)
EXTENDS Floppy, TLAPS

-----------------------------------------------------------------------------
(* Addresses *)

LEMMA Division ==
  ASSUME NEW n \in Nat, NEW d \in Nat \ {0}
  PROVE  n \div d \in Nat /\ n % d \in Nat /\ n = d * (n \div d) + (n % d)
  OBVIOUS

\* lba_2_chs gives each sector an address of its own.
LEMMA ChsInverse ==
  ASSUME NEW lba \in Nat
  PROVE  LbaOf(Chs(lba)) = lba
<1> DEFINE s == SectorsPerTrack
           cyl == lba \div (2 * s)
           on == lba % (2 * s)
           head == on \div s
           rest == on % s
<1>1. s \in Nat \ {0} /\ 2 * s \in Nat \ {0}
  BY FloppyAssumption
<1>2. cyl \in Nat /\ on \in Nat /\ lba = (2 * s) * cyl + on
  BY <1>1, Division
<1>3. head \in Nat /\ rest \in Nat /\ on = s * head + rest
  BY <1>1, <1>2, Division
<1>4. LbaOf(Chs(lba)) = (cyl * 2 + head) * s + (rest + 1) - 1
  BY DEF Chs, LbaOf
<1> HIDE DEF cyl, head, rest, on, s
<1>5. (cyl * 2 + head) * s = (2 * s) * cyl + s * head
  BY <1>1, <1>2, <1>3
<1>6. s * head \in Int /\ (2 * s) * cyl \in Int
  BY <1>1, <1>2, <1>3
<1> QED
  BY <1>2, <1>3, <1>4, <1>5, <1>6

LEMMA Bounds ==
  /\ IdleTicks \in Nat /\ SpinTicks \in Nat /\ PollTicks \in Nat /\ SettleTicks \in Nat
  /\ Polls \in Nat \ {0} /\ SeekTries \in Nat \ {0}
  /\ Lbas \subseteq Nat
  BY FloppyAssumption

LEMMA AddressOf ==
  /\ Chs(0) \in Addresses
  /\ \A lba \in Lbas : Chs(lba) \in Addresses
  /\ \A chs \in Addresses : chs.cyl \in Cylinders
<1>1. Chs(0).cyl = 0
  BY FloppyAssumption DEF Chs
<1>2. \A lba \in Lbas \cup {0} : Chs(lba).cyl \in Cylinders
  BY <1>1 DEF Cylinders
<1> QED
  BY <1>2 DEF Addresses

-----------------------------------------------------------------------------
(* The invariant *)

Polling == {"poll", "sleep"}
Waiting == {"poll", "sleep", "arrived", "timeout"}

\* A loop that is under way has tries left.
Counters == /\ pc \in Polling => polls < Polls
            /\ pc = "seek" \/ (pc \in Waiting /\ for = "seek") => tries < SeekTries

\* Where the driver is tells whether a request is under way.
UnderWay == /\ pc \in {"ensure", "spin", "stamp", "seek", "settle", "copy"} => Asked
            /\ pc \in Waiting => IF for = "reset" THEN want = Nothing ELSE Asked
            /\ pc \in {"idle", "absent", "install"} => ~Asked
            /\ pc \in {"absent", "install"} => want = Nothing
            /\ want = Nothing => result.status = "none"
            /\ pc = "settle" => for = "seek"
            /\ pc = "copy" => for = "read"

\* The controller has said that it is done with what the driver waits for.
Done(what) == for = what /\ ((pc \in Polling /\ received) \/ pc = "arrived")

\* The command and the interrupt go together: the controller works on what
\* the driver waits for until it interrupts, and never otherwise.
InTurn == /\ pc \notin {"timeout", "absent"}
          /\ pc \in Polling => fdc.doing = IF received THEN Ready ELSE for
          /\ pc \notin Polling => fdc.doing = Ready
          /\ fdc.doing \in {"seek", "read"} => fdc.chs = Chs(want)

\* The heads are where they should be, then the buffer holds the sector.
InPlace == /\ Done("seek") \/ pc = "settle" \/ (pc \in Polling /\ for = "read")
              => at = Chs(want).cyl
           /\ Done("read") \/ pc = "copy" => buffer = Chs(want)

Quiet == ~trouble => InTurn /\ InPlace

FloppyInv == TypeOK /\ Counters /\ UnderWay /\ Quiet /\ MotorTracked

\* The types, and the limits of the counters.
LEMMA TypeStep ==
  ASSUME TypeOK, Counters, UnderWay, [Next]_vars
  PROVE  TypeOK' /\ Counters'
<1> USE Bounds, AddressOf DEF TypeOK, Counters, UnderWay, Asked, Polling, Waiting, Off, Nothing, Ready, Commands
<1>1. CASE Install
  <2>1. fdc' \in [doing : Commands, chs : Addresses]
    BY <1>1 DEF Install
  <2>2. received' \in BOOLEAN
    BY <1>1 DEF Install
  <2> QED
    BY <1>1, <2>1, <2>2 DEF Install
<1>2. CASE Ensure
  <2>1. motor' \in BOOLEAN
    BY <1>2 DEF Ensure
  <2>2. pc' \in {"spin", "stamp"}
    BY <1>2 DEF Ensure
  <2> QED
    BY <1>2, <2>1, <2>2 DEF Ensure, unchangedByMotor
<1>3. CASE SpunUp
  BY <1>3 DEF SpunUp, unchangedByMotor
<1>4. CASE Stamp
  BY <1>4 DEF Stamp, unchangedByMotor
<1>5. CASE Seek
  <2>1. Chs(want) \in Addresses
    BY <1>5 DEF Seek
  <2>2. fdc' \in [doing : Commands, chs : Addresses]
    BY <1>5, <2>1 DEF Seek, Command
  <2>3. received' \in BOOLEAN /\ trouble' \in BOOLEAN
    BY <1>5 DEF Seek, Command
  <2> QED
    BY <1>5, <2>2, <2>3 DEF Seek, Command
<1>6. CASE Poll
  BY <1>6 DEF Poll, unchangedByMotor
<1>7. CASE Slept
  BY <1>7 DEF Slept
<1>8. CASE ResetDone
  BY <1>8 DEF ResetDone, unchangedAfterWait
<1>9. CASE SeekDone
  BY <1>9 DEF SeekDone, unchangedAfterWait
<1>10. CASE SeekTimeout
  BY <1>10 DEF SeekTimeout, unchangedAfterWait
<1>11. CASE ReadCommand
  <2>1. Chs(want) \in Addresses
    BY <1>11 DEF ReadCommand
  <2>2. fdc' \in [doing : Commands, chs : Addresses]
    BY <1>11, <2>1 DEF ReadCommand, Command
  <2>3. received' \in BOOLEAN /\ trouble' \in BOOLEAN
    BY <1>11 DEF ReadCommand, Command
  <2> QED
    BY <1>11, <2>2, <2>3 DEF ReadCommand, Command
<1>12. CASE Results
  BY <1>12 DEF Results, unchangedAfterWait
<1>13. CASE Copy
  BY <1>13 DEF Copy, unchangedAfterWait
<1>14. CASE ReadTimeout
  BY <1>14 DEF ReadTimeout, unchangedAfterWait
<1>15. ASSUME NEW lba \in Lbas, Read(lba) PROVE TypeOK' /\ Counters'
  BY <1>15 DEF Read
<1>16. CASE TimerIRQ
  BY <1>16 DEF TimerIRQ, unchangedByMotor
<1>17. CASE FdcReset
  BY <1>17 DEF FdcReset, unchangedByFdc
<1>18. CASE FdcSeek
  <2>1. fdc' \in [doing : Commands, chs : Addresses]
    BY <1>18 DEF FdcSeek
  <2>2. at' \in Cylinders
    BY <1>18 DEF FdcSeek
  <2>3. received' \in BOOLEAN /\ trouble' \in BOOLEAN
    BY <1>18 DEF FdcSeek
  <2> QED
    BY <1>18, <2>1, <2>2, <2>3 DEF FdcSeek, unchangedByFdc
<1>19. CASE FdcRead
  <2>1. fdc' \in [doing : Commands, chs : Addresses]
    BY <1>19 DEF FdcRead
  <2>2. buffer' \in Addresses
    BY <1>19 DEF FdcRead
  <2>3. received' \in BOOLEAN /\ trouble' \in BOOLEAN
    BY <1>19 DEF FdcRead
  <2> QED
    BY <1>19, <2>1, <2>2, <2>3 DEF FdcRead, unchangedByFdc
<1>20. CASE UNCHANGED vars
  BY <1>20 DEF vars
<1> QED
  BY <1>1, <1>2, <1>3, <1>4, <1>5, <1>6, <1>7, <1>8, <1>9, <1>10,
     <1>11, <1>12, <1>13, <1>14, <1>15, <1>16, <1>17, <1>18, <1>19, <1>20 DEF Next, Driver

\* The motor.
LEMMA MotorStep ==
  ASSUME TypeOK, MotorTracked, [Next]_vars
  PROVE  MotorTracked'
<1> USE Bounds DEF TypeOK, MotorTracked, Off
<1>1. CASE Install
  BY <1>1 DEF Install
<1>2. CASE Ensure
  BY <1>2 DEF Ensure, unchangedByMotor
<1>3. CASE SpunUp
  BY <1>3 DEF SpunUp, unchangedByMotor
<1>4. CASE Stamp
  BY <1>4 DEF Stamp, unchangedByMotor
<1>5. CASE Seek
  BY <1>5 DEF Seek, Command
<1>6. CASE Poll
  BY <1>6 DEF Poll, unchangedByMotor
<1>7. CASE Slept
  BY <1>7 DEF Slept
<1>8. CASE ResetDone
  BY <1>8 DEF ResetDone, unchangedAfterWait
<1>9. CASE SeekDone
  BY <1>9 DEF SeekDone, unchangedAfterWait
<1>10. CASE SeekTimeout
  BY <1>10 DEF SeekTimeout, unchangedAfterWait
<1>11. CASE ReadCommand
  BY <1>11 DEF ReadCommand, Command
<1>12. CASE Results
  BY <1>12 DEF Results, unchangedAfterWait
<1>13. CASE Copy
  BY <1>13 DEF Copy, unchangedAfterWait
<1>14. CASE ReadTimeout
  BY <1>14 DEF ReadTimeout, unchangedAfterWait
<1>15. ASSUME NEW lba \in Lbas, Read(lba) PROVE MotorTracked'
  BY <1>15 DEF Read
<1>16. CASE TimerIRQ
  <2>1. motor' => motor /\ ~(since # Off /\ since + 1 > IdleTicks)
    BY <1>16 DEF TimerIRQ
  <2>2. CASE since = Off
    BY <1>16, <2>1, <2>2 DEF TimerIRQ
  <2>3. CASE since # Off
    BY <1>16, <2>1, <2>3 DEF TimerIRQ
  <2> QED
    BY <2>2, <2>3
<1>17. CASE FdcReset
  BY <1>17 DEF FdcReset, unchangedByFdc
<1>18. CASE FdcSeek
  BY <1>18 DEF FdcSeek, unchangedByFdc
<1>19. CASE FdcRead
  BY <1>19 DEF FdcRead, unchangedByFdc
<1>20. CASE UNCHANGED vars
  BY <1>20 DEF vars
<1> QED
  BY <1>1, <1>2, <1>3, <1>4, <1>5, <1>6, <1>7, <1>8, <1>9, <1>10,
     <1>11, <1>12, <1>13, <1>14, <1>15, <1>16, <1>17, <1>18, <1>19, <1>20 DEF Next, Driver

\* The requests.
LEMMA UnderWayStep ==
  ASSUME TypeOK, UnderWay, [Next]_vars
  PROVE  UnderWay'
<1> USE Bounds DEF TypeOK, UnderWay, Asked, Polling, Waiting, Nothing
<1>1. CASE Install
  BY <1>1 DEF Install
<1>2. CASE Ensure
  BY <1>2 DEF Ensure, unchangedByMotor
<1>3. CASE SpunUp
  BY <1>3 DEF SpunUp, unchangedByMotor
<1>4. CASE Stamp
  BY <1>4 DEF Stamp, unchangedByMotor
<1>5. CASE Seek
  BY <1>5 DEF Seek, Command
<1>6. CASE Poll
  BY <1>6 DEF Poll, unchangedByMotor
<1>7. CASE Slept
  BY <1>7 DEF Slept
<1>8. CASE ResetDone
  <2>1. ~Asked /\ UNCHANGED <<want, result>> /\ pc' \in {"idle", "absent"}
    BY <1>8 DEF ResetDone, unchangedAfterWait
  <2>2. want = Nothing
    BY <1>8, <2>1 DEF ResetDone
  <2> QED
    BY <2>1, <2>2
<1>9. CASE SeekDone
  BY <1>9 DEF SeekDone, unchangedAfterWait
<1>10. CASE SeekTimeout
  BY <1>10 DEF SeekTimeout, unchangedAfterWait
<1>11. CASE ReadCommand
  BY <1>11 DEF ReadCommand, Command
<1>12. CASE Results
  BY <1>12 DEF Results, unchangedAfterWait
<1>13. CASE Copy
  BY <1>13 DEF Copy, unchangedAfterWait
<1>14. CASE ReadTimeout
  BY <1>14 DEF ReadTimeout, unchangedAfterWait
<1>15. ASSUME NEW lba \in Lbas, Read(lba) PROVE UnderWay'
  <2>1. want' # Nothing /\ result'.status = "none" /\ pc' = "ensure"
    BY <1>15 DEF Read
  <2> QED
    BY <2>1
<1>16. CASE TimerIRQ
  BY <1>16 DEF TimerIRQ, unchangedByMotor
<1>17. CASE FdcReset
  BY <1>17 DEF FdcReset, unchangedByFdc
<1>18. CASE FdcSeek
  BY <1>18 DEF FdcSeek, unchangedByFdc
<1>19. CASE FdcRead
  BY <1>19 DEF FdcRead, unchangedByFdc
<1>20. CASE UNCHANGED vars
  BY <1>20 DEF vars
<1> QED
  BY <1>1, <1>2, <1>3, <1>4, <1>5, <1>6, <1>7, <1>8, <1>9, <1>10,
     <1>11, <1>12, <1>13, <1>14, <1>15, <1>16, <1>17, <1>18, <1>19, <1>20 DEF Next, Driver

\* The hardware.
LEMMA QuietStep ==
  ASSUME TypeOK, Counters, UnderWay, Quiet, [Next]_vars
  PROVE  Quiet'
<1> USE Bounds DEF TypeOK, Counters, UnderWay, Quiet, InTurn, InPlace, Done, Polling, Waiting, Asked, Nothing, Ready
<1>1. CASE Install
  BY <1>1 DEF Install
<1>2. CASE Ensure
  BY <1>2 DEF Ensure, unchangedByMotor
<1>3. CASE SpunUp
  BY <1>3 DEF SpunUp, unchangedByMotor
<1>4. CASE Stamp
  BY <1>4 DEF Stamp, unchangedByMotor
<1>5. CASE Seek
  BY <1>5 DEF Seek, Command
<1>6. CASE Poll
  BY <1>6 DEF Poll, unchangedByMotor
<1>7. CASE Slept
  <2>1. CASE polls + 1 < Polls
    BY <1>7, <2>1 DEF Slept
  <2>2. CASE ~(polls + 1 < Polls)
    <3>1. polls + 1 = Polls
      BY <1>7, <2>2 DEF Slept
    <3> QED
      BY <1>7, <3>1 DEF Slept
  <2> QED
    BY <2>1, <2>2
<1>8. CASE ResetDone
  BY <1>8 DEF ResetDone, unchangedAfterWait
<1>9. CASE SeekDone
  BY <1>9 DEF SeekDone, unchangedAfterWait
<1>10. CASE SeekTimeout
  BY <1>10 DEF SeekTimeout, unchangedAfterWait
<1>11. CASE ReadCommand
  BY <1>11 DEF ReadCommand, Command
<1>12. CASE Results
  BY <1>12 DEF Results, unchangedAfterWait
<1>13. CASE Copy
  BY <1>13 DEF Copy, unchangedAfterWait
<1>14. CASE ReadTimeout
  BY <1>14 DEF ReadTimeout, unchangedAfterWait
<1>15. ASSUME NEW lba \in Lbas, Read(lba) PROVE Quiet'
  BY <1>15 DEF Read
<1>16. CASE TimerIRQ
  BY <1>16 DEF TimerIRQ, unchangedByMotor
<1>17. CASE FdcReset
  BY <1>17 DEF FdcReset, unchangedByFdc
<1>18. CASE FdcSeek
  BY <1>18 DEF FdcSeek, unchangedByFdc
<1>19. CASE FdcRead
  BY <1>19 DEF FdcRead, unchangedByFdc
<1>20. CASE UNCHANGED vars
  BY <1>20 DEF vars
<1> QED
  BY <1>1, <1>2, <1>3, <1>4, <1>5, <1>6, <1>7, <1>8, <1>9, <1>10,
     <1>11, <1>12, <1>13, <1>14, <1>15, <1>16, <1>17, <1>18, <1>19, <1>20 DEF Next, Driver

LEMMA InitFloppyInv == Init => FloppyInv
<1> SUFFICES ASSUME Init PROVE FloppyInv
  OBVIOUS
<1> USE Bounds, AddressOf DEF Init
<1>1. TypeOK
  <2>1. fdc \in [doing : Commands, chs : Addresses]
    BY DEF Commands
  <2>2. result \in [status : {"none", "failure", "success"}, chs : Addresses]
    OBVIOUS
  <2>3. motor \in BOOLEAN /\ received \in BOOLEAN /\ trouble \in BOOLEAN
    OBVIOUS
  <2>4. since \in {Off} \cup 0..IdleTicks /\ want \in {Nothing} \cup Lbas
    OBVIOUS
  <2>5. waited \in 0..SpinTicks /\ polls \in 0..Polls /\ tries \in 0..SeekTries
    OBVIOUS
  <2>6. at \in Cylinders /\ buffer \in Addresses
    OBVIOUS
  <2> HIDE Bounds, AddressOf
  <2> QED
    BY <2>1, <2>2, <2>3, <2>4, <2>5, <2>6 DEF TypeOK
<1>2. MotorTracked
  BY DEF MotorTracked
<1>3. Counters /\ UnderWay /\ Quiet
  BY DEF Counters, UnderWay, Quiet, InTurn, InPlace, Done, Asked, Polling, Waiting, Ready
<1> QED
  BY <1>1, <1>2, <1>3 DEF FloppyInv

\* What is known of every reachable state of the driver and the hardware.
THEOREM FloppyInvariance == Spec => []FloppyInv
<1>1. FloppyInv /\ [Next]_vars => FloppyInv'
  BY TypeStep, MotorStep, UnderWayStep, QuietStep DEF FloppyInv
<1> QED
  BY <1>1, InitFloppyInv, PTL DEF Spec

\* The driver keeps to its counters, and asks the controller for no address
\* that is not on the disk (floppy.c).
THEOREM FloppyTypes == Spec => []TypeOK
  BY FloppyInvariance, PTL DEF FloppyInv

\* Wherever the timer interrupts ensure_motor_on, a motor that runs is one
\* that the timer can turn off, now or when the driver has gone on (floppy.c
\* ensure_motor_on, turn_motor_off_if_idle).
THEOREM MotorAlwaysTracked == Spec => []MotorTracked
  BY FloppyInvariance, PTL DEF FloppyInv

-----------------------------------------------------------------------------
(* The driver is a Disk *)

LEMMA InitImplements == Init => D!Init
<1> SUFFICES ASSUME Init PROVE D!Init
  OBVIOUS
<1>1. ~Asked /\ want = Nothing /\ result.status = "none"
  BY DEF Init, Asked
<1> QED
  BY <1>1 DEF D!Init, Request, Promised, Status, Answer

\* What is not a request or an answer is at most a promise withdrawn.
LEMMA Between ==
  ASSUME TypeOK, UNCHANGED <<want, result>>, trouble' \in BOOLEAN, trouble => trouble'
  PROVE  [D!Next]_(D!vars)
<1>1. UNCHANGED <<Request, Status, Answer>> /\ (Asked' <=> Asked)
  BY DEF Asked, Request, Status, Answer
<1>2. CASE ~Asked \/ trouble' = trouble
  <2>1. Promised' = Promised
    BY <1>1, <1>2 DEF Promised
  <2> QED
    BY <1>1, <2>1 DEF D!vars
<1>3. CASE Asked /\ trouble'
  <2>1. Promised' = FALSE /\ Status = "asked"
    BY <1>3 DEF Promised, Status
  <2>2. D!Break
    BY <1>1, <2>1 DEF D!Break
  <2> QED
    BY <2>2 DEF D!Next
<1>4. trouble' = trouble \/ trouble'
  BY DEF TypeOK
<1> QED
  BY <1>2, <1>3, <1>4

\* Every step of the driver, of the timer and of the controller is a step of
\* Disk or changes nothing that the file systems see.
LEMMA StepImplements ==
  ASSUME FloppyInv, [Next]_vars
  PROVE  [D!Next]_(D!vars)
<1> USE DEF FloppyInv
<1>1. ASSUME NEW lba \in Lbas, Read(lba) PROVE [D!Next]_(D!vars)
  <2>1. ~Asked /\ Asked' /\ want' = lba /\ result'.status = "none"
    BY <1>1, Bounds DEF Read, UnderWay, Asked, Nothing
  <2>2. Status # "asked"
    BY <2>1 DEF Status, TypeOK
  <2>3. Status' = "asked" /\ Request' = lba /\ Answer' = <<>>
    BY <2>1 DEF Status, Request, Answer
  <2>4. Promised' \in BOOLEAN
    BY DEF Promised
  <2>5. D!Ask(lba)
    BY <2>2, <2>3, <2>4 DEF D!Ask
  <2> QED
    BY <2>5 DEF D!Next
<1>2. ASSUME Asked, ~Asked', want' = want, result'.status \in {"failure", "success"}
      PROVE  /\ want # Nothing /\ Status = "asked" /\ Status' = result'.status
             /\ Request = want /\ D!Answered
  <2>1. want # Nothing
    BY <1>2 DEF Asked
  <2>2. Status = "asked" /\ Status' = result'.status /\ Request = want
    BY <1>2, <2>1 DEF Status, Request
  <2>3. Request' = Nothing /\ Promised' = FALSE
    BY <1>2 DEF Request, Promised
  <2> QED
    BY <2>1, <2>2, <2>3 DEF D!Answered
<1>3. CASE Copy
  <2>1. Asked /\ ~Asked' /\ want' = want /\ result' = [status |-> "success", chs |-> buffer]
    BY <1>3 DEF Copy, unchangedAfterWait, UnderWay, Asked
  <2>2. Answer' = <<LbaOf(buffer)>>
    BY <2>1 DEF Answer
  <2>3. Promised => LbaOf(buffer) = want
    <3>1. want \in Nat
      BY <1>2, <2>1, Bounds DEF TypeOK
    <3>2. ~trouble => buffer = Chs(want)
      BY <1>3 DEF Copy, Quiet, InPlace
    <3> QED
      BY <3>1, <3>2, ChsInverse DEF Promised
  <2>4. D!Succeed
    BY <1>2, <2>1, <2>2, <2>3 DEF D!Succeed, Sector
  <2> QED
    BY <2>4 DEF D!Next
<1>4. CASE ReadTimeout
  <2>1. Asked /\ ~Asked' /\ want' = want /\ result' = [status |-> "failure", chs |-> Chs(0)]
    BY <1>4 DEF ReadTimeout, unchangedAfterWait, UnderWay, Waiting, Asked
  <2>2. ~Promised
    BY <1>4 DEF ReadTimeout, Quiet, InTurn, Promised
  <2>3. Answer' = <<>>
    BY <2>1 DEF Answer
  <2>4. D!Fail
    BY <1>2, <2>1, <2>2, <2>3 DEF D!Fail
  <2> QED
    BY <2>4 DEF D!Next
<1>5. ASSUME UNCHANGED <<want, result>>, trouble => trouble' PROVE [D!Next]_(D!vars)
  <2>1. TypeOK'
    BY TypeStep
  <2> QED
    BY <1>5, <2>1, Between DEF TypeOK
<1>6. ASSUME Driver, ~Copy, ~ReadTimeout
      PROVE  UNCHANGED <<want, result>> /\ (trouble => trouble')
  <2>1. CASE Install \/ Ensure \/ SpunUp \/ Stamp \/ Poll
    BY <2>1 DEF Install, Ensure, SpunUp, Stamp, Poll, unchangedByMotor
  <2>2. CASE Seek \/ ReadCommand
    BY <2>2 DEF Seek, ReadCommand, Command
  <2>3. CASE Slept \/ SeekDone
    BY <2>3 DEF Slept, SeekDone, unchangedAfterWait
  <2>4. CASE ResetDone \/ SeekTimeout \/ Results
    BY <2>4 DEF ResetDone, SeekTimeout, Results, unchangedAfterWait
  <2> QED
    BY <1>6, <2>1, <2>2, <2>3, <2>4 DEF Driver
<1>7. ASSUME TimerIRQ \/ FdcReset \/ FdcSeek \/ FdcRead
      PROVE  UNCHANGED <<want, result>> /\ (trouble => trouble')
  BY <1>7 DEF TimerIRQ, FdcReset, FdcSeek, FdcRead, unchangedByMotor, unchangedByFdc
<1>8. CASE UNCHANGED vars
  BY <1>5, <1>8 DEF vars
<1> QED
  BY <1>1, <1>3, <1>4, <1>5, <1>6, <1>7, <1>8 DEF Next

\* A floppy disk is a Disk: each request is answered once, and while the
\* hardware does as it is told in time, with the sector that was asked for.
\* No interrupt is taken for that of a later command (floppy.c read_sector).
THEOREM FloppyImplementsDisk == Spec => ImplementsDisk
<1>1. FloppyInv /\ [Next]_vars => [D!Next]_(D!vars)
  BY StepImplements
<1> QED
  BY <1>1, InitImplements, FloppyInvariance, PTL DEF Spec, ImplementsDisk, D!Spec
=============================================================================
