------------------------------- MODULE Floppy -------------------------------
(***************************************************************************)
(* The floppy driver (drivers/block/floppy.c), the two interrupt handlers  *)
(* it depends on (IRQ 6 and the timer's turn_motor_off_if_idle) and the    *)
(* controller, which may answer late, wrongly or never.  The interrupts    *)
(* may fall between any two steps of the driver.                           *)
(*                                                                         *)
(* Times are in units of timer ticks and are constants; only the time      *)
(* since a delay began and since motor_on_since are kept.  A command and   *)
(* its parameters, or its results, are one step.                           *)
(***************************************************************************)
EXTENDS Integers

CONSTANTS SectorsPerTrack,
          Lbas,         \* the sectors that are asked for
          IdleTicks,    \* 18 * FLOPPY_MOTOR_ON_TIME / 1000, that is 36
          SettleTicks,  \* 100
          PollTicks,    \* 200
          SpinTicks,    \* 300
          Polls,        \* 10: tries of wait_for_irq
          SeekTries     \* 10: tries of seek_track

ASSUME FloppyAssumption ==
  /\ SectorsPerTrack \in Nat \ {0} /\ Lbas \subseteq Nat
  /\ {IdleTicks, SettleTicks, PollTicks, SpinTicks} \subseteq Nat
  /\ SettleTicks <= PollTicks /\ PollTicks <= SpinTicks
  /\ Polls \in Nat \ {0} /\ SeekTries \in Nat \ {0}

Off == -1        \* motor_on_since = 0
Nothing == -1    \* no sector

VARIABLES motor,     \* the motor bit of the digital output register
          since,     \* timer_ticks - motor_on_since, or Off
          received,  \* ReceivedIRQ
          waited,    \* timer ticks since the delay began
          pc,        \* where the driver is
          for,       \* what it waits for: "reset", "seek" or "read"
          polls, tries,   \* the loop counters
          want,      \* the sector asked for
          fdc,       \* what the controller is doing
          at,        \* the cylinder the heads are at
          buffer,    \* the sector in the DMA buffer
          result,    \* what the last read returned: a sector, "failure" or "none"
          trouble    \* history: something has gone wrong in the hardware

vars == <<motor, since, received, waited, pc, for, polls, tries, want, fdc, at,
          buffer, result, trouble>>

-----------------------------------------------------------------------------
(* Addresses *)

\* Fault: the sectors of a track are counted from 0.
ChsFromZero(lba) == [cyl    |-> lba \div (2 * SectorsPerTrack),
                     head   |-> (lba % (2 * SectorsPerTrack)) \div SectorsPerTrack,
                     sector |-> (lba % (2 * SectorsPerTrack)) % SectorsPerTrack]

\* lba_2_chs.
Chs(lba) == [cyl    |-> lba \div (2 * SectorsPerTrack),
             head   |-> (lba % (2 * SectorsPerTrack)) \div SectorsPerTrack,
             sector |-> ((lba % (2 * SectorsPerTrack)) % SectorsPerTrack) + 1]

Cylinders == {0} \cup {Chs(lba).cyl : lba \in Lbas}

Ready == "ready"
Commands == {Ready, "reset", "seek", "read"}

Init == /\ motor = FALSE
        /\ since = Off
        /\ received = FALSE
        /\ waited = 0
        /\ pc = "install"
        /\ for = "reset"
        /\ polls = 0
        /\ tries = 0
        /\ want = Nothing
        /\ fdc = [doing |-> Ready, chs |-> Chs(0)]
        /\ at \in Cylinders
        /\ buffer = Chs(0)
        /\ result = [status |-> "none", chs |-> Chs(0)]
        /\ trouble = FALSE

-----------------------------------------------------------------------------
(* The driver *)

\* The driver forgets past interrupts and gives a command.  It is lost if the
\* controller is not ready for it, which the driver does not look at.
Command(doing, chs) ==
  /\ received' = FALSE
  /\ \/ /\ fdc.doing = Ready
        /\ fdc' = [doing |-> doing, chs |-> chs]
        /\ UNCHANGED trouble
     \/ /\ trouble' = TRUE
        /\ UNCHANGED fdc
  /\ for' = doing
  /\ polls' = 0
  /\ pc' = "poll"

\* install_floppy and ResetFloppy: the reset is not a command, it always works.
Install == /\ pc = "install"
           /\ received' = FALSE
           /\ fdc' = [doing |-> "reset", chs |-> Chs(0)]
           /\ for' = "reset"
           /\ polls' = 0
           /\ pc' = "poll"
           /\ UNCHANGED <<motor, since, waited, tries, want, at, buffer, result, trouble>>

\* floppy_read_sectors_lba.
Read(lba) == /\ pc = "idle"
             /\ want' = lba
             /\ result' = [status |-> "none", chs |-> Chs(0)]
             /\ pc' = "ensure"
             /\ UNCHANGED <<motor, since, received, waited, for, polls, tries, fdc,
                            at, buffer, trouble>>

unchangedByMotor == <<received, for, polls, want, fdc, at, buffer, result, trouble>>

\* ensure_motor_on: the motor is believed off, and is turned on, or it is
\* believed on ...
Ensure == /\ pc = "ensure"
          /\ IF since = Off
               THEN motor' = TRUE /\ pc' = "spin"
               ELSE pc' = "stamp" /\ UNCHANGED motor
          /\ waited' = 0
          /\ UNCHANGED <<since, tries, unchangedByMotor>>

SpunUp == /\ pc = "spin" /\ waited >= SpinTicks
          /\ pc' = "stamp"
          /\ UNCHANGED <<motor, since, waited, tries, unchangedByMotor>>

\* Fault: motor_on_since is set only when the motor is turned on.
StampOnce == /\ pc = "stamp"
             /\ since' = since
             /\ tries' = 0
             /\ pc' = "seek"
             /\ UNCHANGED <<motor, waited, unchangedByMotor>>

\* ... and motor_on_since is set, although the timer may have turned it off
\* in between.
Stamp == /\ pc = "stamp"
         /\ since' = 0
         /\ tries' = 0
         /\ pc' = "seek"
         /\ UNCHANGED <<motor, waited, unchangedByMotor>>

\* seek_track, one try.
Seek == /\ pc = "seek"
        /\ Command("seek", Chs(want))
        /\ UNCHANGED <<motor, since, waited, tries, want, at, buffer, result>>

\* wait_for_irq: the flag is looked at, then it is slept on.
Poll == /\ pc = "poll"
        /\ pc' = IF received THEN "arrived" ELSE "sleep"
        /\ waited' = 0
        /\ UNCHANGED <<motor, since, tries, unchangedByMotor>>

\* Fault: the polls are not counted.
SleptUncounted == /\ pc = "sleep" /\ waited >= PollTicks
                  /\ pc' = "poll"
                  /\ UNCHANGED <<motor, since, received, waited, for, polls, tries, want,
                                 fdc, at, buffer, result, trouble>>

Slept == /\ pc = "sleep" /\ waited >= PollTicks
         /\ polls' = polls + 1
         /\ pc' = IF polls + 1 < Polls THEN "poll" ELSE "timeout"
         /\ trouble' = (trouble \/ polls + 1 = Polls)
         /\ UNCHANGED <<motor, since, received, waited, for, tries, want, fdc, at,
                        buffer, result>>

unchangedAfterWait == <<motor, since, for, polls, want, fdc, at, buffer>>

\* The controller has been reset, or it has not and there is no drive.
ResetDone == /\ for = "reset"
             /\ \/ pc = "arrived" /\ pc' = "idle"
                \/ pc = "timeout" /\ pc' = "absent"
             /\ UNCHANGED <<received, waited, tries, result, trouble, unchangedAfterWait>>

\* Fault: the loop counter is tested after one more try.
SeekDoneLate ==
  /\ for = "seek" /\ pc = "arrived"
  /\ \E cyl \in {at, 0} :
       /\ trouble' = (trouble \/ cyl # at)
       /\ IF cyl = Chs(want).cyl
            THEN pc' = "settle" /\ UNCHANGED tries
            ELSE /\ tries' = tries + 1
                 /\ pc' = IF tries <= SeekTries THEN "seek" ELSE "settle"
  /\ waited' = 0
  /\ UNCHANGED <<received, result, unchangedAfterWait>>

\* The seek is over: check_interrupt_status tells the cylinder, or 0 if the
\* byte cannot be read.
SeekDone ==
  /\ for = "seek" /\ pc = "arrived"
  /\ \E cyl \in {at, 0} :
       /\ trouble' = (trouble \/ cyl # at)
       /\ IF cyl = Chs(want).cyl
            THEN pc' = "settle" /\ UNCHANGED tries
            ELSE /\ tries' = tries + 1
                 /\ pc' = IF tries + 1 < SeekTries THEN "seek" ELSE "settle"
  /\ waited' = 0
  /\ UNCHANGED <<received, result, unchangedAfterWait>>

\* A seek that gets no answer; read_sector goes on all the same.
SeekTimeout == /\ for = "seek" /\ pc = "timeout"
               /\ pc' = "settle"
               /\ waited' = 0
               /\ UNCHANGED <<received, tries, result, trouble, unchangedAfterWait>>

\* Fault: the interrupts of the seek are not forgotten.
ReadCommandStale ==
  /\ pc = "settle" /\ waited >= SettleTicks
  /\ received' = received
  /\ fdc' = [doing |-> "read", chs |-> Chs(want)]
  /\ for' = "read"
  /\ polls' = 0
  /\ pc' = "poll"
  /\ UNCHANGED <<motor, since, waited, tries, want, at, buffer, result, trouble>>

\* The heads have settled.
ReadCommand == /\ pc = "settle" /\ waited >= SettleTicks
               /\ Command("read", Chs(want))
               /\ UNCHANGED <<motor, since, waited, tries, want, at, buffer, result>>

\* The result bytes are read and not looked at.
Results == /\ for = "read" /\ pc = "arrived"
           /\ received' = FALSE
           /\ pc' = "copy"
           /\ UNCHANGED <<waited, tries, result, trouble, unchangedAfterWait>>

\* The DMA buffer is copied to the caller's.
Copy == /\ pc = "copy"
        /\ result' = [status |-> "success", chs |-> buffer]
        /\ pc' = "idle"
        /\ UNCHANGED <<received, waited, tries, trouble, unchangedAfterWait>>

ReadTimeout == /\ for = "read" /\ pc = "timeout"
               /\ result' = [status |-> "failure", chs |-> Chs(0)]
               /\ pc' = "idle"
               /\ UNCHANGED <<received, waited, tries, trouble, unchangedAfterWait>>

Driver == \/ Install \/ Ensure \/ SpunUp \/ Stamp \/ Seek \/ Poll \/ Slept \/ ResetDone
          \/ SeekDone \/ SeekTimeout \/ ReadCommand \/ Results \/ Copy \/ ReadTimeout

-----------------------------------------------------------------------------
(* Interrupts *)

\* Fault: the motor is never idle.
TimerNoMotor == /\ waited' = IF waited < SpinTicks THEN waited + 1 ELSE waited
                /\ UNCHANGED <<motor, since, pc, tries, unchangedByMotor>>

\* The timer: delays go on and turn_motor_off_if_idle is called.
TimerIRQ ==
  LET idle == since # Off /\ since + 1 > IdleTicks
  IN /\ waited' = IF waited < SpinTicks THEN waited + 1 ELSE waited
     /\ since' = IF since = Off \/ idle THEN Off ELSE since + 1
     /\ motor' = (motor /\ ~idle)
     /\ UNCHANGED <<pc, tries, unchangedByMotor>>

unchangedByFdc == <<motor, since, waited, pc, for, polls, tries, want, result>>

\* The controller comes out of its reset.
FdcReset == /\ fdc.doing = "reset"
            /\ received' = TRUE
            /\ fdc' = [fdc EXCEPT !.doing = Ready]
            /\ UNCHANGED <<at, buffer, trouble, unchangedByFdc>>

\* The heads arrive, or they do not.
FdcSeek == /\ fdc.doing = "seek"
           /\ received' = TRUE
           /\ fdc' = [fdc EXCEPT !.doing = Ready]
           /\ \/ at' = fdc.chs.cyl /\ UNCHANGED trouble
              \/ trouble' = TRUE /\ UNCHANGED at
           /\ UNCHANGED <<buffer, unchangedByFdc>>

\* The sector is transferred, or an error is: then nothing is.
FdcRead == /\ fdc.doing = "read"
           /\ received' = TRUE
           /\ fdc' = [fdc EXCEPT !.doing = Ready]
           /\ \/ /\ at = fdc.chs.cyl
                 /\ buffer' = fdc.chs
                 /\ UNCHANGED trouble
              \/ trouble' = TRUE /\ UNCHANGED buffer
           /\ UNCHANGED <<at, unchangedByFdc>>

Next == \/ Driver
        \/ \E lba \in Lbas : Read(lba)
        \/ TimerIRQ
        \/ FdcReset \/ FdcSeek \/ FdcRead

Spec == Init /\ [][Next]_vars

\* The processor runs the driver and the timer ticks.  Nothing is promised
\* of the controller.
FairSpec == Spec /\ WF_vars(Driver) /\ WF_vars(TimerIRQ)

-----------------------------------------------------------------------------
(* Properties *)

Addresses == {Chs(lba) : lba \in Lbas \cup {0}}

TypeOK == /\ motor \in BOOLEAN
          /\ since \in {Off} \cup 0..IdleTicks
          /\ received \in BOOLEAN
          /\ waited \in 0..SpinTicks
          /\ pc \in {"install", "idle", "absent", "ensure", "spin", "stamp", "seek", "poll",
                     "sleep", "arrived", "timeout", "settle", "copy"}
          /\ for \in {"reset", "seek", "read"}
          /\ polls \in 0..Polls
          /\ tries \in 0..SeekTries
          /\ want \in {Nothing} \cup Lbas
          /\ fdc \in [doing : Commands, chs : Addresses]
          /\ at \in Cylinders
          /\ buffer \in Addresses
          /\ result \in [status : {"none", "failure", "success"}, chs : Addresses]
          /\ trouble \in BOOLEAN

\* The sector on a disk that an address names: the inverse of lba_2_chs, with
\* sectors counted from 1 and the two heads in turn.
LbaOf(chs) == (chs.cyl * 2 + chs.head) * SectorsPerTrack + chs.sector - 1

Asked == result.status = "none" /\ want # Nothing

\* What the file systems see of the driver.
Request  == IF Asked THEN want ELSE Nothing
Promised == Asked /\ ~trouble
Status   == IF Asked THEN "asked" ELSE IF want = Nothing THEN "idle" ELSE result.status
Answer   == IF result.status = "success" THEN <<LbaOf(result.chs)>> ELSE <<>>

\* What a request is answered with.
Sector(lbas, lba) == <<lba>>

D == INSTANCE Disk WITH
       disk <- Lbas, request <- Request, promised <- Promised, status <- Status, data <- Answer,
       Requests <- Lbas, NoRequest <- Nothing, Contents <- Sector, Refuses <- FALSE

\* A floppy disk is a Disk.  As long as the hardware does what it is told in
\* time, every read succeeds with the sector that was asked for: no interrupt
\* is taken for that of a later command, and the buffer is not copied before
\* the transfer (read_sector).
ImplementsDisk == D!Spec

\* A motor that runs is one the driver knows of or is about to: the timer
\* can always turn it off.
MotorTracked == motor => since # Off \/ pc \in {"spin", "stamp"}

\* Every read returns, even if the controller never answers.
ReadEnds == (pc = "ensure") ~> (pc = "idle")

\* The motor never stays on: whatever the driver does, and wherever the timer
\* interrupts it, it is turned off again.
MotorGoesOff == motor ~> ~motor

\* "Keep track of when drive was last used so we know when we can turn the
\* motor off" (floppy.c:70): it runs when the command to read is due.  The
\* limit is 36 ticks, meant for 18 a second, and the timer ticks 1000 times a
\* second: the 100 that the heads are given to settle are more.
MotorOnForRead == pc = "settle" /\ waited >= SettleTicks => motor
=============================================================================
