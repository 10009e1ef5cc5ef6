# A TLA+ development of GeorgeOS

GeorgeOS is a small PC operating system. Its living part is the 32-bit kernel
(`src/32bit`): one address space, no processes, one thread of execution that
interrupt handlers interrupt. A program is loaded over the program that asked
for it; drivers wait by looking at a flag an interrupt handler sets. There are
no locks. What can go wrong is therefore of three kinds: an interrupt between
two steps that belong together, a device that answers late, wrongly or never,
and a long sequence of legal calls that fills a table or leaves a stale value.
The modules here are about those.

## The system's parts

| Part | State | Operations | What makes it correct |
|---|---|---|---|
| Keyboard (`ps2_keyboard.c`, `console.c`) | `key_status`, `next_char_received`, the line being read | `keyboard_handler`, `on_key_event` (interrupt); `get_char`, `get_string` | characters in order, at most once; the reader wakes up; the line fits; modifiers do not stick |
| Screen console (`screen_console.c`) | `console_buffer`, `cursor`, `current_color` | `console_write`, `console_write_char`, `console_check_scroll`; `console_update_cursor` (timer interrupt) | the cursor stays on the screen; the screen shows what was written |
| Timer (`timer.c`) | `timer_ticks`, callbacks | `timer_handler` (interrupt), `delay` | it ends every HLT and every delay |
| Block devices (`blockdev.c`) | `block_devices` | `register_block_device`, `find_partitions` | unique names, each partition once, the table is not overrun |
| Start-up (`kernel.c`) | the loops of `main` | drivers, partitions, mounts, shell | it ends, from the right disk |
| File layer (`fs.c`, `stream.c`) | `fs_mounts`, `open_files`, `cwd` | open, read, close, list, find | handles keep their file; what can be opened is listed |
| Calls and programs (`syscall.c`, `kernel.c` `exec`, `shell.c`) | the program area, the calls in progress | chdir, exec, return | what runs is what is in memory |
| Floppy driver (`floppy.c`) | `ReceivedIRQ`, `motor_on_since`, the controller | reset, seek, read; IRQ 6; `turn_motor_off_if_idle` (timer) | the sector asked for, an end to every read, the motor goes off |
| FAT (`fat12.c`, `find_file`) | the table in memory, the geometry | mount, list, look up, read a chain | entries decoded as written; the file whole and in order; no wrong file from a lookup in which nothing failed |
| USB buses (`pci.c`, `ehci.c`, `uhci.c`) | `pci_devices`, ports, `usb_devices` | scan, hand-over of ports, port reset, addresses, descriptors | every device at an address of its own, with its own descriptors |
| USB disks (`usb_storage.c`, `uhci.c`) | queue, endpoints' toggles, units | bulk transfers, SCSI commands | both ends agree on the toggle and on where a command is |
| Heap (`memory.c`) | `free_memory_start` | `malloc`, `memalign` | blocks do not overlap |
| Boot loader (`boot/`) | the cluster it is at | loads the kernel, cluster by cluster | reads the table as the driver does |
| ATA, graphics, serial, CMOS, strings, 16-bit kernel, earlier boot sectors | | | not modelled, see the end |

Interactions: the timer interrupt reaches the console (cursor), the floppy
driver (motor, delays) and the reader (it ends HLT); `main` calls the drivers,
which find the buses, enumerate the USB devices and register disks, then
partitions, then mounts; the shell reaches the
file layer and `exec` through system calls; the file layer reads through FAT,
which reads through the floppy or the USB driver.

## Modules

| Module | Models | Proofs |
|---|---|---|
| `LineInput` | what the line reader promises: the abstract specification | |
| `KeyInput` | the keyboard interrupt against `get_char` and `get_string` | `KeyInputProofs` |
| `ScreenConsole` | the writer against the timer's cursor | `ScreenConsoleProofs` |
| `BlockRegistry` | the tables of devices and mounts | |
| `Boot` | `main` from the disks to the shell, on top of `BlockRegistry` | `BootProofs` |
| `Files` | paths, handles, programs, the shell | `FilesProofs` |
| `Floppy` | the driver, its two interrupt handlers, the controller | `FloppyProofs` |
| `FatTable` | the table's bytes: the format, and how the driver and the boot loader decode it | `FatProofs` |
| `Fat` | mounting, listing, lookup and reading of a volume on a device that fails | `FatProofs` |
| `UsbBus` | from the PCI functions to the USB devices and the disks among them | `UsbBusProofs` |
| `UsbStorage` | the units of a USB storage device and their reads, over bulk transactions | `UsbStorageProofs` |
| `Heap` | `malloc` and `memalign`; no run checks it, the theorem covers every heap | `UsbBusProofs` |
| `Disk` | what `read_sectors` promises: the abstract specification of `Floppy` and `UsbStorage` | |

`LineInput` and `Disk` are abstract; `FatTable` and `BlockRegistry` are parts of
`Fat` and `Boot`. Each of the others, but `Heap`, has an `MC` module with the
values of its constants. Definitions that begin with a comment "Fault:" are wrong
versions of the definition after them; no specification uses them. They are there to see that a property notices
when the code is changed that way, and each is listed in `PROJECT.json`.

### How the modules cut the code

An interrupt handler runs with interrupts disabled, so it is one action. The
code it interrupts is cut at every access of a variable that a handler shares
with it: `get_char` is `Test`, `Halt`, `Capture`, `Clear`; a console write is
put, move, check, copy of each row, clear, load and store of the cursor; the
floppy driver is cut at every use of `ReceivedIRQ`, `motor_on_since` and the
controller. `Boot` and `Files` run nothing concurrently and have one action
for each turn of a loop of `main` and for each system call.

- `KeyInput`. A character is its position in `typed`, the history of what was
  typed, so that "the same character twice" is visible. `held` is which
  modifier keys are physically down. `Restart` is F12 and Ctrl-Alt-Delete.
  Echo is left to the console.
- `ScreenConsole`. `interrupts` is the processor's flag: `main` writes its
  first messages before `sti`. `reg` is the register between the load and the
  store of `cursor -= console_cols`. `die` sets `dead` and nothing moves any
  more. `page` is a history: a reference terminal that takes each token in one
  step, when the writer begins with it.
- `BlockRegistry`, `Boot`. A name is a sequence of a prefix and numbers. What
  a disk holds is chosen when it is read. A table that is written past its end
  sets `overflow`: what the program does from there is undefined, so no action
  is enabled and the properties speak of what came before. An entry of a
  partition table has an extent, which `find_partitions` copies unchecked:
  entries may overlap. `tables` is a history of the tables read.
- `Files`. `calls` is the stack of programs, each run by the one before it;
  `image` is what was read to the one place there is, 0x100000, and whether it
  is all of that file. `exec` reads straight there, so a read that fails has
  overwritten what was there before. Any read may miss a sector without noticing
  it; a file in `Damaged`, an empty one among them, is never whole: its chain
  leads to an invalid cluster after sectors were read, and the read fails, or
  to an end mark by chance, and what came is run. When what is in memory is not
  the whole of what is to run (`image # Whole(Last(calls))`) nothing more is
  enabled. `open_files` is not initialised: besides the streams every handle
  may be free or hold anything at the start, but the one that the shell was
  read with.
  `next_file_handle` returns -1 on a full table and `open_file` tests for 0:
  `stray` records the write in front of the table.
- `FatTable`, `Fat`. The content of a sector is its number, so that a buffer
  tells which sectors were read into it and in what order; a directory sector
  also has its names. `TableByte` is the format, `Decode` the driver. Each
  turn of the loop of `fat12_read_file` is one action, in which the device
  gives all, some or none of the sectors. What the code does not look at, the
  model goes on with: a first sector that was not read is that of another
  disk, an entry past the table is any of a few numbers, a failed listing
  leaves `find_file` with whatever its array and its count hold: in entries that
  the listing did not write, anything of `Remains`, those of other volumes
  included, as the array is on a stack that all lookups share. `pc =
  "undefined"` is a write or a search past the end of an array on the stack.
  That a read stops after `MaxClusters` is a bound of the model; the code
  follows a cycle for ever.
- `Floppy`. The delays are constants in timer ticks and keep their order. The
  controller (`FdcReset`, `FdcSeek`, `FdcRead`) is external: it may answer at
  any time, fail to arrive at a cylinder, fail to transfer, or never answer.
  `trouble` records that something went wrong in it. A byte that cannot be
  read in time is read as 0, as `read_data_byte` does.
- `UsbBus`. `main` runs `pci_init`, `usb_ehci_init`, `usb_uhci_init` and
  `usb_storage_init` with nothing beside them, so an action is a turn of a loop
  or a control transfer, which the driver waits for; each can fail at any
  packet. `plugged` says what is at each port. A device answers at `address`
  while its port is `enabled`: 0 after a reset of the port, another from
  `SetAddress` on, so that two of one controller can answer at once
  (`Responders`). A descriptor is counted in pieces of 8 bytes, the least size
  of a packet; a piece knows whose it is and which, and `Stored` says where the
  packets put them. A device can take its address after the driver has given
  up: `wait_for_transfer` looks a last time, waits a millisecond and then takes
  the queue away (`AddressFails`). `left` is a history of the places where
  enumeration ended with the port enabled and the device not at an address under
  which the table has it. An entry of `usb_devices` starts as whatever its
  memory held (`Memories`), as nothing clears it; `before` and `whole` are
  histories of what that was and of whether the read was complete. Past the
  end of `usb_devices` the program is undefined and stops. The tables of PCI
  functions (32) and of controllers (16) are taken to suffice
  (`BusAssumption`). The set-up of a disk is one action here and all of
  `UsbStorage`. `LoadUsb` is the command of the echo mode: the enumeration begins
  again with whatever is plugged in by then, `booting` is no longer so, and the
  entries of the enumerations before are only counted (`earlier`).
- `Disk`. A request, and whether its answer is `promised`: `Floppy` promises it
  while the hardware does what it is told in time, `UsbStorage` while nothing
  was lost and the unit's block size is the one kept. A promised read of the
  floppy succeeds; a USB device may refuse (`Refuses`). Each answer comes
  once and stands until the next request.
- `UsbStorage`. A transaction of `uhci_execute_bulk_transaction` is a `queue`
  of packets with toggles (`Execute`); the controller and the device
  (external) carry them out one by one while the driver waits, and it goes
  on when the last is done (`Succeeded`) or gives up (`TransactionFails`, at
  any time before, as the 1000 polls of `wait_for_transfer` are not counted).
  `at` and `phase` say where the driver is: the command and which of its three
  transactions. The device (`dev`) is ready, sending data or sending a status;
  a command that reaches it in the middle of another is taken instead of that
  one or after it. A packet is what it is a part of: unit, block, position.
  `trouble` is a history of the worst so far: nothing, a transaction that
  failed, or one in which data were lost or the device was left waiting. A
  capacity that did not come is what the stack held, any of `Junk`; with a block
  size of 0 among it no read is modelled.

## What the runs check

Deadlock is checked except in `Boot`, `Files`, `Fat`, `UsbBus` and `UsbStorage`, which really stop:
start-up ends in the shell or the echo loop, `Files` ends when the machine runs
what is not in memory, and `Fat` when a volume is refused, when what follows is
undefined, or at the bound on the clusters of one read. `UsbBus` ends when an
entry is to be written past `usb_devices`. A USB device of which
no unit was registered is never used again.

| Run | Shows | Bounds and why they are enough |
|---|---|---|
| `keyinput` | `Handshake`, `LineFits`, `ModifiersNotStuck`; `ImplementsLineInput` (refinement of `LineInput`); `KeyReachesReader` | three characters: one captured, one in the slot, one arriving between capture and clear (it is lost, and `LineInput` allows that); a buffer of 2, so that the limit is met by the second; four character keys, two shift keys, ctrl, alt, F12 |
| `console` | `CursorStaysOnScreen`, `BootTextExact` (against a reference terminal) | 2 x 2 cells: three characters wrap, four scroll, six tokens scroll after a backspace or a colour. The interrupted part has no bound |
| `boot` | `NamesUnique`, `PartitionsComplete`, `MountsApart`, `StartsFromFloppy`, `BootEnds` | two disks with three table entries each, all their subsets, and a floppy drive; two disks are what it takes for a name to clash. An entry lies at one of three extents, two of which overlap, as do two entries of one extent |
| `files` | `HandlesKeepFile`, `HandleForShell`, `LostOnlyByRead`, `OpenableIsListed` | three handles besides the streams, so that the table fills, each free or not at the start; programs three deep; an empty file in the home directory; relative, absolute, empty and trailing-slash paths |
| `floppy` | `ImplementsDisk` (refinement of `Disk`), `MotorTracked`, `ReadEnds`, `MotorGoesOff` | two sectors on one cylinder and one on another; two polls and two tries, so that a late interrupt can meet the next command |
| `fat` | `TableRight`, `FileRight`, `ListingRight`, `LookupRight`, `ReadEnds` | sectors of 20 bytes (five entries of 32 bits) with two directory entries; three clusters and every table over them: chains of one to three in any order, cycles, free and bad entries, even and odd clusters; roots that are empty, fill a sector, end in the second and fill it; on the stack an entry of another volume under a name of this one, one that is right, and none; `MaxClusters` = 4 lets the longest chain end and a cycle show |
| `enum` | `RegisteredRight`, `DescriptorsRight`, `EnumerationComplete` | two controllers with two ports and a USB 2 controller that has the ports or has not, among other functions; in either port of the first controller any of seven kinds of device (none is one), with a disk in the other, so that packets of 8, 16, 32 and 64 bytes, descriptors of one packet and of several, disks and others meet; in the second nothing or one disk; entries that are clear or hold a disk of an earlier boot; an array of three devices, so that the fourth is written past it, in the first enumeration or by `loadusb`, which can be repeated as long as there is room |
| `usb` | `ImplementsDisk` (refinement of `Disk`), `InStep`, `UnitsRight`, `DriverReturns` | two units, so that one can be registered with the size of the other; blocks of two packets or four (real ones are 8, an even number too); two addresses, so that an old answer differs from the new; a device that answers, refuses, breaks or stays silent at every packet; one command held while another is under way; a capacity that did not come is 0 or 1. The reads are unbounded in number |

`ImplementsDisk` of `UsbStorage` excludes two things that do happen. A read whose data time out is
given up with the device still in it; the toggle of the endpoint has been
advanced for packets that never came. The next command may then be
thrown away by the device as a repetition, and acknowledged; the device goes on
with its first answer, which passes for the answer to the second command
because the tag is 0 in all commands and is not compared: the read returns
`SUCCESS` with the blocks of another. And `wait_for_transfer` looks only at
whether the last descriptor is inactive, not at why, so that a read can
succeed without its last packet. Without `trouble # "lost"` TLC finds both. A
third, the common `block_size` of the units (`usb_storage.c:147`), is in the
last premise of `promised`.

The properties of `UsbBus` have premises too, and each stands for something
that does happen:

- `Undisturbed`. The ports are disabled "so we can enumerate the devices one
  port at a time" (`uhci.c:206`), but a device that is skipped for its
  configurations, or in whose enumeration a transfer fails, keeps its port
  enabled and its address 0: the one at the next port is not alone there.
  `uhci_set_address` even succeeds without a device having taken the address,
  as only the last descriptor is waited for and not why it ended; the outcome
  of the port reset before it (`uhci.c:249`) is not looked at. It can also fail
  with the device having taken the address (`uhci.c:840`-`848`): the address
  stays free in the driver's table and goes to the next port's device too.
- `whole` in `DescriptorsRight`. Whether the configuration could be read is not
  looked at (`uhci.c:278`). Where it was not, the entry keeps what memory held:
  each piece is the device's own or that. It can look like a disk that is
  not there, so `EnumerationComplete` speaks of enumerations without a failure.
- `booting` in `EnumerationComplete`. `usb_storage_init` runs once, so disks
  that `loadusb` finds are registered as devices and never set up.
- The size of a packet in `DescriptorsRight`. `uhci_execute_transaction` puts
  the packets 8 bytes apart (`uhci.c:710`, with a TODO): a configuration that
  takes two packets of 64 bytes is stored over itself.
- `EnumerationComplete` leaves out devices whose control packets have 16 bytes:
  the first transfer brings too little, and the second asks for packets of 8,
  in which such a device says more than the controller takes
  (`CanDescribe`). They are never described.

Other modules have such premises as well:

- `FileRight`. `fat12_read_file` puts clusters 512 bytes apart whatever their
  size (`fat12.c:271`), so with two sectors to a cluster the second cluster
  overwrites half of the first.
- `LookupRight`. `find_file` takes the failure of a listing for a success
  (`fs.c:235`) and searches an array that nothing has written: it can find the
  name in what another volume's lookup left, with that volume's cluster. Only
  where nothing has failed is the entry that it finds the file's.
- `MountsApart`. Nothing compares the entries of a partition table. If they
  overlap, so do the file systems mounted on them.
- `LostOnlyByRead`. The shell is lost when the last read to 0x100000 did not
  give all of a file, be it an `exec` that failed, a file that is empty or a
  sector that was missed, or when `shell.exe` is looked up in another directory.
  The property is that there is no further reason.

Four runs state what a comment of the code says and find the code doing
something else:

| Run | Comment | What happens |
|---|---|---|
| `console_scroll` | `screen_console.c:74` "i.e. one row up" | the timer scrolls inside the writer's scroll: two rows are lost and the cursor ends a row too high. The proofs show that it goes no further |
| `boot_overflow` | `blockdev.c:20` `if (index >= MAX_BLOCK_DEVICES) return FAILURE` | the test comes after the write and counts one kind of name only |
| `files_restore` | `kernel.c:165` "Read the shell back in so when we return to it, it's there" | after `cd` the name is looked up elsewhere and the failure is ignored |
| `floppy_motor` | `floppy.c:70` "Keep track of when drive was last used so we know when we can turn the motor off" | the limit of 36 ticks was meant for 18 ticks a second; at 1000 a second it passes while the heads settle |

### Fairness

The processor never stops running the main line of execution unless it has
executed HLT, so the reader, the writer, `main` and the driver are weakly
fair. The timer is programmed to 1000 Hz and is never masked after `sti`
(`timer.c:73`), so its interrupt is weakly fair where it matters
(`KeyReachesReader`, `Floppy`'s `ReadEnds`, `MotorGoesOff`). The FAT driver
is weakly fair as the processor is; a driver's call under it returns, as
`ReadEnds` of `Floppy` says of the floppy. The USB driver is weakly
fair, its wait included, which ends after a thousand polls of a millisecond
each. Nothing is assumed of the user (no key need ever be pressed), of the
floppy controller (a read ends if it never answers) nor of the USB controller
and its device.

## What is proved

The theorems hold for every value of the constants that satisfies the named
assumptions of the module. Each proof follows one pattern: an inductive
invariant, its initial case, one step for each action, and the conclusion.

- `KeyInputProofs`. `KeyInv` is `TypeOK`, `Handshake` and `LineFits`. The
  handshake is what makes it inductive: `upto` is behind `captured` while a
  character is being handled and behind the slot while one waits. From it
  follow `LinesFit`, `HandshakeHolds`, `KeyTypes` and the refinement
  `KeyInputImplementsLineInput`: `Edit` and `Return` are the abstract
  `Consume`, a key press is `Type`, a reset is `Abandon`, all else stutters.
  `ModifiersNeverStuck` is inductive by itself: a modifier bit is changed by the
  handler that also changes `held`.
- `ScreenConsoleProofs`. `ConsoleInv` says what the cursor can be at each step
  of a write. An interrupt can lower it by a row at any step at which it
  is one past the end, so the invariant has a bound for each place, and
  `reg` has one too: a writer that loaded the cursor before an interrupt
  scrolled stores a value that is still on the screen. Results:
  `CursorNeverLeavesScreen`, so `die("Invalid cursor position")` is unreachable,
  and `ConsoleTypes`. `PageInv` is about the text, with interrupts disabled: the
  reference page is one token ahead, so at each step the screen has a `Window`
  of it but for the cells that the step still has to store, and in a scroll the
  rows above `row` are already those of the next window (`Scrolling`). What lies
  below the window is empty, which is what clearing the last row relies on.
  Result: `BootTextShown`, that is `BootTextExact`.
- `BootProofs`. `Inv` says how each name was made: the prefix, and the number
  of entries with that prefix at the time. Two entries with one prefix have
  different numbers, and two prefixes never make one name because
  a number is never one of the words. Result: `DeviceNamesUnique`. `OrderInv`
  says how far the loops of `main` have come: the entries of every table read
  so far are registered, in order, each with the sectors it says, and the
  floppy drive stands before any other device that is mounted. Results:
  `EveryPartitionFound`, `NoSectorMountedTwice`, `FloppyStartsTheSystem`,
  `BootTypes`. `NoSectorMountedTwice` is about sectors: where the entries of a
  table do not overlap, neither do the areas of any two mounts of its disk.
- `FilesProofs`. `Inv` joins the handle table, the stack and the image: the
  table has a free handle while a program other than the shell runs, as
  loading it took and gave back one. Results: `HandlesNeverReassigned`,
  `HandleLeftForShell`, `ProgramLostOnlyByRead`, `ListingComplete`, `FilesTypes`.
- `FloppyProofs`. `FloppyInv` has the limits of the counters, what the driver
  has been asked at each of its steps (`UnderWay`), and what holds while
  `trouble` is not set (`Quiet`): the controller works on what the driver waits
  for until it interrupts and never otherwise (`InTurn`), and then the heads are
  on the cylinder and the buffer has the sector (`InPlace`). The interrupt of a
  command that was given up is `trouble`. Results: `MotorAlwaysTracked`, `FloppyTypes` and the refinement
  `FloppyImplementsDisk`: the driver's return is the abstract `Answer`, and it
  has the sector that was asked for.
- `FatProofs`. `DecodeRight` is arithmetic: two entries of twelve bits that
  share three bytes, and entries of two and four bytes, come out of
  `TableByte` and `Decode` unchanged. `LoaderDecodeRight` adds that the boot
  loader, which loads a word and shifts or masks it, follows the same chains as
  the driver in a table of twelve bits. `TableInv` (the table in memory is the
  one on disk) carries it to every state: `TableReadBack`. `FileInv` says that
  while nothing has failed the buffer is the chain so far and `cluster` is what
  the disk names next; the turn of the loop that finds the end of the chain
  makes it the whole file: `FileReadRight`. `ListInv` does the same for a
  directory: a listing that goes sector by sector has counted the entries of the
  sectors so far (`RootSoFar`), and one that follows a chain starts at the
  root's cluster; the names are those of the root when it fits. Results:
  `ListingIsRoot`, `LookupFindsName`, with the premise that nothing failed where
  `LookupRight` has it, and `FatTyped`, which says nothing of the length of a
  chain. All of it needs a disk that is
  formatted (`FormatAssumption`: every cluster on the disk has its entry, and
  the root directory of a FAT32 volume begins at a data cluster), and
  `FileReadRight` needs one sector to a cluster; with more it is false.
- `UsbStorageProofs`. `UsbInv` says of each phase of the driver where the device
  can be. As long as nothing was lost (`Together`) it is ready, at work on
  the command of this phase, or left with a status that nobody collected,
  whose toggle is the one the driver does not wait for, so that it is never taken
  for an answer. As long as no transaction failed (`Lockstep`) the toggles of the
  two ends are equal. The packets in `queue` alternate. Results:
  `EndsInStep`, `EveryUnitRight`, `UsbTypes` and the refinement
  `UnitImplementsDisk`.
- `UsbBusProofs`. `BusInv` has a part for each thing the properties relate. The
  places that had their turn are `Behind`, and only such a place can be `left`,
  at address 0 or at one that is free in the table, so a device whose place is
  `Undisturbed` is alone when it is described and when it takes its address. A
  controller has two ports and so at most two addresses in use: a free one
  exists, and it is not in the table for this controller: `AloneAtAddress`.
  `StoredRight` says that the packets of a transfer put each piece of a descriptor
  where it belongs, when they are of 8 bytes or there is one of them, over
  what the entry's memory held: `DescriptorsOwn`. Every function that was
  found has its turn, and every place of every controller: `NoDeviceMissed`.
  For any number of devices and enumerations, and any functions and controllers
  for which the tables of the code suffice (`BusAssumption`), whatever memory
  held (`MemoryAssumption`); with them `BusTypes`. The module also has the theorem of the heap: what was
  handed out is below the mark (`HeapInv`), and what `memalign` hands out is above
  it and aligned (`MemalignRight`); alignments are powers of two, for which the
  mask of the code is a remainder. Result: `HeapBlocksApart`,
  for any sizes and any order of calls, as long as the mark does not wrap.

So every invariant, action property and refinement that a run checks is also a
theorem. Model-checked only are the liveness properties (`KeyReachesReader`,
`BootEnds`, `ReadEnds` of `Floppy` and of `Fat`, `MotorGoesOff`, `DriverReturns`), as
liveness under fairness and ENABLED are beyond the proof system, and the four
properties that the code does not have.

## Plan

What would say more about the system, in this order:

1. How far the timer's scroll inside the writer's can go wrong: that at most one
   row is lost for each scroll, as a theorem beside `CursorNeverLeavesScreen`.
2. The premises of `FileRight` and `DescriptorsRight` the other way round: which
   sectors a file of two sectors to a cluster has, and which pieces a configuration of
   two long packets has.
3. The hazards that no property covers: what the kernel does with a volume whose
   `init` failed, the buffer of a FAT32 directory, and the tables without a limit.

## Not modelled

What is written past `pci_devices`, the tables of controllers and `usb_devices`; a
key whose release never interrupts; reads of a unit whose block size is 0.
Pixels, fonts and VESA modes; the text formatting of `stream.c` and
`string.c`; the serial port and CMOS; the interrupt tables (their effect is
how actions are cut); what lies above the heap, whose end is not
looked at; the string descriptors of USB devices,
which are only printed; the 32-bit boot loader but for its
decoding of the table, as it searches the root directory and loads the kernel
in one sequence of BIOS calls; the ATA
driver, whose initialisation is commented out of `main` (`kernel.c:84`); the
floppy's DMA registers and the length of a transfer; the tokeniser of the
shell; the 16-bit kernel and the earlier boot sectors, which are sequential
programs over BIOS calls.
