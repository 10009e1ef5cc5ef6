------------------------------- MODULE Files -------------------------------
(***************************************************************************)
(* Paths, file handles and the running of programs: drivers/fs/fs.c, the   *)
(* system calls of core/syscall.c and core/stream.c and exec in            *)
(* core/kernel.c, driven by the commands of userland/programs/shell.c.     *)
(* Programs are loaded at one address, over the one that asked for it.     *)
(*                                                                         *)
(* A path is a sequence of names and slashes; what a file system holds is  *)
(* constant, for nothing writes to one.  Directories are read correctly    *)
(* here; a file may be damaged, and any sector of a file may be missed.    *)
(***************************************************************************)
EXTENDS Integers, Sequences, SequencesExt

CONSTANTS MAX_FILES,
          Streams,     \* stdin, stdout, stderr, stddebug: handles 0..Streams-1
          Mounts,      \* mount points of the file systems
          Devices,     \* names of the block devices
          Contents,    \* the files in the root directory of each file system
          Damaged,     \* files whose chain does not give them: empty ones, too
          Shell,       \* the name "shell.exe"
          Returning,   \* programs whose main returns
          Home,        \* the mount point the shell is started in
          Words,       \* what paths are made of
          Paths,       \* what the user types after cd, cat and exec
          MaxCalls     \* bound: programs inside programs

Slash == "slash"
Dev == "dev"
Names == UNION {Contents[m] : m \in Mounts}
Files == {<<m, n>> : m \in Mounts, n \in Names \cup Devices}
            \cup {<<Dev, n>> : n \in Devices}

ASSUME FilesAssumption ==
  /\ MAX_FILES \in Nat /\ Streams \in Nat /\ Streams <= MAX_FILES
  /\ Dev \notin Mounts /\ Slash \notin Mounts
  /\ Home \in Mounts /\ {Slash, Home} \subseteq Words
  /\ Shell \in Contents[Home]
  /\ Shell \notin Returning
  /\ Paths \subseteq Seq(Words)
  /\ MaxCalls \in Nat \ {0}

VARIABLES open_files,  \* the table of file handles
          stray,       \* history: open_files[-1] has been written
          cwd,
          calls,       \* the programs being run, each by the one before it
          image,       \* what was read to 0x100000, and whether it is all of it
          given        \* history: the handles sys_open has returned

vars == <<open_files, stray, cwd, calls, image, given>>

Free == [type |-> "null", of |-> <<>>]
Handle(type, file) == [type |-> type, of |-> file]
Stream == Handle("stream", <<>>)
Unknown == Handle("unknown", <<>>)

Whole(file) == [of |-> file, whole |-> TRUE]

\* main sets the streams; the rest of the table is as it was in memory, but
\* for the handle that the shell was read with.
Init == /\ open_files \in [0..MAX_FILES-1 -> {Free, Stream, Unknown}]
        /\ \A fd \in 0..MAX_FILES-1 : open_files[fd] = Stream <=> fd < Streams
        /\ \E fd \in 0..MAX_FILES-1 : open_files[fd] = Free
        /\ stray = FALSE
        /\ cwd = <<Slash, Home>>
        /\ calls = <<<<Home, Shell>>>>
        /\ image = Whole(<<Home, Shell>>)
        /\ given = {}

-----------------------------------------------------------------------------
(* Paths *)

\* normalise_path: an empty path is the root only in the root.
Normalised(path) ==
  IF path # <<>> /\ path[1] = Slash THEN path
  ELSE IF path = <<>> /\ cwd = <<Slash>> THEN cwd
  ELSE cwd \o <<Slash>> \o path

\* "/name/" begins the path.
Under(path, name) == Len(path) >= 3 /\ SubSeq(path, 1, 3) = <<Slash, name, Slash>>

\* What open_file finds at a path: a device, a file in the root directory of
\* a file system, or nothing.
Find(path) ==
  LET full == Normalised(path)
      name == full[4]
  IN IF Len(full) # 4 \/ ~Under(full, full[2]) THEN Free
     ELSE IF full[2] = Dev
       THEN IF name \in Devices THEN Handle("block", <<Dev, name>>) ELSE Free
     ELSE IF full[2] \in Mounts /\ name \in Contents[full[2]]
       THEN Handle("file", <<full[2], name>>)
     ELSE Free

\* Fault: the devices are looked for at "/dev", which a path never is here.
ListedNoDevices ==
  LET full == Normalised(<<>>)
  IN IF full = <<Slash>> THEN {Dev} \cup Mounts
     ELSE IF full = <<Slash, Dev>> THEN Devices
     ELSE UNION {Contents[m] : m \in {m \in Mounts : Under(full, m)}}

\* list_dir(""): what the shell's dir shows.
Listed ==
  LET full == Normalised(<<>>)
  IN IF full = <<Slash>> THEN {Dev} \cup Mounts
     ELSE IF full = <<Slash, Dev, Slash>> THEN Devices
     ELSE UNION {Contents[m] : m \in {m \in Mounts : Under(full, m)}}

-----------------------------------------------------------------------------
(* File handles *)

FreeHandles == {fd \in 0..MAX_FILES-1 : open_files[fd].type = "null"}

\* Fault: only the streams are passed over.
NextHandleReused(fd) == fd = IF Streams < MAX_FILES THEN Streams ELSE -1

\* next_file_handle returns fd: the first free one.
NextHandle(fd) ==
  IF FreeHandles = {} THEN fd = -1
  ELSE fd \in FreeHandles /\ \A other \in FreeHandles : fd <= other

\* open_file has found something and the handle is fd.  With no free handle
\* fd is -1, which is not what the code tests for: it writes in front of the
\* table.
Claim(fd, found) ==
  IF fd = -1 THEN stray' = TRUE /\ UNCHANGED open_files
  ELSE open_files' = [open_files EXCEPT ![fd] = found] /\ UNCHANGED stray

\* read, straight to where programs are: a damaged file is never whole, and
\* that a sector was missed is not noticed.
Overwritten(found) ==
  \E whole \in IF found.of \in Damaged THEN {FALSE} ELSE BOOLEAN :
    image' = [of |-> found.of, whole |-> whole]

\* Fault: read_file does not close what it has read.
LoadUnclosed(fd, found, ok) ==
  /\ ok => fd # -1
  /\ fd # -1 /\ found.of \notin Damaged => ok
  /\ IF fd = -1 THEN UNCHANGED image ELSE Overwritten(found)
  /\ Claim(fd, found)

\* read_file: open, read and close.  It fails without a handle, or if the
\* chain of a damaged file leads to an invalid cluster; by then sectors have
\* been read, and the handle stays open.
Load(fd, found, ok) ==
  /\ ok => fd # -1
  /\ fd # -1 /\ found.of \notin Damaged => ok
  /\ IF fd = -1 THEN UNCHANGED image ELSE Overwritten(found)
  /\ IF ok THEN UNCHANGED <<open_files, stray>> ELSE Claim(fd, found)

-----------------------------------------------------------------------------
(* The shell's commands *)

InShell == /\ ~stray
           /\ Last(calls)[2] = Shell
           /\ image = Whole(Last(calls))

\* cd: sys_chdir takes any path.
Chdir(path) == /\ InShell
               /\ cwd' = path
               /\ UNCHANGED <<open_files, stray, calls, image, given>>

\* cat: sys_open, sys_read and no close, whether or not the read succeeds.
Cat(path) ==
  /\ InShell
  /\ Find(path) # Free
  /\ \E fd \in -1..MAX_FILES-1 :
       /\ NextHandle(fd)
       /\ Claim(fd, Find(path))
       /\ given' = given \cup ({fd} \ {-1})
  /\ UNCHANGED <<cwd, calls, image>>

\* exec: the program is loaded over the shell and runs.  If that fails exec
\* returns to the shell, whatever has become of it.
Exec(path) ==
  /\ InShell
  /\ Len(calls) < MaxCalls
  /\ Find(path) # Free
  /\ \E fd \in -1..MAX_FILES-1, ok \in BOOLEAN :
       /\ NextHandle(fd)
       /\ Load(fd, Find(path), ok)
       /\ calls' = IF ok THEN Append(calls, Find(path).of) ELSE calls
  /\ UNCHANGED <<cwd, given>>

\* Fault: the shell's loop ends too.
EndingAny == ~stray /\ image = Whole(Last(calls))

\* The main function of the running program is about to return.
Ending == /\ ~stray
          /\ Last(calls)[2] \in Returning
          /\ image = Whole(Last(calls))

\* Fault: the shell is not read back.
ReturnWithoutShell == /\ Ending
                      /\ calls' = Front(calls)
                      /\ UNCHANGED <<open_files, stray, cwd, image, given>>

\* The program returns into exec, which reads the shell back in from the
\* working directory, does not look at the outcome and returns to its caller.
Return ==
  /\ Ending
  /\ calls' = Front(calls)
  /\ IF Find(<<Shell>>) = Free
       THEN UNCHANGED <<open_files, stray, image>>
       ELSE \E fd \in -1..MAX_FILES-1, ok \in BOOLEAN :
              NextHandle(fd) /\ Load(fd, Find(<<Shell>>), ok)
  /\ UNCHANGED <<cwd, given>>

Next == \/ \E path \in Paths : Chdir(path) \/ Cat(path) \/ Exec(path)
        \/ Return

Spec == Init /\ [][Next]_vars

-----------------------------------------------------------------------------
(* Properties *)

TypeOK == /\ open_files \in [0..MAX_FILES-1 ->
               {Free, Stream, Unknown} \cup
               {Handle(type, file) : type \in {"file", "block"}, file \in Files}]
          /\ stray \in BOOLEAN
          /\ cwd \in Paths \cup {<<Slash, Home>>}
          /\ calls \in Seq(Files) /\ calls # <<>> /\ Len(calls) <= MaxCalls
          /\ image \in [of : Files, whole : BOOLEAN]
          /\ given \subseteq 0..MAX_FILES-1

\* A handle that sys_open has returned names the same file ever after, and
\* the four streams stay what they are, whatever is opened, run and read
\* back in between.
HandlesKeepFile ==
  [][\A fd \in given \cup 0..Streams-1 : open_files'[fd] = open_files[fd]]_vars

\* Whenever a program returns into exec there is a handle to read the shell
\* back with, however many files the shell has left open.
HandleForShell == Ending => FreeHandles # {}

\* The program that runs is the one in memory, unless the last read to where
\* it is did not give the whole of a file, as when exec fails on a damaged one,
\* or a program returned where the name that exec uses does not lead to the
\* shell.  The handle table is never a reason, nor what ran in between.
LostOnlyByRead ==
  image # Whole(Last(calls)) => ~image.whole \/ Find(<<Shell>>).of # Last(calls)

\* What can be opened by its name alone is in the listing of the working
\* directory, wherever cd has led.
OpenableIsListed == \A n \in Names \cup Devices : Find(<<n>>) # Free => n \in Listed

\* "Read the shell back in so when we return to it, it's there"
\* (kernel.c:165): unless its file was misread, the caller is in memory when a
\* program has returned to it.
ShellReadBack == [][Return /\ image'.whole => image' = Whole(Last(calls'))]_vars
=============================================================================
