---------------------------- MODULE FilesProofs ----------------------------
(***************************************************************************)
(* For every set of mounts, devices and files, every size of the handle    *)
(* table, whatever memory it begins with, every file that is damaged or    *)
(* misread and every sequence of commands: a handle keeps its file, there  *)
(* is always a handle to read the shell back with, and the running program *)
(* is lost only to a read, or to a working directory without the shell.    *)
(***************************************************************************)
EXTENDS Files, SequenceTheorems, TLAPS

Found == {Handle(type, file) : type \in {"file", "block"}, file \in Files}
Image == [of : Files, whole : BOOLEAN]
Entry == {Free, Stream, Unknown} \cup Found

\* The handles somebody relies on are in use.
InUse == \A fd \in given \cup 0..Streams-1 :
           fd \in 0..MAX_FILES-1 /\ open_files[fd].type # "null"

\* Only a shell runs programs.
CallChain == /\ calls[1][2] = Shell
             /\ \A k \in 1..Len(calls)-1 : calls[k][2] = Shell

Inv == TypeOK /\ InUse /\ CallChain /\ HandleForShell /\ LostOnlyByRead

\* open_file finds nothing, or a file or device whose handle is in use.
LEMMA FindType ==
  ASSUME NEW path
  PROVE  Find(path) = Free \/ (Find(path) \in Found /\ Find(path).type # "null"
                               /\ Find(path).of \in Files)
<1> DEFINE full == Normalised(path)
           name == full[4]
<1>1. CASE Len(full) # 4 \/ ~Under(full, full[2])
  BY <1>1 DEF Find
<1>2. CASE ~(Len(full) # 4 \/ ~Under(full, full[2])) /\ full[2] = Dev
  <2>1. CASE name \in Devices
    <3>1. <<Dev, name>> \in Files
      BY <2>1 DEF Files
    <3>2. Find(path) = Handle("block", <<Dev, name>>)
      BY <1>2, <2>1 DEF Find
    <3> QED
      BY <3>1, <3>2 DEF Found, Handle
  <2>2. CASE name \notin Devices
    BY <1>2, <2>2 DEF Find
  <2> QED
    BY <2>1, <2>2
<1>3. CASE ~(Len(full) # 4 \/ ~Under(full, full[2])) /\ full[2] # Dev
  <2>1. CASE full[2] \in Mounts /\ name \in Contents[full[2]]
    <3>1. <<full[2], name>> \in Files
      BY <2>1 DEF Files, Names
    <3>2. Find(path) = Handle("file", <<full[2], name>>)
      BY <1>3, <2>1 DEF Find
    <3> QED
      BY <3>1, <3>2 DEF Found, Handle
  <2>2. CASE ~(full[2] \in Mounts /\ name \in Contents[full[2]])
    BY <1>3, <2>2 DEF Find
  <2> QED
    BY <2>1, <2>2
<1> QED
  BY <1>1, <1>2, <1>3

\* A handle found free is neither one that was given out nor a stream.
LEMMA ClaimKeeps ==
  ASSUME TypeOK, InUse, NEW fd \in -1..MAX_FILES-1, NEW found \in Found,
         found.type # "null", NextHandle(fd), Claim(fd, found)
  PROVE  /\ open_files' \in [0..MAX_FILES-1 -> Entry]
         /\ stray' \in BOOLEAN
         /\ \A h \in given \cup 0..Streams-1 : open_files'[h] = open_files[h]
         /\ fd # -1 => fd \in 0..MAX_FILES-1 /\ open_files'[fd].type # "null"
<1>1. open_files \in [0..MAX_FILES-1 -> Entry] /\ stray \in BOOLEAN
  BY DEF TypeOK, Entry, Found
<1>2. CASE fd = -1
  BY <1>1, <1>2 DEF Claim
<1>3. CASE fd # -1
  <2>1. fd \in 0..MAX_FILES-1 /\ open_files[fd].type = "null"
    BY <1>3 DEF NextHandle, FreeHandles
  <2>2. fd \notin given \cup 0..Streams-1
    BY <2>1 DEF InUse
  <2>3. found \in Entry
    BY DEF Entry
  <2>4. open_files' = [open_files EXCEPT ![fd] = found] /\ stray' = stray
    BY <1>3 DEF Claim
  <2> HIDE DEF Entry, Found
  <2> QED
    BY <1>1, <2>1, <2>2, <2>3, <2>4 DEF InUse
<1> QED
  BY <1>2, <1>3

\* Reading a file leaves what InUse speaks of as it was.
LEMMA LoadKeeps ==
  ASSUME TypeOK, InUse, NEW fd \in -1..MAX_FILES-1, NEW found \in Found,
         found.type # "null", found.of \in Files, NEW ok \in BOOLEAN,
         NextHandle(fd), Load(fd, found, ok)
  PROVE  /\ open_files' \in [0..MAX_FILES-1 -> Entry]
         /\ stray' \in BOOLEAN
         /\ image' \in Image
         /\ image' = image \/ image'.of = found.of
         /\ fd # -1 => image'.of = found.of
         /\ ~ok => image' = image \/ ~image'.whole
         /\ \A h \in given \cup 0..Streams-1 : open_files'[h] = open_files[h]
<1>1. open_files \in [0..MAX_FILES-1 -> Entry] /\ stray \in BOOLEAN /\ image \in Image
  BY DEF TypeOK, Entry, Found, Image
<1>2. /\ image' \in Image
      /\ image' = image \/ image'.of = found.of
      /\ fd # -1 => image'.of = found.of
      /\ ~ok => image' = image \/ ~image'.whole
  <2>1. CASE fd = -1
    BY <1>1, <2>1 DEF Load
  <2>2. CASE fd # -1
    <3>1. PICK whole \in IF found.of \in Damaged THEN {FALSE} ELSE BOOLEAN :
            image' = [of |-> found.of, whole |-> whole]
      BY <2>2 DEF Load, Overwritten
    <3>2. ~ok => found.of \in Damaged
      BY <2>2 DEF Load
    <3> QED
      BY <3>1, <3>2 DEF Image
  <2> QED
    BY <2>1, <2>2
<1>3. CASE ok
  BY <1>1, <1>2, <1>3 DEF Load
<1>4. CASE ~ok
  BY <1>2, <1>4, ClaimKeeps DEF Load
<1> QED
  BY <1>3, <1>4

LEMMA InitInv == Init => Inv
<1> SUFFICES ASSUME Init PROVE Inv
  OBVIOUS
<1>1. <<Home, Shell>> \in Files
  BY FilesAssumption DEF Files, Names
<1>2. calls = <<<<Home, Shell>>>> /\ image = Whole(<<Home, Shell>>)
      /\ Len(calls) = 1
      /\ calls[1] = <<Home, Shell>> /\ given = {}
  BY DEF Init
<1>3. open_files \in [0..MAX_FILES-1 -> Entry]
  BY DEF Init, Entry
<1>8. image \in Image
  BY <1>1, <1>2 DEF Whole, Image
<1>4. TypeOK
  <2>1. calls \in Seq(Files)
    BY <1>1, <1>2
  <2>2. calls # <<>> /\ Len(calls) <= MaxCalls
    BY <1>2, FilesAssumption
  <2>3. stray \in BOOLEAN /\ cwd \in Paths \cup {<<Slash, Home>>}
    BY DEF Init
  <2> QED
    BY <1>2, <1>3, <1>8, <2>1, <2>2, <2>3 DEF TypeOK, Entry, Found, Image
<1>5. InUse
  BY <1>2, FilesAssumption DEF Init, InUse, Handle, Stream
<1>6. CallChain
  BY <1>2, FilesAssumption DEF CallChain
<1>7. HandleForShell /\ LostOnlyByRead
  BY <1>2, FilesAssumption DEF HandleForShell, LostOnlyByRead, Ending, Last
<1> QED
  BY <1>4, <1>5, <1>6, <1>7 DEF Inv

LEMMA StepInv == Inv /\ [Next]_vars => Inv'
                      /\ \A fd \in given \cup 0..Streams-1 : open_files'[fd] = open_files[fd]
<1> SUFFICES ASSUME Inv, [Next]_vars
             PROVE  Inv' /\ \A fd \in given \cup 0..Streams-1 :
                              open_files'[fd] = open_files[fd]
  OBVIOUS
<1>0. TypeOK /\ InUse /\ CallChain /\ HandleForShell /\ LostOnlyByRead
  BY DEF Inv
<1>1. /\ open_files \in [0..MAX_FILES-1 -> Entry] /\ stray \in BOOLEAN
      /\ cwd \in Paths \cup {<<Slash, Home>>}
      /\ calls \in Seq(Files) /\ calls # <<>> /\ Len(calls) <= MaxCalls
      /\ image \in Image /\ given \subseteq 0..MAX_FILES-1
  BY <1>0 DEF TypeOK, Entry, Found, Image
<1>2. ASSUME NEW path \in Paths, Chdir(path)
      PROVE  Inv' /\ open_files' = open_files
  <2>1. TypeOK'
    BY <1>0, <1>2 DEF Chdir, TypeOK
  <2>2. InUse' /\ CallChain' /\ open_files' = open_files
    BY <1>0, <1>2 DEF Chdir, InUse, CallChain
  <2>3. ~Ending'
    BY <1>2, FilesAssumption DEF Chdir, InShell, Ending
  <2>4. image' = Whole(Last(calls'))
    BY <1>2 DEF Chdir, InShell
  <2> QED
    BY <2>1, <2>2, <2>3, <2>4 DEF Inv, HandleForShell, LostOnlyByRead
<1>3. ASSUME NEW path \in Paths, Cat(path)
      PROVE  Inv' /\ \A fd \in given \cup 0..Streams-1 : open_files'[fd] = open_files[fd]
  <2>1. PICK fd \in -1..MAX_FILES-1 :
          /\ NextHandle(fd) /\ Claim(fd, Find(path))
          /\ given' = given \cup ({fd} \ {-1})
    BY <1>3 DEF Cat
  <2>2. Find(path) \in Found /\ Find(path).type # "null"
    BY <1>3, FindType DEF Cat
  <2>3. /\ open_files' \in [0..MAX_FILES-1 -> Entry] /\ stray' \in BOOLEAN
        /\ \A h \in given \cup 0..Streams-1 : open_files'[h] = open_files[h]
        /\ fd # -1 => fd \in 0..MAX_FILES-1 /\ open_files'[fd].type # "null"
    BY <1>0, <2>1, <2>2, ClaimKeeps
  <2>4. cwd' = cwd /\ calls' = calls /\ image' = image /\ InShell
    BY <1>3 DEF Cat
  <2>5. TypeOK'
    <3>1. given' \subseteq 0..MAX_FILES-1
      BY <1>1, <2>1, <2>3
    <3> QED
      BY <1>1, <2>3, <2>4, <3>1 DEF TypeOK, Entry, Found, Image
  <2>6. InUse'
    BY <1>0, <2>1, <2>3 DEF InUse
  <2>7. CallChain' /\ ~Ending' /\ image' = Whole(Last(calls'))
    BY <1>0, <2>4, FilesAssumption DEF CallChain, Ending, InShell
  <2> QED
    BY <2>3, <2>5, <2>6, <2>7 DEF Inv, HandleForShell, LostOnlyByRead
<1>4. ASSUME NEW path \in Paths, Exec(path)
      PROVE  Inv' /\ \A fd \in given \cup 0..Streams-1 : open_files'[fd] = open_files[fd]
  <2> DEFINE found == Find(path)
  <2>1. PICK fd \in -1..MAX_FILES-1, ok \in BOOLEAN :
          /\ NextHandle(fd) /\ Load(fd, found, ok)
          /\ calls' = IF ok THEN Append(calls, found.of) ELSE calls
    BY <1>4 DEF Exec
  <2>2. found \in Found /\ found.type # "null" /\ found.of \in Files
    BY <1>4, FindType DEF Exec
  <2>3. /\ open_files' \in [0..MAX_FILES-1 -> Entry] /\ stray' \in BOOLEAN /\ image' \in Image
        /\ fd # -1 => image'.of = found.of
        /\ ~ok => image' = image \/ ~image'.whole
        /\ \A h \in given \cup 0..Streams-1 : open_files'[h] = open_files[h]
    BY <1>0, <2>1, <2>2, LoadKeeps
  <2>4. cwd' = cwd /\ given' = given /\ InShell /\ Len(calls) < MaxCalls
    BY <1>4 DEF Exec
  <2> HIDE DEF found
  <2>5. calls' \in Seq(Files) /\ calls' # <<>> /\ Len(calls') <= MaxCalls
    <3>1. calls \in Seq(Files) /\ calls # <<>> /\ Len(calls) \in Nat
      BY <1>1
    <3>2. CASE calls' = calls
      BY <3>1, <3>2, <2>4, FilesAssumption
    <3>3. CASE calls' = Append(calls, found.of)
      <4>1. Append(calls, found.of) \in Seq(Files) /\ Append(calls, found.of) # <<>>
            /\ Len(Append(calls, found.of)) = Len(calls) + 1
        BY <3>1, <2>2, AppendProperties
      <4>2. MaxCalls \in Nat
        BY FilesAssumption
      <4> QED
        BY <3>1, <3>3, <4>1, <4>2, <2>4
    <3> QED
      BY <2>1, <3>2, <3>3
  <2>6. TypeOK'
    BY <1>1, <2>3, <2>4, <2>5 DEF TypeOK, Entry, Found, Image
  <2>7. InUse'
    BY <1>0, <2>3, <2>4 DEF InUse
  <2>8. CASE ok
    <3>1. fd # -1 /\ open_files' = open_files /\ calls' = Append(calls, found.of)
      BY <2>1, <2>8 DEF Load
    <3>2. Len(calls') = Len(calls) + 1 /\ calls'[Len(calls) + 1] = found.of
          /\ \A k \in 1..Len(calls) : calls'[k] = calls[k]
      BY <1>1, <2>2, <3>1
    <3>3. image' = Whole(Last(calls')) \/ ~image'.whole
      <4>1. image'.of = Last(calls')
        BY <1>1, <2>3, <3>1, <3>2 DEF Last
      <4> QED
        BY <2>3, <4>1 DEF Whole, Image
    <3>4. CallChain'
      <4>1. calls[Len(calls)][2] = Shell /\ Len(calls) \in Nat
        BY <1>1, <2>4 DEF InShell, Last
      <4>2. Len(calls) > 0
        BY <1>1
      <4> QED
        BY <1>0, <3>2, <4>1, <4>2 DEF CallChain
    <3>5. FreeHandles' # {}
      BY <2>1, <3>1 DEF NextHandle, FreeHandles
    <3> QED
      BY <2>3, <2>6, <2>7, <3>3, <3>4, <3>5 DEF Inv, HandleForShell, LostOnlyByRead
  <2>9. CASE ~ok
    <3>1. calls' = calls /\ (image' = Whole(Last(calls')) \/ ~image'.whole)
      BY <2>1, <2>3, <2>4, <2>9 DEF InShell
    <3>2. CallChain' /\ ~Ending'
      BY <1>0, <2>4, <3>1, FilesAssumption DEF CallChain, Ending, InShell
    <3> QED
      BY <2>3, <2>6, <2>7, <3>1, <3>2 DEF Inv, HandleForShell, LostOnlyByRead
  <2> QED
    BY <2>8, <2>9
<1>5. ASSUME Return
      PROVE  Inv' /\ \A fd \in given \cup 0..Streams-1 : open_files'[fd] = open_files[fd]
  <2> DEFINE shell == Find(<<Shell>>)
  <2>1. Ending /\ calls' = Front(calls) /\ cwd' = cwd /\ given' = given
    BY <1>5 DEF Return
  <2>2. shell' = shell
    BY <2>1 DEF Find, Normalised
  <2>3. Len(calls) \in Nat /\ Len(calls) >= 2
    <3>1. Len(calls) \in Nat /\ Len(calls) >= 1
      BY <1>1
    <3>2. calls[Len(calls)][2] # Shell
      BY <2>1, FilesAssumption DEF Ending, Last
    <3> QED
      BY <1>0, <3>1, <3>2 DEF CallChain
  <2> DEFINE n == Len(calls) - 1
  <2>4. /\ calls' \in Seq(Files) /\ Len(calls') = n
        /\ \A k \in 1..n : calls'[k] = calls[k]
    BY <1>1, <2>1, <2>3 DEF Front
  <2>5. CallChain' /\ Last(calls') = calls[n] /\ calls[n][2] = Shell
    BY <1>0, <2>3, <2>4 DEF CallChain, Last
  <2>6. ~Ending'
    BY <2>5, FilesAssumption DEF Ending
  <2>7. Last(calls') \in Files
    BY <1>1, <2>3, <2>5
  <2>8. calls' # <<>> /\ Len(calls') <= MaxCalls
    BY <1>1, <2>3, <2>4, FilesAssumption
  <2> HIDE DEF shell, n
  <2>9. CASE shell = Free
    <3>1. UNCHANGED <<open_files, stray, image>>
      BY <1>5, <2>9 DEF Return, shell
    <3>2. TypeOK'
      BY <1>1, <2>1, <2>4, <2>8, <3>1 DEF TypeOK, Entry, Found, Image
    <3>3. InUse'
      BY <1>0, <2>1, <3>1 DEF InUse
    <3>4. shell.of # Last(calls')
      BY <2>7, <2>9 DEF Free, Files
    <3>5. LostOnlyByRead'
      BY <2>2, <3>4 DEF LostOnlyByRead, shell
    <3> QED
      BY <2>5, <2>6, <3>1, <3>2, <3>3, <3>5 DEF Inv, HandleForShell
  <2>10. CASE shell # Free
    <3>1. PICK fd \in -1..MAX_FILES-1, ok \in BOOLEAN :
            NextHandle(fd) /\ Load(fd, shell, ok)
      BY <1>5, <2>10 DEF Return, shell
    <3>2. shell \in Found /\ shell.type # "null" /\ shell.of \in Files
      BY <2>10, FindType DEF shell
    <3>3. /\ open_files' \in [0..MAX_FILES-1 -> Entry] /\ stray' \in BOOLEAN
          /\ image' \in Image
          /\ fd # -1 => image'.of = shell.of
          /\ \A h \in given \cup 0..Streams-1 : open_files'[h] = open_files[h]
      BY <1>0, <3>1, <3>2, LoadKeeps
    <3>4. TypeOK'
      <4>1. open_files' \in [0..MAX_FILES-1 ->
              {Free, Stream, Unknown} \cup
              {Handle(type, file) : type \in {"file", "block"}, file \in Files}]
        BY <3>3 DEF Entry, Found
      <4> QED
        BY <1>1, <2>1, <2>4, <2>8, <3>3, <4>1 DEF TypeOK, Image
    <3>5. InUse'
      BY <1>0, <2>1, <3>3 DEF InUse
    <3>6. fd # -1
      BY <1>0, <2>1, <3>1 DEF HandleForShell, NextHandle, FreeHandles
    <3>7. image' = Whole(Last(calls')) \/ ~image'.whole \/ shell.of # Last(calls')
      BY <3>3, <3>6 DEF Whole, Image
    <3>8. LostOnlyByRead'
      BY <2>2, <3>7 DEF LostOnlyByRead, shell
    <3> QED
      BY <2>5, <2>6, <3>3, <3>4, <3>5, <3>8 DEF Inv, HandleForShell
  <2> QED
    BY <2>9, <2>10
<1>6. CASE UNCHANGED vars
  <2>1. FreeHandles' = FreeHandles /\ Ending' = Ending /\ Find(<<Shell>>)' = Find(<<Shell>>)
    BY <1>6 DEF vars, FreeHandles, Ending, Find, Normalised
  <2> QED
    BY <1>0, <1>6, <2>1 DEF vars, TypeOK, InUse, CallChain, HandleForShell,
       LostOnlyByRead, Inv
<1> QED
  BY <1>2, <1>3, <1>4, <1>5, <1>6 DEF Next

\* The table of handles, the running programs and the program in memory keep
\* their types and the facts the theorems below follow from.
THEOREM FilesInvariance == Spec => []Inv
BY InitInv, StepInv, PTL DEF Spec

\* Everything is of its type.
THEOREM FilesTypes == Spec => []TypeOK
  BY FilesInvariance, PTL DEF Inv

\* Whatever is opened, run and read back, a handle that sys_open returned and
\* a stream never come to name anything else.
THEOREM HandlesNeverReassigned == Spec => HandlesKeepFile
<1>1. Inv /\ [Next]_vars =>
        [\A fd \in given \cup 0..Streams-1 : open_files'[fd] = open_files[fd]]_vars
  BY StepInv
<1> QED
  BY <1>1, FilesInvariance, PTL DEF Spec, HandlesKeepFile

\* exec never lacks the handle it reads the shell back with.
THEOREM HandleLeftForShell == Spec => []HandleForShell
<1>1. Inv => HandleForShell
  BY DEF Inv
<1> QED
  BY <1>1, FilesInvariance, PTL

\* The program in memory is the one that runs, unless the last read there did
\* not give a whole file or the name that exec reads back does not lead to
\* the file the program was loaded from: never for want of a handle, and
\* whatever ran in between.
THEOREM ProgramLostOnlyByRead == Spec => []LostOnlyByRead
<1>1. Inv => LostOnlyByRead
  BY DEF Inv
<1> QED
  BY <1>1, FilesInvariance, PTL

\* A slash and a name after a directory.
LEMMA Joined ==
  ASSUME NEW W, NEW c \in Seq(W), NEW s \in W, NEW n \in W
  PROVE  /\ c \o <<s>> \o <<n>> \in Seq(W)
         /\ Len(c \o <<s>> \o <<n>>) = Len(c) + 2
         /\ \A k \in 1..Len(c) : (c \o <<s>> \o <<n>>)[k] = c[k]
         /\ (c \o <<s>> \o <<n>>)[Len(c) + 1] = s
         /\ (c \o <<s>> \o <<n>>)[Len(c) + 2] = n
<1> DEFINE d == c \o <<s>>
<1>1. <<s>> \in Seq(W) /\ <<n>> \in Seq(W) /\ Len(<<s>>) = 1 /\ Len(<<n>>) = 1
      /\ <<s>>[1] = s /\ <<n>>[1] = n
  OBVIOUS
<1>2. d \in Seq(W) /\ Len(d) = Len(c) + 1 /\ d[Len(c) + 1] = s
      /\ \A k \in 1..Len(c) : d[k] = c[k]
  BY <1>1
<1> HIDE DEF d
<1>3. d \o <<n>> \in Seq(W) /\ Len(d \o <<n>>) = Len(d) + 1
      /\ (d \o <<n>>)[Len(d) + 1] = n
      /\ \A k \in 1..Len(d) : (d \o <<n>>)[k] = d[k]
  BY <1>1, <1>2
<1> QED
  BY <1>2, <1>3 DEF d

LEMMA Pair ==
  ASSUME NEW W, NEW c \in Seq(W), Len(c) = 2
  PROVE  c[1] \in W /\ c[2] \in W /\ c = <<c[1], c[2]>>
OBVIOUS

LEMMA SameSeq ==
  ASSUME NEW W, NEW c \in Seq(W), NEW d \in Seq(W), Len(c) = 3, Len(d) = 3,
         c[1] = d[1], c[2] = d[2], c[3] = d[3]
  PROVE  c = d
OBVIOUS

\* A directory, a slash and an empty path.
LEMMA Opened ==
  ASSUME NEW W, NEW s \in W, NEW m \in W
  PROVE  /\ <<s, m>> \o <<s>> \o <<>> = <<s, m, s>>
         /\ SubSeq(<<s, m, s>>, 1, 3) = <<s, m, s>>
<1>1. <<s, m>> \in Seq(W) /\ <<s>> \in Seq(W) /\ <<s, m, s>> \in Seq(W)
  OBVIOUS
<1> DEFINE d == <<s, m>>
           e == <<s>>
           f == <<s, m, s>>
<1>2. /\ d \in Seq(W) /\ Len(d) = 2 /\ d[1] = s /\ d[2] = m
      /\ e \in Seq(W) /\ Len(e) = 1 /\ e[1] = s
      /\ f \in Seq(W) /\ Len(f) = 3 /\ f[1] = s /\ f[2] = m /\ f[3] = s
  BY <1>1
<1> HIDE DEF d, e, f
<1>3. d \o e = f
  <2>1. /\ d \o e \in Seq(W)
        /\ Len(d \o e) = Len(d) + Len(e)
        /\ \A i \in 1 .. Len(d) + Len(e) :
             (d \o e)[i] = IF i <= Len(d) THEN d[i] ELSE e[i - Len(d)]
    BY <1>2, ConcatProperties
  <2>2. Len(d \o e) = 3
    BY <1>2, <2>1
  <2>3. (d \o e)[1] = s /\ (d \o e)[2] = m /\ (d \o e)[3] = s
    BY <1>2, <2>1
  <2> QED
    BY <1>2, <2>1, <2>2, <2>3, SameSeq
<1>4. f \o <<>> = f
  BY <1>2, ConcatEmptySeq
<1>5. SubSeq(f, 1, 3) = f
  BY <1>2, SubSeqFull
<1> QED
  BY <1>3, <1>4, <1>5 DEF d, e, f

LEMMA TwoMore == \A k \in Nat : k + 2 = 4 => k = 2
OBVIOUS

\* In every working directory, what a name alone opens is in its listing.
LEMMA FoundIsListed == TypeOK => OpenableIsListed
<1> SUFFICES ASSUME TypeOK, NEW n \in Names \cup Devices, Find(<<n>>) # Free
             PROVE  n \in Listed
  BY DEF OpenableIsListed
<1> DEFINE full == Normalised(<<n>>)
           dir == Normalised(<<>>)
           m == cwd[2]
           W == Words \cup {n}
<1>1. cwd \in Seq(W)
  <2>1. cwd \in Paths \cup {<<Slash, Home>>}
    BY DEF TypeOK
  <2>2. CASE cwd \in Paths
    <3>1. cwd \in Seq(Words)
      BY <2>2, FilesAssumption, Zenon
    <3> QED
      BY <3>1
  <2>3. CASE cwd = <<Slash, Home>>
    <3>1. Slash \in W /\ Home \in W
      BY FilesAssumption
    <3> HIDE DEF W
    <3> QED
      BY <2>3, <3>1
  <2> QED
    BY <2>1, <2>2, <2>3
<1>2. Len(full) = 4 /\ Under(full, full[2])
  BY DEF Find
<1>3. full = cwd \o <<Slash>> \o <<n>>
  BY <1>2 DEF Normalised
<1>4. Slash \in W /\ n \in W
  BY FilesAssumption
<1> HIDE DEF full, W
<1>5. full \in Seq(W) /\ Len(cwd) = 2
  <2>1. full \in Seq(W) /\ Len(full) = Len(cwd) + 2
    BY <1>1, <1>3, <1>4, Joined
  <2>2. Len(cwd) \in Nat
    BY <1>1
  <2>3. Len(full) = 4
    BY <1>2
  <2>4. Len(cwd) + 2 = 4
    BY <2>1, <2>3, Zenon
  <2>5. Len(cwd) = 2
    BY <2>2, <2>4, TwoMore, Zenon
  <2> QED
    BY <2>1, <2>5
<1>6. full[1] = cwd[1] /\ full[2] = m /\ full[4] = n
  BY <1>1, <1>3, <1>4, <1>5, Joined
<1>7. cwd[1] = Slash
  <2>1. SubSeq(full, 1, 3)[1] = full[1]
    BY <1>2, <1>5
  <2>2. SubSeq(full, 1, 3) = <<Slash, full[2], Slash>>
    BY <1>2 DEF Under
  <2>3. <<Slash, full[2], Slash>>[1] = Slash
    OBVIOUS
  <2> QED
    BY <1>6, <2>1, <2>2, <2>3
<1>8. dir = <<Slash, m, Slash>> /\ m \in W
  <2>1. cwd = <<Slash, m>> /\ m \in W
    BY <1>1, <1>5, <1>7, Pair
  <2>2. cwd # <<Slash>>
    BY <1>5
  <2>3. dir = cwd \o <<Slash>> \o <<>>
    BY <2>2 DEF Normalised
  <2> QED
    BY <1>4, <2>1, <2>3, Opened
<1> HIDE DEF dir
<1>9. dir # <<Slash>>
  BY <1>8
<1>10. CASE m = Dev
  <2>1. n \in Devices
    BY <1>2, <1>6, <1>10 DEF Find, full
  <2> QED
    BY <1>8, <1>9, <1>10, <2>1 DEF Listed, dir
<1>11. CASE m # Dev
  <2>1. m \in Mounts /\ n \in Contents[m]
    BY <1>2, <1>6, <1>11 DEF Find, full
  <2>2. dir # <<Slash, Dev, Slash>>
    BY <1>8, <1>11
  <2>3. Under(dir, m)
    <3>1. Len(dir) >= 3
      BY <1>8
    <3>2. SubSeq(dir, 1, 3) = <<Slash, m, Slash>>
      BY <1>4, <1>8, Opened
    <3> QED
      BY <3>1, <3>2 DEF Under
  <2> QED
    BY <1>9, <2>1, <2>2, <2>3 DEF Listed, dir
<1> QED
  BY <1>10, <1>11

\* Nothing that a bare name opens is ever missing from the listing.
THEOREM ListingComplete == Spec => []OpenableIsListed
<1>1. Inv => OpenableIsListed
  BY FoundIsListed DEF Inv
<1> QED
  BY <1>1, FilesInvariance, PTL
=============================================================================
