------------------------------ MODULE SafeWrite ------------------------------
(***************************************************************************)
(* safeWriteFile (src/file_utils.cpp, the POSIX branch) in several         *)
(* compiler processes that may write the same output: a temporary file     *)
(* near the output is opened, written chunk by chunk, flushed, closed and  *)
(* renamed over the output; any failure removes the temporary file and     *)
(* throws.                                                                 *)
(*                                                                         *)
(* The file system is external: names bound to files, files that hold      *)
(* chunks, and what of both is on the disk already.  A process can be      *)
(* killed at any point, and the machine can crash: then the volatile part  *)
(* of names and files may be lost.                                         *)
(***************************************************************************)
EXTENDS Integers, FiniteSets, SequencesExt

CONSTANTS
  Writer,        \* the processes
  Output,        \* the output paths
  OutputOf,      \* OutputOf[w]: what w writes
  Present,       \* the outputs that exist at the start
  Size,          \* the number of chunks of every file written
  Clock,         \* the readings of the steady clock
  DistinctClock  \* no two processes read the same clock value

ASSUME WriterAssumption ==
  /\ Writer \cap {"old", "none"} = {}
  /\ OutputOf \in [Writer -> Output]
  /\ Present \subseteq Output
  /\ Size \in Nat \ {0}
  /\ 0 \notin Clock
  /\ DistinctClock \in BOOLEAN

VARIABLES
  pc,        \* where each process is
  nonce,     \* the clock reading in its temporary name
  fd,        \* the file it has open
  written,   \* how many chunks it has written
  names,     \* the directory: the file each name is bound to
  files,     \* the chunks of each file
  diskNames, diskFiles,   \* the same as the disk has it
  crashed    \* bound: the machine crashes once at most

processVars == <<pc, nonce, fd, written>>
fileVars == <<names, files, diskNames, diskFiles>>
vars == <<processVars, fileVars, crashed>>

(* Every file is named after the process that created it.                  *)
File == Writer \cup {"old"}
NoFile == "none"
NoClock == 0

(* The output path, and the temporary path near it for a clock reading.    *)
Final(o) == <<o, NoClock>>
TempName(o, n) == <<o, n>>
Names == Output \X (Clock \cup {NoClock})

Chunk == (File \X (1 .. Size)) \cup {<<"hole", 0>>}

Whole(f) == [i \in 1 .. Size |-> <<f, i>>]

Running == {"start", "open", "write", "sync", "close", "rename", "remove"}

TypeOK ==
  /\ pc \in [Writer -> Running \cup {"done", "failed", "leftover", "killed"}]
  /\ nonce \in [Writer -> Clock \cup {NoClock}]
  /\ fd \in [Writer -> File \cup {NoFile}]
  /\ written \in [Writer -> 0 .. Size]
  /\ names \in [Names -> File \cup {NoFile}]
  /\ files \in [File -> BoundedSeq(Chunk, Size)]
  /\ diskNames \in [Names -> File \cup {NoFile}]
  /\ diskFiles \in [File -> BoundedSeq(Chunk, Size)]
  /\ crashed \in BOOLEAN

Init ==
  /\ pc = [w \in Writer |-> "start"]
  /\ nonce = [w \in Writer |-> NoClock]
  /\ fd = [w \in Writer |-> NoFile]
  /\ written = [w \in Writer |-> 0]
  /\ names = [n \in Names |-> IF n \in {Final(o) : o \in Present} THEN "old" ELSE NoFile]
  /\ files = [f \in File |-> IF f = "old" THEN Whole(f) ELSE << >>]
  /\ diskNames = names
  /\ diskFiles = files
  /\ crashed = FALSE

-----------------------------------------------------------------------------
Temp(w) == TempName(OutputOf[w], nonce[w])

Goto(w, label) == pc' = [pc EXCEPT ![w] = label]

At(w, label) == pc[w] = label

Bind(n, f) == names' = [names EXCEPT ![n] = f]

MutMakeTempPath(w) ==
  /\ At(w, "start")
  /\ \E n \in Clock :
       /\ nonce' = [nonce EXCEPT ![w] = n]
  /\ Goto(w, "open")
  /\ UNCHANGED <<fd, written, fileVars, crashed>>

(* makeTempPathNear                                                        *)
MakeTempPath(w) ==
  /\ At(w, "start")
  /\ \E n \in Clock :
       /\ DistinctClock => \A v \in Writer : nonce[v] # n
       /\ nonce' = [nonce EXCEPT ![w] = n]
  /\ Goto(w, "open")
  /\ UNCHANGED <<fd, written, fileVars, crashed>>

MutFail(w) ==
  /\ pc[w] \in {"open", "write", "sync", "close", "rename"}
  /\ Goto(w, "failed")
  /\ fd' = [fd EXCEPT ![w] = NoFile]
  /\ UNCHANGED <<nonce, written, fileVars, crashed>>

(* Any of the system calls fails: writePosixFile closes the file it has    *)
(* open, and the temporary file is removed before the exception goes on.   *)
Fail(w) ==
  /\ pc[w] \in {"open", "write", "sync", "close", "rename"}
  /\ Goto(w, "remove")
  /\ fd' = [fd EXCEPT ![w] = NoFile]
  /\ UNCHANGED <<nonce, written, fileVars, crashed>>

(* O_CREAT and O_TRUNC: a file of that name is emptied, whoever made it.   *)
Open(w) ==
  /\ At(w, "open")
  /\ LET f == IF names[Temp(w)] = NoFile THEN w ELSE names[Temp(w)]
     IN  /\ fd' = [fd EXCEPT ![w] = f]
         /\ files' = [files EXCEPT ![f] = << >>]
         /\ Bind(Temp(w), f)
  /\ Goto(w, "write")
  /\ UNCHANGED <<nonce, written, diskNames, diskFiles, crashed>>

(* The chunks of a file once w has written k more at its own offset.       *)
Overwritten(w, k) ==
  LET old == files[fd[w]]
  IN  [i \in 1 .. Max({Len(old), written[w] + k}) |->
         IF i \in written[w] + 1 .. written[w] + k THEN <<w, i>>
         ELSE IF i <= Len(old) THEN old[i] ELSE <<"hole", 0>>]

(* One turn of the write loop: the call may write less than it was given,  *)
(* and one that writes nothing is a failure.                               *)
Write(w) ==
  /\ At(w, "write")
  /\ written[w] < Size
  /\ \E k \in 1 .. Size - written[w] :
       /\ files' = [files EXCEPT ![fd[w]] = Overwritten(w, k)]
       /\ written' = [written EXCEPT ![w] = @ + k]
  /\ UNCHANGED <<pc, nonce, fd, names, diskNames, diskFiles, crashed>>

MutWriteLoopStuck(w) ==
  /\ At(w, "write")
  /\ written[w] > Size
  /\ Goto(w, "sync")
  /\ UNCHANGED <<nonce, fd, written, fileVars, crashed>>

MutWriteLoopShort(w) ==
  /\ At(w, "write")
  /\ written[w] >= Size - 1
  /\ Goto(w, "sync")
  /\ UNCHANGED <<nonce, fd, written, fileVars, crashed>>

WriteLoopEnds(w) ==
  /\ At(w, "write")
  /\ written[w] = Size
  /\ Goto(w, "sync")
  /\ UNCHANGED <<nonce, fd, written, fileVars, crashed>>

MutSync(w) ==
  /\ At(w, "sync")
  /\ Goto(w, "close")
  /\ UNCHANGED <<nonce, fd, written, fileVars, crashed>>

Sync(w) ==
  /\ At(w, "sync")
  /\ diskFiles' = [diskFiles EXCEPT ![fd[w]] = files[fd[w]]]
  /\ Goto(w, "close")
  /\ UNCHANGED <<nonce, fd, written, names, files, diskNames, crashed>>

Close(w) ==
  /\ At(w, "close")
  /\ fd' = [fd EXCEPT ![w] = NoFile]
  /\ Goto(w, "rename")
  /\ UNCHANGED <<nonce, written, fileVars, crashed>>

(* The temporary file may be gone: another process had the same name.      *)
Rename(w) ==
  /\ At(w, "rename")
  /\ IF names[Temp(w)] = NoFile
     THEN Goto(w, "remove") /\ UNCHANGED names
     ELSE /\ names' = [names EXCEPT ![Final(OutputOf[w])] = names[Temp(w)],
                                    ![Temp(w)] = NoFile]
          /\ Goto(w, "done")
  /\ UNCHANGED <<nonce, fd, written, files, diskNames, diskFiles, crashed>>

(* A failure to remove the temporary file is ignored, and it stays.        *)
RemoveTemp(w) ==
  /\ At(w, "remove")
  /\ \/ Bind(Temp(w), NoFile) /\ Goto(w, "failed")
     \/ UNCHANGED names /\ Goto(w, "leftover")
  /\ UNCHANGED <<nonce, fd, written, files, diskNames, diskFiles, crashed>>

(* The process dies; the system closes its file.                           *)
Kill(w) ==
  /\ pc[w] \in Running
  /\ Goto(w, "killed")
  /\ fd' = [fd EXCEPT ![w] = NoFile]
  /\ UNCHANGED <<nonce, written, fileVars, crashed>>

-----------------------------------------------------------------------------
(* The system writes names and files back whenever it likes.               *)
WriteBack ==
  /\ diskNames' = names
  /\ diskFiles' = files
  /\ UNCHANGED <<processVars, names, files, crashed>>

(* Each name and each file is found as it was last or as the disk had it.  *)
Crash ==
  /\ ~ crashed
  /\ crashed' = TRUE
  /\ \E lostNames \in SUBSET {n \in Names : diskNames[n] # names[n]},
        lostFiles \in SUBSET {f \in File : diskFiles[f] # files[f]} :
       /\ names' = [n \in Names |-> IF n \in lostNames THEN diskNames[n] ELSE names[n]]
       /\ files' = [f \in File |-> IF f \in lostFiles THEN diskFiles[f] ELSE files[f]]
  /\ diskNames' = names'
  /\ diskFiles' = files'
  /\ pc' = [w \in Writer |-> IF pc[w] \in Running THEN "killed" ELSE pc[w]]
  /\ fd' = [w \in Writer |-> NoFile]
  /\ UNCHANGED <<nonce, written>>

Advance(w) ==
  \/ MakeTempPath(w)
  \/ Open(w)
  \/ Write(w)
  \/ WriteLoopEnds(w)
  \/ Sync(w)
  \/ Close(w)
  \/ Rename(w)
  \/ RemoveTemp(w)

Next ==
  \/ \E w \in Writer : Advance(w) \/ Fail(w) \/ Kill(w)
  \/ WriteBack
  \/ Crash

(* A process that is alive goes on, whether or not its calls succeed.      *)
Spec == Init /\ [][Next]_vars /\ \A w \in Writer : WF_vars(Advance(w))
-----------------------------------------------------------------------------
(* Whoever opens an output finds a whole file or none, also while it is    *)
(* being replaced, and also after a crash.                                 *)
OutputsAreWhole ==
  \A o \in Output :
    names[Final(o)] # NoFile =>
      \E f \in {"old"} \cup {w \in Writer : OutputOf[w] = o} :
        files[names[Final(o)]] = Whole(f)

(* A file that has reached an output name is on the disk.                  *)
OutputsAreDurable ==
  \A o \in Output :
    names[Final(o)] # NoFile => diskFiles[names[Final(o)]] = files[names[Final(o)]]

(* A process that returned or threw has left no temporary file behind,     *)
(* unless removing it is what failed.                                      *)
TempsAreGone ==
  ~ crashed => \A w \in Writer : pc[w] \in {"done", "failed"} => names[Temp(w)] = NoFile

(* Every process returns, throws or dies.                                  *)
EveryWriteEnds == \A w \in Writer : <>(pc[w] \notin Running)

(* The version of an output, as its readers see it.                        *)
Version(o) ==
  IF names[Final(o)] = NoFile THEN "none"
  ELSE IF \E f \in File : files[names[Final(o)]] = Whole(f)
       THEN CHOOSE f \in File : files[names[Final(o)]] = Whole(f) ELSE "torn"

(* What a process has told its caller.                                     *)
Status(w) ==
  CASE pc[w] \in Running -> "busy" [] pc[w] = "leftover" -> "failed" [] OTHER -> pc[w]

Atomic ==
  INSTANCE AtomicFile WITH
    version <- [o \in Output |-> Version(o)],
    result <- [w \in Writer |-> Status(w)]

(* safeWriteFile implements the atomic file.                               *)
IsAtomic == Atomic!Spec
=============================================================================
