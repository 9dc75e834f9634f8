--------------------------- MODULE SafeWriteProofs ----------------------------
(***************************************************************************)
(* Proofs about safeWriteFile for any number of processes and outputs and  *)
(* any size: as long as no two processes read the same clock value, an     *)
(* output is replaced as a whole, and safeWriteFile implements AtomicFile. *)
(***************************************************************************)
EXTENDS SafeWrite, TLAPS

(* The chunks that w has written, as the file holds them.                  *)
Begun(w) == [i \in 1 .. written[w] |-> <<w, i>>]

(* Whoever is past makeTempPath has a clock reading of its own.            *)
NoncesDiffer ==
  /\ \A w \in Writer : /\ pc[w] = "start" => nonce[w] = NoClock
                       /\ pc[w] \notin {"start", "killed"} => nonce[w] \in Clock
  /\ \A v, w \in Writer : nonce[v] = nonce[w] /\ nonce[v] # NoClock => v = w

(* A temporary name is bound to the file of the process whose reading it   *)
(* has, and an output to the file it had at first or to that of a process  *)
(* that is done.                                                           *)
TempsAreOwned ==
  \A o \in Output, n \in Clock : \A f \in {names[TempName(o, n)], diskNames[TempName(o, n)]} :
    f # NoFile => f \in Writer /\ nonce[f] = n
OutputsAreFinished ==
  \A o \in Output : \A f \in {names[Final(o)], diskNames[Final(o)]} :
    f # Atomic!Oldest(o) => f \in Writer /\ OutputOf[f] = o /\ pc[f] = "done"

(* A process writes to its own file alone: what it has written is there,   *)
(* and whole once the loop has ended, on the disk too once it is synced.   *)
FilesAreOwned ==
  /\ files["old"] = Whole("old") /\ diskFiles["old"] = Whole("old")
  /\ \A w \in Writer :
       /\ fd[w] = IF pc[w] \in {"write", "sync", "close"} THEN w ELSE NoFile
       /\ pc[w] \in {"start", "open"} => written[w] = 0
       /\ pc[w] = "write" => files[w] = Begun(w)
       /\ pc[w] \in {"sync", "close", "rename", "done"} => files[w] = Whole(w)
       /\ pc[w] \in {"close", "rename", "done"} => diskFiles[w] = Whole(w)

IInv ==
  /\ TypeOK
  /\ NoncesDiffer
  /\ TempsAreOwned
  /\ OutputsAreFinished
  /\ FilesAreOwned
  /\ TempsAreGone

-----------------------------------------------------------------------------
(* The names of outputs and temporary files are all different.             *)
LEMMA NameFacts ==
  ASSUME NEW o \in Output, NEW n \in Clock
  PROVE  /\ Final(o) \in Names /\ TempName(o, n) \in Names
         /\ \A p \in Output : Final(p) # TempName(o, n)
         /\ \A p \in Output : Final(p) = Final(o) => p = o
         /\ \A p \in Output, m \in Clock : TempName(p, m) = TempName(o, n) => p = o /\ m = n
BY WriterAssumption DEF Final, TempName, Names, NoClock

(* What a process past makeTempPath knows of its temporary name.           *)
LEMMA TempFacts ==
  ASSUME IInv, NEW w \in Writer, pc[w] \notin {"start", "killed"}
  PROVE  /\ OutputOf[w] \in Output /\ nonce[w] \in Clock /\ nonce[w] # NoClock
         /\ Temp(w) = TempName(OutputOf[w], nonce[w]) /\ Temp(w) \in Names
         /\ \A o \in Output : Final(o) # Temp(w)
         /\ \A v \in Writer : Temp(v) = Temp(w) => v = w
         /\ \A o \in Output, n \in Clock : TempName(o, n) = Temp(w) => n = nonce[w]
<1>1. OutputOf[w] \in Output /\ nonce[w] \in Clock /\ nonce[w] # NoClock
  BY WriterAssumption DEF IInv, NoncesDiffer, NoClock
<1>2. \A v \in Writer : Temp(v) = Temp(w) => v = w
  BY <1>1 DEF IInv, NoncesDiffer, Temp, TempName
<1>3. QED
  BY <1>1, <1>2, NameFacts DEF Temp

(* A process that is writing holds its own file, and File has it.          *)
LEMMA FileFacts ==
  ASSUME NEW w \in Writer
  PROVE  w \in File /\ w # "old" /\ w # NoFile
BY WriterAssumption DEF File, NoFile

(* An empty file is a file, and what w has written when that is nothing.   *)
LEMMA EmptyFile ==
  /\ << >> \in BoundedSeq(Chunk, Size)
  /\ \A w : << >> = [i \in 1 .. 0 |-> <<w, i>>]
<1>1. 0 \in 0 .. Size /\ << >> \in [1 .. 0 -> Chunk]
  BY WriterAssumption
<1>2. QED
  BY <1>1 DEF BoundedSeq, SeqOf

(* A whole file is a file.                                                 *)
LEMMA WholeTyped == \A f \in File : Whole(f) \in BoundedSeq(Chunk, Size)
<1>1. ASSUME NEW f \in File PROVE Whole(f) \in [1 .. Size -> Chunk]
  BY DEF Whole, Chunk
<1>2. Size \in 0 .. Size
  BY WriterAssumption
<1>3. QED
  BY <1>1, <1>2 DEF BoundedSeq, SeqOf

(* The invariant holds at first.                                           *)
LEMMA Initially == Init => IInv
<1>1. SUFFICES ASSUME Init PROVE IInv
  OBVIOUS
<1>2. TypeOK
  <2>1. names \in [Names -> File \cup {NoFile}]
    BY <1>1 DEF Init, File
  <2>2. files \in [File -> BoundedSeq(Chunk, Size)]
    BY <1>1, EmptyFile, WholeTyped DEF Init
  <2>3. written \in [Writer -> 0 .. Size]
    BY <1>1, WriterAssumption DEF Init
  <2>4. QED
    BY <1>1, <2>1, <2>2, <2>3 DEF Init, TypeOK, Running
<1>3. NoncesDiffer
  BY <1>1 DEF Init, NoncesDiffer
<1>4. TempsAreOwned
  <2>1. ASSUME NEW o \in Output, NEW n \in Clock PROVE names[TempName(o, n)] = NoFile
    <3>1. TempName(o, n) \in Names /\ TempName(o, n) \notin {Final(p) : p \in Present}
      BY NameFacts, WriterAssumption
    <3>2. QED
      BY <1>1, <3>1 DEF Init
  <2>2. QED
    BY <1>1, <2>1 DEF Init, TempsAreOwned
<1>5. OutputsAreFinished
  <2>1. ASSUME NEW o \in Output PROVE names[Final(o)] = Atomic!Oldest(o)
    <3>1. Final(o) \in Names /\ (Final(o) \in {Final(p) : p \in Present} <=> o \in Present)
      BY WriterAssumption DEF Final, Names
    <3>2. QED
      BY <1>1, <3>1 DEF Init, Atomic!Oldest, NoFile
  <2>2. QED
    BY <1>1, <2>1 DEF Init, OutputsAreFinished
<1>6. FilesAreOwned
  BY <1>1, FileFacts DEF Init, FilesAreOwned, File, NoFile
<1>7. TempsAreGone
  BY <1>1 DEF Init, TempsAreGone
<1>8. QED
  BY <1>2, <1>3, <1>4, <1>5, <1>6, <1>7 DEF IInv

(* Whatever a process finds under its temporary name is its own.           *)
LEMMA TempIsOwn ==
  ASSUME IInv, NEW w \in Writer, pc[w] \notin {"start", "killed"}
  PROVE  names[Temp(w)] \in {w, NoFile}
<1>1. /\ OutputOf[w] \in Output /\ nonce[w] \in Clock /\ nonce[w] # NoClock
      /\ Temp(w) = TempName(OutputOf[w], nonce[w])
  BY TempFacts
<1>2. names[Temp(w)] # NoFile => names[Temp(w)] \in Writer /\ nonce[names[Temp(w)]] = nonce[w]
  BY <1>1 DEF IInv, TempsAreOwned
<1>3. QED
  BY <1>1, <1>2 DEF IInv, NoncesDiffer

-----------------------------------------------------------------------------
(* One lemma per action, the first for those that only move a process.     *)
LEMMA Moves ==
  ASSUME IInv, NEW w \in Writer, Fail(w) \/ Kill(w) \/ Close(w) \/ WriteLoopEnds(w)
  PROVE  IInv'
<1>1. TypeOK'
  <2>1. /\ fd' \in [Writer -> File \cup {NoFile}]
        /\ pc' \in [Writer -> Running \cup {"done", "failed", "leftover", "killed"}]
    BY DEF IInv, TypeOK, Fail, Kill, Close, WriteLoopEnds, Goto, At, Running, fileVars
  <2>2. QED
    BY <2>1 DEF IInv, TypeOK, Fail, Kill, Close, WriteLoopEnds, fileVars
<1>2. NoncesDiffer'
  BY DEF IInv, TypeOK, NoncesDiffer, Fail, Kill, Close, WriteLoopEnds, Goto, At, Running
<1>3. TempsAreOwned'
  BY DEF IInv, TempsAreOwned, Fail, Kill, Close, WriteLoopEnds, fileVars
<1>4. OutputsAreFinished'
  BY DEF IInv, TypeOK, OutputsAreFinished, Fail, Kill, Close, WriteLoopEnds, Goto, At, Running,
         fileVars
<1>5. FilesAreOwned'
  <2>1. written[w] = Size => Begun(w) = Whole(w)
    BY DEF Begun, Whole
  <2>2. QED
    BY <2>1 DEF IInv, TypeOK, FilesAreOwned, Begun, Fail, Kill, Close, WriteLoopEnds, Goto, At,
                Running, fileVars
<1>6. TempsAreGone'
  BY DEF IInv, TypeOK, TempsAreGone, Temp, Fail, Kill, Close, WriteLoopEnds, Goto, At, Running,
         fileVars
<1>7. QED
  BY <1>1, <1>2, <1>3, <1>4, <1>5, <1>6 DEF IInv

(* MakeTempPath: the clock reading is new.                                 *)
LEMMA TimeIsRead ==
  ASSUME IInv, DistinctClock, NEW w \in Writer, MakeTempPath(w)
  PROVE  IInv'
<1>1. TypeOK'
  BY DEF IInv, TypeOK, MakeTempPath, Goto, At, Running, fileVars
<1>2. NoncesDiffer'
  BY DEF IInv, TypeOK, NoncesDiffer, MakeTempPath, Goto, At
<1>3. TempsAreOwned'
  BY WriterAssumption
     DEF IInv, TypeOK, TempsAreOwned, NoncesDiffer, NoClock, MakeTempPath, Goto, At, fileVars
<1>4. OutputsAreFinished'
  BY DEF IInv, TypeOK, OutputsAreFinished, MakeTempPath, Goto, At, fileVars
<1>5. FilesAreOwned'
  BY DEF IInv, TypeOK, FilesAreOwned, Begun, MakeTempPath, Goto, At, fileVars
<1>6. TempsAreGone'
  BY DEF IInv, TypeOK, TempsAreGone, Temp, MakeTempPath, Goto, At, fileVars
<1>7. QED
  BY <1>1, <1>2, <1>3, <1>4, <1>5, <1>6 DEF IInv

(* Open and Write change the file of the process, and Open binds its       *)
(* temporary name, which nobody else has.                                  *)
LEMMA FileIsOpened ==
  ASSUME IInv, NEW w \in Writer, Open(w)
  PROVE  IInv'
<1>1. pc[w] = "open" /\ pc' = [pc EXCEPT ![w] = "write"]
  BY DEF Open, At, Goto
<1>2. /\ OutputOf[w] \in Output /\ nonce[w] \in Clock
      /\ Temp(w) = TempName(OutputOf[w], nonce[w]) /\ Temp(w) \in Names
      /\ \A o \in Output : Final(o) # Temp(w)
      /\ \A v \in Writer : Temp(v) = Temp(w) => v = w
      /\ \A o \in Output, n \in Clock : TempName(o, n) = Temp(w) => n = nonce[w]
  BY <1>1, TempFacts
<1>3. names[Temp(w)] \in {w, NoFile}
  BY <1>1, TempIsOwn
<1>4. /\ fd' = [fd EXCEPT ![w] = w] /\ files' = [files EXCEPT ![w] = << >>]
      /\ names' = [names EXCEPT ![Temp(w)] = w]
      /\ UNCHANGED <<nonce, written, diskNames, diskFiles, crashed>>
  BY <1>3 DEF Open, Bind
<1>5. TypeOK'
  BY <1>1, <1>4, EmptyFile, FileFacts DEF IInv, TypeOK, Running
<1>6. NoncesDiffer'
  BY <1>1, <1>4 DEF IInv, TypeOK, NoncesDiffer
<1>7. TempsAreOwned'
  BY <1>2, <1>4, NameFacts DEF IInv, TypeOK, TempsAreOwned
<1>8. OutputsAreFinished'
  BY <1>1, <1>2, <1>4, NameFacts DEF IInv, TypeOK, OutputsAreFinished
<1>9. FilesAreOwned'
  <2>1. files'[w] = << >> /\ Begun(w)' = << >>
    BY <1>1, <1>4, EmptyFile, FileFacts DEF IInv, TypeOK, FilesAreOwned, Begun
  <2>2. QED
    BY <1>1, <1>4, <2>1, FileFacts DEF IInv, TypeOK, FilesAreOwned, Begun, File
<1>10. TempsAreGone'
  BY <1>1, <1>2, <1>4 DEF IInv, TypeOK, TempsAreGone, Temp
<1>11. QED
  BY <1>5, <1>6, <1>7, <1>8, <1>9, <1>10 DEF IInv

(* Write: the file of w grows by the chunks of w, in their places.         *)
LEMMA ChunksAreWritten ==
  ASSUME IInv, NEW w \in Writer, Write(w)
  PROVE  IInv'
<1>1. PICK k \in 1 .. Size - written[w] :
        /\ files' = [files EXCEPT ![fd[w]] = Overwritten(w, k)]
        /\ written' = [written EXCEPT ![w] = @ + k]
  BY DEF Write
<1>2. pc[w] = "write" /\ fd[w] = w /\ files[w] = Begun(w) /\ written[w] \in 0 .. Size
  BY DEF Write, At, IInv, TypeOK, FilesAreOwned
<1>3. written[w] + k \in 0 .. Size
  BY <1>2, WriterAssumption
<1>4. Overwritten(w, k) = [i \in 1 .. written[w] + k |-> <<w, i>>]
  <2>1. Len(files[w]) = written[w] /\ \A i \in 1 .. written[w] : files[w][i] = <<w, i>>
    BY <1>2 DEF Begun
  <2>2. Max({Len(files[w]), written[w] + k}) = written[w] + k
    <3>1. \A a, b \in Nat : a <= b => Max({a, b}) = b
      BY DEF Max
    <3>2. QED
      BY <1>2, <1>3, <2>1, <3>1
  <2>3. ASSUME NEW i \in 1 .. written[w] + k
        PROVE  (IF i \in written[w] + 1 .. written[w] + k THEN <<w, i>>
                ELSE IF i <= Len(files[w]) THEN files[w][i] ELSE <<"hole", 0>>) = <<w, i>>
    <3>1. i \in written[w] + 1 .. written[w] + k \/ i \in 1 .. written[w]
      BY <1>2
    <3>2. i \in 1 .. written[w] => i <= Len(files[w]) /\ files[w][i] = <<w, i>>
      BY <1>2, <2>1
    <3>3. QED
      BY <3>1, <3>2
  <2>4. Overwritten(w, k) =
          [i \in 1 .. written[w] + k |->
             IF i \in written[w] + 1 .. written[w] + k THEN <<w, i>>
             ELSE IF i <= Len(files[w]) THEN files[w][i] ELSE <<"hole", 0>>]
    BY <1>2, <2>2 DEF Overwritten
  <2>5. QED
    BY <2>3, <2>4
<1>5. TypeOK'
  <2>1. Overwritten(w, k) \in BoundedSeq(Chunk, Size)
    <3>1. Overwritten(w, k) \in [1 .. written[w] + k -> Chunk]
      BY <1>2, <1>3, <1>4, FileFacts, WriterAssumption DEF Chunk
    <3>2. QED
      BY <1>3, <3>1 DEF BoundedSeq, SeqOf
  <2>2. QED
    BY <1>1, <1>2, <1>3, <2>1, FileFacts DEF IInv, TypeOK, Write
<1>6. NoncesDiffer'
  BY DEF IInv, NoncesDiffer, Write
<1>7. TempsAreOwned' /\ OutputsAreFinished'
  BY DEF IInv, TempsAreOwned, OutputsAreFinished, Write
<1>8. FilesAreOwned'
  <2>1. files' = [files EXCEPT ![w] = Overwritten(w, k)]
    BY <1>1, <1>2
  <2>2. files'[w] = Begun(w)'
    BY <1>1, <1>4, <2>1, FileFacts DEF IInv, TypeOK, Begun
  <2>3. /\ pc' = pc /\ fd' = fd /\ diskFiles' = diskFiles
        /\ DOMAIN files = File /\ w # "old" /\ "old" \in File
    BY FileFacts DEF IInv, TypeOK, Write, File
  <2>4. \A v \in Writer \ {w} :
          files'[v] = files[v] /\ Begun(v)' = Begun(v) /\ written'[v] = written[v]
    BY <1>1, <2>1, FileFacts DEF IInv, TypeOK, Begun
  <2>5. QED
    BY <1>2, <2>1, <2>2, <2>3, <2>4 DEF IInv, FilesAreOwned
<1>9. TempsAreGone'
  BY DEF IInv, TempsAreGone, Temp, Write
<1>10. QED
  BY <1>5, <1>6, <1>7, <1>8, <1>9 DEF IInv

(* Sync, Rename and RemoveTemp.                                            *)
LEMMA DataIsSynced ==
  ASSUME IInv, NEW w \in Writer, Sync(w)
  PROVE  IInv'
<1>1. /\ pc[w] = "sync" /\ pc' = [pc EXCEPT ![w] = "close"] /\ fd[w] = w
      /\ diskFiles' = [diskFiles EXCEPT ![w] = files[w]]
      /\ UNCHANGED <<nonce, fd, written, names, files, diskNames, crashed>>
  BY DEF Sync, At, Goto, IInv, FilesAreOwned
<1>2. TypeOK'
  BY <1>1, FileFacts DEF IInv, TypeOK, Running
<1>3. NoncesDiffer'
  BY <1>1 DEF IInv, TypeOK, NoncesDiffer
<1>4. TempsAreOwned' /\ TempsAreGone'
  BY <1>1 DEF IInv, TypeOK, TempsAreOwned, TempsAreGone, Temp
<1>5. OutputsAreFinished'
  BY <1>1 DEF IInv, TypeOK, OutputsAreFinished
<1>6. FilesAreOwned'
  BY <1>1, FileFacts DEF IInv, TypeOK, FilesAreOwned, Begun, File
<1>7. QED
  BY <1>2, <1>3, <1>4, <1>5, <1>6 DEF IInv

(* Rename: the file that becomes the output is whole and on the disk.      *)
LEMMA OutputIsReplaced ==
  ASSUME IInv, NEW w \in Writer, Rename(w)
  PROVE  IInv'
<1>1. pc[w] = "rename" /\ UNCHANGED <<nonce, fd, written, files, diskNames, diskFiles, crashed>>
  BY DEF Rename, At
<1>2. /\ OutputOf[w] \in Output /\ nonce[w] \in Clock /\ Final(OutputOf[w]) \in Names
      /\ Temp(w) \in Names /\ \A o \in Output : Final(o) # Temp(w)
      /\ \A v \in Writer : Temp(v) = Temp(w) => v = w
  BY <1>1, TempFacts, NameFacts
<1>3. CASE names[Temp(w)] = NoFile
  <2>1. pc' = [pc EXCEPT ![w] = "remove"] /\ names' = names
    BY <1>3 DEF Rename, Goto
  <2>2. TypeOK' /\ NoncesDiffer'
    BY <1>1, <2>1 DEF IInv, TypeOK, NoncesDiffer, Running
  <2>3. TempsAreOwned' /\ TempsAreGone' /\ OutputsAreFinished'
    BY <1>1, <2>1 DEF IInv, TypeOK, TempsAreOwned, TempsAreGone, OutputsAreFinished, Temp
  <2>4. FilesAreOwned'
    BY <1>1, <2>1 DEF IInv, TypeOK, FilesAreOwned, Begun
  <2>5. QED
    BY <2>2, <2>3, <2>4 DEF IInv
<1>4. CASE names[Temp(w)] = w
  <2>1. /\ pc' = [pc EXCEPT ![w] = "done"]
        /\ names' = [names EXCEPT ![Final(OutputOf[w])] = w, ![Temp(w)] = NoFile]
    BY <1>4, FileFacts DEF Rename, Goto
  <2>2. TypeOK' /\ NoncesDiffer'
    BY <1>1, <2>1, FileFacts DEF IInv, TypeOK, NoncesDiffer
  <2>3. TempsAreOwned'
    BY <1>1, <1>2, <2>1, NameFacts DEF IInv, TypeOK, TempsAreOwned
  <2>4. OutputsAreFinished'
    BY <1>1, <1>2, <2>1, NameFacts DEF IInv, TypeOK, OutputsAreFinished
  <2>5. FilesAreOwned'
    BY <1>1, <2>1 DEF IInv, TypeOK, FilesAreOwned, Begun
  <2>6. TempsAreGone'
    <3>1. ASSUME NEW v \in Writer, ~ crashed, pc'[v] \in {"done", "failed"}
          PROVE  names'[Temp(v)] = NoFile
      <4>1. Temp(v)' = Temp(v)
        BY <1>1 DEF Temp
      <4>2. v # w => /\ names[Temp(v)] = NoFile /\ Temp(v) \in Names /\ Temp(v) # Temp(w)
                     /\ Temp(v) # Final(OutputOf[w])
        BY <1>1, <1>2, <2>1, <3>1, TempFacts DEF IInv, TypeOK, TempsAreGone
      <4>3. QED
        BY <1>2, <2>1, <4>2 DEF IInv, TypeOK
    <3>2. QED
      BY <1>1, <3>1 DEF TempsAreGone, Temp
  <2>7. QED
    BY <2>2, <2>3, <2>4, <2>5, <2>6 DEF IInv
<1>5. QED
  BY <1>1, <1>3, <1>4, TempIsOwn

(* RemoveTemp, which may fail.                                             *)
LEMMA TempIsRemoved ==
  ASSUME IInv, NEW w \in Writer, RemoveTemp(w)
  PROVE  IInv'
<1>1. /\ pc[w] = "remove" /\ UNCHANGED <<nonce, fd, written, files, diskNames, diskFiles, crashed>>
      /\ \/ pc' = [pc EXCEPT ![w] = "leftover"] /\ names' = names
         \/ pc' = [pc EXCEPT ![w] = "failed"] /\ names' = [names EXCEPT ![Temp(w)] = NoFile]
  BY DEF RemoveTemp, At, Goto, Bind
<1>2. Temp(w) \in Names /\ \A o \in Output : Final(o) # Temp(w)
  BY <1>1, TempFacts
<1>3. TypeOK' /\ NoncesDiffer'
  BY <1>1, <1>2 DEF IInv, TypeOK, NoncesDiffer
<1>4. TempsAreOwned'
  BY <1>1, <1>2, NameFacts DEF IInv, TypeOK, TempsAreOwned
<1>5. OutputsAreFinished'
  <2>1. ASSUME NEW o \in Output PROVE names'[Final(o)] = names[Final(o)]
    <3>1. Final(o) \in Names /\ Final(o) # Temp(w)
      BY <1>2 DEF Final, Names
    <3>2. QED
      BY <1>1, <3>1 DEF IInv, TypeOK
  <2>2. \A f \in Writer : pc[f] = "done" => pc'[f] = "done"
    BY <1>1 DEF IInv, TypeOK
  <2>3. QED
    BY <1>1, <2>1, <2>2 DEF IInv, OutputsAreFinished
<1>6. FilesAreOwned'
  BY <1>1 DEF IInv, TypeOK, FilesAreOwned, Begun
<1>7. TempsAreGone'
  <2>1. ASSUME NEW v \in Writer, ~ crashed, pc'[v] \in {"done", "failed"}
        PROVE  names'[Temp(v)] = NoFile
    <3>1. v # w => names[Temp(v)] = NoFile
      BY <1>1, <2>1 DEF IInv, TypeOK, TempsAreGone
    <3>2. v = w => names' = [names EXCEPT ![Temp(w)] = NoFile]
      BY <1>1, <2>1 DEF IInv, TypeOK
    <3>3. v # w => Temp(v) \in Names
      BY <1>1, <2>1, TempFacts DEF IInv, TypeOK
    <3>4. QED
      BY <1>1, <1>2, <3>1, <3>2, <3>3 DEF IInv, TypeOK
  <2>2. QED
    BY <1>1, <2>1 DEF TempsAreGone, Temp
<1>8. QED
  BY <1>3, <1>4, <1>5, <1>6, <1>7 DEF IInv

(* What the machine does: every name and every file is as it was or as the *)
(* disk had it.                                                            *)
LEMMA DiskCatchesUp ==
  ASSUME IInv, WriteBack
  PROVE  IInv'
<1>1. /\ diskNames' = names /\ diskFiles' = files
      /\ UNCHANGED <<pc, nonce, fd, written, names, files, crashed>>
  BY DEF WriteBack, processVars
<1>2. TypeOK' /\ NoncesDiffer' /\ TempsAreGone'
  BY <1>1 DEF IInv, TypeOK, NoncesDiffer, TempsAreGone, Temp
<1>3. TempsAreOwned' /\ OutputsAreFinished'
  BY <1>1 DEF IInv, TempsAreOwned, OutputsAreFinished
<1>4. FilesAreOwned'
  BY <1>1 DEF IInv, FilesAreOwned, Begun
<1>5. QED
  BY <1>2, <1>3, <1>4 DEF IInv

(* Crash: every name and file is as it was or as on the disk.              *)
LEMMA MachineCrashes ==
  ASSUME IInv, Crash
  PROVE  IInv'
<1>1. /\ \A n \in Names : names'[n] \in {names[n], diskNames[n]}
      /\ \A f \in File : files'[f] \in {files[f], diskFiles[f]}
      /\ names' \in [Names -> File \cup {NoFile}]
      /\ files' \in [File -> BoundedSeq(Chunk, Size)]
  BY DEF Crash, IInv, TypeOK
<1>2. /\ diskNames' = names' /\ diskFiles' = files' /\ crashed' = TRUE
      /\ pc' = [w \in Writer |-> IF pc[w] \in Running THEN "killed" ELSE pc[w]]
      /\ fd' = [w \in Writer |-> NoFile]
      /\ UNCHANGED <<nonce, written>>
  BY DEF Crash
<1>3. TypeOK'
  BY <1>1, <1>2 DEF IInv, TypeOK
<1>4. NoncesDiffer'
  BY <1>2 DEF IInv, NoncesDiffer, Running
<1>5. TempsAreOwned'
  BY <1>1, <1>2, NameFacts DEF IInv, TempsAreOwned
<1>6. OutputsAreFinished'
  <2>1. \A o \in Output : names'[Final(o)] \in {names[Final(o)], diskNames[Final(o)]}
    BY <1>1 DEF Final, Names
  <2>2. \A f \in Writer : pc[f] = "done" => pc'[f] = "done"
    BY <1>2 DEF Running
  <2>3. QED
    BY <1>2, <2>1, <2>2 DEF IInv, OutputsAreFinished
<1>7. FilesAreOwned'
  <2>1. "old" \in File /\ Writer \subseteq File
    BY DEF File
  <2>2. \A w \in Writer : pc'[w] \in {"done", "failed", "leftover", "killed"}
                         /\ (pc'[w] = "done" => pc[w] = "done")
    BY <1>2 DEF IInv, TypeOK, Running
  <2>3. QED
    BY <1>1, <1>2, <2>1, <2>2 DEF IInv, FilesAreOwned, Whole
<1>8. TempsAreGone'
  BY <1>2 DEF TempsAreGone
<1>9. QED
  BY <1>3, <1>4, <1>5, <1>6, <1>7, <1>8 DEF IInv

(* Steps that change nothing.                                              *)
LEMMA Stutters ==
  ASSUME IInv, UNCHANGED vars
  PROVE  IInv'
BY DEF IInv, TypeOK, NoncesDiffer, TempsAreOwned, OutputsAreFinished, FilesAreOwned, TempsAreGone,
       Begun, Temp, vars, processVars, fileVars

(* Every step keeps the invariant.                                         *)
LEMMA Inductive ==
  ASSUME DistinctClock
  PROVE  IInv /\ [Next]_vars => IInv'
<1>1. SUFFICES ASSUME IInv, [Next]_vars PROVE IInv'
  OBVIOUS
<1>2. ASSUME NEW w \in Writer, Advance(w) PROVE IInv'
  BY <1>1, <1>2, TimeIsRead, FileIsOpened, ChunksAreWritten, Moves, DataIsSynced, OutputIsReplaced,
     TempIsRemoved DEF Advance
<1>3. ASSUME NEW w \in Writer, Fail(w) \/ Kill(w) PROVE IInv'
  BY <1>1, <1>3, Moves
<1>4. QED
  BY <1>1, <1>2, <1>3, DiskCatchesUp, MachineCrashes, Stutters DEF Next

(* The invariant holds of every behaviour.                                 *)
THEOREM IInvHolds ==
  ASSUME DistinctClock
  PROVE  Spec => []IInv
BY Initially, Inductive, PTL DEF Spec

-----------------------------------------------------------------------------
(* Type correctness of safeWriteFile's model.                              *)
THEOREM Typed ==
  ASSUME DistinctClock
  PROVE  Spec => []TypeOK
<1>1. IInv => TypeOK
  BY DEF IInv
<1>2. QED
  BY <1>1, IInvHolds, PTL

(* What an output holds: its first file or one that a process has written  *)
(* to the end, in either case whole and on the disk.                       *)
LEMMA OutputFacts ==
  ASSUME IInv, NEW o \in Output
  PROVE  /\ names[Final(o)] \in {Atomic!Oldest(o)} \cup
                               {w \in Writer : OutputOf[w] = o /\ pc[w] = "done"}
         /\ names[Final(o)] # NoFile =>
              /\ names[Final(o)] \in {"old"} \cup {w \in Writer : OutputOf[w] = o}
              /\ files[names[Final(o)]] = Whole(names[Final(o)])
              /\ diskFiles[names[Final(o)]] = Whole(names[Final(o)])
<1>1. names[Final(o)] \in {Atomic!Oldest(o)} \cup
                           {w \in Writer : OutputOf[w] = o /\ pc[w] = "done"}
  BY DEF IInv, OutputsAreFinished
<1>2. Atomic!Oldest(o) \in {"old", NoFile}
  BY DEF Atomic!Oldest, NoFile
<1>3. QED
  BY <1>1, <1>2 DEF IInv, FilesAreOwned

(* Whoever opens an output finds a whole file, as safeWriteFile promises,  *)
(* for any number of processes, outputs and crashes, provided that no two  *)
(* processes read the same clock value.                                    *)
THEOREM OutputsAlwaysWhole ==
  ASSUME DistinctClock
  PROVE  Spec => []OutputsAreWhole
<1>1. IInv => OutputsAreWhole
  BY OutputFacts DEF OutputsAreWhole
<1>2. QED
  BY <1>1, IInvHolds, PTL

(* What has been renamed to an output is on the disk.                      *)
THEOREM OutputsAlwaysDurable ==
  ASSUME DistinctClock
  PROVE  Spec => []OutputsAreDurable
<1>1. IInv => OutputsAreDurable
  BY OutputFacts DEF OutputsAreDurable
<1>2. QED
  BY <1>1, IInvHolds, PTL

(* A process that has returned or thrown has left no temporary file.       *)
THEOREM TempsAlwaysGone ==
  ASSUME DistinctClock
  PROVE  Spec => []TempsAreGone
<1>1. IInv => TempsAreGone
  BY DEF IInv
<1>2. QED
  BY <1>1, IInvHolds, PTL

-----------------------------------------------------------------------------
(* The refinement.  Readers of an output see the name of the file that is  *)
(* bound to it, since every such file is whole.                            *)
LEMMA WholesDiffer == \A f, g : Whole(f) = Whole(g) => f = g
<1>1. 1 \in 1 .. Size
  BY WriterAssumption
<1>2. \A f : Whole(f)[1] = <<f, 1>>
  BY <1>1 DEF Whole
<1>3. QED
  BY <1>2

(* Version is well-defined: a name stands for the one who wrote its file.  *)
LEMMA VersionIsBinding == IInv => \A o \in Output : Version(o) = names[Final(o)]
<1>1. SUFFICES ASSUME IInv, NEW o \in Output PROVE Version(o) = names[Final(o)]
  OBVIOUS
<1>2. CASE names[Final(o)] = NoFile
  BY <1>2 DEF Version, NoFile
<1>3. CASE names[Final(o)] # NoFile
  <2>1. names[Final(o)] \in File /\ files[names[Final(o)]] = Whole(names[Final(o)])
    BY <1>1, <1>3, OutputFacts DEF File
  <2>2. \A f \in File : files[names[Final(o)]] = Whole(f) => f = names[Final(o)]
    BY <2>1, WholesDiffer
  <2>3. QED
    BY <1>3, <2>1, <2>2 DEF Version
<1>4. QED
  BY <1>2, <1>3

(* Running and ended processes, as AtomicFile sees them.                   *)
LEMMA StatusFacts ==
  IInv => \A w \in Writer :
    /\ Status(w) = "done" <=> pc[w] = "done"
    /\ pc[w] \in Running => Status(w) = "busy"
    /\ pc[w] \in {"failed", "leftover"} => Status(w) = "failed"
    /\ pc[w] = "killed" => Status(w) = "killed"
BY DEF IInv, TypeOK, Status, Running

(* The steps that neither readers nor callers notice.                      *)
LEMMA SilentSteps ==
  ASSUME IInv, IInv', NEW w \in Writer,
         MakeTempPath(w) \/ Open(w) \/ Write(w) \/ WriteLoopEnds(w) \/ Sync(w) \/ Close(w) \/ Fail(w)
  PROVE  /\ \A o \in Output : names'[Final(o)] = names[Final(o)]
         /\ \A v \in Writer : Status(v)' = Status(v)
<1>1. \A o \in Output : names'[Final(o)] = names[Final(o)]
  <2>1. CASE Open(w)
    <3>1. pc[w] = "open"
      BY <2>1 DEF Open, At
    <3>2. ASSUME NEW o \in Output PROVE Final(o) \in Names /\ Final(o) # Temp(w)
      BY <3>1, TempFacts DEF Final, Names
    <3>3. QED
      BY <2>1, <3>2 DEF Open, Bind, IInv, TypeOK
  <2>2. CASE ~ Open(w)
    BY <2>2 DEF MakeTempPath, Write, WriteLoopEnds, Sync, Close, Fail, fileVars
  <2>3. QED
    BY <2>1, <2>2
<1>2. /\ pc[w] \in Running /\ pc'[w] \in Running
      /\ \A v \in Writer : v # w => pc'[v] = pc[v]
  BY DEF IInv, TypeOK, MakeTempPath, Open, Write, WriteLoopEnds, Sync, Close, Fail, At, Goto, Running
<1>3. Status(w) = "busy" /\ Status(w)' = "busy"
  BY <1>2 DEF Status, Running
<1>4. \A v \in Writer : v # w => Status(v)' = Status(v)
  BY <1>2 DEF Status
<1>5. QED
  BY <1>1, <1>3, <1>4

(* The step of the atomic file that a step of the writers is.              *)
LEMMA StepRefines ==
  ASSUME IInv, IInv', [Next]_vars
  PROVE  [Atomic!Next]_(Atomic!vars)
<1> DEFINE version == [o \in Output |-> names[Final(o)]]
           result == [w \in Writer |-> Status(w)]
           Unseen == UNCHANGED <<version, result>>
<1>1. /\ \A o \in Output : Version(o) = names[Final(o)]
      /\ \A o \in Output : Version(o)' = names'[Final(o)]
  <2>1. IInv' => (\A o \in Output : Version(o) = names[Final(o)])'
    BY VersionIsBinding, PTL
  <2>2. QED
    BY <2>1, VersionIsBinding
<1>2. /\ \A w \in Writer : Status(w) = "done" <=> pc[w] = "done"
      /\ \A w \in Writer : pc[w] \in Running => Status(w) = "busy"
  BY StatusFacts
<1>3. Unseen => UNCHANGED Atomic!vars
  BY <1>1 DEF Atomic!vars
<1>4. ASSUME NEW w \in Writer, Advance(w) \/ Fail(w), ~ Rename(w), ~ RemoveTemp(w)
      PROVE  Unseen
  BY <1>4, SilentSteps DEF Advance
<1>5. ASSUME NEW w \in Writer, Rename(w) PROVE Unseen \/ Atomic!Replace(w)
  <2>1. /\ pc[w] = "rename" /\ names[Temp(w)] \in {w, NoFile} /\ OutputOf[w] \in Output
        /\ \A o \in Output : Final(o) \in Names /\ Final(o) # Temp(w)
        /\ \A o \in Output : Final(o) = Final(OutputOf[w]) => o = OutputOf[w]
    <3>1. pc[w] = "rename"
      BY <1>5 DEF Rename, At
    <3>2. QED
      BY <3>1, TempIsOwn, TempFacts DEF Final, Names
  <2>2. CASE names[Temp(w)] = NoFile
    <3>1. names' = names /\ pc' = [pc EXCEPT ![w] = "remove"]
      BY <1>5, <2>2 DEF Rename, Goto
    <3>2. QED
      BY <2>1, <3>1 DEF IInv, TypeOK, Status, Running
  <2>3. CASE names[Temp(w)] = w
    <3>1. /\ names' = [names EXCEPT ![Final(OutputOf[w])] = w, ![Temp(w)] = NoFile]
          /\ pc' = [pc EXCEPT ![w] = "done"]
      BY <1>5, <2>3, FileFacts DEF Rename, Goto
    <3>2. version' = [version EXCEPT ![OutputOf[w]] = w]
      BY <2>1, <3>1 DEF IInv, TypeOK
    <3>3. result[w] = "busy" /\ result' = [result EXCEPT ![w] = "done"]
      BY <2>1, <3>1 DEF IInv, TypeOK, Status, Running
    <3>4. QED
      BY <1>1, <3>2, <3>3 DEF Atomic!Replace
  <2>4. QED
    BY <2>1, <2>2, <2>3
<1>6. ASSUME NEW w \in Writer, RemoveTemp(w) PROVE Atomic!GiveUp(w)
  <2>1. /\ pc[w] = "remove" /\ \A o \in Output : Final(o) \in Names /\ Final(o) # Temp(w)
        /\ names' \in {names, [names EXCEPT ![Temp(w)] = NoFile]}
        /\ pc' \in {[pc EXCEPT ![w] = "failed"], [pc EXCEPT ![w] = "leftover"]}
    <3>1. pc[w] = "remove"
      BY <1>6 DEF RemoveTemp, At
    <3>2. QED
      BY <1>6, <3>1, TempFacts DEF RemoveTemp, Goto, Bind, Final, Names
  <2>2. version' = version
    BY <2>1 DEF IInv, TypeOK
  <2>3. result[w] = "busy" /\ result' = [result EXCEPT ![w] = "failed"]
    BY <2>1, ZenonT(40) DEF IInv, TypeOK, Status, Running
  <2>4. QED
    BY <1>1, <2>2, <2>3 DEF Atomic!GiveUp
<1>7. ASSUME NEW w \in Writer, Kill(w) PROVE Atomic!Die(w)
  <2>1. pc[w] \in Running /\ names' = names /\ pc' = [pc EXCEPT ![w] = "killed"]
    BY <1>7 DEF Kill, Goto, fileVars
  <2>2. result[w] = "busy" /\ result' = [result EXCEPT ![w] = "killed"]
    BY <2>1 DEF IInv, TypeOK, Status, Running
  <2>3. QED
    BY <1>1, <2>1, <2>2 DEF Atomic!Die
<1>8. ASSUME WriteBack PROVE Unseen
  BY <1>8 DEF WriteBack, processVars, Status
<1>9. ASSUME Crash PROVE Atomic!Crash
  <2>1. \A o \in Output : names'[Final(o)] \in Atomic!Versions(o)
    <3>1. ASSUME NEW o \in Output, NEW w \in Writer, pc'[w] = "done" PROVE Status(w) = "done"
      BY <1>2, <1>9, <3>1 DEF Crash, Running
    <3>2. ASSUME NEW o \in Output
          PROVE  names'[Final(o)] \in {Atomic!Oldest(o)} \cup
                                     {w \in Writer : OutputOf[w] = o /\ pc'[w] = "done"}
      BY DEF IInv, OutputsAreFinished
    <3>3. QED
      BY <3>1, <3>2 DEF Atomic!Versions
  <2>2. result' = [w \in Writer |-> IF result[w] = "busy" THEN "killed" ELSE result[w]]
    BY <1>2, <1>9 DEF Crash, IInv, TypeOK, Status, Running
  <2>3. QED
    BY <1>1, <2>1, <2>2 DEF Atomic!Crash
<1>10. ASSUME UNCHANGED vars PROVE Unseen
  BY <1>10 DEF vars, processVars, fileVars, Status
<1>11. QED
  BY <1>3, <1>4, <1>5, <1>6, <1>7, <1>8, <1>9, <1>10 DEF Next, Advance, Atomic!Next

(* The files at the start are the versions at the start.                   *)
LEMMA StartRefines == Init => Atomic!Init
<1>1. SUFFICES ASSUME Init PROVE Atomic!Init
  OBVIOUS
<1>2. IInv
  BY <1>1, Initially
<1>3. \A o \in Output : Version(o) = names[Final(o)]
  BY <1>2, VersionIsBinding
<1>4. \A o \in Output : names[Final(o)] = Atomic!Oldest(o)
  <2>1. ASSUME NEW o \in Output
        PROVE  Final(o) \in Names /\ (Final(o) \in {Final(p) : p \in Present} <=> o \in Present)
    BY WriterAssumption DEF Final, Names
  <2>2. QED
    BY <1>1, <2>1 DEF Init, Atomic!Oldest, NoFile
<1>5. \A w \in Writer : Status(w) = "busy"
  BY <1>1 DEF Init, Status, Running
<1>6. QED
  BY <1>3, <1>4, <1>5 DEF Atomic!Init

(* safeWriteFile implements the atomic file that its callers assume: every *)
(* behaviour of the writers, with failing calls, killed processes and      *)
(* crashes, is one in which outputs are replaced whole and results are     *)
(* true, provided that no two processes read the same clock value.         *)
THEOREM ImplementsAtomicFile ==
  ASSUME DistinctClock
  PROVE  Spec => IsAtomic
<1>1. Init => Atomic!Init
  BY StartRefines
<1>2. IInv /\ IInv' /\ [Next]_vars => [Atomic!Next]_(Atomic!vars)
  BY StepRefines
<1>3. QED
  BY <1>1, <1>2, IInvHolds, PTL DEF Spec, IsAtomic, Atomic!Spec
=============================================================================
