--------------------------- MODULE DataFileProofs ---------------------------
(***************************************************************************)
(* Theorems about DataFile, for any number of processes, levels and blocks *)
(* and any command lines.                                                  *)
(***************************************************************************)
EXTENDS DataFile, TLAPS

-----------------------------------------------------------------------------
(* Images *)

LEMMA ConstantTypes ==
  /\ ZeroHead \in HeadHalf /\ ZeroTail \in TailHalf
  /\ ZeroImage \in Image /\ DefaultImage \in Image
  /\ EmptyFile \in File
  /\ InPlace(ZeroImage) /\ InPlace(DefaultImage)
PROOF
  <1>1. ZeroHead \in HeadHalf /\ ZeroTail \in TailHalf
    BY DEF ZeroHead, ZeroTail, HeadHalf, TailHalf, Names
  <1>2. ZeroImage \in Image
    BY <1>1 DEF ZeroImage, Image, Record
  <1>3. DefaultImage \in Image
    BY DEF DefaultImage, Image, Record, HeadHalf, TailHalf, Names
  <1>4. EmptyFile \in File
    BY <1>2, LayoutAssumption DEF EmptyFile, File
  <1>5. InPlace(ZeroImage) /\ InPlace(DefaultImage)
    BY DEF InPlace, ZeroImage, DefaultImage, ZeroHead
  <1> QED BY <1>1, <1>2, <1>3, <1>4, <1>5

\* What a block transfer yields is an image, with every record in its place.
LEMMA SpliceImage ==
  ASSUME NEW dst \in Image, NEW src \in Image, NEW b
  PROVE  /\ Splice(dst, src, b) \in Image
         /\ InPlace(dst) /\ InPlace(src) => InPlace(Splice(dst, src, b))
PROOF
  <1>1. Splice(dst, src, b) \in Image
    BY DEF Splice, Image, Record
  <1>2. InPlace(dst) /\ InPlace(src) => InPlace(Splice(dst, src, b))
    BY DEF Splice, InPlace
  <1> QED BY <1>1, <1>2

LEMMA PutBlockFile ==
  ASSUME NEW f \in File, NEW img \in Image, NEW b \in 1..NumBlocks
  PROVE  /\ PutBlock(f, img, b) \in File
         /\ InPlace(f.img) /\ InPlace(img) => InPlace(PutBlock(f, img, b).img)
PROOF
  <1>1. f.img \in Image /\ f.len \in 0..NumBlocks
    BY DEF File
  <1>2. (IF f.len < b THEN b ELSE f.len) \in 0..NumBlocks
    BY <1>1, LayoutAssumption
  <1>3. PutBlock(f, img, b) \in File
    BY <1>1, <1>2, SpliceImage DEF PutBlock, File
  <1>4. InPlace(f.img) /\ InPlace(img) => InPlace(PutBlock(f, img, b).img)
    BY <1>1, SpliceImage DEF PutBlock
  <1> QED BY <1>3, <1>4

-----------------------------------------------------------------------------
(* Types and places *)

\* A command that completes something completes a level.
CompletesLevel(c) == c.op = "complete" => c.name \in Levels

\* What TypeOK and RecordsInPlace need to be inductive: where a process has a
\* stream, how far its stream is, and that what it completed is a level.
Control ==
  \A p \in Procs :
    /\ pc[p] # "idle" => cmd[p] \in Command
    /\ pc[p] \in {"fread", "fwrite", "fclose"} => fd[p] \in Inodes
    /\ pc[p] = "fwrite" => pos[p] <= NumBlocks
    /\ pc[p] = "fclose" => pos[p] = NumBlocks
    /\ pc[p] \in {"fopen_temp", "fwrite", "fclose"} /\ ~creating[p]
         => CompletesLevel(cmd[p])

Inv == TypeOK /\ Control /\ RecordsInPlace

LEMMA InitInv == Init => Inv
PROOF
  <1> SUFFICES ASSUME Init PROVE Inv
    OBVIOUS
  <1> USE ConstantTypes, LayoutAssumption DEF Init
  <1>1. TypeOK BY DEF TypeOK
  <1>2. Control BY DEF Control
  <1>3. RecordsInPlace BY DEF RecordsInPlace, EmptyFile
  <1> QED BY <1>1, <1>2, <1>3 DEF Inv

LEMMA InstalledInitInv == InstalledInit => Inv
PROOF
  <1> SUFFICES ASSUME InstalledInit PROVE Inv
    OBVIOUS
  <1> USE ConstantTypes, LayoutAssumption, InodesAssumption DEF InstalledInit
  <1>1. data \in Inodes OBVIOUS
  <1>2. [len |-> NumBlocks, img |-> DefaultImage] \in File
    BY DEF File
  <1>3. TypeOK BY <1>1, <1>2 DEF TypeOK
  <1>4. Control BY DEF Control
  <1>5. RecordsInPlace BY DEF RecordsInPlace, EmptyFile
  <1> QED BY <1>3, <1>4, <1>5 DEF Inv

\* The end of a process keeps all that is known of the process variables.
LEMMA EndsProc ==
  ASSUME Inv, NEW p \in Procs, Ends(p)
  PROVE  /\ pc' \in [Procs -> {"idle", "access", "fopen_data", "fread", "loaded",
                                "fopen_temp", "fwrite", "fclose"}]
         /\ cmd' \in [Procs -> Command \cup {NoCommand}]
         /\ mem' \in [Procs -> Image]
         /\ pos' \in [Procs -> 1..(NumBlocks + 1)]
         /\ fd' \in [Procs -> Inodes \cup {NoFile}]
         /\ creating' \in [Procs -> BOOLEAN]
         /\ Control'
         /\ \A q \in Procs : InPlace(mem'[q])
PROOF
  <1>1. pc' \in [Procs -> {"idle", "access", "fopen_data", "fread", "loaded",
                           "fopen_temp", "fwrite", "fclose"}]
    BY DEF Inv, TypeOK, Ends
  <1>2. mem' \in [Procs -> Image]
    BY ConstantTypes DEF Inv, TypeOK, Ends
  <1>3. pos' \in [Procs -> 1..(NumBlocks + 1)]
    BY LayoutAssumption DEF Inv, TypeOK, Ends
  <1>4. /\ cmd' \in [Procs -> Command \cup {NoCommand}]
        /\ fd' \in [Procs -> Inodes \cup {NoFile}]
        /\ creating' \in [Procs -> BOOLEAN]
    BY DEF Inv, TypeOK, Ends
  <1>5. Control'
    BY DEF Inv, TypeOK, Control, Ends
  <1>6. \A q \in Procs : InPlace(mem'[q])
    BY ConstantTypes DEF Inv, TypeOK, RecordsInPlace, Ends
  <1> QED BY <1>1, <1>2, <1>3, <1>4, <1>5, <1>6

\* Taking unused inodes away keeps what is known of every file.
LEMMA ReclaimedFile ==
  ASSUME NEW f \in [Inodes -> File], \A i \in Inodes : InPlace(f[i].img), Reclaimed(f)
  PROVE  file' \in [Inodes -> File] /\ \A i \in Inodes : InPlace(file'[i].img)
PROOF
  <1>1. EmptyFile \in File /\ InPlace(EmptyFile.img)
    BY ConstantTypes DEF EmptyFile
  <1>2. \A i \in Inodes : file'[i] \in {f[i], EmptyFile}
    BY DEF Reclaimed
  <1>3. file' = [i \in Inodes |-> file'[i]]
    BY DEF Reclaimed
  <1> QED BY <1>1, <1>2, <1>3

\* A process that ends, or crashes, while the files stay what they are or lose
\* inodes nobody uses.
LEMMA EndsInv ==
  ASSUME Inv, NEW p \in Procs, Ends(p),
         UNCHANGED <<data, temp, datadir, done>>,
         UNCHANGED file \/ Reclaimed(file)
  PROVE  Inv'
PROOF
  <1>1. file' \in [Inodes -> File] /\ \A i \in Inodes : InPlace(file'[i].img)
    <2>1. CASE UNCHANGED file
      BY <2>1 DEF Inv, TypeOK, RecordsInPlace
    <2>2. CASE Reclaimed(file)
      BY <2>2, ReclaimedFile DEF Inv, TypeOK, RecordsInPlace
    <2> QED BY <2>1, <2>2
  <1>2. TypeOK'
    BY <1>1, EndsProc DEF Inv, TypeOK
  <1>3. RecordsInPlace'
    BY <1>1, EndsProc DEF RecordsInPlace
  <1> QED BY <1>2, <1>3, EndsProc DEF Inv

LEMMA StartInv ==
  ASSUME Inv, NEW p \in Procs, NEW c \in Commands[p], Start(p, c)
  PROVE  Inv'
PROOF
  <1> USE DEF Start, Goto, fsVars
  <1>0. c \in Command
    BY ProcsAssumption
  <1>1. TypeOK'
    BY <1>0 DEF Inv, TypeOK
  <1>2. Control'
    BY <1>0 DEF Inv, TypeOK, Control
  <1>3. RecordsInPlace'
    BY DEF Inv, RecordsInPlace
  <1> QED BY <1>1, <1>2, <1>3 DEF Inv

LEMMA LoadInv ==
  ASSUME Inv, NEW p \in Procs, Load(p)
  PROVE  Inv'
PROOF
  <1> USE DEF Goto, fsVars
  <1>1. CASE FoundDataFile(p)
    <2>1. TypeOK' BY <1>1 DEF Inv, TypeOK, FoundDataFile
    <2>2. Control' BY <1>1 DEF Inv, TypeOK, Control, FoundDataFile
    <2>3. RecordsInPlace' BY <1>1 DEF Inv, RecordsInPlace, FoundDataFile
    <2> QED BY <2>1, <2>2, <2>3 DEF Inv
  <1>2. CASE CreateNewDataFile(p)
    <2>1. TypeOK' BY <1>2, ConstantTypes DEF Inv, TypeOK, CreateNewDataFile
    <2>2. Control' BY <1>2 DEF Inv, TypeOK, Control, CreateNewDataFile
    <2>3. RecordsInPlace'
      BY <1>2, ConstantTypes DEF Inv, TypeOK, RecordsInPlace, CreateNewDataFile
    <2> QED BY <2>1, <2>2, <2>3 DEF Inv
  <1>3. CASE MkdirFails(p)
    BY <1>3, EndsInv DEF MkdirFails
  <1>4. CASE FopenData(p)
    <2>1. data \in Inodes BY <1>4 DEF Inv, TypeOK, FopenData
    <2>2. TypeOK' BY <1>4, <2>1, LayoutAssumption DEF Inv, TypeOK, FopenData
    <2>3. Control' BY <1>4, <2>1 DEF Inv, TypeOK, Control, FopenData
    <2>4. RecordsInPlace' BY <1>4 DEF Inv, RecordsInPlace, FopenData
    <2> QED BY <2>2, <2>3, <2>4 DEF Inv
  <1>5. CASE FreadBlock(p)
    <2> DEFINE f == file[fd[p]]
               m == Splice(mem[p], f.img, pos[p])
    <2>1. f \in File /\ f.img \in Image /\ InPlace(f.img) /\ f.len \in 0..NumBlocks
      BY <1>5 DEF FreadBlock, Inv, TypeOK, Control, RecordsInPlace, File
    <2>2. mem[p] \in Image /\ InPlace(mem[p])
      BY DEF Inv, TypeOK, RecordsInPlace
    <2>3. m \in Image /\ InPlace(m)
      BY <2>1, <2>2, SpliceImage
    <2>4. mem' = [mem EXCEPT ![p] = m]
      BY <1>5 DEF FreadBlock, Inv, TypeOK
    <2>5. pos' \in [Procs -> 1..(NumBlocks + 1)]
      BY <1>5, <2>1, LayoutAssumption DEF FreadBlock, Inv, TypeOK
    <2>6. TypeOK'
      BY <1>5, <2>3, <2>4, <2>5 DEF Inv, TypeOK, FreadBlock
    <2>7. Control'
      BY <1>5 DEF Inv, TypeOK, Control, FreadBlock
    <2>8. RecordsInPlace'
      BY <1>5, <2>3, <2>4 DEF Inv, TypeOK, RecordsInPlace, FreadBlock
    <2> QED BY <2>6, <2>7, <2>8 DEF Inv
  <1>6. CASE FreadDone(p)
    <2>1. file' \in [Inodes -> File] /\ \A i \in Inodes : InPlace(file'[i].img)
      BY <1>6, ReclaimedFile DEF FreadDone, Inv, TypeOK, RecordsInPlace
    <2>2. TypeOK' BY <1>6, <2>1 DEF FreadDone, Inv, TypeOK
    <2>3. Control' BY <1>6 DEF FreadDone, Inv, TypeOK, Control
    <2>4. RecordsInPlace' BY <1>6, <2>1 DEF FreadDone, Inv, RecordsInPlace
    <2> QED BY <2>2, <2>3, <2>4 DEF Inv
  <1> QED BY <1>1, <1>2, <1>3, <1>4, <1>5, <1>6 DEF Load

\* A record with another password or other flags keeps its name.
LEMMA ChangedRecord ==
  ASSUME NEW r \in Record, NEW s \in Passwords \cup {Unknown, NoPass}, NEW b \in BOOLEAN
  PROVE  /\ Completed(r) \in Record /\ Completed(r).head = r.head
         /\ WithFlag(r, b) \in Record /\ WithFlag(r, b).head = r.head
         /\ WithPass(r, s) \in Record /\ WithPass(r, s).head.name = r.head.name
         /\ WithPass(r, s).tail = r.tail
PROOF
  <1>1. r.head \in HeadHalf /\ r.tail \in TailHalf
    BY DEF Record
  <1>2. /\ [r.tail EXCEPT !.complete = TRUE] \in TailHalf
        /\ [r.tail EXCEPT !.saved = b] \in TailHalf
    BY <1>1 DEF TailHalf
  <1>3. [r.head EXCEPT !.pass = s] \in HeadHalf /\ [r.head EXCEPT !.pass = s].name = r.head.name
    BY <1>1 DEF HeadHalf
  <1> QED BY <1>1, <1>2, <1>3 DEF Record, Completed, WithFlag, WithPass

\* A command that changes one loaded record, not its name, and saves.
LEMMA SaveInv ==
  ASSUME Inv, NEW p \in Procs, pc[p] = "loaded", CompletesLevel(cmd[p]),
         NEW i \in Levels, NEW r \in Record, r.head.name = mem[p][i].head.name,
         Save(p, i, r)
  PROVE  Inv'
PROOF
  <1> USE DEF Save, Goto, fsVars
  <1> DEFINE img == [mem[p] EXCEPT ![i] = r]
  <1>1. mem[p] \in Image /\ InPlace(mem[p])
    BY DEF Inv, TypeOK, RecordsInPlace
  <1>2. img \in Image /\ InPlace(img)
    BY <1>1 DEF Image, InPlace
  <1>3. mem' = [mem EXCEPT ![p] = img]
    BY DEF Inv, TypeOK
  <1>4. TypeOK' BY <1>2, <1>3 DEF Inv, TypeOK
  <1>5. Control' BY DEF Inv, TypeOK, Control
  <1>6. RecordsInPlace' BY <1>2, <1>3 DEF Inv, TypeOK, RecordsInPlace
  <1> QED BY <1>4, <1>5, <1>6 DEF Inv

\* The record a command finds is the one of the level it names.
LEMMA MatchIsLevel ==
  ASSUME NEW img \in Image, InPlace(img), NEW i \in Levels,
         NEW n \in Levels \cup {JunkName}, IsFirstMatch(img, n, i)
  PROVE  n = i /\ n \in Levels
PROOF
  <1>1. img[i].head.name \in {i, NoName} /\ img[i].head.name = n
    BY DEF InPlace, IsFirstMatch
  <1>2. n # NoName
    BY LayoutAssumption DEF NoName, JunkName, Levels
  <1> QED BY <1>1, <1>2

LEMMA ApplyInv ==
  ASSUME Inv, NEW p \in Procs, Apply(p)
  PROVE  Inv'
PROOF
  <1>1. CASE Show(p) \/ InvalidLevel(p) \/ ConnectEnds(p)
    BY <1>1, EndsInv DEF Show, InvalidLevel, ConnectEnds, fsVars
  <1>2. mem[p] \in Image /\ InPlace(mem[p])
    BY DEF Inv, TypeOK, RecordsInPlace
  <1>3. ASSUME pc[p] = "loaded", NEW i \in Levels,
               IsFirstMatch(mem[p], cmd[p].name, i) \/ cmd[p].op = "store"
        PROVE  /\ CompletesLevel(cmd[p])
               /\ cmd[p].pass \in Passwords \cup {Unknown, NoPass}
               /\ mem[p][i] \in Record
    <2>1. cmd[p] \in Command
      BY <1>3 DEF Inv, Control
    <2>2. /\ cmd[p].name \in Levels \cup {JunkName}
          /\ cmd[p].pass \in Passwords \cup {Unknown, NoPass}
      BY <2>1 DEF Command
    <2>3. mem[p][i] \in Record
      BY <1>2 DEF Image
    <2>4. CompletesLevel(cmd[p])
      BY <1>2, <1>3, <2>2, MatchIsLevel DEF CompletesLevel
    <2> QED BY <2>2, <2>3, <2>4
  <1>4. CASE MarkLevelComplete(p)
    <2> PICK i \in Levels : /\ IsFirstMatch(mem[p], cmd[p].name, i)
                            /\ Save(p, i, Completed(mem[p][i]))
      BY <1>4 DEF MarkLevelComplete
    <2>1. pc[p] = "loaded"
      BY <1>4 DEF MarkLevelComplete
    <2> QED BY <1>3, <2>1, ChangedRecord, SaveInv
  <1>5. CASE StorePass(p)
    <2> PICK i \in Levels : Save(p, i, WithFlag(WithPass(mem[p][i], cmd[p].pass), TRUE))
      BY <1>5 DEF StorePass
    <2>1. pc[p] = "loaded" /\ cmd[p].op = "store"
      BY <1>5 DEF StorePass
    <2> DEFINE r == WithPass(mem[p][i], cmd[p].pass)
    <2>2. r \in Record /\ r.head.name = mem[p][i].head.name
      BY <1>3, <2>1, ChangedRecord
    <2>3. WithFlag(r, TRUE) \in Record /\ WithFlag(r, TRUE).head = r.head
      BY <2>2, ChangedRecord
    <2> QED BY <1>3, <2>1, <2>2, <2>3, SaveInv
  <1>6. CASE ConnectRemembers(p)
    <2> PICK i \in Levels : /\ IsFirstMatch(mem[p], cmd[p].name, i)
                            /\ Save(p, i, WithFlag(mem[p][i], TRUE))
      BY <1>6 DEF ConnectRemembers
    <2>1. pc[p] = "loaded"
      BY <1>6 DEF ConnectRemembers
    <2> QED BY <1>3, <2>1, ChangedRecord, SaveInv
  <1>7. CASE ConnectForgets(p)
    <2> PICK i \in Levels :
          /\ IsFirstMatch(mem[p], cmd[p].name, i)
          /\ Save(p, i, WithFlag(WithPass(mem[p][i], Unknown), FALSE))
      BY <1>7 DEF ConnectForgets
    <2>1. pc[p] = "loaded"
      BY <1>7 DEF ConnectForgets
    <2> DEFINE r == WithPass(mem[p][i], Unknown)
    <2>2. r \in Record /\ r.head.name = mem[p][i].head.name
      BY <1>3, <2>1, ChangedRecord
    <2>3. WithFlag(r, FALSE) \in Record /\ WithFlag(r, FALSE).head = r.head
      BY <2>2, ChangedRecord
    <2> QED BY <1>3, <2>1, <2>2, <2>3, SaveInv
  <1> QED BY <1>1, <1>4, <1>5, <1>6, <1>7 DEF Apply

LEMMA SaveDataInv ==
  ASSUME Inv, NEW p \in Procs, SaveData(p)
  PROVE  Inv'
PROOF
  <1> USE DEF Goto, fsVars
  <1>0. file \in [Inodes -> File] /\ \A i \in Inodes : InPlace(file[i].img)
    BY DEF Inv, TypeOK, RecordsInPlace
  <1>1. CASE FopenTemp(p)
    <2>1. temp' \in Inodes
      <3>1. CASE temp # NoFile /\ temp' = temp
        BY <3>1 DEF Inv, TypeOK
      <3>2. CASE /\ \E i \in Inodes : ~InUse(i)
                 /\ temp' = CHOOSE i \in Inodes : ~InUse(i)
        BY <3>2
      <3> QED BY <1>1, <3>1, <3>2 DEF FopenTemp
    <2>2. file' \in [Inodes -> File] /\ \A i \in Inodes : InPlace(file'[i].img)
      BY <1>0, <1>1, <2>1, ConstantTypes DEF FopenTemp, EmptyFile
    <2>3. TypeOK'
      BY <1>1, <2>1, <2>2, LayoutAssumption DEF FopenTemp, Inv, TypeOK
    <2>4. Control'
      BY <1>1, <2>1, LayoutAssumption DEF FopenTemp, Inv, TypeOK, Control
    <2>5. RecordsInPlace'
      BY <1>1, <2>2 DEF FopenTemp, Inv, RecordsInPlace
    <2> QED BY <2>3, <2>4, <2>5 DEF Inv
  <1>2. CASE FopenTempFails(p)
    BY <1>2, EndsInv DEF FopenTempFails
  <1>3. ASSUME pc[p] \in {"fwrite", "fclose"}
        PROVE  /\ fd[p] \in Inodes /\ pos[p] \in 1..NumBlocks
               /\ mem[p] \in Image /\ InPlace(mem[p])
               /\ PutBlock(file[fd[p]], mem[p], pos[p]) \in File
               /\ InPlace(PutBlock(file[fd[p]], mem[p], pos[p]).img)
    <2>1. fd[p] \in Inodes /\ pos[p] \in 1..NumBlocks
      BY <1>3, LayoutAssumption DEF Inv, TypeOK, Control
    <2>2. mem[p] \in Image /\ InPlace(mem[p])
      BY DEF Inv, TypeOK, RecordsInPlace
    <2> QED BY <1>0, <2>1, <2>2, PutBlockFile
  <1>4. CASE FwriteBlock(p)
    <2>1. file' = [file EXCEPT ![fd[p]] = PutBlock(file[fd[p]], mem[p], pos[p])]
      BY <1>4 DEF FwriteBlock
    <2>2. file' \in [Inodes -> File] /\ \A i \in Inodes : InPlace(file'[i].img)
      BY <1>0, <1>3, <1>4, <2>1 DEF FwriteBlock
    <2>3. TypeOK'
      BY <1>3, <1>4, <2>2, LayoutAssumption DEF FwriteBlock, Inv, TypeOK
    <2>4. Control'
      BY <1>4, LayoutAssumption DEF FwriteBlock, Inv, TypeOK, Control
    <2>5. RecordsInPlace'
      BY <1>4, <2>2 DEF FwriteBlock, Inv, RecordsInPlace
    <2> QED BY <2>3, <2>4, <2>5 DEF Inv
  <1>5. CASE Rename(p)
    <2>1. file' \in [Inodes -> File] /\ \A i \in Inodes : InPlace(file'[i].img)
      BY <1>0, <1>5, ReclaimedFile DEF Rename
    <2>2. TypeOK' BY <1>5, <2>1 DEF Rename, Inv, TypeOK
    <2>3. Control' BY <1>5 DEF Rename, Inv, TypeOK, Control
    <2>4. RecordsInPlace' BY <1>5, <2>1 DEF Rename, Inv, RecordsInPlace
    <2> QED BY <2>2, <2>3, <2>4 DEF Inv
  <1>6. CASE Fclose(p)
    <2> DEFINE f == [file EXCEPT ![fd[p]] = PutBlock(@, mem[p], pos[p])]
    <2>1. f \in [Inodes -> File] /\ \A i \in Inodes : InPlace(f[i].img)
      BY <1>0, <1>3, <1>6 DEF Fclose
    <2>2. file' \in [Inodes -> File] /\ \A i \in Inodes : InPlace(file'[i].img)
      <3> HIDE DEF f
      <3>1. Reclaimed(f) BY <1>6 DEF Fclose, f
      <3> QED BY <2>1, <3>1, ReclaimedFile
    <2>3. CASE /\ creating[p]
               /\ Goto(p, "fopen_data")
               /\ fd' = [fd EXCEPT ![p] = NoFile]
               /\ creating' = [creating EXCEPT ![p] = FALSE]
               /\ UNCHANGED <<cmd, mem, pos, done>>
      <3>1. TypeOK' BY <1>6, <2>2, <2>3 DEF Fclose, Inv, TypeOK
      <3>2. Control' BY <1>6, <2>3 DEF Fclose, Inv, TypeOK, Control
      <3>3. RecordsInPlace' BY <2>2, <2>3 DEF Inv, RecordsInPlace
      <3> QED BY <3>1, <3>2, <3>3 DEF Inv
    <2>4. CASE /\ ~creating[p]
               /\ Ends(p)
               /\ done' = IF cmd[p].op = "complete" THEN done \cup {cmd[p].name} ELSE done
      <3>1. cmd[p].op = "complete" => cmd[p].name \in Levels
        BY <1>6, <2>4 DEF Fclose, Inv, Control, CompletesLevel
      <3>2. done' \subseteq Levels
        BY <2>4, <3>1 DEF Inv, TypeOK
      <3>3. TypeOK'
        BY <1>6, <2>2, <2>4, <3>2, EndsProc DEF Fclose, Inv, TypeOK
      <3>4. RecordsInPlace'
        BY <2>2, <2>4, EndsProc DEF RecordsInPlace
      <3> QED BY <2>4, <3>3, <3>4, EndsProc DEF Inv
    <2> QED BY <1>6, <2>3, <2>4 DEF Fclose
  <1> QED BY <1>1, <1>2, <1>4, <1>5, <1>6 DEF SaveData

LEMMA NextInv == Inv /\ [CrashNext]_vars => Inv'
PROOF
  <1> SUFFICES ASSUME Inv, [CrashNext]_vars PROVE Inv'
    OBVIOUS
  <1>1. CASE UNCHANGED vars
    BY <1>1 DEF vars, procVars, fsVars, Inv, TypeOK, Control, RecordsInPlace
  <1>2. ASSUME NEW p \in Procs, Step(p) PROVE Inv'
    BY <1>2, StartInv, LoadInv, ApplyInv, SaveDataInv DEF Step
  <1>3. ASSUME NEW p \in Procs, Crash(p) PROVE Inv'
    BY <1>3, EndsInv DEF Crash
  <1> QED BY <1>1, <1>2, <1>3 DEF CrashNext

(***************************************************************************)
(* Types, for any processes, commands and layout, kills included.          *)
(***************************************************************************)
THEOREM TypeCorrect == CrashSpec => []TypeOK
PROOF
  <1>1. Inv => TypeOK
    BY DEF Inv
  <1> QED BY <1>1, InitInv, NextInv, PTL DEF CrashSpec

(***************************************************************************)
(* However many processes run any commands over the one temporary file,    *)
(* and wherever they are killed, no record of a file or of a process ever  *)
(* sits at another level's index.                                          *)
(***************************************************************************)
THEOREM PlacesKept == CrashSpec => []RecordsInPlace
PROOF
  <1>1. Inv => RecordsInPlace
    BY DEF Inv
  <1> QED BY <1>1, InitInv, NextInv, PTL DEF CrashSpec
=============================================================================
