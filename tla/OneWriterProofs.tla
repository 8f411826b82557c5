-------------------------- MODULE OneWriterProofs ---------------------------
(***************************************************************************)
(* Theorems about DataFile when only one process, w, ever saves: what the  *)
(* order fopen, fwrite, rename, fclose of save_data keeps safe from kills  *)
(* and from processes that load meanwhile.                                 *)
(***************************************************************************)
EXTENDS DataFileProofs

-----------------------------------------------------------------------------
(* The inductive invariant *)

\* a and b have the same contents in the blocks below n.
AgreeBelow(a, b, n) ==
  \A l \in Levels : /\ HeadBlock[l] < n => a[l].head = b[l].head
                    /\ TailBlock[l] < n => a[l].tail = b[l].tail

EarlyWhole(img) ==
  \A l \in Levels : Early(l) => img[l].head.name = l /\ img[l].tail.port

EarlyDone(img) ==
  \A l \in Levels : l \in done /\ Early(l) => img[l].tail.complete

\* No process but w saves, or could want to create a data file.
OnlyReaders(w) ==
  /\ \A p \in Procs \ {w} :
       /\ pc[p] \in {"idle", "access", "fopen_data", "fread", "loaded"}
       /\ pc[p] # "idle" => cmd[p].op = "show"
  /\ data # NoFile \/ Procs = {w}

\* What w writes to is neither the data file nor open in another process.
FilesApart(w) ==
  /\ data # NoFile => data # temp
  /\ \A p \in Procs \ {w} : fd[p] # NoFile => fd[p] # temp

DataKept ==
  /\ data = NoFile => done = {}
  /\ OnlyLastBlockLost
  /\ EarlyProgressKept

\* What w has read agrees with the data file, what it has written with its memory.
WriterKept(w) ==
  /\ pc[w] = "fread" =>
       data = fd[w] /\ AgreeBelow(file[data].img, mem[w], pos[w])
  /\ pc[w] \in {"loaded", "fopen_temp", "fwrite", "fclose"} =>
       EarlyWhole(mem[w]) /\ EarlyDone(mem[w])
  /\ pc[w] \in {"fopen_temp", "fwrite", "fclose"} /\ ~creating[w]
       /\ cmd[w].op = "complete" => mem[w][cmd[w].name].tail.complete
  /\ pc[w] = "fwrite" =>
       /\ temp = fd[w]
       /\ file[temp].len >= pos[w] - 1
       /\ AgreeBelow(file[temp].img, mem[w], pos[w])
  /\ pc[w] = "fclose" =>
       data = fd[w] /\ AgreeBelow(file[data].img, mem[w], NumBlocks)

SoleWriter(w) ==
  /\ OnlyReaders(w)
  /\ FilesApart(w)
  /\ DataKept
  /\ WriterKept(w)

-----------------------------------------------------------------------------
(* Blocks *)

LEMMA EarlyBlocks ==
  ASSUME NEW l \in Levels, Early(l), NEW n \in Nat, n >= NumBlocks
  PROVE  HeadBlock[l] < n /\ TailBlock[l] < n
PROOF
  <1>1. /\ HeadBlock[l] \in Nat /\ TailBlock[l] \in Nat /\ NumBlocks \in Nat
        /\ HeadBlock[l] <= TailBlock[l]
    BY LayoutAssumption DEF Blocks
  <1> QED BY <1>1 DEF Early

\* Agreement below the last block is agreement on every early level.
LEMMA AgreeEarly ==
  ASSUME NEW a, NEW b, NEW n \in Nat, n >= NumBlocks, AgreeBelow(a, b, n)
  PROVE  /\ EarlyWhole(a) <=> EarlyWhole(b)
         /\ EarlyDone(a) <=> EarlyDone(b)
PROOF
  <1>1. \A l \in Levels : Early(l) => a[l].head = b[l].head /\ a[l].tail = b[l].tail
    BY EarlyBlocks DEF AgreeBelow
  <1>2. EarlyWhole(a) <=> EarlyWhole(b)
    BY <1>1 DEF EarlyWhole
  <1>3. EarlyDone(a) <=> EarlyDone(b)
    BY <1>1 DEF EarlyDone
  <1> QED BY <1>2, <1>3

\* One more block is transferred.
LEMMA SpliceAgree ==
  ASSUME NEW f \in Image, NEW m \in Image, NEW n \in 1..NumBlocks
  PROVE  /\ AgreeBelow(f, m, n) => AgreeBelow(f, Splice(m, f, n), n + 1)
         /\ AgreeBelow(f, m, n) => AgreeBelow(Splice(f, m, n), m, n + 1)
         /\ AgreeBelow(f, Splice(f, m, n), n)
PROOF
  <1>1. \A l \in Levels : HeadBlock[l] \in Nat /\ TailBlock[l] \in Nat
    BY LayoutAssumption DEF Blocks
  <1>2. n \in Nat
    BY LayoutAssumption
  <1>3. \A k \in Nat : k < n + 1 <=> k < n \/ k = n
    BY <1>2
  <1>4. \A k \in Nat : k < n => k # n
    BY <1>2
  <1>5. AgreeBelow(f, m, n) => AgreeBelow(f, Splice(m, f, n), n + 1)
    BY <1>1, <1>3 DEF AgreeBelow, Splice
  <1>6. AgreeBelow(f, m, n) => AgreeBelow(Splice(f, m, n), m, n + 1)
    BY <1>1, <1>3 DEF AgreeBelow, Splice
  <1>7. AgreeBelow(f, Splice(f, m, n), n)
    BY <1>1, <1>4 DEF AgreeBelow, Splice
  <1> QED BY <1>5, <1>6, <1>7

-----------------------------------------------------------------------------
(* The first states *)

LEMMA SoleWriterInit ==
  ASSUME NEW w \in Procs, InstalledInit \/ (Init /\ Procs = {w})
  PROVE  SoleWriter(w)
PROOF
  <1>1. CASE Init /\ Procs = {w}
    <2> USE <1>1 DEF Init
    <2>1. OnlyReaders(w) BY DEF OnlyReaders
    <2>2. FilesApart(w) BY DEF FilesApart
    <2>3. DataKept BY DEF DataKept, OnlyLastBlockLost, EarlyProgressKept
    <2>4. WriterKept(w) BY DEF WriterKept
    <2> QED BY <2>1, <2>2, <2>3, <2>4 DEF SoleWriter
  <1>2. CASE InstalledInit
    <2> USE <1>2 DEF InstalledInit
    <2>1. data \in Inodes /\ data # NoFile
      BY InodesAssumption
    <2>2. file[data] = [len |-> NumBlocks, img |-> DefaultImage]
      BY <2>1
    <2>3. EarlyWhole(DefaultImage)
      BY DEF EarlyWhole, DefaultImage
    <2>4. OnlyReaders(w) BY <2>1 DEF OnlyReaders
    <2>5. FilesApart(w) BY <2>1 DEF FilesApart
    <2>6. OnlyLastBlockLost
      BY <2>2, <2>3, LayoutAssumption DEF OnlyLastBlockLost, EarlyWhole
    <2>7. DataKept BY <2>1, <2>6 DEF DataKept, EarlyProgressKept
    <2>8. WriterKept(w) BY DEF WriterKept
    <2> QED BY <2>4, <2>5, <2>7, <2>8 DEF SoleWriter
  <1> QED BY <1>1, <1>2

-----------------------------------------------------------------------------
(* A step of another process *)

\* A step of a process that only loads leaves w, the two names and the files
\* they name alone.
LEMMA ReaderFrame ==
  ASSUME Inv, NEW w \in Procs, SoleWriter(w), NEW p \in Procs \ {w},
         \A c \in Commands[p] : c.op = "show",
         Step(p) \/ Crash(p)
  PROVE  /\ UNCHANGED <<data, temp, done>>
         /\ UNCHANGED file \/ Reclaimed(file)
         /\ UNCHANGED <<pc[w], cmd[w], mem[w], pos[w], fd[w], creating[w]>>
         /\ \A q \in Procs \ {w, p} : UNCHANGED <<pc[q], cmd[q], fd[q]>>
         /\ pc'[p] \in {"idle", "access", "fopen_data", "fread", "loaded"}
         /\ pc'[p] # "idle" => cmd'[p].op = "show"
         /\ fd'[p] \in {NoFile, fd[p], data}
PROOF
  <1> USE DEF Goto, fsVars
  <1>0. /\ data # NoFile
        /\ pc[p] \in {"idle", "access", "fopen_data", "fread", "loaded"}
        /\ pc[p] # "idle" => cmd[p].op = "show"
    BY DEF SoleWriter, OnlyReaders
  <1>T. TypeOK
    BY DEF Inv
  <1>1. CASE \E c \in Commands[p] : Start(p, c)
    BY <1>1, <1>T DEF Start, TypeOK
  <1>2. CASE FoundDataFile(p)
    BY <1>0, <1>2, <1>T DEF FoundDataFile, TypeOK
  <1>3. CASE FopenData(p)
    BY <1>0, <1>3, <1>T DEF FopenData, TypeOK
  <1>4. CASE FreadBlock(p)
    BY <1>0, <1>4, <1>T DEF FreadBlock, TypeOK
  <1>5. CASE FreadDone(p)
    BY <1>0, <1>5, <1>T DEF FreadDone, TypeOK
  <1>6. CASE Show(p) \/ InvalidLevel(p) \/ ConnectEnds(p)
    BY <1>6, <1>T DEF Show, InvalidLevel, ConnectEnds, Ends, TypeOK
  <1>7. CASE Crash(p)
    BY <1>7, <1>T DEF Crash, Ends, TypeOK
  <1>8. ~CreateNewDataFile(p) /\ ~MkdirFails(p)
    BY <1>0 DEF CreateNewDataFile, MkdirFails
  <1>9. /\ ~MarkLevelComplete(p) /\ ~StorePass(p)
        /\ ~ConnectRemembers(p) /\ ~ConnectForgets(p)
    BY <1>0 DEF MarkLevelComplete, StorePass, ConnectRemembers, ConnectForgets
  <1>10. ~SaveData(p)
    BY <1>0 DEF SaveData, FopenTemp, FopenTempFails, FwriteBlock, Rename, Fclose
  <1> QED
    BY <1>1, <1>2, <1>3, <1>4, <1>5, <1>6, <1>7, <1>8, <1>9, <1>10
    DEF Step, Load, Apply

\* Neither taking away unused inodes nor doing nothing changes a named file.
LEMMA NamedFileKept ==
  ASSUME Inv, UNCHANGED file \/ Reclaimed(file), NEW i \in Inodes,
         i \in {data', temp'}
  PROVE  file'[i] = file[i]
PROOF
  <1>1. CASE UNCHANGED file
    BY <1>1
  <1>2. CASE Reclaimed(file)
    <2>1. InUse(i)'
      BY DEF InUse
    <2> QED BY <1>2, <2>1 DEF Reclaimed
  <1> QED BY <1>1, <1>2

LEMMA ReaderStep ==
  ASSUME Inv, NEW w \in Procs, SoleWriter(w), NEW p \in Procs \ {w},
         \A c \in Commands[p] : c.op = "show",
         Step(p) \/ Crash(p)
  PROVE  SoleWriter(w)'
PROOF
  <1>1. /\ UNCHANGED <<data, temp, done>>
        /\ UNCHANGED file \/ Reclaimed(file)
        /\ UNCHANGED <<pc[w], cmd[w], mem[w], pos[w], fd[w], creating[w]>>
        /\ \A q \in Procs \ {w, p} : UNCHANGED <<pc[q], cmd[q], fd[q]>>
        /\ pc'[p] \in {"idle", "access", "fopen_data", "fread", "loaded"}
        /\ pc'[p] # "idle" => cmd'[p].op = "show"
        /\ fd'[p] \in {NoFile, fd[p], data}
    BY ReaderFrame
  <1>2. /\ data # NoFile => file'[data] = file[data]
        /\ temp # NoFile => file'[temp] = file[temp]
    BY <1>1, NamedFileKept DEF Inv, TypeOK
  <1>3. OnlyReaders(w)'
    BY <1>1 DEF SoleWriter, OnlyReaders
  <1>4. FilesApart(w)'
    BY <1>1 DEF SoleWriter, OnlyReaders, FilesApart
  <1>5. DataKept'
    BY <1>1, <1>2 DEF SoleWriter, DataKept, OnlyLastBlockLost, EarlyProgressKept
  <1>6. pc[w] \in {"fread", "fwrite", "fclose"} => fd[w] # NoFile
    BY InodesAssumption DEF Inv, Control
  <1>7. WriterKept(w)'
    BY <1>1, <1>2, <1>6 DEF SoleWriter, WriterKept, EarlyWhole, EarlyDone, AgreeBelow
  <1> QED BY <1>3, <1>4, <1>5, <1>7 DEF SoleWriter

-----------------------------------------------------------------------------
(* A step of w *)

\* A step of one process leaves the others alone.
LEMMA OthersAlone ==
  ASSUME Inv, NEW w \in Procs, Step(w) \/ Crash(w)
  PROVE  \A q \in Procs \ {w} : UNCHANGED <<pc[q], cmd[q], fd[q]>>
PROOF
  <1> USE DEF Goto, fsVars, Ends
  <1>1. CASE Crash(w) BY <1>1 DEF Inv, TypeOK, Crash
  <1>2. CASE \E c \in Commands[w] : Start(w, c) BY <1>2 DEF Inv, TypeOK, Start
  <1>3. CASE Load(w)
    BY <1>3 DEF Inv, TypeOK, Load, FoundDataFile, CreateNewDataFile, MkdirFails,
                FopenData, FreadBlock, FreadDone
  <1>4. CASE Apply(w)
    BY <1>4 DEF Inv, TypeOK, Apply, Show, InvalidLevel, MarkLevelComplete, StorePass,
                ConnectRemembers, ConnectForgets, ConnectEnds, Save
  <1>5. CASE SaveData(w)
    BY <1>5 DEF Inv, TypeOK, SaveData, FopenTemp, FopenTempFails, FwriteBlock, Rename, Fclose
  <1> QED BY <1>1, <1>2, <1>3, <1>4, <1>5 DEF Step

\* A step of w that leaves names and files alone, but for unused inodes.
LEMMA QuietStep ==
  ASSUME Inv, NEW w \in Procs, SoleWriter(w), Step(w) \/ Crash(w),
         UNCHANGED <<data, temp, done>>,
         UNCHANGED file \/ Reclaimed(file),
         WriterKept(w)'
  PROVE  SoleWriter(w)'
PROOF
  <1>1. \A q \in Procs \ {w} : UNCHANGED <<pc[q], cmd[q], fd[q]>>
    BY OthersAlone
  <1>2. data # NoFile => file'[data] = file[data]
    BY NamedFileKept DEF Inv, TypeOK
  <1>3. OnlyReaders(w)'
    BY <1>1 DEF SoleWriter, OnlyReaders
  <1>4. FilesApart(w)'
    BY <1>1 DEF SoleWriter, FilesApart
  <1>5. DataKept'
    BY <1>2 DEF SoleWriter, DataKept, OnlyLastBlockLost, EarlyProgressKept
  <1> QED BY <1>3, <1>4, <1>5 DEF SoleWriter

\* w ends, whatever it was doing.
LEMMA WriterEnds ==
  ASSUME Inv, NEW w \in Procs, SoleWriter(w), Step(w) \/ Crash(w), Ends(w),
         UNCHANGED <<data, temp, done>>,
         UNCHANGED file \/ Reclaimed(file)
  PROVE  SoleWriter(w)'
PROOF
  <1>1. pc'[w] = "idle"
    BY DEF Ends, Inv, TypeOK
  <1>2. WriterKept(w)'
    BY <1>1 DEF WriterKept
  <1> QED BY <1>2, QuietStep

LEMMA WriterLoads ==
  ASSUME Inv, NEW w \in Procs, SoleWriter(w), Load(w)
  PROVE  SoleWriter(w)'
PROOF
  <1> USE DEF Goto, fsVars
  <1>0. Step(w)
    BY DEF Step
  <1>T. TypeOK /\ Control
    BY DEF Inv
  <1>1. CASE FoundDataFile(w)
    <2>1. pc'[w] = "fopen_data"
      BY <1>1, <1>T DEF FoundDataFile, TypeOK
    <2>2. WriterKept(w)'
      BY <2>1 DEF WriterKept
    <2> QED BY <1>0, <1>1, <2>2, QuietStep DEF FoundDataFile
  <1>2. CASE CreateNewDataFile(w)
    <2>1. pc'[w] = "fopen_temp" /\ mem'[w] = DefaultImage /\ creating'[w] = TRUE
      BY <1>2, <1>T DEF CreateNewDataFile, TypeOK
    <2>2. done' = {}
      BY <1>2 DEF CreateNewDataFile, SoleWriter, DataKept
    <2>3. EarlyWhole(mem[w])' /\ EarlyDone(mem[w])'
      BY <2>1, <2>2 DEF EarlyWhole, EarlyDone, DefaultImage
    <2>4. WriterKept(w)'
      BY <2>1, <2>3 DEF WriterKept
    <2> QED BY <1>0, <1>2, <2>4, QuietStep DEF CreateNewDataFile
  <1>3. CASE MkdirFails(w)
    BY <1>0, <1>3, WriterEnds DEF MkdirFails
  <1>4. CASE FopenData(w)
    <2>1. pc'[w] = "fread" /\ fd'[w] = data /\ pos'[w] = 1
      BY <1>4, <1>T DEF FopenData, TypeOK
    <2>2. \A l \in Levels : ~(HeadBlock[l] < 1) /\ ~(TailBlock[l] < 1)
      BY LayoutAssumption DEF Blocks
    <2>3. WriterKept(w)'
      BY <1>4, <2>1, <2>2 DEF FopenData, WriterKept, AgreeBelow
    <2> QED BY <1>0, <1>4, <2>3, QuietStep DEF FopenData
  <1>5. CASE FreadBlock(w)
    <2>1. /\ pc[w] = "fread" /\ data = fd[w] /\ data \in Inodes
          /\ AgreeBelow(file[data].img, mem[w], pos[w])
      BY <1>5, <1>T DEF FreadBlock, SoleWriter, WriterKept, Control
    <2>2. file[data].img \in Image /\ file[data].len \in 0..NumBlocks /\ mem[w] \in Image
      BY <1>T, <2>1 DEF TypeOK, File
    <2>3. pos[w] \in 1..NumBlocks
      BY <1>5, <1>T, <2>1, <2>2, LayoutAssumption DEF FreadBlock, TypeOK
    <2>4. /\ pc'[w] = "fread" /\ pos'[w] = pos[w] + 1
          /\ mem'[w] = Splice(mem[w], file[data].img, pos[w])
      BY <1>5, <1>T, <2>1 DEF FreadBlock, TypeOK
    <2>5. AgreeBelow(file[data].img, mem'[w], pos'[w])
      BY <2>1, <2>2, <2>3, <2>4, SpliceAgree
    <2>6. WriterKept(w)'
      BY <1>5, <2>1, <2>4, <2>5 DEF FreadBlock, WriterKept, AgreeBelow
    <2> QED BY <1>0, <1>5, <2>6, QuietStep DEF FreadBlock
  <1>6. CASE FreadDone(w)
    <2>1. /\ pc[w] = "fread" /\ data = fd[w] /\ data \in Inodes /\ data # NoFile
          /\ AgreeBelow(file[data].img, mem[w], pos[w])
      BY <1>6, <1>T, InodesAssumption DEF FreadDone, SoleWriter, WriterKept, Control
    <2>2. file[data].len >= NumBlocks - 1 /\ pos[w] > file[data].len
      BY <1>6, <2>1 DEF FreadDone, SoleWriter, DataKept, OnlyLastBlockLost
    <2>3. file[data].len \in Nat /\ pos[w] \in Nat
      BY <1>T, <2>1, LayoutAssumption DEF TypeOK, File
    <2>4. pos[w] >= NumBlocks
      BY <2>2, <2>3, LayoutAssumption
    <2>5. EarlyWhole(file[data].img) /\ EarlyDone(file[data].img)
      BY <2>1 DEF SoleWriter, DataKept, OnlyLastBlockLost, EarlyProgressKept, EarlyWhole, EarlyDone
    <2>6. EarlyWhole(mem[w]) /\ EarlyDone(mem[w])
      BY <2>1, <2>3, <2>4, <2>5, AgreeEarly
    <2>7. pc'[w] = "loaded" /\ mem' = mem /\ done' = done
      BY <1>6, <1>T DEF FreadDone, TypeOK
    <2>8. WriterKept(w)'
      BY <2>6, <2>7 DEF WriterKept, EarlyWhole, EarlyDone
    <2> QED BY <1>0, <1>6, <2>8, QuietStep DEF FreadDone
  <1> QED BY <1>1, <1>2, <1>3, <1>4, <1>5, <1>6 DEF Load

\* w changes one record, loses no completion and saves.
LEMMA WriterSaves ==
  ASSUME Inv, NEW w \in Procs, SoleWriter(w), Step(w), pc[w] = "loaded",
         NEW i \in Levels, NEW r \in Record,
         r.head.name = mem[w][i].head.name, r.tail.port = mem[w][i].tail.port,
         mem[w][i].tail.complete => r.tail.complete,
         cmd[w].op = "complete" => cmd[w].name = i /\ r.tail.complete,
         Save(w, i, r)
  PROVE  SoleWriter(w)'
PROOF
  <1> USE DEF Save, Goto, fsVars
  <1>1. /\ pc'[w] = "fopen_temp" /\ cmd' = cmd /\ done' = done
        /\ mem'[w] = [mem[w] EXCEPT ![i] = r]
    BY DEF Inv, TypeOK
  <1>2. mem[w] \in Image
    BY DEF Inv, TypeOK
  <1>3. EarlyWhole(mem[w]) /\ EarlyDone(mem[w])
    BY DEF SoleWriter, WriterKept
  <1>4. EarlyWhole(mem[w])'
    BY <1>1, <1>2, <1>3 DEF EarlyWhole, Image
  <1>5. EarlyDone(mem[w])'
    BY <1>1, <1>2, <1>3 DEF EarlyDone, Image
  <1>6. cmd[w].op = "complete" => mem'[w][cmd[w].name].tail.complete
    BY <1>1, <1>2 DEF Image
  <1>7. WriterKept(w)'
    BY <1>1, <1>4, <1>5, <1>6 DEF WriterKept
  <1> QED BY <1>7, QuietStep

\* What each change keeps of a record.
LEMMA ChangeKeeps ==
  ASSUME NEW r \in Record, NEW s \in Passwords \cup {Unknown, NoPass}, NEW b \in BOOLEAN
  PROVE  /\ Completed(r).tail.port = r.tail.port /\ Completed(r).tail.complete
         /\ WithFlag(r, b).tail.port = r.tail.port
         /\ WithFlag(r, b).tail.complete = r.tail.complete
PROOF
  <1>1. r.tail \in TailHalf
    BY DEF Record
  <1>2. /\ [r.tail EXCEPT !.complete = TRUE].port = r.tail.port
        /\ [r.tail EXCEPT !.complete = TRUE].complete
        /\ [r.tail EXCEPT !.saved = b].port = r.tail.port
        /\ [r.tail EXCEPT !.saved = b].complete = r.tail.complete
    BY <1>1 DEF TailHalf
  <1> QED BY <1>2 DEF Completed, WithFlag

LEMMA WriterApplies ==
  ASSUME Inv, NEW w \in Procs, SoleWriter(w), Apply(w)
  PROVE  SoleWriter(w)'
PROOF
  <1>0. Step(w)
    BY DEF Step
  <1>1. CASE Show(w) \/ InvalidLevel(w) \/ ConnectEnds(w)
    BY <1>0, <1>1, WriterEnds
    DEF Show, InvalidLevel, ConnectEnds, fsVars
  <1>2. ASSUME pc[w] = "loaded", NEW i \in Levels,
               IsFirstMatch(mem[w], cmd[w].name, i) \/ cmd[w].op = "store"
        PROVE  /\ cmd[w].name = i \/ cmd[w].op = "store"
               /\ cmd[w].pass \in Passwords \cup {Unknown, NoPass}
               /\ mem[w][i] \in Record
    <2>1. mem[w] \in Image /\ InPlace(mem[w])
      BY DEF Inv, TypeOK, RecordsInPlace
    <2>2. cmd[w] \in Command
      BY <1>2 DEF Inv, Control
    <2>3. /\ cmd[w].name \in Levels \cup {JunkName}
          /\ cmd[w].pass \in Passwords \cup {Unknown, NoPass}
      BY <2>2 DEF Command
    <2>4. mem[w][i] \in Record
      BY <2>1 DEF Image
    <2> QED BY <1>2, <2>1, <2>3, <2>4, MatchIsLevel
  <1>3. ASSUME NEW r \in Record, NEW s \in Passwords \cup {Unknown, NoPass}, NEW b \in BOOLEAN
        PROVE  LET x == WithFlag(WithPass(r, s), b) IN
               /\ x \in Record /\ x.head.name = r.head.name
               /\ x.tail.port = r.tail.port /\ x.tail.complete = r.tail.complete
    <2>1. WithPass(r, s) \in Record
      BY ChangedRecord
    <2> QED BY <2>1, ChangedRecord, ChangeKeeps
  <1>4. CASE MarkLevelComplete(w)
    <2> PICK i \in Levels : /\ IsFirstMatch(mem[w], cmd[w].name, i)
                            /\ Save(w, i, Completed(mem[w][i]))
      BY <1>4 DEF MarkLevelComplete
    <2>1. pc[w] = "loaded"
      BY <1>4 DEF MarkLevelComplete
    <2> QED BY <1>0, <1>2, <2>1, ChangedRecord, ChangeKeeps, WriterSaves
  <1>5. CASE StorePass(w)
    <2> PICK i \in Levels : Save(w, i, WithFlag(WithPass(mem[w][i], cmd[w].pass), TRUE))
      BY <1>5 DEF StorePass
    <2>1. pc[w] = "loaded" /\ cmd[w].op = "store"
      BY <1>5 DEF StorePass
    <2> QED BY <1>0, <1>2, <1>3, <2>1, WriterSaves
  <1>6. CASE ConnectRemembers(w)
    <2> PICK i \in Levels : /\ IsFirstMatch(mem[w], cmd[w].name, i)
                            /\ Save(w, i, WithFlag(mem[w][i], TRUE))
      BY <1>6 DEF ConnectRemembers
    <2>1. pc[w] = "loaded" /\ cmd[w].op # "complete"
      BY <1>6 DEF ConnectRemembers
    <2> QED BY <1>0, <1>2, <2>1, ChangedRecord, ChangeKeeps, WriterSaves
  <1>7. CASE ConnectForgets(w)
    <2> PICK i \in Levels :
          /\ IsFirstMatch(mem[w], cmd[w].name, i)
          /\ Save(w, i, WithFlag(WithPass(mem[w][i], Unknown), FALSE))
      BY <1>7 DEF ConnectForgets
    <2>1. pc[w] = "loaded" /\ cmd[w].op # "complete"
      BY <1>7 DEF ConnectForgets
    <2> QED BY <1>0, <1>2, <1>3, <2>1, WriterSaves
  <1> QED BY <1>1, <1>4, <1>5, <1>6, <1>7 DEF Apply

\* The file w opens for writing is not the data file, nor open elsewhere.
LEMMA TempApart ==
  ASSUME Inv, NEW w \in Procs, SoleWriter(w), FopenTemp(w)
  PROVE  /\ temp' \in Inodes
         /\ temp' # data
         /\ \A p \in Procs \ {w} : fd[p] # temp'
PROOF
  <1>1. CASE temp # NoFile /\ temp' = temp
    <2>1. temp \in Inodes /\ temp # data
      BY <1>1 DEF Inv, TypeOK, SoleWriter, FilesApart
    <2>2. \A p \in Procs \ {w} : fd[p] # temp
      BY <1>1 DEF SoleWriter, FilesApart
    <2> QED BY <1>1, <2>1, <2>2
  <1>2. CASE /\ \E i \in Inodes : ~InUse(i)
             /\ temp' = CHOOSE i \in Inodes : ~InUse(i)
    <2>1. temp' \in Inodes /\ ~InUse(temp')
      BY <1>2
    <2> QED BY <2>1 DEF InUse
  <1> QED BY <1>1, <1>2 DEF FopenTemp

LEMMA WriterFopens ==
  ASSUME Inv, NEW w \in Procs, SoleWriter(w), FopenTemp(w)
  PROVE  SoleWriter(w)'
PROOF
  <1>1. Step(w)
    BY DEF Step, SaveData
  <1>2. \A q \in Procs \ {w} : UNCHANGED <<pc[q], cmd[q], fd[q]>>
    BY <1>1, OthersAlone
  <1>3. /\ temp' \in Inodes /\ temp' # data
        /\ \A p \in Procs \ {w} : fd[p] # temp'
    BY TempApart
  <1>4. /\ UNCHANGED <<data, cmd, mem, creating, done>>
        /\ file' = [file EXCEPT ![temp'] = EmptyFile]
        /\ pc[w] = "fopen_temp" /\ pc'[w] = "fwrite"
        /\ fd'[w] = temp' /\ pos'[w] = 1
    BY DEF FopenTemp, Goto, Inv, TypeOK
  <1>5. /\ data # NoFile => file'[data] = file[data]
        /\ file'[temp'].len = 0
    BY <1>3, <1>4 DEF Inv, TypeOK, EmptyFile
  <1>6. OnlyReaders(w)'
    BY <1>2, <1>4 DEF SoleWriter, OnlyReaders
  <1>7. FilesApart(w)'
    BY <1>2, <1>3, <1>4 DEF FilesApart
  <1>8. DataKept'
    BY <1>4, <1>5 DEF SoleWriter, DataKept, OnlyLastBlockLost, EarlyProgressKept
  <1>9. \A l \in Levels : ~(HeadBlock[l] < 1) /\ ~(TailBlock[l] < 1)
    BY LayoutAssumption DEF Blocks
  <1>10. WriterKept(w)'
    BY <1>4, <1>5, <1>9 DEF SoleWriter, WriterKept, EarlyWhole, EarlyDone, AgreeBelow
  <1> QED BY <1>6, <1>7, <1>8, <1>10 DEF SoleWriter

LEMMA WriterFwrites ==
  ASSUME Inv, NEW w \in Procs, SoleWriter(w), FwriteBlock(w)
  PROVE  SoleWriter(w)'
PROOF
  <1>1. Step(w)
    BY DEF Step, SaveData
  <1>2. \A q \in Procs \ {w} : UNCHANGED <<pc[q], cmd[q], fd[q]>>
    BY <1>1, OthersAlone
  <1> DEFINE f == file[temp]
             g == PutBlock(f, mem[w], pos[w])
  <1>3. /\ UNCHANGED <<data, temp, cmd, mem, fd, pc, creating, done>>
        /\ pc[w] = "fwrite" /\ temp = fd[w] /\ temp \in Inodes /\ temp # data
        /\ pos[w] \in 1..NumBlocks /\ pos'[w] = pos[w] + 1
        /\ file' = [file EXCEPT ![temp] = g]
    BY LayoutAssumption, InodesAssumption
    DEF FwriteBlock, Inv, TypeOK, Control, SoleWriter, FilesApart, WriterKept
  <1>4. f \in File /\ f.img \in Image /\ f.len \in 0..NumBlocks /\ mem[w] \in Image
    BY <1>3 DEF Inv, TypeOK, File
  <1>5. f.len >= pos[w] - 1 /\ AgreeBelow(f.img, mem[w], pos[w])
    BY <1>3 DEF SoleWriter, WriterKept
  <1>6. g.img = Splice(f.img, mem[w], pos[w]) /\ g.len = IF f.len < pos[w] THEN pos[w] ELSE f.len
    BY DEF PutBlock
  <1>7. g.len >= pos'[w] - 1
    BY <1>3, <1>4, <1>6, LayoutAssumption
  <1>8. AgreeBelow(g.img, mem[w], pos'[w])
    BY <1>3, <1>4, <1>5, <1>6, SpliceAgree
  <1>9. file'[temp] = g /\ (data # NoFile => file'[data] = file[data])
    <2> HIDE DEF g
    <2> QED BY <1>3 DEF Inv, TypeOK
  <1> HIDE DEF f, g
  <1>10. OnlyReaders(w)'
    BY <1>2, <1>3 DEF SoleWriter, OnlyReaders
  <1>11. FilesApart(w)'
    BY <1>2, <1>3 DEF SoleWriter, FilesApart
  <1>12. DataKept'
    BY <1>3, <1>9 DEF SoleWriter, DataKept, OnlyLastBlockLost, EarlyProgressKept
  <1>13. WriterKept(w)'
    BY <1>3, <1>7, <1>8, <1>9 DEF SoleWriter, WriterKept, EarlyWhole, EarlyDone, AgreeBelow
  <1> QED BY <1>10, <1>11, <1>12, <1>13 DEF SoleWriter

LEMMA WriterRenames ==
  ASSUME Inv, NEW w \in Procs, SoleWriter(w), Rename(w)
  PROVE  SoleWriter(w)'
PROOF
  <1>1. Step(w)
    BY DEF Step, SaveData
  <1>2. \A q \in Procs \ {w} : UNCHANGED <<pc[q], cmd[q], fd[q]>>
    BY <1>1, OthersAlone
  <1>3. /\ pc[w] = "fwrite" /\ pos[w] = NumBlocks /\ temp = fd[w] /\ temp \in Inodes
        /\ file[temp].len >= NumBlocks - 1
        /\ AgreeBelow(file[temp].img, mem[w], NumBlocks)
        /\ EarlyWhole(mem[w]) /\ EarlyDone(mem[w])
    BY DEF Rename, Inv, Control, SoleWriter, WriterKept
  <1>4. /\ data' = temp /\ temp' = NoFile /\ temp # NoFile
        /\ UNCHANGED <<cmd, mem, pos, fd, creating, done>>
        /\ pc'[w] = "fclose" /\ Reclaimed(file)
    BY <1>3, InodesAssumption DEF Rename, Goto, Inv, TypeOK
  <1>5. file'[data'] = file[temp]
    BY <1>3, <1>4, NamedFileKept
  <1>6. EarlyWhole(file[temp].img) /\ EarlyDone(file[temp].img)
    BY <1>3, AgreeEarly, LayoutAssumption
  <1>7. OnlyReaders(w)'
    BY <1>2, <1>4 DEF SoleWriter, OnlyReaders
  <1>8. FilesApart(w)'
    BY <1>2, <1>4 DEF FilesApart
  <1>9. DataKept'
    BY <1>3, <1>4, <1>5, <1>6
    DEF DataKept, OnlyLastBlockLost, EarlyProgressKept, EarlyWhole, EarlyDone, Inv, TypeOK
  <1>10. WriterKept(w)'
    BY <1>3, <1>4, <1>5 DEF SoleWriter, WriterKept, EarlyWhole, EarlyDone, AgreeBelow
  <1> QED BY <1>7, <1>8, <1>9, <1>10 DEF SoleWriter

\* fclose completes the data file; what it adds is in the last block.
LEMMA WriterFcloses ==
  ASSUME Inv, NEW w \in Procs, SoleWriter(w), Fclose(w)
  PROVE  SoleWriter(w)'
PROOF
  <1>1. Step(w)
    BY DEF Step, SaveData
  <1>2. \A q \in Procs \ {w} : UNCHANGED <<pc[q], cmd[q], fd[q]>>
    BY <1>1, OthersAlone
  <1> DEFINE f == file[data]
             g == PutBlock(f, mem[w], NumBlocks)
  <1>3. /\ pc[w] = "fclose" /\ pos[w] = NumBlocks /\ data = fd[w]
        /\ data \in Inodes /\ data # NoFile /\ UNCHANGED <<data, temp>>
        /\ AgreeBelow(f.img, mem[w], NumBlocks)
        /\ EarlyWhole(mem[w]) /\ EarlyDone(mem[w])
    BY InodesAssumption DEF Fclose, Inv, Control, SoleWriter, WriterKept
  <1>4. f \in File /\ f.img \in Image /\ f.len \in 0..NumBlocks /\ mem[w] \in Image
    BY <1>3 DEF Inv, TypeOK, File
  <1>5. file'[data] = g
    <2>1. InUse(data)'
      BY <1>3 DEF InUse
    <2>2. Reclaimed([file EXCEPT ![data] = g])
      BY <1>3 DEF Fclose
    <2> HIDE DEF g
    <2>3. [file EXCEPT ![data] = g][data] = g
      BY <1>3 DEF Inv, TypeOK
    <2> QED BY <1>3, <2>1, <2>2, <2>3 DEF Reclaimed
  <1>6. g.img = Splice(f.img, mem[w], NumBlocks) /\ g.len >= NumBlocks - 1
    BY <1>4, LayoutAssumption DEF PutBlock
  <1>7. AgreeBelow(f.img, g.img, NumBlocks)
    BY <1>4, <1>6, LayoutAssumption, SpliceAgree
  <1>8. EarlyWhole(g.img) /\ EarlyDone(g.img)
    BY <1>3, <1>7, AgreeEarly, LayoutAssumption
  <1>9. \A l \in done' : Early(l) => g.img[l].tail.complete
    <2>1. ASSUME NEW l \in done', Early(l), l \notin done
          PROVE  g.img[l].tail.complete
      <3>1. ~creating[w] /\ cmd[w].op = "complete" /\ l = cmd[w].name /\ l \in Levels
        BY <1>3, <2>1 DEF Fclose, Inv, Control, CompletesLevel
      <3>2. mem[w][l].tail.complete
        BY <1>3, <3>1 DEF SoleWriter, WriterKept
      <3>3. TailBlock[l] < NumBlocks
        BY <2>1 DEF Early
      <3>4. mem[w][l].tail = f.img[l].tail /\ f.img[l].tail = g.img[l].tail
        BY <1>3, <1>7, <3>1, <3>3 DEF AgreeBelow
      <3> QED BY <3>2, <3>4
    <2> QED BY <1>8, <2>1 DEF EarlyDone, Inv, TypeOK
  <1> HIDE DEF f, g
  <1>10. OnlyReaders(w)'
    BY <1>2, <1>3 DEF SoleWriter, OnlyReaders
  <1>11. FilesApart(w)'
    BY <1>2, <1>3 DEF SoleWriter, FilesApart
  <1>12. DataKept'
    BY <1>3, <1>5, <1>6, <1>8, <1>9
    DEF DataKept, OnlyLastBlockLost, EarlyProgressKept, EarlyWhole
  <1>13. pc'[w] \in {"idle", "fopen_data"}
    BY DEF Fclose, Goto, Ends, Inv, TypeOK
  <1>14. WriterKept(w)'
    BY <1>13 DEF WriterKept
  <1> QED BY <1>10, <1>11, <1>12, <1>14 DEF SoleWriter

LEMMA WriterStep ==
  ASSUME Inv, NEW w \in Procs, SoleWriter(w), Step(w) \/ Crash(w)
  PROVE  SoleWriter(w)'
PROOF
  <1>1. CASE \E c \in Commands[w] : Start(w, c)
    <2>1. pc'[w] = "access"
      BY <1>1 DEF Start, Goto, Inv, TypeOK
    <2>2. WriterKept(w)'
      BY <2>1 DEF WriterKept
    <2> QED BY <1>1, <2>2, QuietStep DEF Start, fsVars
  <1>2. CASE Load(w)
    BY <1>2, WriterLoads
  <1>3. CASE Apply(w)
    BY <1>3, WriterApplies
  <1>4. CASE FopenTempFails(w)
    BY <1>4, WriterEnds DEF FopenTempFails, fsVars
  <1>5. CASE SaveData(w)
    BY <1>4, <1>5, WriterFopens, WriterFwrites, WriterRenames, WriterFcloses DEF SaveData
  <1>6. CASE Crash(w)
    BY <1>6, WriterEnds DEF Crash
  <1> QED BY <1>1, <1>2, <1>3, <1>5, <1>6 DEF Step

-----------------------------------------------------------------------------
(* The theorems *)

LEMMA SoleWriterNext ==
  ASSUME NEW w \in Procs,
         \A p \in Procs \ {w} : \A c \in Commands[p] : c.op = "show"
  PROVE  Inv /\ SoleWriter(w) /\ [CrashNext]_vars => SoleWriter(w)'
PROOF
  <1> SUFFICES ASSUME Inv, SoleWriter(w), [CrashNext]_vars PROVE SoleWriter(w)'
    OBVIOUS
  <1>1. CASE UNCHANGED vars
    BY <1>1
    DEF vars, procVars, fsVars, SoleWriter, OnlyReaders, FilesApart, DataKept,
        OnlyLastBlockLost, EarlyProgressKept, WriterKept, EarlyWhole, EarlyDone, AgreeBelow
  <1>2. ASSUME NEW p \in Procs, Step(p) \/ Crash(p) PROVE SoleWriter(w)'
    BY <1>2, WriterStep, ReaderStep
  <1> QED BY <1>1, <1>2 DEF CrashNext

(***************************************************************************)
(* One process alone, on any layout, from an empty directory and killed    *)
(* anywhere: the data file always holds the records of every block but the *)
(* last.  save_data may rename before it has written everything, but never *)
(* before it has written those.                                            *)
(***************************************************************************)
THEOREM AloneLosesLastBlock ==
  ASSUME NEW w \in Procs, Procs = {w}
  PROVE  CrashSpec => []OnlyLastBlockLost
PROOF
  <1>1. Init => Inv /\ SoleWriter(w)
    BY InitInv, SoleWriterInit
  <1>2. Inv /\ SoleWriter(w) /\ [CrashNext]_vars => Inv' /\ SoleWriter(w)'
    BY NextInv, SoleWriterNext
  <1>3. SoleWriter(w) => OnlyLastBlockLost
    BY DEF SoleWriter, DataKept
  <1> QED BY <1>1, <1>2, <1>3, PTL DEF CrashSpec

(***************************************************************************)
(* One process alone, killed anywhere: a level of another block than the   *)
(* last that was marked complete stays complete in the data file.          *)
(***************************************************************************)
THEOREM AloneKeepsProgress ==
  ASSUME NEW w \in Procs, Procs = {w}
  PROVE  CrashSpec => []EarlyProgressKept
PROOF
  <1>1. Init => Inv /\ SoleWriter(w)
    BY InitInv, SoleWriterInit
  <1>2. Inv /\ SoleWriter(w) /\ [CrashNext]_vars => Inv' /\ SoleWriter(w)'
    BY NextInv, SoleWriterNext
  <1>3. SoleWriter(w) => EarlyProgressKept
    BY DEF SoleWriter, DataKept
  <1> QED BY <1>1, <1>2, <1>3, PTL DEF CrashSpec

(***************************************************************************)
(* The same two beside any number of processes that only print.            *)
(***************************************************************************)
THEOREM ReadersKeepData ==
  ASSUME NEW w \in Procs,
         \A p \in Procs \ {w} : \A c \in Commands[p] : c.op = "show"
  PROVE  InstalledSpec => [](OnlyLastBlockLost /\ EarlyProgressKept)
PROOF
  <1>1. InstalledInit => Inv /\ SoleWriter(w)
    BY InstalledInitInv, SoleWriterInit
  <1>2. Inv /\ SoleWriter(w) /\ [CrashNext]_vars => Inv' /\ SoleWriter(w)'
    BY NextInv, SoleWriterNext
  <1>3. SoleWriter(w) => OnlyLastBlockLost /\ EarlyProgressKept
    BY DEF SoleWriter, DataKept
  <1> QED BY <1>1, <1>2, <1>3, PTL DEF InstalledSpec

-----------------------------------------------------------------------------
(* What a load sees *)

\* Files that agree below the last block show a load the same halves there.
LEMMA SameHalves ==
  ASSUME NEW a, NEW b, AgreeBelow(a, b, NumBlocks)
  PROVE  EarlyHalves(a) = EarlyHalves(b)
PROOF
  BY DEF EarlyHalves, AgreeBelow

LEMMA LoadedFileKept ==
  ASSUME Inv, NEW p \in Procs, pc'[p] = "fread", fd'[p] = fd[p], pc[p] = "fread",
         NEW f, Reclaimed(f)
  PROVE  file'[fd[p]] = f[fd[p]]
PROOF
  <1>1. fd[p] \in Inodes
    BY DEF Inv, Control
  <1>2. InUse(fd[p])'
    BY DEF InUse
  <1> QED BY <1>1, <1>2 DEF Reclaimed

LEMMA StaysInFread ==
  ASSUME Inv, NEW p \in Procs, Step(p) \/ Crash(p), pc[p] = "fread", pc'[p] = "fread"
  PROVE  UNCHANGED <<file, fd>>
PROOF
  <1>1. CASE FreadBlock(p)
    BY <1>1 DEF FreadBlock, fsVars
  <1>2. ~Crash(p) /\ ~FreadDone(p)
    BY DEF Crash, Ends, FreadDone, Goto, Inv, TypeOK
  <1> QED BY <1>1, <1>2
    DEF Step, Start, Load, FoundDataFile, CreateNewDataFile, MkdirFails, FopenData,
        Apply, Show, InvalidLevel, MarkLevelComplete, StorePass,
        ConnectRemembers, ConnectForgets, ConnectEnds,
        SaveData, FopenTemp, FopenTempFails, FwriteBlock, Rename, Fclose

LEMMA WriterLeavesLoads ==
  ASSUME Inv, NEW w \in Procs, SoleWriter(w), Step(w) \/ Crash(w),
         NEW p \in Procs \ {w}, pc[p] = "fread", pc'[p] = "fread"
  PROVE  EarlyHalves(file'[fd[p]].img) = EarlyHalves(file[fd[p]].img)
PROOF
  <1>0. fd[p] \in Inodes /\ fd[p] # temp /\ fd'[p] = fd[p]
    BY OthersAlone, InodesAssumption DEF Inv, Control, SoleWriter, FilesApart
  <1>1. CASE UNCHANGED file \/ Reclaimed(file)
    BY <1>0, <1>1, LoadedFileKept
  <1>2. CASE FopenTemp(w)
    <2>1. file' = [file EXCEPT ![temp'] = EmptyFile] /\ fd[p] # temp'
      BY <1>2, TempApart DEF FopenTemp
    <2> QED BY <1>0, <2>1 DEF Inv, TypeOK
  <1>3. CASE FwriteBlock(w)
    <2> DEFINE g == PutBlock(file[fd[w]], mem[w], pos[w])
    <2>1. file' = [file EXCEPT ![fd[w]] = g] /\ fd[w] = temp
      BY <1>3 DEF FwriteBlock, SoleWriter, WriterKept
    <2> HIDE DEF g
    <2> QED BY <1>0, <2>1 DEF Inv, TypeOK
  <1>4. CASE Fclose(w)
    <2> DEFINE f == file[fd[w]]
               g == PutBlock(f, mem[w], NumBlocks)
    <2>1. pos[w] = NumBlocks /\ fd[w] \in Inodes
      BY <1>4 DEF Fclose, Inv, Control
    <2>2. Reclaimed([file EXCEPT ![fd[w]] = g])
      BY <1>4, <2>1 DEF Fclose
    <2>3. file'[fd[p]] = [file EXCEPT ![fd[w]] = g][fd[p]]
      BY <1>0, <2>2, LoadedFileKept
    <2>4. f.img \in Image /\ mem[w] \in Image
      BY <2>1 DEF Inv, TypeOK, File
    <2>5. AgreeBelow(f.img, g.img, NumBlocks)
      BY <2>4, SpliceAgree, LayoutAssumption DEF PutBlock
    <2>6. EarlyHalves(f.img) = EarlyHalves(g.img)
      BY <2>5, SameHalves
    <2> HIDE DEF g
    <2> QED BY <1>0, <2>1, <2>3, <2>6 DEF Inv, TypeOK
  <1>5. ~(UNCHANGED file \/ Reclaimed(file)) => FopenTemp(w) \/ FwriteBlock(w) \/ Fclose(w)
    BY DEF Step, Start, Load, FoundDataFile, CreateNewDataFile, MkdirFails, FopenData,
           FreadBlock, FreadDone, Apply, Show, InvalidLevel, MarkLevelComplete, StorePass,
           ConnectRemembers, ConnectForgets, ConnectEnds, Save,
           SaveData, FopenTempFails, Rename, Crash, fsVars
  <1> QED BY <1>1, <1>2, <1>3, <1>4, <1>5

LEMMA LoadsUndisturbed ==
  ASSUME NEW w \in Procs,
         \A p \in Procs \ {w} : \A c \in Commands[p] : c.op = "show",
         Inv, SoleWriter(w), [CrashNext]_vars,
         NEW p \in Procs, pc[p] = "fread", pc'[p] = "fread"
  PROVE  EarlyHalves(file'[fd[p]].img) = EarlyHalves(file[fd[p]].img)
PROOF
  <1>1. CASE UNCHANGED vars
    BY <1>1 DEF vars, fsVars
  <1>2. ASSUME NEW q \in Procs, Step(q) \/ Crash(q)
        PROVE  EarlyHalves(file'[fd[p]].img) = EarlyHalves(file[fd[p]].img)
    <2>1. CASE q = p
      BY <1>2, <2>1, StaysInFread
    <2>2. CASE q # p /\ q = w
      BY <1>2, <2>2, WriterLeavesLoads
    <2>3. CASE q # p /\ q # w
      <3>1. UNCHANGED file \/ Reclaimed(file)
        BY <1>2, <2>3, ReaderFrame
      <3>2. fd'[p] = fd[p]
        BY <1>2, <2>3, OthersAlone
      <3> QED BY <3>1, <3>2, LoadedFileKept
    <2> QED BY <2>1, <2>2, <2>3
  <1> QED BY <1>1, <1>2 DEF CrashNext

(***************************************************************************)
(* Beside any number of processes that only print, no step changes a block *)
(* but the last of a file while a process loads it.                        *)
(***************************************************************************)
THEOREM LoadsAreStable ==
  ASSUME NEW w \in Procs,
         \A p \in Procs \ {w} : \A c \in Commands[p] : c.op = "show"
  PROVE  InstalledSpec => ReadersFileStable
PROOF
  <1>1. InstalledInit => Inv /\ SoleWriter(w)
    BY InstalledInitInv, SoleWriterInit
  <1>2. Inv /\ SoleWriter(w) /\ [CrashNext]_vars => Inv' /\ SoleWriter(w)'
    BY NextInv, SoleWriterNext
  <1>3. Inv /\ SoleWriter(w) /\ [CrashNext]_vars =>
          [\A p \in Procs :
             pc[p] = "fread" /\ pc'[p] = "fread" =>
               EarlyHalves(file'[fd[p]].img) = EarlyHalves(file[fd[p]].img)]_vars
    BY LoadsUndisturbed
  <1> QED BY <1>1, <1>2, <1>3, PTL DEF InstalledSpec, ReadersFileStable
=============================================================================
