----------------------------- MODULE StoreProofs -----------------------------
(***************************************************************************)
(* Theorems about Program when one process, w, runs at a time and none is  *)
(* killed: the file implements the abstract store, and nothing happens to  *)
(* a level but what the command line asks for.  The last section is about  *)
(* DataFile with kills: what of the store they leave.                      *)
(***************************************************************************)
EXTENDS OneWriterProofs, Program, SequenceTheorems, FiniteSetTheorems, WellFoundedInduction

-----------------------------------------------------------------------------
(* The inductive invariant *)

\* What command c makes of a record.
Change(old, new, c) ==
  \/ c.op = "complete" /\ new = Completed(old)
  \/ c.op = "store" /\ new = WithFlag(WithPass(old, c.pass), TRUE)
  \/ c.op = "connect" /\ ~old.tail.saved /\ new = WithFlag(old, TRUE)
  \/ c.op = "connect" /\ old.tail.saved /\ new = WithFlag(WithPass(old, Unknown), FALSE)

\* new is old after command c, which changes the level it names, or with -s any.
ChangedBy(old, new, c) ==
  \E i \in Levels :
    /\ c.name = i \/ c.op = "store"
    /\ Change(old[i], new[i], c)
    /\ new = [old EXCEPT ![i] = new[i]]

\* Which files there are, and which of them is whole.
FilesKnown(w) ==
  /\ data = NoFile => pc[w] \in {"idle", "access"} \/ creating[w]
  /\ creating[w] => /\ mem[w] = DefaultImage
                    /\ pc[w] \in {"fopen_temp", "fwrite", "fclose"}
                    /\ pc[w] # "fclose" => data = NoFile
  /\ IF pc[w] = "fwrite" THEN temp = fd[w] /\ temp # data ELSE temp = NoFile
  /\ data # NoFile /\ pc[w] # "fclose" => file[data].len = NumBlocks

\* What w has in memory, and in the file it writes.
MemoryKnown(w) ==
  /\ pc[w] = "fread" => fd[w] = data /\ AgreeBelow(file[data].img, mem[w], pos[w])
  /\ pc[w] = "loaded" => mem[w] = file[data].img
  /\ pc[w] \in {"fopen_temp", "fwrite"} /\ ~creating[w] =>
       ChangedBy(file[data].img, mem[w], cmd[w])
  /\ pc[w] = "fwrite" => /\ file[temp].len = pos[w] - 1
                         /\ AgreeBelow(file[temp].img, mem[w], pos[w])
  /\ pc[w] = "fclose" => /\ fd[w] = data
                         /\ file[data].len = NumBlocks - 1
                         /\ AgreeBelow(file[data].img, mem[w], NumBlocks)

Alone(w) == Inv /\ FilesKnown(w) /\ MemoryKnown(w)

\* The stored image of DataFile, when w is alone.
Held(w) ==
  IF pc[w] = "fclose" THEN mem[w]
  ELSE IF data = NoFile THEN DefaultImage ELSE file[data].img

-----------------------------------------------------------------------------
(* Images *)

LEMMA StoredIsHeld ==
  ASSUME NEW w \in Procs, Procs = {w}
  PROVE  StoredImage = Held(w) /\ StoredImage' = Held(w)'
PROOF
  <1>1. (\E p \in Procs : pc[p] = "fclose") <=> pc[w] = "fclose"
    OBVIOUS
  <1>2. (\E p \in Procs : pc'[p] = "fclose") <=> pc'[w] = "fclose"
    OBVIOUS
  <1>3. pc[w] = "fclose" => (CHOOSE p \in Procs : pc[p] = "fclose") = w
    OBVIOUS
  <1>4. pc'[w] = "fclose" => (CHOOSE p \in Procs : pc'[p] = "fclose") = w
    OBVIOUS
  <1> QED BY <1>1, <1>2, <1>3, <1>4 DEF StoredImage, Held

\* Images that agree in every block are the same.
LEMMA AgreeAll ==
  ASSUME NEW a \in Image, NEW b \in Image, NEW n \in Nat, n > NumBlocks, AgreeBelow(a, b, n)
  PROVE  a = b
PROOF
  <1>1. \A l \in Levels : HeadBlock[l] < n /\ TailBlock[l] < n
    BY LayoutAssumption DEF Blocks
  <1>2. \A l \in Levels : a[l].head = b[l].head /\ a[l].tail = b[l].tail
    BY <1>1 DEF AgreeBelow
  <1>3. \A l \in Levels : a[l] \in Record /\ b[l] \in Record
    BY DEF Image
  <1>4. \A l \in Levels : a[l] = b[l]
    BY <1>2, <1>3 DEF Record
  <1> QED BY <1>4 DEF Image

LEMMA AgreeNone ==
  ASSUME NEW a, NEW b
  PROVE  AgreeBelow(a, b, 1)
PROOF
  <1>1. \A l \in Levels : ~(HeadBlock[l] < 1) /\ ~(TailBlock[l] < 1)
    BY LayoutAssumption DEF Blocks
  <1> QED BY <1>1 DEF AgreeBelow

-----------------------------------------------------------------------------
(* A step of w that writes no file *)

\* w ends, and had not begun to write.
LEMMA EndsAlone ==
  ASSUME NEW w \in Procs, Alone(w), Ends(w), pc[w] \notin {"fwrite", "fclose"},
         UNCHANGED <<data, temp>>, UNCHANGED file \/ Reclaimed(file)
  PROVE  FilesKnown(w)' /\ MemoryKnown(w)' /\ Held(w)' = Held(w)
PROOF
  <1>1. pc'[w] = "idle" /\ creating'[w] = FALSE
    BY DEF Ends, Alone, Inv, TypeOK
  <1>2. data # NoFile => file'[data] = file[data]
    BY NamedFileKept DEF Alone, Inv, TypeOK
  <1>3. FilesKnown(w)'
    BY <1>1, <1>2 DEF Alone, FilesKnown
  <1>4. MemoryKnown(w)'
    BY <1>1 DEF MemoryKnown
  <1> QED BY <1>1, <1>2, <1>3, <1>4 DEF Held

LEMMA StartAlone ==
  ASSUME NEW w \in Procs, Alone(w), NEW c, Start(w, c)
  PROVE  FilesKnown(w)' /\ MemoryKnown(w)' /\ Held(w)' = Held(w)
PROOF
  <1>1. /\ pc[w] = "idle" /\ pc'[w] = "access"
        /\ UNCHANGED <<mem, pos, fd, creating, data, temp, file>>
    BY DEF Start, Goto, fsVars, Alone, Inv, TypeOK
  <1>2. FilesKnown(w)'
    BY <1>1 DEF Alone, FilesKnown
  <1>3. MemoryKnown(w)'
    BY <1>1 DEF MemoryKnown
  <1> QED BY <1>1, <1>2, <1>3 DEF Held

LEMMA LoadAlone ==
  ASSUME NEW w \in Procs, Alone(w), Load(w)
  PROVE  FilesKnown(w)' /\ MemoryKnown(w)' /\ Held(w)' = Held(w)
PROOF
  <1> USE DEF Goto, fsVars
  <1>T. TypeOK /\ Control /\ FilesKnown(w) /\ MemoryKnown(w)
    BY DEF Alone, Inv
  <1>1. CASE FoundDataFile(w)
    <2>1. /\ pc[w] = "access" /\ pc'[w] = "fopen_data" /\ data # NoFile
          /\ UNCHANGED <<mem, pos, fd, creating, data, temp, file>>
      BY <1>1, <1>T DEF FoundDataFile, TypeOK
    <2> QED BY <1>T, <2>1 DEF FilesKnown, MemoryKnown, Held
  <1>2. CASE CreateNewDataFile(w)
    <2>1. /\ pc[w] = "access" /\ pc'[w] = "fopen_temp" /\ data = NoFile
          /\ mem'[w] = DefaultImage /\ creating'[w] = TRUE
          /\ UNCHANGED <<pos, fd, data, temp, file>>
      BY <1>2, <1>T DEF CreateNewDataFile, TypeOK
    <2> QED BY <1>T, <2>1 DEF FilesKnown, MemoryKnown, Held
  <1>3. CASE MkdirFails(w)
    BY <1>3, EndsAlone DEF MkdirFails
  <1>4. CASE FopenData(w)
    <2>1. /\ pc[w] = "fopen_data" /\ pc'[w] = "fread" /\ data # NoFile
          /\ fd'[w] = data /\ pos'[w] = 1
          /\ UNCHANGED <<mem, creating, data, temp, file>>
      BY <1>4, <1>T DEF FopenData, TypeOK
    <2>2. FilesKnown(w)'
      BY <1>T, <2>1 DEF FilesKnown
    <2>3. MemoryKnown(w)'
      BY <2>1, AgreeNone DEF MemoryKnown
    <2> QED BY <2>1, <2>2, <2>3 DEF Held
  <1>5. CASE FreadBlock(w)
    <2>1. /\ pc[w] = "fread" /\ pc'[w] = "fread"
          /\ pos[w] <= file[fd[w]].len
          /\ mem'[w] = Splice(mem[w], file[fd[w]].img, pos[w]) /\ pos'[w] = pos[w] + 1
          /\ UNCHANGED <<fd, creating, data, temp, file>>
      BY <1>5, <1>T DEF FreadBlock, TypeOK
    <2>2. fd[w] = data /\ data \in Inodes /\ AgreeBelow(file[data].img, mem[w], pos[w])
      BY <1>T, <2>1 DEF MemoryKnown, Control
    <2>3. file[data].img \in Image /\ file[data].len \in 0..NumBlocks /\ mem[w] \in Image
      BY <1>T, <2>2 DEF TypeOK, File
    <2>4. pos[w] \in 1..NumBlocks
      BY <1>T, <2>1, <2>2, <2>3, LayoutAssumption DEF TypeOK
    <2>5. AgreeBelow(file[data].img, Splice(mem[w], file[data].img, pos[w]), pos[w] + 1)
      BY <2>2, <2>3, <2>4, SpliceAgree
    <2>6. ~creating[w]
      BY <1>T, <2>1 DEF FilesKnown
    <2>7. FilesKnown(w)'
      BY <1>T, <2>1, <2>6 DEF FilesKnown
    <2>8. MemoryKnown(w)'
      BY <2>1, <2>2, <2>5 DEF MemoryKnown
    <2> QED BY <2>1, <2>7, <2>8 DEF Held
  <1>6. CASE FreadDone(w)
    <2>1. /\ pc[w] = "fread" /\ pc'[w] = "loaded" /\ pos[w] > file[fd[w]].len
          /\ UNCHANGED <<mem, creating, data, temp>> /\ Reclaimed(file)
      BY <1>6, <1>T DEF FreadDone, TypeOK
    <2>2. fd[w] = data /\ data \in Inodes /\ AgreeBelow(file[data].img, mem[w], pos[w])
      BY <1>T, <2>1 DEF MemoryKnown, Control
    <2>3. file[data].len = NumBlocks
      BY <1>T, <2>1, <2>2, InodesAssumption DEF FilesKnown
    <2>4. file[data].img \in Image /\ mem[w] \in Image /\ pos[w] \in Nat
      BY <1>T, <2>2 DEF TypeOK, File
    <2>5. mem[w] = file[data].img
      BY <2>1, <2>2, <2>3, <2>4, AgreeAll
    <2>6. file'[data] = file[data]
      BY <2>1, <2>2, NamedFileKept DEF Alone
    <2>7. FilesKnown(w)'
      BY <1>T, <2>1, <2>2, <2>6 DEF FilesKnown
    <2>8. MemoryKnown(w)'
      BY <2>1, <2>5, <2>6 DEF MemoryKnown
    <2> QED BY <2>1, <2>6, <2>7, <2>8 DEF Held
  <1> QED BY <1>1, <1>2, <1>3, <1>4, <1>5, <1>6 DEF Load

\* A command changes one record in memory and begins to save.
LEMMA SavesAlone ==
  ASSUME NEW w \in Procs, Alone(w), pc[w] = "loaded",
         NEW i \in Levels, IsFirstMatch(mem[w], cmd[w].name, i) \/ cmd[w].op = "store",
         NEW r, Change(mem[w][i], r, cmd[w]), Save(w, i, r)
  PROVE  FilesKnown(w)' /\ MemoryKnown(w)' /\ Held(w)' = Held(w)
PROOF
  <1> DEFINE img == [mem[w] EXCEPT ![i] = r]
  <1>T. TypeOK /\ Control /\ FilesKnown(w) /\ MemoryKnown(w)
    BY DEF Alone, Inv
  <1>1. mem[w] \in Image /\ InPlace(mem[w]) /\ cmd[w].name \in Levels \cup {JunkName}
    BY <1>T DEF Alone, Inv, TypeOK, RecordsInPlace, Control, Command
  <1>2. cmd[w].name = i \/ cmd[w].op = "store"
    BY <1>1, MatchIsLevel
  <1>3. /\ pc'[w] = "fopen_temp" /\ mem'[w] = img
        /\ UNCHANGED <<cmd, pos, fd, creating, data, temp, file>>
    BY <1>T DEF Save, Goto, fsVars, TypeOK
  <1>4. img[i] = r
    BY <1>1 DEF Image
  <1>5. ~creating[w] /\ data # NoFile /\ mem[w] = file[data].img
    BY <1>T DEF FilesKnown, MemoryKnown
  <1> HIDE DEF img
  <1>6. ChangedBy(mem[w], img, cmd[w])
    BY <1>2, <1>4 DEF ChangedBy, img
  <1>7. FilesKnown(w)'
    BY <1>T, <1>3, <1>5 DEF FilesKnown
  <1>8. MemoryKnown(w)'
    BY <1>3, <1>5, <1>6 DEF MemoryKnown
  <1> QED BY <1>3, <1>7, <1>8 DEF Held

LEMMA ApplyAlone ==
  ASSUME NEW w \in Procs, Alone(w), Apply(w)
  PROVE  FilesKnown(w)' /\ MemoryKnown(w)' /\ Held(w)' = Held(w)
PROOF
  <1>1. CASE Show(w) \/ InvalidLevel(w) \/ ConnectEnds(w)
    BY <1>1, EndsAlone DEF Show, InvalidLevel, ConnectEnds, fsVars
  <1>2. CASE MarkLevelComplete(w)
    BY <1>2, SavesAlone DEF MarkLevelComplete, Change
  <1>3. CASE StorePass(w)
    BY <1>3, SavesAlone DEF StorePass, Change
  <1>4. CASE ConnectRemembers(w)
    BY <1>4, SavesAlone DEF ConnectRemembers, Change
  <1>5. CASE ConnectForgets(w)
    BY <1>5, SavesAlone DEF ConnectForgets, Change
  <1> QED BY <1>1, <1>2, <1>3, <1>4, <1>5 DEF Apply

-----------------------------------------------------------------------------
(* A step of w that writes *)

LEMMA FopenAlone ==
  ASSUME NEW w \in Procs, Alone(w), FopenTemp(w)
  PROVE  FilesKnown(w)' /\ MemoryKnown(w)' /\ Held(w)' = Held(w)
PROOF
  <1>T. TypeOK /\ FilesKnown(w) /\ MemoryKnown(w)
    BY DEF Alone, Inv
  <1>1. /\ pc[w] = "fopen_temp" /\ pc'[w] = "fwrite" /\ fd'[w] = temp' /\ pos'[w] = 1
        /\ UNCHANGED <<cmd, mem, creating, data>>
        /\ file' = [file EXCEPT ![temp'] = EmptyFile]
    BY <1>T DEF FopenTemp, Goto, TypeOK
  <1>2. temp' = CHOOSE i \in Inodes : ~InUse(i)
    BY <1>T, <1>1 DEF FopenTemp, FilesKnown
  <1>3. \E i \in Inodes : ~InUse(i)
    BY <1>T, <1>1 DEF FopenTemp, FilesKnown
  <1>4. temp' \in Inodes /\ temp' # data
    BY <1>2, <1>3 DEF InUse
  <1>5. /\ data # NoFile => file'[data] = file[data]
        /\ file'[temp'].len = 0
    BY <1>T, <1>1, <1>4 DEF TypeOK, EmptyFile
  <1>6. FilesKnown(w)'
    BY <1>T, <1>1, <1>4, <1>5 DEF FilesKnown
  <1>7. ~creating[w] => ChangedBy(file[data].img, mem[w], cmd[w]) /\ data # NoFile
    BY <1>T, <1>1 DEF MemoryKnown, FilesKnown
  <1>8. MemoryKnown(w)'
    BY <1>1, <1>5, <1>7, AgreeNone DEF MemoryKnown
  <1> QED BY <1>1, <1>5, <1>6, <1>8 DEF Held

LEMMA FwriteAlone ==
  ASSUME NEW w \in Procs, Alone(w), FwriteBlock(w)
  PROVE  FilesKnown(w)' /\ MemoryKnown(w)' /\ Held(w)' = Held(w)
PROOF
  <1>T. TypeOK /\ Control /\ FilesKnown(w) /\ MemoryKnown(w)
    BY DEF Alone, Inv
  <1> DEFINE f == file[temp]
             g == PutBlock(f, mem[w], pos[w])
  <1>1. /\ UNCHANGED <<data, temp, cmd, mem, fd, pc, creating>>
        /\ pc[w] = "fwrite" /\ temp = fd[w] /\ temp \in Inodes /\ temp # data
        /\ pos[w] \in 1..NumBlocks /\ pos'[w] = pos[w] + 1
        /\ file' = [file EXCEPT ![temp] = g]
    BY <1>T, LayoutAssumption DEF FwriteBlock, TypeOK, Control, FilesKnown
  <1>2. f.img \in Image /\ mem[w] \in Image
    BY <1>T, <1>1 DEF TypeOK, File
  <1>3. f.len = pos[w] - 1 /\ AgreeBelow(f.img, mem[w], pos[w])
    BY <1>T, <1>1 DEF MemoryKnown
  <1>4. g.img = Splice(f.img, mem[w], pos[w]) /\ g.len = pos'[w] - 1
    BY <1>1, <1>3 DEF PutBlock
  <1>5. AgreeBelow(g.img, mem[w], pos'[w])
    BY <1>1, <1>2, <1>3, <1>4, SpliceAgree
  <1>6. file'[temp] = g /\ (data # NoFile => file'[data] = file[data])
    <2> HIDE DEF g
    <2> QED BY <1>T, <1>1 DEF TypeOK
  <1> HIDE DEF f, g
  <1>7. FilesKnown(w)'
    BY <1>T, <1>1, <1>6 DEF FilesKnown
  <1>8. ~creating[w] => ChangedBy(file[data].img, mem[w], cmd[w]) /\ data # NoFile
    BY <1>T, <1>1 DEF MemoryKnown, FilesKnown
  <1>9. MemoryKnown(w)'
    BY <1>1, <1>4, <1>5, <1>6, <1>8 DEF MemoryKnown
  <1> QED BY <1>1, <1>6, <1>7, <1>9 DEF Held

\* The save takes effect: the data file is that of the changed memory.
LEMMA RenameAlone ==
  ASSUME NEW w \in Procs, Alone(w), Rename(w)
  PROVE  /\ FilesKnown(w)' /\ MemoryKnown(w)'
         /\ Held(w)' = Held(w) \/ ChangedBy(Held(w), Held(w)', cmd[w])
PROOF
  <1>T. TypeOK /\ Control /\ FilesKnown(w) /\ MemoryKnown(w)
    BY DEF Alone, Inv
  <1>1. /\ pc[w] = "fwrite" /\ pos[w] = NumBlocks /\ temp = fd[w] /\ temp \in Inodes
        /\ file[temp].len = NumBlocks - 1
        /\ AgreeBelow(file[temp].img, mem[w], NumBlocks)
    BY <1>T DEF Rename, Control, FilesKnown, MemoryKnown
  <1>2. /\ data' = temp /\ temp' = NoFile /\ temp # NoFile
        /\ UNCHANGED <<cmd, mem, pos, fd, creating>>
        /\ pc'[w] = "fclose" /\ Reclaimed(file)
    BY <1>T, <1>1, InodesAssumption DEF Rename, Goto, TypeOK
  <1>3. file'[data'] = file[temp]
    BY <1>1, <1>2, NamedFileKept DEF Alone
  <1>4. FilesKnown(w)'
    BY <1>T, <1>1, <1>2 DEF FilesKnown
  <1>5. MemoryKnown(w)'
    BY <1>1, <1>2, <1>3 DEF MemoryKnown
  <1>6. Held(w)' = mem[w]
    BY <1>2 DEF Held
  <1>7. CASE creating[w]
    BY <1>T, <1>1, <1>4, <1>5, <1>6, <1>7 DEF FilesKnown, Held
  <1>8. CASE ~creating[w]
    <2>1. Held(w) = file[data].img
      BY <1>T, <1>1, <1>8 DEF FilesKnown, Held
    <2> QED BY <1>T, <1>1, <1>4, <1>5, <1>6, <1>8, <2>1 DEF MemoryKnown
  <1> QED BY <1>7, <1>8

\* The last block follows, and the file is whole.
LEMMA FcloseAlone ==
  ASSUME NEW w \in Procs, Alone(w), Fclose(w)
  PROVE  FilesKnown(w)' /\ MemoryKnown(w)' /\ Held(w)' = Held(w)
PROOF
  <1>T. TypeOK /\ Control /\ FilesKnown(w) /\ MemoryKnown(w)
    BY DEF Alone, Inv
  <1> DEFINE f == file[data]
             g == PutBlock(f, mem[w], NumBlocks)
  <1>1. /\ pc[w] = "fclose" /\ data = fd[w] /\ data \in Inodes /\ data # NoFile
        /\ pos[w] = NumBlocks /\ temp = NoFile /\ UNCHANGED <<data, temp>>
        /\ f.len = NumBlocks - 1 /\ AgreeBelow(f.img, mem[w], NumBlocks)
    BY <1>T, InodesAssumption DEF Fclose, Control, FilesKnown, MemoryKnown
  <1>2. f.img \in Image /\ mem[w] \in Image
    BY <1>T, <1>1 DEF TypeOK, File
  <1>3. file'[data] = g
    <2>1. InUse(data)'
      BY <1>1 DEF InUse
    <2>2. Reclaimed([file EXCEPT ![data] = g])
      BY <1>1 DEF Fclose
    <2> HIDE DEF g
    <2>3. [file EXCEPT ![data] = g][data] = g
      BY <1>T, <1>1 DEF TypeOK
    <2> QED BY <1>1, <2>1, <2>2, <2>3 DEF Reclaimed
  <1>4. g.len = NumBlocks /\ g.img = Splice(f.img, mem[w], NumBlocks)
    BY <1>1, LayoutAssumption DEF PutBlock
  <1>5. g.img = mem[w]
    <2>1. NumBlocks \in 1..NumBlocks /\ NumBlocks + 1 \in Nat /\ NumBlocks + 1 > NumBlocks
      BY LayoutAssumption
    <2>2. g.img \in Image
      BY <1>2, <1>4, SpliceImage
    <2>3. AgreeBelow(g.img, mem[w], NumBlocks + 1)
      BY <1>1, <1>2, <1>4, <2>1, SpliceAgree
    <2> HIDE DEF g
    <2> QED BY <1>2, <2>1, <2>2, <2>3, AgreeAll
  <1> HIDE DEF f, g
  <1>6. pc'[w] \in {"idle", "fopen_data"} /\ creating'[w] = FALSE
    BY <1>T DEF Fclose, Goto, Ends, TypeOK
  <1>7. FilesKnown(w)'
    BY <1>1, <1>3, <1>4, <1>6 DEF FilesKnown
  <1>8. MemoryKnown(w)'
    BY <1>6 DEF MemoryKnown
  <1> QED BY <1>1, <1>3, <1>5, <1>6, <1>7, <1>8 DEF Held

LEMMA SaveDataAlone ==
  ASSUME NEW w \in Procs, Alone(w), SaveData(w)
  PROVE  /\ FilesKnown(w)' /\ MemoryKnown(w)'
         /\ Held(w)' = Held(w) \/ (pc[w] # "idle" /\ ChangedBy(Held(w), Held(w)', cmd[w]))
PROOF
  <1>1. CASE FopenTempFails(w)
    BY <1>1, EndsAlone DEF FopenTempFails, fsVars
  <1>2. CASE Rename(w)
    <2>1. pc[w] # "idle"
      BY <1>2 DEF Rename
    <2> QED BY <1>2, <2>1, RenameAlone
  <1>3. CASE FopenTemp(w) \/ FwriteBlock(w) \/ Fclose(w)
    BY <1>3, FopenAlone, FwriteAlone, FcloseAlone
  <1> QED BY <1>1, <1>2, <1>3 DEF SaveData

-----------------------------------------------------------------------------
(* Every step of w *)

LEMMA StepAlone ==
  ASSUME NEW w \in Procs, Alone(w), Step(w)
  PROVE  /\ FilesKnown(w)' /\ MemoryKnown(w)'
         /\ Held(w)' = Held(w) \/ (pc[w] # "idle" /\ ChangedBy(Held(w), Held(w)', cmd[w]))
PROOF
  <1> QED BY StartAlone, LoadAlone, ApplyAlone, SaveDataAlone DEF Step

LEMMA InitAlone ==
  ASSUME NEW w \in Procs, Init
  PROVE  Alone(w) /\ Held(w) = DefaultImage
PROOF
  <1>1. FilesKnown(w) /\ MemoryKnown(w)
    BY DEF Init, FilesKnown, MemoryKnown
  <1> QED BY <1>1, InitInv DEF Alone, Init, Held

LEMMA HeldIsImage ==
  ASSUME NEW w \in Procs, Alone(w)
  PROVE  Held(w) \in Image
PROOF
  <1>1. mem[w] \in Image /\ (data # NoFile => file[data].img \in Image)
    BY DEF Alone, Inv, TypeOK, File
  <1> QED BY <1>1, ConstantTypes DEF Held

\* A command runs until its process is idle.
LEMMA CommandKept ==
  ASSUME NEW w \in Procs, TypeOK, Load(w) \/ Apply(w) \/ SaveData(w)
  PROVE  pc[w] # "idle" /\ (pc'[w] = "idle" \/ cmd'[w] = cmd[w])
PROOF
  <1> USE DEF TypeOK, Goto, Ends
  <1>1. CASE Load(w)
    BY <1>1 DEF Load, FoundDataFile, CreateNewDataFile, MkdirFails, FopenData, FreadBlock,
                FreadDone
  <1>2. CASE Apply(w)
    BY <1>2 DEF Apply, Show, InvalidLevel, MarkLevelComplete, StorePass,
                ConnectRemembers, ConnectForgets, ConnectEnds, Save
  <1>3. CASE SaveData(w)
    BY <1>3 DEF SaveData, FopenTemp, FopenTempFails, FwriteBlock, Rename, Fclose
  <1> QED BY <1>1, <1>2, <1>3

-----------------------------------------------------------------------------
(* Command lines *)

\* What command c does to a level is what line asks for.
IsAsked(line, c) ==
  /\ c.op = "store" => AsksToStore(line, c.pass) /\ c.pass \in Passwords
  /\ \A l \in Levels : c.name = l =>
       /\ c.op = "complete" => AsksToComplete(line, l)
       /\ c.op = "connect" => AsksToConnect(line, l)

LEMMA NameIsText ==
  ASSUME NEW t, NEW l \in Levels, NameOf(t) = l
  PROVE  t = l
PROOF
  <1>1. JunkName \notin Levels
    BY LayoutAssumption DEF JunkName, Levels
  <1> QED BY <1>1 DEF NameOf

\* What follows from an option that getopt_long decoded.
LEMMA OptionAsks ==
  ASSUME NEW line \in Seq(Word), NEW i \in 1..Len(line)
  PROVE  IsAsked(line, ByOption(line, i))
PROOF
  <1> DEFINE c == ByOption(line, i)
  <1>1. Len(line) \in Nat /\ i \in Nat /\ i <= Len(line) /\ i >= 1
    OBVIOUS
  <1>2. \A k \in 1..Len(line) : line[k].rest \in Texts \cup {NoText} /\ line[k].text \in Texts
    <2>1. \A k \in 1..Len(line) : line[k] \in Word
      OBVIOUS
    <2> QED BY <2>1 DEF Word
  <1>3. HasArg(line, i) =>
          \/ line[i].rest # NoText /\ OptArg(line, i) = line[i].rest
          \/ line[i].rest = NoText /\ i < Len(line) /\ OptArg(line, i) = line[i + 1].text
    BY <1>1 DEF HasArg, OptInd, OptArg, Attached
  <1>4. HasLevel(line, i) =>
          /\ i \in 1..(Len(line) - 1)
          /\ line[i].rest = NoText => i + 1 < Len(line)
    BY <1>1 DEF HasLevel, OptInd, Attached
  <1>5. HasArg(line, i) => OptArg(line, i) \in Passwords
    <2>1. HasArg(line, i) => OptArg(line, i) \in Texts
      BY <1>1, <1>2, <1>3
    <2> QED BY <2>1, CommandLineAssumption
  <1>6. CASE line[i].flag = "c" /\ HasArg(line, i)
    <2>1. c.op = "complete" /\ c.name = NameOf(OptArg(line, i))
      BY <1>6 DEF ByOption
    <2>2. ASSUME NEW l \in Levels, c.name = l PROVE AsksToComplete(line, l)
      <3>1. OptArg(line, i) = l
        BY <2>1, <2>2, NameIsText
      <3> QED BY <1>3, <1>6, <3>1 DEF AsksToComplete
    <2>3. \A d : d.op = "complete" /\ (\A l \in Levels : d.name = l => AsksToComplete(line, l))
                => IsAsked(line, d)
      BY DEF IsAsked
    <2> HIDE DEF c
    <2>4. IsAsked(line, c)
      BY <2>1, <2>2, <2>3, Zenon
    <2> QED BY <2>4 DEF c
  <1>7. CASE line[i].flag = "s" /\ HasArg(line, i) /\ HasLevel(line, i)
    <2>1. c.op = "store" /\ c.pass = OptArg(line, i)
      BY <1>7 DEF ByOption
    <2>2. AsksToStore(line, OptArg(line, i))
      BY <1>3, <1>4, <1>7 DEF AsksToStore
    <2>3. \A d : d.op = "store" /\ AsksToStore(line, d.pass) /\ d.pass \in Passwords
                => IsAsked(line, d)
      BY DEF IsAsked
    <2>4. OptArg(line, i) \in Passwords
      BY <1>5, <1>7
    <2> HIDE DEF c
    <2>5. IsAsked(line, c)
      BY <2>1, <2>2, <2>3, <2>4, Zenon
    <2> QED BY <2>5 DEF c
  <1>8. CASE /\ ~(line[i].flag = "c" /\ HasArg(line, i))
             /\ ~(line[i].flag = "s" /\ HasArg(line, i) /\ HasLevel(line, i))
    <2>1. c = Nothing
      BY <1>8 DEF ByOption
    <2> QED BY <2>1 DEF Nothing, IsAsked
  <1> QED BY <1>6, <1>7, <1>8

\* What follows from a line without options: only its one argument counts.
LEMMA LevelAsks ==
  ASSUME NEW line \in Seq(Word), NEW rest \in Seq(Word),
         Len(rest) = 1 => \E i \in 1..Len(line) :
                            /\ line[i] = rest[1]
                            /\ \A j \in 1..Len(line) : j # i => line[j].flag = "--"
  PROVE  IsAsked(line, ByLevel(rest))
PROOF
  <1>1. CASE Len(rest) = 1 /\ NameOf(rest[1].text) \notin Natas
    <2> SUFFICES ASSUME NEW l \in Levels, NameOf(rest[1].text) = l
                 PROVE  AsksToConnect(line, l)
      BY <1>1 DEF IsAsked, ByLevel
    <2>1. rest[1].text = l /\ l \notin Natas
      BY <1>1, NameIsText
    <2> QED BY <1>1, <2>1 DEF AsksToConnect
  <1>2. CASE ~(Len(rest) = 1 /\ NameOf(rest[1].text) \notin Natas)
    BY <1>2 DEF IsAsked, ByLevel, Nothing
  <1> QED BY <1>1, <1>2

\* What is left of a line without its word i, if that is a single word.
LEMMA WithoutOne ==
  ASSUME NEW line \in Seq(Word), NEW i \in 1..Len(line), line[i].flag = "--",
         NEW rest, rest = SubSeq(line, 1, i - 1) \o SubSeq(line, i + 1, Len(line))
  PROVE  /\ rest \in Seq(Word)
         /\ Len(rest) = 1 => \E k \in 1..Len(line) :
                               /\ line[k] = rest[1]
                               /\ \A j \in 1..Len(line) : j # k => line[j].flag = "--"
PROOF
  <1> DEFINE n == Len(line)
             a == SubSeq(line, 1, i - 1)
             b == SubSeq(line, i + 1, n)
  <1>1. n \in Nat /\ i \in 1..n /\ \A k \in 1..n : line[k] \in Word
    OBVIOUS
  <1>2. /\ a \in Seq(Word) /\ Len(a) = i - 1
        /\ \A k \in 1..(i - 1) : a[k] = line[k]
    <2>1. 1 \in Int /\ i - 1 \in Int /\ \A k \in 1..(i - 1) : line[k] \in Word
      BY <1>1
    <2>2. /\ a \in Seq(Word) /\ Len(a) = IF 1 <= i - 1 THEN i - 1 - 1 + 1 ELSE 0
          /\ \A k \in 1..(i - 1 - 1 + 1) : a[k] = line[1 + k - 1]
      BY <2>1, SubSeqProperties
    <2> HIDE DEF a
    <2> QED BY <1>1, <2>2
  <1>3. /\ b \in Seq(Word) /\ Len(b) = n - i
        /\ \A k \in 1..(n - i) : b[k] = line[i + k]
    <2>1. i + 1 \in Int /\ n \in Int /\ \A k \in (i + 1)..n : line[k] \in Word
      BY <1>1
    <2>2. /\ b \in Seq(Word) /\ Len(b) = IF i + 1 <= n THEN n - (i + 1) + 1 ELSE 0
          /\ \A k \in 1..(n - (i + 1) + 1) : b[k] = line[i + 1 + k - 1]
      BY <2>1, SubSeqProperties
    <2> HIDE DEF b
    <2> QED BY <1>1, <2>2
  <1>4. rest = a \o b
    OBVIOUS
  <1> HIDE DEF a, b
  <1>5. /\ rest \in Seq(Word) /\ Len(rest) = Len(a) + Len(b)
        /\ \A k \in 1..(Len(a) + Len(b)) :
             rest[k] = IF k <= Len(a) THEN a[k] ELSE b[k - Len(a)]
    <2>1. \A s, t \in Seq(Word) :
            /\ s \o t \in Seq(Word) /\ Len(s \o t) = Len(s) + Len(t)
            /\ \A k \in 1..(Len(s) + Len(t)) :
                 (s \o t)[k] = IF k <= Len(s) THEN s[k] ELSE t[k - Len(s)]
      BY ConcatProperties
    <2>2. a \in Seq(Word) /\ b \in Seq(Word)
      BY <1>2, <1>3
    <2>3. /\ a \o b \in Seq(Word) /\ Len(a \o b) = Len(a) + Len(b)
          /\ \A k \in 1..(Len(a) + Len(b)) :
               (a \o b)[k] = IF k <= Len(a) THEN a[k] ELSE b[k - Len(a)]
      BY ONLY <2>1, <2>2, Zenon
    <2> QED BY ONLY <1>4, <2>3, Zenon
  <1>6. ASSUME Len(rest) = 1
        PROVE  \E k \in 1..n : /\ line[k] = rest[1]
                               /\ \A j \in 1..n : j # k => line[j].flag = "--"
    <2>1. n = 2
      <3> HIDE DEF n
      <3>1. n \in Nat /\ i \in Int
        BY ONLY <1>1
      <3>2. Len(a) = i - 1 /\ Len(b) = n - i /\ Len(a) + Len(b) = 1
        BY ONLY <1>2, <1>3, <1>5, <1>6
      <3> QED BY ONLY <3>1, <3>2
    <2>2. CASE i = 1
      <3>1. rest[1] = line[2]
        BY <1>2, <1>3, <1>5, <2>1, <2>2
      <3> QED BY <2>1, <2>2, <3>1
    <2>3. CASE i = 2
      <3>1. rest[1] = line[1]
        BY <1>2, <1>3, <1>5, <2>1, <2>3
      <3> QED BY <2>1, <2>3, <3>1
    <2> QED BY <1>1, <2>1, <2>2, <2>3
  <1> QED BY <1>5, <1>6

LEMMA ParsedIsAsked ==
  ASSUME NEW line \in Seq(Word)
  PROVE  IsAsked(line, Parsed(line))
PROOF
  <1> DEFINE i == CHOOSE i \in 1..Len(line) : Stops(line, i)
  <1>1. CASE \E k \in 1..Len(line) : Stops(line, k)
    <2>1. i \in 1..Len(line)
      BY <1>1
    <2> DEFINE rest == SubSeq(line, 1, i - 1) \o SubSeq(line, i + 1, Len(line))
    <2>2. Parsed(line) = IF line[i].flag = "--" THEN ByLevel(rest) ELSE ByOption(line, i)
      BY <1>1 DEF Parsed
    <2> HIDE DEF i
    <2>3. CASE line[i].flag = "--"
      <3>1. /\ rest \in Seq(Word)
            /\ Len(rest) = 1 => \E k \in 1..Len(line) :
                                  /\ line[k] = rest[1]
                                  /\ \A j \in 1..Len(line) : j # k => line[j].flag = "--"
        BY <2>1, <2>3, WithoutOne
      <3> HIDE DEF rest
      <3> QED BY <2>2, <2>3, <3>1, LevelAsks
    <2>4. CASE line[i].flag # "--"
      BY <2>1, <2>2, <2>4, OptionAsks
    <2> QED BY <2>3, <2>4
  <1>2. CASE ~\E k \in 1..Len(line) : Stops(line, k)
    <2>1. Parsed(line) = ByLevel(line)
      BY <1>2 DEF Parsed
    <2>2. Len(line) = 1 => \E k \in 1..Len(line) :
                             /\ line[k] = line[1]
                             /\ \A j \in 1..Len(line) : j # k => line[j].flag = "--"
      OBVIOUS
    <2> QED BY <2>1, <2>2, LevelAsks
  <1> QED BY <1>1, <1>2

-----------------------------------------------------------------------------
(* The whole program *)

\* What w runs is what a command line was parsed to.
Given(w) == pc[w] # "idle" => GivenLines(w) # {}

LEMMA ProgramStart ==
  ASSUME NEW w \in Procs, Init
  PROVE  Alone(w) /\ Given(w) /\ Held(w) = DefaultImage
PROOF
  <1>1. Given(w)
    BY DEF Init, Given
  <1> QED BY <1>1, InitAlone

\* A step of the program is one of the data file, and keeps the command.
LEMMA ProgramSteps ==
  ASSUME NEW w \in Procs, Procs = {w}, Alone(w), Given(w), ProgramNext
  PROVE  Step(w) /\ Given(w)'
PROOF
  <1>T. TypeOK
    BY DEF Alone, Inv
  <1>1. CASE \E line \in Lines : Main(w, line)
    <2>1. PICK line \in Lines : Main(w, line)
      BY <1>1
    <2>2. Start(w, Parsed(line)) /\ Parsed(line) \in Commands[w] /\ Len(line) \in 1..3
      BY <2>1 DEF Main, Start
    <2>3. cmd'[w] = Parsed(line)
      BY <1>T, <2>2 DEF Start, TypeOK
    <2>4. line \in GivenLines(w)'
      BY <2>2, <2>3 DEF GivenLines
    <2> QED BY <2>2, <2>4 DEF Step, Given
  <1>2. CASE Load(w) \/ Apply(w) \/ SaveData(w)
    <2>1. pc[w] # "idle" /\ (pc'[w] = "idle" \/ cmd'[w] = cmd[w])
      BY <1>T, <1>2, CommandKept
    <2>2. cmd'[w] = cmd[w] => GivenLines(w)' = GivenLines(w)
      BY DEF GivenLines
    <2> QED BY <1>2, <2>1, <2>2 DEF Step, Given
  <1> QED BY <1>1, <1>2 DEF ProgramNext

\* Every line w may have been given asks for its command.
Asked(w) == GivenLines(w) # {} /\ \A line \in GivenLines(w) : IsAsked(line, cmd[w])

\* What is kept by every step, and what a step does to the stored image.
LEMMA ProgramKeeps ==
  ASSUME NEW w \in Procs, Procs = {w}, Alone(w), Given(w), [ProgramNext]_vars
  PROVE  /\ Alone(w)' /\ Given(w)'
         /\ StoredImage \in Image
         /\ \/ StoredImage' = StoredImage
            \/ Asked(w) /\ ChangedBy(StoredImage, StoredImage', cmd[w])
PROOF
  <1>1. StoredImage = Held(w) /\ StoredImage' = Held(w)'
    BY StoredIsHeld
  <1>2. StoredImage \in Image
    BY <1>1, HeldIsImage
  <1>3. CASE ProgramNext
    <2>1. Step(w) /\ Given(w)'
      BY <1>3, ProgramSteps
    <2>2. Inv'
      BY <2>1, NextInv DEF CrashNext, Alone
    <2>3. /\ FilesKnown(w)' /\ MemoryKnown(w)'
          /\ \/ Held(w)' = Held(w)
             \/ pc[w] # "idle" /\ ChangedBy(Held(w), Held(w)', cmd[w])
      BY <2>1, StepAlone
    <2>4. pc[w] # "idle" => Asked(w)
      <3>1. \A line \in GivenLines(w) : line \in Seq(Word) /\ Parsed(line) = cmd[w]
        BY LinesAssumption DEF GivenLines
      <3>2. \A line \in GivenLines(w) : IsAsked(line, cmd[w])
        BY <3>1, ParsedIsAsked
      <3> QED BY <3>2 DEF Given, Asked
    <2>5. Alone(w)'
      BY <2>2, <2>3 DEF Alone
    <2> QED BY <1>1, <1>2, <2>1, <2>3, <2>4, <2>5
  <1>4. CASE UNCHANGED vars
    <2>1. UNCHANGED <<pc, cmd, mem, pos, fd, creating, data, temp, file>>
      BY <1>4 DEF vars, procVars, fsVars
    <2>2. Inv'
      BY <1>4, NextInv DEF Alone
    <2>3. FilesKnown(w)' /\ MemoryKnown(w)' /\ Given(w)'
      BY <2>1 DEF Alone, FilesKnown, MemoryKnown, ChangedBy, Change, AgreeBelow, Given, GivenLines
    <2>4. Held(w)' = Held(w)
      BY <2>1 DEF Held
    <2>5. Alone(w)'
      BY <2>2, <2>3 DEF Alone
    <2> QED BY <1>1, <1>2, <2>3, <2>4, <2>5
  <1> QED BY <1>3, <1>4

-----------------------------------------------------------------------------
(* What a change leaves alone *)

NamesHeld(w) == \A l \in Levels : Held(w)[l].head.name = l

\* What otw -c reported is still known.
DoneHeld(w) == \A l \in done : Held(w)[l].tail.complete

\* No command renames a level or takes back that it is complete.
LEMMA ChangeLeaves ==
  ASSUME NEW old \in Image, NEW new, NEW c, ChangedBy(old, new, c)
  PROVE  \A l \in Levels :
           /\ new[l].head.name = old[l].head.name
           /\ old[l].tail.complete => new[l].tail.complete
PROOF
  <1> DEFINE Leaves(r, n) == /\ n.head.name = r.head.name
                             /\ r.tail.complete => n.tail.complete
  <1>1. PICK i \in Levels : /\ Change(old[i], new[i], c)
                            /\ new = [old EXCEPT ![i] = new[i]]
    BY DEF ChangedBy
  <1>2. ASSUME NEW r \in Record, NEW p, NEW b
        PROVE  /\ Leaves(r, Completed(r))
               /\ Leaves(r, WithFlag(r, b))
               /\ Leaves(r, WithFlag(WithPass(r, p), b))
    <2>1. r.head \in HeadHalf /\ r.tail \in TailHalf
      BY DEF Record
    <2>2. [r.tail EXCEPT !.complete = TRUE].complete
      BY <2>1 DEF TailHalf
    <2>3. [r.tail EXCEPT !.saved = b].complete = r.tail.complete
      BY <2>1 DEF TailHalf
    <2>4. [r.head EXCEPT !.pass = p].name = r.head.name
      BY <2>1 DEF HeadHalf
    <2> QED BY <2>2, <2>3, <2>4 DEF Completed, WithFlag, WithPass, Leaves
  <1>3. old[i] \in Record
    BY DEF Image
  <1>4. Leaves(old[i], new[i])
    <2> DEFINE r == old[i]
               n == new[i]
    <2>1. \/ n = Completed(r)
          \/ n = WithFlag(WithPass(r, c.pass), TRUE)
          \/ n = WithFlag(r, TRUE)
          \/ n = WithFlag(WithPass(r, Unknown), FALSE)
      BY <1>1 DEF Change
    <2> HIDE DEF r, n, Leaves
    <2>2. r \in Record
      BY <1>3 DEF r
    <2>3. Leaves(r, n)
      BY ONLY <1>2, <2>1, <2>2, Zenon
    <2> QED BY <2>3 DEF r, n
  <1>5. \A l \in Levels : l # i => new[l] = old[l]
    <2> DEFINE r == new[i]
    <2>1. new = [old EXCEPT ![i] = r]
      BY <1>1
    <2> HIDE DEF r
    <2> QED BY <2>1 DEF Image
  <1> QED BY <1>4, <1>5

LEMMA DefaultNames == \A l \in Levels : /\ DefaultImage[l].head.name = l
                                        /\ ~DefaultImage[l].tail.complete
PROOF
  BY DEF DefaultImage

LEMMA NamesHeldStep ==
  ASSUME NEW w \in Procs, Procs = {w}, Alone(w), Given(w), NamesHeld(w),
         [ProgramNext]_vars
  PROVE  NamesHeld(w)'
PROOF
  <1>1. StoredImage = Held(w) /\ StoredImage' = Held(w)' /\ StoredImage \in Image
    BY StoredIsHeld, ProgramKeeps
  <1>2. \/ StoredImage' = StoredImage
        \/ ChangedBy(StoredImage, StoredImage', cmd[w])
    BY ProgramKeeps
  <1>3. \A l \in Levels : StoredImage'[l].head.name = StoredImage[l].head.name
    BY <1>1, <1>2, ChangeLeaves
  <1> QED BY <1>1, <1>3 DEF NamesHeld

LEMMA DoneHeldStep ==
  ASSUME NEW w \in Procs, Procs = {w}, Alone(w), SoleWriter(w), DoneHeld(w), [Next]_vars
  PROVE  Alone(w)' /\ SoleWriter(w)' /\ DoneHeld(w)'
PROOF
  <1>0. Next => Step(w)
    BY DEF Next
  <1>1. Inv' /\ SoleWriter(w)'
    BY NextInv, SoleWriterNext DEF CrashNext, Next, Alone
  <1>2. CASE Next
    <2>1. /\ FilesKnown(w)' /\ MemoryKnown(w)'
          /\ Held(w)' = Held(w) \/ ChangedBy(Held(w), Held(w)', cmd[w])
      BY <1>0, <1>2, StepAlone
    <2>2. Held(w) \in Image
      BY HeldIsImage
    <2>3. \A l \in Levels : Held(w)[l].tail.complete => Held(w)'[l].tail.complete
      BY <2>1, <2>2, ChangeLeaves
    <2>4. done' \subseteq Levels
      BY <1>1 DEF Inv, TypeOK
    <2>5. \A l \in done' : l \in done \/ Held(w)[l].tail.complete
      <3>1. CASE done' = done
        BY <3>1
      <3>2. CASE Fclose(w) /\ ~creating[w] /\ cmd[w].op = "complete"
        <4>1. pc[w] = "fclose" /\ done' \subseteq done \cup {cmd[w].name}
          BY <3>2 DEF Fclose
        <4>2. mem[w][cmd[w].name].tail.complete
          BY <3>2, <4>1 DEF SoleWriter, WriterKept
        <4> QED BY <4>1, <4>2 DEF Held
      <3>3. done' = done \/ (Fclose(w) /\ ~creating[w] /\ cmd[w].op = "complete")
        <4> USE <1>0, <1>2 DEF fsVars
        <4>1. CASE \E c \in Commands[w] : Start(w, c)
          BY <4>1 DEF Start
        <4>2. CASE Load(w)
          BY <4>2 DEF Load, FoundDataFile, CreateNewDataFile, MkdirFails, FopenData, FreadBlock,
                      FreadDone
        <4>3. CASE Apply(w)
          BY <4>3 DEF Apply, Show, InvalidLevel, MarkLevelComplete, StorePass,
                      ConnectRemembers, ConnectForgets, ConnectEnds, Save
        <4>4. CASE SaveData(w)
          BY <4>4 DEF SaveData, FopenTemp, FopenTempFails, FwriteBlock, Rename, Fclose
        <4> QED BY <4>1, <4>2, <4>3, <4>4 DEF Step
      <3> QED BY <3>1, <3>2, <3>3
    <2>6. \A l \in done' : Held(w)'[l].tail.complete
      BY <2>3, <2>4, <2>5 DEF DoneHeld
    <2> QED BY <1>1, <2>1, <2>6 DEF Alone, DoneHeld
  <1>3. CASE UNCHANGED vars
    <2>1. UNCHANGED <<pc, cmd, mem, pos, fd, creating, data, temp, file, done>>
      BY <1>3 DEF vars, procVars, fsVars
    <2>2. FilesKnown(w)' /\ MemoryKnown(w)'
      BY <2>1 DEF Alone, FilesKnown, MemoryKnown, ChangedBy, Change, AgreeBelow
    <2>3. DoneHeld(w)'
      BY <2>1 DEF DoneHeld, Held
    <2> QED BY <1>1, <2>2, <2>3 DEF Alone
  <1> QED BY <1>2, <1>3

-----------------------------------------------------------------------------
(* The table of games, by induction *)

\* A nonempty set of numbers has a least one, and so induction over them is sound.
LEMMA LeastNumber ==
  ASSUME NEW T \in SUBSET Nat, T # {}
  PROVE  \E m \in T : \A k \in T : m <= k
PROOF
  <1> DEFINE R == {ss \in Nat \X Nat : ss[1] < ss[2]}
  <1>1. IsWellFoundedOn(R, Nat)
    BY NatLessThanWellFounded DEF OpToRel
  <1> HIDE DEF R
  <1>2. PICK m \in T : \A k \in T : ~(<<k, m>> \in R)
    BY ONLY <1>1, WFMin, T \in SUBSET Nat, T # {}
  <1>3. \A k \in T : ~(k < m)
    BY <1>2 DEF R
  <1> QED BY <1>3

LEMMA NumbersByInduction ==
  ASSUME NEW S, 1 \in S, \A n \in Nat \ {0} : n \in S => n + 1 \in S
  PROVE  Nat \ {0} \subseteq S
PROOF
  <1> SUFFICES ASSUME (Nat \ {0}) \ S # {} PROVE FALSE
    OBVIOUS
  <1>1. PICK m \in (Nat \ {0}) \ S : \A k \in (Nat \ {0}) \ S : m <= k
    BY LeastNumber
  <1> QED BY <1>1

\* f is defined on the first n numbers from the value before.
Recurs(f, a, step, n) ==
  f = [i \in 1..n |-> IF i = 1 THEN a ELSE step[<<i - 1, f[i - 1]>>]]

\* A function defined by recursion exists.
LEMMA RecursionExists ==
  ASSUME NEW A, NEW a \in A, NEW step \in [(Nat \ {0}) \X A -> A]
  PROVE  \A n \in Nat \ {0} : \E f \in [1..n -> A] : Recurs(f, a, step, n)
PROOF
  <1> DEFINE S == {n \in Nat \ {0} : \E f \in [1..n -> A] : Recurs(f, a, step, n)}
  <1>1. 1 \in S
    <2> DEFINE f == [i \in 1..1 |-> a]
    <2>1. f \in [1..1 -> A] /\ Recurs(f, a, step, 1)
      BY DEF Recurs
    <2> QED BY <2>1
  <1>2. ASSUME NEW n \in Nat \ {0}, n \in S PROVE n + 1 \in S
    <2>1. PICK f \in [1..n -> A] : Recurs(f, a, step, n)
      BY <1>2
    <2> DEFINE g == [i \in 1..(n + 1) |-> IF i <= n THEN f[i] ELSE step[<<n, f[n]>>]]
    <2>2. \A i \in 1..n : f[i] = IF i = 1 THEN a ELSE step[<<i - 1, f[i - 1]>>]
      BY <2>1 DEF Recurs
    <2>3. f[n] \in A /\ step[<<n, f[n]>>] \in A
      BY <2>1
    <2>4. \A i \in 1..(n + 1) : g[i] = IF i = 1 THEN a ELSE step[<<i - 1, g[i - 1]>>]
      <3> SUFFICES ASSUME NEW i \in 1..(n + 1)
                   PROVE  g[i] = IF i = 1 THEN a ELSE step[<<i - 1, g[i - 1]>>]
        OBVIOUS
      <3>1. CASE i = 1
        <4>1. 1 \in 1..n /\ g[i] = f[1]
          BY <3>1
        <4> HIDE DEF g
        <4> QED BY <3>1, <4>1, <2>2
      <3>2. CASE i \in 2..n
        <4>1. g[i] = f[i] /\ g[i - 1] = f[i - 1]
          BY <3>2
        <4> QED BY <3>2, <4>1, <2>2
      <3>3. CASE i = n + 1
        <4>1. g[i] = step[<<n, f[n]>>] /\ g[i - 1] = f[n] /\ i - 1 = n /\ i # 1
          BY <3>3
        <4> HIDE DEF g
        <4> QED BY <4>1
      <3> QED BY <3>1, <3>2, <3>3
    <2>5. g \in [1..(n + 1) -> A]
      BY <2>1, <2>3
    <2>6. Recurs(g, a, step, n + 1)
      BY <2>4 DEF Recurs
    <2> HIDE DEF g
    <2> QED BY <2>5, <2>6
  <1> HIDE DEF S
  <1>3. Nat \ {0} \subseteq S
    BY <1>1, <1>2, NumbersByInduction
  <1> QED BY <1>3 DEF S

LEMMA GamesAre ==
  /\ Len(Maxlevel) \in Nat \ {0} /\ Games = 1..Len(Maxlevel)
  /\ \A i \in Games : Maxlevel[i] \in Nat
PROOF
  BY MaxlevelAssumption DEF Games

\* levels_index goes up by the number of levels of each game.
LEMMA LevelsIndexSteps ==
  /\ LevelsIndex \in [Games -> Nat]
  /\ \A i \in Games : LevelsIndex[i] =
       IF i = 1 THEN 1 ELSE LevelsIndex[i - 1] + Maxlevel[i - 1] + 1
PROOF
  <1> DEFINE Rec(f) == f = [i \in Games |-> IF i = 1 THEN 1 ELSE f[i - 1] + Maxlevel[i - 1] + 1]
             step == [s \in (Nat \ {0}) \X Nat |->
                        IF s[1] \in Games THEN s[2] + Maxlevel[s[1]] + 1 ELSE 0]
             n == Len(Maxlevel)
  <1>1. \E f \in [Games -> Nat] : Rec(f)
    <2>1. step \in [(Nat \ {0}) \X Nat -> Nat]
      BY GamesAre
    <2>2. PICK f \in [1..n -> Nat] : Recurs(f, 1, step, n)
      <3> HIDE DEF step
      <3> QED BY <2>1, RecursionExists, GamesAre
    <2> HIDE DEF Rec
    <2>3. \A i \in 1..n : i # 1 => step[<<i - 1, f[i - 1]>>] = f[i - 1] + Maxlevel[i - 1] + 1
      <3> SUFFICES ASSUME NEW i \in 1..n, i # 1
                   PROVE  step[<<i - 1, f[i - 1]>>] = f[i - 1] + Maxlevel[i - 1] + 1
        OBVIOUS
      <3>1. i - 1 \in 1..n /\ i - 1 \in Nat \ {0} /\ f[i - 1] \in Nat
        <4> HIDE DEF step
        <4> QED BY GamesAre
      <3> QED BY <3>1, GamesAre
    <2> HIDE DEF step
    <2>4. Rec(f)
      BY <2>2, <2>3, GamesAre DEF Recurs, Rec
    <2> QED BY <2>2, <2>4, GamesAre
  <1>2. ASSUME NEW f, NEW g, Rec(f), Rec(g), f \in [Games -> Nat] PROVE f = g
    <2> DEFINE S == {i \in Nat \ {0} : i \in Games => f[i] = g[i]}
    <2>1. 1 \in S
      BY <1>2
    <2>2. ASSUME NEW i \in Nat \ {0}, i \in S PROVE i + 1 \in S
      BY <1>2, <2>2, GamesAre
    <2> HIDE DEF S
    <2>3. Nat \ {0} \subseteq S
      BY <2>1, <2>2, NumbersByInduction
    <2>4. \A i \in Games : f[i] = g[i]
      BY <2>3, GamesAre DEF S
    <2> QED BY <1>2, <2>4
  <1>3. Rec(LevelsIndex)
    BY <1>1 DEF LevelsIndex
  <1>4. LevelsIndex \in [Games -> Nat]
    BY <1>1, <1>2, <1>3
  <1> QED BY <1>3, <1>4

\* The loops of create_new_datafile go through the table like those of show_progress.
LEMMA SlotSteps ==
  /\ Slot \in [Levels -> Nat \X Nat]
  /\ Slot[1] = <<1, 0>>
  /\ \A l \in Levels : l + 1 \in Levels =>
       Slot[l + 1] = IF Slot[l][2] < Maxlevel[Slot[l][1]]
                       THEN <<Slot[l][1], Slot[l][2] + 1>> ELSE <<Slot[l][1] + 1, 0>>
PROOF
  <1> DEFINE After(v) == IF v[2] < Maxlevel[v[1]] THEN <<v[1], v[2] + 1>> ELSE <<v[1] + 1, 0>>
             Rec(f) == f = [l \in Levels |-> IF l = 1 THEN <<1, 0>> ELSE After(f[l - 1])]
             A == Nat \X Nat
             step == [s \in (Nat \ {0}) \X A |-> After(s[2])]
  <1>0. NumLevels \in Nat \ {0} /\ Levels = 1..NumLevels
    BY LayoutAssumption DEF Levels
  <1>1. \E f \in [Levels -> A] : Rec(f)
    <2>1. step \in [(Nat \ {0}) \X A -> A] /\ <<1, 0>> \in A
      OBVIOUS
    <2>2. \A l \in Nat \ {0}, v \in A : step[<<l, v>>] = After(v)
      OBVIOUS
    <2> HIDE DEF step, After, A
    <2>3. PICK f \in [1..NumLevels -> A] : Recurs(f, <<1, 0>>, step, NumLevels)
      BY <2>1, <1>0, RecursionExists
    <2>4. \A l \in 1..NumLevels : l # 1 => step[<<l - 1, f[l - 1]>>] = After(f[l - 1])
      <3> SUFFICES ASSUME NEW l \in 1..NumLevels, l # 1
                   PROVE  step[<<l - 1, f[l - 1]>>] = After(f[l - 1])
        OBVIOUS
      <3>1. l - 1 \in Nat \ {0} /\ f[l - 1] \in A
        BY <1>0
      <3> QED BY <3>1, <2>2
    <2>5. Rec(f)
      BY <2>3, <2>4, <1>0 DEF Recurs
    <2> QED BY <2>3, <2>5, <1>0
  <1>2. ASSUME NEW f, NEW g, Rec(f), Rec(g) PROVE f = g
    <2> DEFINE S == {l \in Nat \ {0} : l \in Levels => f[l] = g[l]}
    <2> HIDE DEF After
    <2>1. 1 \in S
      BY <1>2
    <2>2. ASSUME NEW l \in Nat \ {0}, l \in S PROVE l + 1 \in S
      <3> SUFFICES ASSUME l + 1 \in Levels PROVE f[l + 1] = g[l + 1]
        OBVIOUS
      <3>1. l \in Levels /\ (l + 1) - 1 = l /\ l + 1 # 1 /\ f[l] = g[l]
        BY <1>0, <2>2
      <3>2. f[l + 1] = After(f[l]) /\ g[l + 1] = After(g[l])
        BY <1>2, <3>1
      <3> QED BY <3>1, <3>2
    <2> HIDE DEF S
    <2>3. Nat \ {0} \subseteq S
      BY <2>1, <2>2, NumbersByInduction
    <2>4. \A l \in Levels : f[l] = g[l]
      BY <2>3, <1>0 DEF S
    <2> QED BY <1>2, <2>4
  <1>3. Rec(Slot)
    <2> DEFINE InitAfter(v) == IF v[2] < InitMaxlevel[v[1]] THEN <<v[1], v[2] + 1>>
                               ELSE <<v[1] + 1, 0>>
    <2>1. \A v : InitAfter(v) = After(v)
      BY MaxlevelAssumption
    <2>2. \E f : f = [l \in Levels |-> IF l = 1 THEN <<1, 0>> ELSE InitAfter(f[l - 1])]
      <3> HIDE DEF InitAfter, After
      <3> QED BY <1>1, <2>1
    <2>3. Slot = [l \in Levels |-> IF l = 1 THEN <<1, 0>> ELSE InitAfter(Slot[l - 1])]
      BY <2>2 DEF Slot
    <2> HIDE DEF InitAfter, After
    <2> QED BY <2>1, <2>3
  <1>4. Slot \in [Levels -> A]
    <2> HIDE DEF Rec
    <2> QED BY <1>1, <1>2, <1>3
  <1>5. Slot[1] = <<1, 0>> /\ \A l \in Levels : l + 1 \in Levels => Slot[l + 1] = After(Slot[l])
    <2> HIDE DEF After
    <2>1. \A l \in Levels : l + 1 # 1 /\ (l + 1) - 1 = l
      BY <1>0
    <2>2. 1 \in Levels
      BY <1>0
    <2>3. \A l \in Levels : Slot[l] = IF l = 1 THEN <<1, 0>> ELSE After(Slot[l - 1])
      BY <1>3
    <2> HIDE DEF Rec
    <2> QED BY <2>1, <2>2, <2>3
  <1> QED BY <1>4, <1>5

\* A level is named when levels_index is at its place.
LEMMA SlotPlace ==
  \A l \in Levels :
    /\ Slot[l][1] \in Games /\ Slot[l][2] \in 0..Maxlevel[Slot[l][1]]
    /\ l = LevelsIndex[Slot[l][1]] + Slot[l][2]
PROOF
  <1> DEFINE Place(l) == /\ Slot[l][1] \in Games /\ Slot[l][2] \in 0..Maxlevel[Slot[l][1]]
                         /\ l = LevelsIndex[Slot[l][1]] + Slot[l][2]
             S == {l \in Nat \ {0} : l \in Levels => Place(l)}
  <1>0. NumLevels \in Nat \ {0} /\ Levels = 1..NumLevels
    BY LayoutAssumption DEF Levels
  <1>1. 1 \in S
    <2>1. 1 \in Games /\ LevelsIndex[1] = 1 /\ Maxlevel[1] \in Nat
      BY GamesAre, LevelsIndexSteps
    <2> QED BY <2>1, SlotSteps
  <1>2. ASSUME NEW l \in Nat \ {0}, l \in S PROVE l + 1 \in S
    <2> SUFFICES ASSUME l + 1 \in Levels PROVE Place(l + 1)
      OBVIOUS
    <2> DEFINE i == Slot[l][1]
               j == Slot[l][2]
    <2>1. l \in Levels /\ Place(l) /\ l < NumLevels
      BY <1>0, <1>2
    <2>2. i \in Games /\ i \in Nat /\ Maxlevel[i] \in Nat /\ LevelsIndex[i] \in Nat
          /\ j \in 0..Maxlevel[i] /\ l = LevelsIndex[i] + j
      BY <2>1, GamesAre, LevelsIndexSteps
    <2>3. Slot[l + 1] = IF j < Maxlevel[i] THEN <<i, j + 1>> ELSE <<i + 1, 0>>
      BY <2>1, SlotSteps
    <2> HIDE DEF i, j
    <2>4. CASE j < Maxlevel[i]
      BY <2>2, <2>3, <2>4
    <2>5. CASE ~(j < Maxlevel[i])
      <3>1. j = Maxlevel[i]
        BY <2>2, <2>5
      <3>2. i # Len(Maxlevel)
        BY <2>1, <2>2, <3>1, <1>0, MaxlevelAssumption
      <3>3. i + 1 \in Games /\ Maxlevel[i + 1] \in Nat
        BY <2>2, <3>2, GamesAre
      <3>4. LevelsIndex[i + 1] = LevelsIndex[i] + Maxlevel[i] + 1
        <4>1. i + 1 # 1 /\ (i + 1) - 1 = i
          BY <2>2, GamesAre
        <4> QED BY <3>3, <4>1, LevelsIndexSteps
      <3>5. l + 1 = LevelsIndex[i + 1] + 0
        BY <2>2, <3>1, <3>4
      <3>6. Slot[l + 1][1] = i + 1 /\ Slot[l + 1][2] = 0
        BY <2>3, <2>5
      <3> QED BY <3>3, <3>5, <3>6
    <2> QED BY <2>4, <2>5
  <1> HIDE DEF S
  <1>3. Nat \ {0} \subseteq S
    BY <1>1, <1>2, NumbersByInduction
  <1> QED BY <1>0, <1>3 DEF S

LEMMA WalksApart ==
  \A k \in Games : \A i \in Games : i < k => LevelsIndex[i] + Maxlevel[i] < LevelsIndex[k]
PROOF
  <1> DEFINE S == {k \in Nat \ {0} : k \in Games =>
                     \A i \in Games : i < k => LevelsIndex[i] + Maxlevel[i] < LevelsIndex[k]}
  <1>1. 1 \in S
    BY GamesAre
  <1>2. ASSUME NEW k \in Nat \ {0}, k \in S PROVE k + 1 \in S
    <2> SUFFICES ASSUME k + 1 \in Games, NEW i \in Games, i < k + 1
                 PROVE  LevelsIndex[i] + Maxlevel[i] < LevelsIndex[k + 1]
      OBVIOUS
    <2>1. k \in Games /\ k + 1 # 1 /\ (k + 1) - 1 = k /\ i \in Nat
      BY GamesAre
    <2>2. /\ LevelsIndex[k + 1] = LevelsIndex[k] + Maxlevel[k] + 1
          /\ LevelsIndex[k] \in Nat /\ Maxlevel[k] \in Nat
          /\ LevelsIndex[i] \in Nat /\ Maxlevel[i] \in Nat
      BY <2>1, LevelsIndexSteps, GamesAre
    <2>3. CASE i = k
      BY <2>2, <2>3
    <2>4. CASE i < k
      BY <1>2, <2>1, <2>2, <2>4
    <2> QED BY <2>1, <2>3, <2>4
  <1> HIDE DEF S
  <1>3. Nat \ {0} \subseteq S
    BY <1>1, <1>2, NumbersByInduction
  <1> QED BY <1>3, GamesAre DEF S

\* What show_progress walks through for a game are the levels of that game.
LEMMA WalkedIs == \A i \in Games : Walked(i) = {l \in Levels : GameOf[l] = i}
PROOF
  <1> SUFFICES ASSUME NEW i \in Games PROVE Walked(i) = {l \in Levels : GameOf[l] = i}
    OBVIOUS
  <1>0. NumLevels \in Nat \ {0} /\ Levels = 1..NumLevels
    BY LayoutAssumption DEF Levels
  <1>1. /\ i \in Nat \ {0} /\ 1 \in Games /\ Len(Maxlevel) \in Games /\ i <= Len(Maxlevel)
        /\ \A k \in Games : /\ k \in Nat /\ LevelsIndex[k] \in Nat /\ Maxlevel[k] \in Nat
      BY GamesAre, LevelsIndexSteps
  <1>2. LevelsIndex[i] >= 1
    <2>1. LevelsIndex[1] = 1
      BY <1>1, LevelsIndexSteps
    <2> QED BY <1>1, <2>1, WalksApart
  <1>3. LevelsIndex[i] + Maxlevel[i] <= NumLevels
    <2>1. NumLevels = LevelsIndex[Len(Maxlevel)] + Maxlevel[Len(Maxlevel)]
      BY MaxlevelAssumption
    <2>2. CASE i = Len(Maxlevel)
      BY <2>1, <2>2, <1>0
    <2>3. CASE i < Len(Maxlevel)
      <3>1. LevelsIndex[i] + Maxlevel[i] < LevelsIndex[Len(Maxlevel)]
        BY <1>1, <2>3, WalksApart
      <3> QED BY <1>1, <2>1, <3>1
    <2> QED BY <1>1, <2>2, <2>3
  <1>4. ASSUME NEW l \in Walked(i) PROVE l \in Levels /\ GameOf[l] = i
    <2>1. l \in Nat /\ LevelsIndex[i] <= l /\ l <= LevelsIndex[i] + Maxlevel[i]
      BY <1>1 DEF Walked
    <2>2. l \in Levels
      BY <1>0, <1>1, <1>2, <1>3, <2>1
    <2> DEFINE k == Slot[l][1]
               j == Slot[l][2]
    <2>3. k \in Games /\ j \in 0..Maxlevel[k] /\ l = LevelsIndex[k] + j
      BY <2>2, SlotPlace
    <2> HIDE DEF k, j
    <2>4. /\ i < k => LevelsIndex[i] + Maxlevel[i] < LevelsIndex[k]
          /\ k < i => LevelsIndex[k] + Maxlevel[k] < LevelsIndex[i]
      BY <2>3, WalksApart
    <2>5. k = i
      <3>1. /\ k \in Nat /\ i \in Nat /\ l \in Nat /\ j \in Nat /\ j <= Maxlevel[k]
            /\ LevelsIndex[k] \in Nat /\ Maxlevel[k] \in Nat
            /\ LevelsIndex[i] \in Nat /\ Maxlevel[i] \in Nat
        BY <1>1, <2>1, <2>3
      <3> QED BY ONLY <2>1, <2>3, <2>4, <3>1
    <2> QED BY <2>2, <2>5 DEF GameOf, k
  <1>5. ASSUME NEW l \in Levels, GameOf[l] = i PROVE l \in Walked(i)
    <2>1. Slot[l][1] = i
      BY <1>5 DEF GameOf
    <2>2. Slot[l][2] \in 0..Maxlevel[i] /\ l = LevelsIndex[i] + Slot[l][2]
      BY <2>1, SlotPlace
    <2> QED BY <1>1, <2>2 DEF Walked
  <1> QED BY <1>4, <1>5

LEMMA GameOfType == \A l \in Levels : GameOf[l] \in Games
PROOF
  BY SlotPlace DEF GameOf

\* The count of a set's members with some mark is that of the set when all have it.
LEMMA AllCounted ==
  ASSUME NEW S, IsFiniteSet(S), NEW T \in SUBSET S
  PROVE  Cardinality(T) = Cardinality(S) <=> \A x \in S : x \in T
PROOF
  <1>1. Cardinality(S) = Cardinality(T) => S = T
    BY FS_Subset
  <1> QED BY <1>1

\* The report of an array whose records have the names of their places.
LEMMA NamedReport ==
  ASSUME NEW img, \A l \in Levels : img[l].head.name = l
  PROVE  /\ \A i \in Games :
              NumComplete(img, i) =
                Cardinality({l \in Levels : /\ GameOf[img[l].head.name] = i
                                            /\ img[l].tail.complete})
         /\ Finished(img) <=> \A i \in Games : IsComplete(img, i)
PROOF
  <1> DEFINE Done(l) == img[l].tail.complete
  <1>0. NumLevels \in Nat \ {0} /\ Levels = 1..NumLevels
    BY LayoutAssumption DEF Levels
  <1>1. IsFiniteSet(Levels) /\ Cardinality(Levels) = NumLevels
    BY <1>0, FS_Interval
  <1>2. ASSUME NEW i \in Games
        PROVE  NumComplete(img, i) =
                 Cardinality({l \in Levels : /\ GameOf[img[l].head.name] = i
                                             /\ img[l].tail.complete})
    <2>1. {l \in Walked(i) : Done(l)} =
            {l \in Levels : GameOf[img[l].head.name] = i /\ Done(l)}
      BY WalkedIs
    <2> QED BY <2>1 DEF NumComplete
  <1>3. ASSUME NEW i \in Games
        PROVE  IsComplete(img, i) <=> \A l \in Levels : GameOf[l] = i => Done(l)
    <2>1. LevelsIndex[i] \in Nat /\ Maxlevel[i] \in Nat
      BY GamesAre, LevelsIndexSteps
    <2>2. IsFiniteSet(Walked(i)) /\ Cardinality(Walked(i)) = TotalLevels(i)
      <3> DEFINE a == LevelsIndex[i]
                 b == LevelsIndex[i] + Maxlevel[i]
      <3>1. a \in Int /\ b \in Int /\ ~(a > b) /\ b - a + 1 = Maxlevel[i] + 1
        BY <2>1
      <3> HIDE DEF a, b
      <3>2. IsFiniteSet(a..b) /\ Cardinality(a..b) = b - a + 1
        BY <3>1, FS_Interval
      <3> QED BY <3>1, <3>2 DEF Walked, TotalLevels, a, b
    <2> DEFINE T == {l \in Walked(i) : Done(l)}
    <2>3. T \in SUBSET Walked(i)
      OBVIOUS
    <2>4. Cardinality(T) = Cardinality(Walked(i)) <=> \A l \in Walked(i) : l \in T
      <3> HIDE DEF T
      <3> QED BY <2>2, <2>3, AllCounted
    <2>5. IsComplete(img, i) <=> \A l \in Walked(i) : Done(l)
      BY <2>2, <2>4 DEF IsComplete, NumComplete
    <2> HIDE DEF T
    <2> QED BY <2>5, WalkedIs
  <1>4. Finished(img) <=> \A l \in Levels : Done(l)
    <2>1. UNION {Walked(i) : i \in Games} = Levels
      BY WalkedIs, GameOfType
    <2> DEFINE T == {l \in Levels : Done(l)}
    <2>2. Cardinality(T) = Cardinality(Levels) <=> \A l \in Levels : l \in T
      <3>1. T \in SUBSET Levels
        OBVIOUS
      <3> HIDE DEF T
      <3> QED BY <1>1, <3>1, AllCounted
    <2> QED BY <1>1, <2>1, <2>2 DEF Finished
  <1>5. (\A l \in Levels : Done(l)) <=>
          \A i \in Games : \A l \in Levels : GameOf[l] = i => Done(l)
    BY GameOfType
  <1> QED BY <1>2, <1>3, <1>4, <1>5

-----------------------------------------------------------------------------
(* The theorems *)

\* The entry of the store for record r.
StoreOf(img) == [l \in Levels |-> EntryOf(img[l])]

\* LevelStore's Next, of two given stores.
StoreStep(s, t) ==
  \E l \in Levels :
    \/ t = [s EXCEPT ![l].complete = TRUE]
    \/ \E p \in Passwords :
         t = [s EXCEPT ![l] = [pass |-> p, saved |-> TRUE, complete |-> @.complete]]
    \/ ~s[l].saved /\ t = [s EXCEPT ![l].saved = TRUE]
    \/ /\ s[l].saved
       /\ t = [s EXCEPT ![l] = [pass |-> Unknown, saved |-> FALSE, complete |-> @.complete]]

\* The entry of a changed record.
LEMMA ChangedEntry ==
  ASSUME NEW r \in Record, NEW p, NEW b
  PROVE  /\ EntryOf(Completed(r)) = [EntryOf(r) EXCEPT !.complete = TRUE]
         /\ EntryOf(WithFlag(r, b)) = [EntryOf(r) EXCEPT !.saved = b]
         /\ EntryOf(WithFlag(WithPass(r, p), b)) =
              [pass |-> p, saved |-> b, complete |-> EntryOf(r).complete]
         /\ EntryOf(r).saved = r.tail.saved
PROOF
  <1>1. r.head \in HeadHalf /\ r.tail \in TailHalf
    BY DEF Record
  <1>2. /\ [r.tail EXCEPT !.complete = TRUE].complete = TRUE
        /\ [r.tail EXCEPT !.complete = TRUE].saved = r.tail.saved
    BY <1>1 DEF TailHalf
  <1>3. /\ [r.tail EXCEPT !.saved = b].saved = b
        /\ [r.tail EXCEPT !.saved = b].complete = r.tail.complete
    BY <1>1 DEF TailHalf
  <1>4. [r.head EXCEPT !.pass = p].pass = p
    BY <1>1 DEF HeadHalf
  <1>5. EntryOf(Completed(r)) = [pass |-> r.head.pass, saved |-> r.tail.saved, complete |-> TRUE]
    BY <1>2 DEF EntryOf, Completed
  <1>6. EntryOf(WithFlag(r, b)) = [pass |-> r.head.pass, saved |-> b, complete |-> r.tail.complete]
    BY <1>3 DEF EntryOf, WithFlag
  <1>7. EntryOf(WithFlag(WithPass(r, p), b)) = [pass |-> p, saved |-> b, complete |-> r.tail.complete]
    BY <1>3, <1>4 DEF EntryOf, WithFlag, WithPass
  <1>8. EntryOf(r) = [pass |-> r.head.pass, saved |-> r.tail.saved, complete |-> r.tail.complete]
    BY DEF EntryOf
  <1>9. EntryOf(Completed(r)) = [EntryOf(r) EXCEPT !.complete = TRUE]
    <2> DEFINE q == [pass |-> r.head.pass, saved |-> r.tail.saved, complete |-> r.tail.complete]
    <2>1. ASSUME NEW t
          PROVE  [q EXCEPT !.complete = t] =
                   [pass |-> r.head.pass, saved |-> r.tail.saved, complete |-> t]
      OBVIOUS
    <2> QED BY ONLY <1>5, <1>8, <2>1, Zenon
  <1>10. EntryOf(WithFlag(r, b)) = [EntryOf(r) EXCEPT !.saved = b]
    BY <1>6, <1>8
  <1>11. EntryOf(r).complete = r.tail.complete /\ EntryOf(r).saved = r.tail.saved
    BY <1>8
  <1> QED BY <1>7, <1>9, <1>10, <1>11

\* A changed record is a changed entry of the store.
LEMMA ChangeIsStoreStep ==
  ASSUME NEW old \in Image, NEW new, NEW c, c.op = "store" => c.pass \in Passwords,
         ChangedBy(old, new, c)
  PROVE  StoreStep(StoreOf(old), StoreOf(new))
PROOF
  <1>1. PICK i \in Levels : /\ Change(old[i], new[i], c)
                            /\ new = [old EXCEPT ![i] = new[i]]
    BY DEF ChangedBy
  <1> DEFINE r == new[i]
             e == EntryOf(old[i])
  <1>2. DOMAIN old = Levels
    BY DEF Image
  <1>3. StoreOf(new) = [StoreOf(old) EXCEPT ![i] = EntryOf(r)]
    <2>1. \A l \in Levels : new[l] = IF l = i THEN r ELSE old[l]
      <3> HIDE DEF r
      <3> QED BY <1>1, <1>2 DEF r
    <2> HIDE DEF r
    <2> QED BY <2>1 DEF StoreOf
  <1>4. StoreOf(old)[i] = e
    BY DEF StoreOf
  <1>5. \/ c.op = "complete" /\ r = Completed(old[i])
        \/ /\ c.op = "store" /\ c.pass \in Passwords
           /\ r = WithFlag(WithPass(old[i], c.pass), TRUE)
        \/ ~old[i].tail.saved /\ r = WithFlag(old[i], TRUE)
        \/ old[i].tail.saved /\ r = WithFlag(WithPass(old[i], Unknown), FALSE)
    BY <1>1 DEF Change
  <1> DEFINE s == StoreOf(old)
  <1>6. DOMAIN s = Levels /\ old[i] \in Record /\ i \in Levels
    BY DEF Image, StoreOf
  <1>7. EntryOf(old[i]).saved = old[i].tail.saved
    BY DEF EntryOf
  <1>8. ASSUME NEW p, NEW b
        PROVE  EntryOf(WithFlag(WithPass(old[i], p), b)) =
                 [pass |-> p, saved |-> b, complete |-> EntryOf(old[i]).complete]
    <2>1. PICK q \in Record : q = old[i]
      BY <1>6
    <2>2. EntryOf(WithFlag(WithPass(q, p), b)) =
            [pass |-> p, saved |-> b, complete |-> EntryOf(q).complete]
      BY ONLY ChangedEntry
    <2> QED BY <2>1, <2>2, Zenon
  <1>9. CASE c.op = "complete" /\ r = Completed(old[i])
    <2>1. EntryOf(r) = [e EXCEPT !.complete = TRUE]
      BY <1>6, <1>9, ChangedEntry
    <2> HIDE DEF r, e, s
    <2>2. StoreOf(new) = [s EXCEPT ![i].complete = TRUE]
      BY <1>3, <1>4, <2>1 DEF s
    <2> QED BY <2>2 DEF s, StoreStep
  <1>10. CASE /\ c.op = "store" /\ c.pass \in Passwords
              /\ r = WithFlag(WithPass(old[i], c.pass), TRUE)
    <2>1. EntryOf(r) = [pass |-> c.pass, saved |-> TRUE, complete |-> e.complete]
      <3>1. EntryOf(WithFlag(WithPass(old[i], c.pass), TRUE)) =
              [pass |-> c.pass, saved |-> TRUE, complete |-> EntryOf(old[i]).complete]
        BY <1>8, Zenon
      <3> QED BY <1>10, <3>1, Zenon
    <2> HIDE DEF r, e, s
    <2>2. StoreOf(new) =
            [s EXCEPT ![i] = [pass |-> c.pass, saved |-> TRUE, complete |-> @.complete]]
      BY <1>3, <1>4, <1>6, <2>1 DEF s
    <2> QED BY <1>10, <2>2 DEF s, StoreStep
  <1>11. CASE ~old[i].tail.saved /\ r = WithFlag(old[i], TRUE)
    <2>1. EntryOf(r) = [e EXCEPT !.saved = TRUE] /\ ~e.saved
      BY <1>6, <1>11, ChangedEntry
    <2> HIDE DEF r, e, s
    <2>2. StoreOf(new) = [s EXCEPT ![i].saved = TRUE] /\ ~s[i].saved
      BY <1>3, <1>4, <2>1 DEF s
    <2> QED BY <2>2 DEF s, StoreStep
  <1>12. CASE old[i].tail.saved /\ r = WithFlag(WithPass(old[i], Unknown), FALSE)
    <2>1. EntryOf(r) = [pass |-> Unknown, saved |-> FALSE, complete |-> e.complete] /\ e.saved
      <3>1. /\ EntryOf(WithFlag(WithPass(old[i], Unknown), FALSE)) =
                 [pass |-> Unknown, saved |-> FALSE, complete |-> EntryOf(old[i]).complete]
            /\ EntryOf(old[i]).saved = old[i].tail.saved
        BY <1>7, <1>8, Zenon
      <3> QED BY <1>12, <3>1, Zenon
    <2> HIDE DEF r, e, s
    <2>2. /\ s[i].saved
          /\ StoreOf(new) =
               [s EXCEPT ![i] = [pass |-> Unknown, saved |-> FALSE, complete |-> @.complete]]
      BY <1>3, <1>4, <1>6, <2>1 DEF s
    <2> QED BY <2>2 DEF s, StoreStep
  <1> HIDE DEF r, s
  <1> QED BY <1>5, <1>9, <1>10, <1>11, <1>12

(***************************************************************************)
(* One invocation at a time, none killed, any command lines: however the   *)
(* blocks of the file lie, the fwrites, the rename and the fclose of       *)
(* save_data are together one change of one entry of the abstract store.   *)
(***************************************************************************)
THEOREM FileIsStore ==
  ASSUME NEW w \in Procs, Procs = {w}
  PROVE  ProgramSpec => ImplementsStore
PROOF
  <1>1. Init => Alone(w) /\ Given(w) /\ Store!Init
    <2> SUFFICES ASSUME Init PROVE Alone(w) /\ Given(w) /\ Store!Init
      OBVIOUS
    <2>1. Alone(w) /\ Given(w) /\ StoredImage = DefaultImage
      BY ProgramStart, StoredIsHeld
    <2> QED BY <2>1
        DEF Store!Init, Store!EmptyStore, Store!Levels, Levels, DefaultImage, EntryOf
  <1>2. Alone(w) /\ Given(w) /\ [ProgramNext]_vars => Alone(w)' /\ Given(w)'
    BY ProgramKeeps
  <1>3. Alone(w) /\ Given(w) /\ [ProgramNext]_vars =>
          [Store!Next]_([l \in Levels |-> EntryOf(StoredImage[l])])
    <2> SUFFICES ASSUME Alone(w), Given(w), [ProgramNext]_vars
                 PROVE  Store!Next \/ StoreOf(StoredImage') = StoreOf(StoredImage)
      BY DEF StoreOf
    <2>1. /\ StoredImage \in Image
          /\ \/ StoredImage' = StoredImage
             \/ Asked(w) /\ ChangedBy(StoredImage, StoredImage', cmd[w])
      BY ProgramKeeps
    <2>2. CASE StoredImage' = StoredImage
      BY <2>2
    <2>3. CASE Asked(w) /\ ChangedBy(StoredImage, StoredImage', cmd[w])
      <3>1. ASSUME NEW new, ChangedBy(StoredImage, new, cmd[w])
            PROVE  StoreStep(StoreOf(StoredImage), StoreOf(new))
        <4>1. cmd[w].op = "store" => cmd[w].pass \in Passwords
          BY <2>3 DEF Asked, IsAsked
        <4> QED BY <2>1, <3>1, <4>1, ChangeIsStoreStep
      <3>2. StoreStep(StoreOf(StoredImage), StoreOf(StoredImage'))
        BY <2>3, <3>1, Zenon
      <3> QED BY <3>2, Zenon
          DEF Store!Next, Store!Complete, Store!Remember, Store!Raise, Store!Forget, Store!Levels,
              Levels, StoreStep, StoreOf, EntryOf
    <2> QED BY <2>1, <2>2, <2>3
  <1> QED BY <1>1, <1>2, <1>3, PTL DEF ProgramSpec, ImplementsStore, Store!Spec

(***************************************************************************)
(* One invocation at a time, none killed: for any command lines, of any    *)
(* words, a step changes at most one record of the store, and only as a    *)
(* form of the usage message asks: the level -c or a login names, or, with *)
(* -s and a word behind the password, one level to that very password.     *)
(***************************************************************************)
THEOREM AskedOnly ==
  ASSUME NEW w \in Procs, Procs = {w}
  PROVE  ProgramSpec => OnlyWhatWasAsked
PROOF
  <1> DEFINE Asks(line, l, old, new) ==
               \/ /\ AsksToComplete(line, l)
                  /\ new = Completed(old)
               \/ \E pass \in Passwords :
                    /\ AsksToStore(line, pass)
                    /\ new = WithFlag(WithPass(old, pass), TRUE)
               \/ /\ AsksToConnect(line, l)
                  /\ new \in {WithFlag(old, TRUE), WithFlag(WithPass(old, Unknown), FALSE)}
             A == StoredImage' # StoredImage =>
       \E p \in Procs, l \in Levels :
         LET old == StoredImage[l]
             new == StoredImage'[l]
         IN  /\ StoredImage' = [StoredImage EXCEPT ![l] = new]
             /\ GivenLines(p) # {}
             /\ \A line \in GivenLines(p) :
                  \/ /\ AsksToComplete(line, l)
                     /\ new = Completed(old)
                  \/ \E pass \in Passwords :
                       /\ AsksToStore(line, pass)
                       /\ new = WithFlag(WithPass(old, pass), TRUE)
                  \/ /\ AsksToConnect(line, l)
                     /\ new \in {WithFlag(old, TRUE), WithFlag(WithPass(old, Unknown), FALSE)}
  <1>1. Init => Alone(w) /\ Given(w)
    BY ProgramStart
  <1>2. Alone(w) /\ Given(w) /\ [ProgramNext]_vars => Alone(w)' /\ Given(w)'
    BY ProgramKeeps
  <1>3. Alone(w) /\ Given(w) /\ [ProgramNext]_vars => [A]_vars
    <2> SUFFICES ASSUME Alone(w), Given(w), [ProgramNext]_vars,
                        StoredImage' # StoredImage
                 PROVE  \E l \in Levels :
                          /\ StoredImage' = [StoredImage EXCEPT ![l] = StoredImage'[l]]
                          /\ GivenLines(w) # {}
                          /\ \A line \in GivenLines(w) :
                               Asks(line, l, StoredImage[l], StoredImage'[l])
      OBVIOUS
    <2>1. Asked(w) /\ ChangedBy(StoredImage, StoredImage', cmd[w])
      BY ProgramKeeps
    <2>2. PICK l \in Levels : /\ cmd[w].name = l \/ cmd[w].op = "store"
                              /\ Change(StoredImage[l], StoredImage'[l], cmd[w])
                              /\ StoredImage' = [StoredImage EXCEPT ![l] = StoredImage'[l]]
      BY <2>1 DEF ChangedBy
    <2>3. ASSUME NEW line \in GivenLines(w)
          PROVE  Asks(line, l, StoredImage[l], StoredImage'[l])
      <3>1. IsAsked(line, cmd[w])
        BY <2>1 DEF Asked
      <3> QED BY <2>2, <3>1 DEF IsAsked, Change
    <2>4. GivenLines(w) # {}
      BY <2>1 DEF Asked
    <2> HIDE DEF Asks
    <2> QED BY <2>2, <2>3, <2>4
  <1> QED BY <1>1, <1>2, <1>3, PTL DEF ProgramSpec, OnlyWhatWasAsked

(***************************************************************************)
(* One invocation at a time, none killed: every level whose otw -c ran to  *)
(* its end is complete in the data file whenever nothing runs.  (Two at a  *)
(* time can lose one: the run lost_update.)                                *)
(***************************************************************************)
THEOREM ReportedIsKept ==
  ASSUME NEW w \in Procs, Procs = {w}
  PROVE  Spec => []ProgressKept
PROOF
  <1>1. Init => Alone(w) /\ SoleWriter(w) /\ DoneHeld(w)
    <2>1. Init => done = {}
      BY DEF Init
    <2> QED BY <2>1, InitAlone, SoleWriterInit DEF DoneHeld
  <1>2. Alone(w) /\ SoleWriter(w) /\ DoneHeld(w) /\ [Next]_vars
          => Alone(w)' /\ SoleWriter(w)' /\ DoneHeld(w)'
    BY DoneHeldStep
  <1>3. Alone(w) /\ DoneHeld(w) => ProgressKept
    <2> SUFFICES ASSUME Alone(w), DoneHeld(w), pc[w] = "idle", NEW l \in done
                 PROVE  data # NoFile /\ file[data].img[l].tail.complete
      BY DEF ProgressKept
    <2>1. Held(w)[l].tail.complete /\ l \in Levels
      BY DEF DoneHeld, Alone, Inv, TypeOK
    <2>2. Held(w) = IF data = NoFile THEN DefaultImage ELSE file[data].img
      BY DEF Held
    <2> QED BY <2>1, <2>2, DefaultNames
  <1> QED BY <1>1, <1>2, <1>3, PTL DEF Spec

(***************************************************************************)
(* One invocation at a time, none killed, any table of games: the counts   *)
(* and the two verdicts of otw -p are those of the store, by the names its *)
(* records have.                                                           *)
(***************************************************************************)
THEOREM ReportTrue ==
  ASSUME NEW w \in Procs, Procs = {w}
  PROVE  ProgramSpec => []ReportIsTrue
PROOF
  <1>1. Init => Alone(w) /\ Given(w) /\ NamesHeld(w)
    BY ProgramStart, DefaultNames DEF NamesHeld
  <1>2. Alone(w) /\ Given(w) /\ NamesHeld(w) /\ [ProgramNext]_vars
          => Alone(w)' /\ Given(w)' /\ NamesHeld(w)'
    BY ProgramKeeps, NamesHeldStep
  <1>3. Alone(w) /\ NamesHeld(w) => ReportIsTrue
    <2> SUFFICES ASSUME Alone(w), NamesHeld(w), pc[w] = "loaded"
                 PROVE  /\ \A i \in Games :
                             NumComplete(mem[w], i) =
                               Cardinality({l \in Levels :
                                              /\ GameOf[StoredImage[l].head.name] = i
                                              /\ StoredImage[l].tail.complete})
                        /\ Finished(mem[w]) <=> \A i \in Games : IsComplete(mem[w], i)
      BY DEF ReportIsTrue
    <2>1. data # NoFile /\ mem[w] = file[data].img
      BY DEF Alone, FilesKnown, MemoryKnown
    <2>2. StoredImage = mem[w]
      BY <2>1, StoredIsHeld DEF Held
    <2>3. \A l \in Levels : StoredImage[l].head.name = l
      BY StoredIsHeld DEF NamesHeld
    <2>4. \A img : (\A l \in Levels : img[l].head.name = l) =>
            /\ \A i \in Games :
                 NumComplete(img, i) =
                   Cardinality({l \in Levels : /\ GameOf[img[l].head.name] = i
                                               /\ img[l].tail.complete})
            /\ Finished(img) <=> \A i \in Games : IsComplete(img, i)
      BY NamedReport
    <2>5. /\ \A i \in Games :
               NumComplete(StoredImage, i) =
                 Cardinality({l \in Levels : /\ GameOf[StoredImage[l].head.name] = i
                                             /\ StoredImage[l].tail.complete})
          /\ Finished(StoredImage) <=> \A i \in Games : IsComplete(StoredImage, i)
      BY ONLY <2>3, <2>4, Zenon
    <2> QED BY ONLY <2>2, <2>5, Zenon
  <1> QED BY <1>1, <1>2, <1>3, PTL DEF ProgramSpec

-----------------------------------------------------------------------------
(* With kills, and beside processes that only load *)

\* What w has in memory, of the levels outside the last block, when it has
\* loaded the file, and when it saves.
EarlySaved(w) ==
  LET old == EarlyPart(DataImage)
      new == EarlyPart(mem[w])
  IN  /\ pc[w] = "loaded" => new = old
      /\ pc[w] \in {"fopen_temp", "fwrite"} => new = old \/ ChangedBy(old, new, cmd[w])

\* What a step of w makes of those levels in the data file.
EarlyOutcome(w) ==
  \/ EarlyPart(DataImage') = EarlyPart(DataImage)
  \/ pc[w] # "idle" /\ ChangedBy(EarlyPart(DataImage), EarlyPart(DataImage'), cmd[w])

LEMMA EarlySame ==
  ASSUME NEW a \in Image, NEW b \in Image, NEW n \in Nat, n >= NumBlocks, AgreeBelow(a, b, n)
  PROVE  EarlyPart(a) = EarlyPart(b)
PROOF
  <1>1. \A l \in Levels : Early(l) => a[l].head = b[l].head /\ a[l].tail = b[l].tail
    BY EarlyBlocks DEF AgreeBelow
  <1>2. \A l \in Levels : a[l] \in Record /\ b[l] \in Record
    BY DEF Image
  <1>3. \A l \in Levels : Early(l) => a[l] = b[l]
    BY <1>1, <1>2 DEF Record
  <1> QED BY <1>3 DEF EarlyPart

\* One changed record is one changed record of the early part, or none.
LEMMA EarlyChange ==
  ASSUME NEW m \in Image, NEW i \in Levels, NEW r, NEW c,
         c.name = i \/ c.op = "store", Change(m[i], r, c)
  PROVE  LET old == EarlyPart(m)
             new == EarlyPart([m EXCEPT ![i] = r])
         IN  new = old \/ ChangedBy(old, new, c)
PROOF
  <1> DEFINE old == EarlyPart(m)
             img == [m EXCEPT ![i] = r]
             new == EarlyPart(img)
  <1>1. \A l \in Levels : img[l] = IF l = i THEN r ELSE m[l]
    BY DEF Image
  <1> HIDE DEF img
  <1>2. CASE Early(i)
    <2>1. new = [old EXCEPT ![i] = r] /\ new[i] = r /\ old[i] = m[i]
      BY <1>1, <1>2 DEF EarlyPart
    <2> HIDE DEF old, new
    <2> QED BY <2>1 DEF ChangedBy, old, new, img
  <1>3. CASE ~Early(i)
    <2>1. new = old
      BY <1>1, <1>3 DEF EarlyPart
    <2> QED BY <2>1 DEF img
  <1> QED BY <1>2, <1>3

LEMMA EarlyIsImage ==
  ASSUME TypeOK
  PROVE  EarlyPart(DataImage) \in Image
PROOF
  <1>1. DataImage \in Image
    BY ConstantTypes DEF TypeOK, File, DataImage
  <1> QED BY <1>1, ConstantTypes DEF EarlyPart, Image

\* The data file is the same one, and nobody wrote to it.
LEMMA DataImageKept ==
  ASSUME Inv, UNCHANGED data, UNCHANGED file \/ Reclaimed(file)
  PROVE  DataImage' = DataImage
PROOF
  <1>1. data # NoFile => file'[data] = file[data]
    BY NamedFileKept DEF Inv, TypeOK
  <1> QED BY <1>1 DEF DataImage

LEMMA EarlyEnds ==
  ASSUME Inv, NEW w \in Procs, Ends(w), UNCHANGED data, UNCHANGED file \/ Reclaimed(file)
  PROVE  EarlySaved(w)' /\ EarlyOutcome(w)
PROOF
  <1>1. pc'[w] = "idle"
    BY DEF Ends, Inv, TypeOK
  <1>2. DataImage' = DataImage
    BY DataImageKept
  <1> QED BY <1>1, <1>2 DEF EarlySaved, EarlyOutcome

LEMMA EarlyLoads ==
  ASSUME Inv, NEW w \in Procs, SoleWriter(w), EarlySaved(w), Load(w)
  PROVE  EarlySaved(w)' /\ EarlyOutcome(w)
PROOF
  <1> USE DEF Goto, fsVars
  <1>T. TypeOK /\ Control
    BY DEF Inv
  <1>1. CASE MkdirFails(w)
    BY <1>1, EarlyEnds DEF MkdirFails
  <1>2. CASE CreateNewDataFile(w)
    <2>1. data = NoFile /\ UNCHANGED <<data, file>> /\ mem'[w] = DefaultImage
      BY <1>2, <1>T DEF CreateNewDataFile, TypeOK
    <2>2. DataImage' = DataImage /\ DataImage = mem'[w] /\ pc'[w] = "fopen_temp"
      BY <1>2, <1>T, <2>1 DEF DataImage, CreateNewDataFile, TypeOK
    <2> QED BY <2>2 DEF EarlySaved, EarlyOutcome
  <1>3. CASE FoundDataFile(w) \/ FopenData(w) \/ FreadBlock(w)
    <2>1. UNCHANGED <<data, file>> /\ pc'[w] \in {"fopen_data", "fread"}
      BY <1>3, <1>T DEF FoundDataFile, FopenData, FreadBlock, TypeOK
    <2>2. DataImage' = DataImage
      BY <2>1 DEF DataImage
    <2> QED BY <2>1, <2>2 DEF EarlySaved, EarlyOutcome
  <1>4. CASE FreadDone(w)
    <2>1. /\ pc[w] = "fread" /\ data = fd[w] /\ data \in Inodes /\ data # NoFile
          /\ AgreeBelow(file[data].img, mem[w], pos[w])
          /\ UNCHANGED <<data, mem>> /\ Reclaimed(file) /\ pc'[w] = "loaded"
      BY <1>4, <1>T, InodesAssumption DEF FreadDone, SoleWriter, WriterKept, Control, TypeOK
    <2>2. file[data].len >= NumBlocks - 1 /\ pos[w] > file[data].len
      BY <1>4, <2>1 DEF FreadDone, SoleWriter, DataKept, OnlyLastBlockLost
    <2>3. /\ file[data].len \in Nat /\ pos[w] \in Nat
          /\ file[data].img \in Image /\ mem[w] \in Image
      BY <1>T, <2>1, LayoutAssumption DEF TypeOK, File
    <2>4. pos[w] >= NumBlocks
      BY <2>2, <2>3, LayoutAssumption
    <2>5. EarlyPart(file[data].img) = EarlyPart(mem[w])
      BY <2>1, <2>3, <2>4, EarlySame
    <2>6. DataImage' = DataImage /\ DataImage = file[data].img
      BY <2>1, DataImageKept DEF DataImage
    <2> QED BY <2>1, <2>5, <2>6 DEF EarlySaved, EarlyOutcome
  <1> QED BY <1>1, <1>2, <1>3, <1>4 DEF Load

\* A command changes one record in memory and begins to save.
LEMMA EarlySaves ==
  ASSUME Inv, NEW w \in Procs, EarlySaved(w), pc[w] = "loaded",
         NEW i \in Levels, IsFirstMatch(mem[w], cmd[w].name, i) \/ cmd[w].op = "store",
         NEW r, Change(mem[w][i], r, cmd[w]), Save(w, i, r)
  PROVE  EarlySaved(w)' /\ EarlyOutcome(w)
PROOF
  <1> DEFINE img == [mem[w] EXCEPT ![i] = r]
  <1>1. /\ mem[w] \in Image /\ InPlace(mem[w])
        /\ cmd[w].name \in Levels \cup {JunkName}
    BY DEF Inv, TypeOK, RecordsInPlace, Control, Command
  <1>2. cmd[w].name = i \/ cmd[w].op = "store"
    BY <1>1, MatchIsLevel
  <1>3. /\ pc'[w] = "fopen_temp" /\ mem'[w] = img
        /\ UNCHANGED <<cmd, data, file>>
    BY DEF Save, Goto, fsVars, Inv, TypeOK
  <1>4. DataImage' = DataImage
    BY <1>3 DEF DataImage
  <1>5. \/ EarlyPart(img) = EarlyPart(mem[w])
        \/ ChangedBy(EarlyPart(mem[w]), EarlyPart(img), cmd[w])
    BY <1>1, <1>2, EarlyChange
  <1>6. EarlyPart(mem[w]) = EarlyPart(DataImage)
    BY DEF EarlySaved
  <1> HIDE DEF img
  <1> QED BY <1>3, <1>4, <1>5, <1>6 DEF EarlySaved, EarlyOutcome

LEMMA EarlyApplies ==
  ASSUME Inv, NEW w \in Procs, EarlySaved(w), Apply(w)
  PROVE  EarlySaved(w)' /\ EarlyOutcome(w)
PROOF
  <1>1. CASE Show(w) \/ InvalidLevel(w) \/ ConnectEnds(w)
    BY <1>1, EarlyEnds DEF Show, InvalidLevel, ConnectEnds, fsVars
  <1>2. CASE MarkLevelComplete(w)
    BY <1>2, EarlySaves DEF MarkLevelComplete, Change
  <1>3. CASE StorePass(w)
    BY <1>3, EarlySaves DEF StorePass, Change
  <1>4. CASE ConnectRemembers(w)
    BY <1>4, EarlySaves DEF ConnectRemembers, Change
  <1>5. CASE ConnectForgets(w)
    BY <1>5, EarlySaves DEF ConnectForgets, Change
  <1> QED BY <1>1, <1>2, <1>3, <1>4, <1>5 DEF Apply

\* Until the rename the data file is left alone; the rename puts a file in its
\* place that lacks nothing but its last block; fclose adds that block.
LEMMA EarlyWrites ==
  ASSUME Inv, NEW w \in Procs, SoleWriter(w), EarlySaved(w), SaveData(w)
  PROVE  EarlySaved(w)' /\ EarlyOutcome(w)
PROOF
  <1> USE DEF Goto
  <1>T. TypeOK /\ Control
    BY DEF Inv
  <1>1. CASE FopenTempFails(w)
    BY <1>1, EarlyEnds DEF FopenTempFails, fsVars
  <1>2. CASE FopenTemp(w)
    <2>1. /\ pc[w] = "fopen_temp" /\ pc'[w] = "fwrite" /\ UNCHANGED <<data, mem, cmd>>
          /\ file' = [file EXCEPT ![temp'] = EmptyFile]
      BY <1>2, <1>T DEF FopenTemp, TypeOK
    <2>2. temp' # data
      BY <1>2, TempApart
    <2>3. data # NoFile => file'[data] = file[data]
      BY <1>T, <2>1, <2>2 DEF TypeOK
    <2>4. DataImage' = DataImage
      BY <2>1, <2>3 DEF DataImage
    <2> QED BY <2>1, <2>4 DEF EarlySaved, EarlyOutcome
  <1>3. CASE FwriteBlock(w)
    <2> DEFINE g == PutBlock(file[fd[w]], mem[w], pos[w])
    <2>1. /\ pc[w] = "fwrite" /\ UNCHANGED <<pc, data, mem, cmd>> /\ temp = fd[w]
          /\ file' = [file EXCEPT ![temp] = g]
      BY <1>3 DEF FwriteBlock, SoleWriter, WriterKept
    <2> HIDE DEF g
    <2>2. data # NoFile => file'[data] = file[data]
      BY <1>T, <2>1 DEF TypeOK, SoleWriter, FilesApart
    <2>3. DataImage' = DataImage
      BY <2>1, <2>2 DEF DataImage
    <2> QED BY <2>1, <2>3 DEF EarlySaved, EarlyOutcome
  <1>4. CASE Rename(w)
    <2>1. /\ pc[w] = "fwrite" /\ pos[w] = NumBlocks /\ temp = fd[w] /\ temp \in Inodes
          /\ AgreeBelow(file[temp].img, mem[w], NumBlocks)
      BY <1>4, <1>T DEF Rename, Control, SoleWriter, WriterKept
    <2>2. /\ data' = temp /\ data' # NoFile /\ pc'[w] = "fclose" /\ Reclaimed(file)
      BY <1>4, <1>T, <2>1, InodesAssumption DEF Rename, TypeOK
    <2>3. file'[data'] = file[temp]
      BY <2>1, <2>2, NamedFileKept
    <2>4. DataImage' = file[temp].img
      BY <2>2, <2>3 DEF DataImage
    <2>5. EarlyPart(DataImage') = EarlyPart(mem[w])
      <3>1. file[temp].img \in Image /\ mem[w] \in Image
        BY <1>T, <2>1 DEF TypeOK, File
      <3>2. NumBlocks \in Nat /\ NumBlocks >= NumBlocks
        BY LayoutAssumption
      <3> QED BY <2>1, <2>4, <3>1, <3>2, EarlySame
    <2>6. EarlyOutcome(w)
      BY <2>1, <2>5 DEF EarlySaved, EarlyOutcome
    <2> QED BY <2>2, <2>6 DEF EarlySaved
  <1>5. CASE Fclose(w)
    <2> DEFINE f == file[data]
               g == PutBlock(f, mem[w], NumBlocks)
    <2>1. /\ pc[w] = "fclose" /\ pos[w] = NumBlocks /\ data = fd[w]
          /\ data \in Inodes /\ data # NoFile /\ UNCHANGED data
      BY <1>5, <1>T, InodesAssumption DEF Fclose, Control, SoleWriter, WriterKept
    <2>2. f.img \in Image /\ mem[w] \in Image
      BY <1>T, <2>1 DEF TypeOK, File
    <2>3. file'[data] = g
      <3>1. InUse(data)'
        BY <2>1 DEF InUse
      <3>2. Reclaimed([file EXCEPT ![data] = g])
        BY <1>5, <2>1 DEF Fclose
      <3> HIDE DEF g
      <3>3. [file EXCEPT ![data] = g][data] = g
        BY <1>T, <2>1 DEF TypeOK
      <3> QED BY <2>1, <3>1, <3>2, <3>3 DEF Reclaimed
    <2>4. g.img = Splice(f.img, mem[w], NumBlocks)
      BY DEF PutBlock
    <2>5. EarlyPart(f.img) = EarlyPart(g.img)
      <3>1. NumBlocks \in Nat /\ NumBlocks \in 1..NumBlocks /\ NumBlocks >= NumBlocks
        BY LayoutAssumption
      <3>2. g.img \in Image /\ AgreeBelow(f.img, g.img, NumBlocks)
        BY <2>2, <2>4, <3>1, SpliceImage, SpliceAgree
      <3> HIDE DEF f, g
      <3> QED BY <2>2, <3>1, <3>2, EarlySame
    <2>6. DataImage = f.img /\ DataImage' = g.img
      <3> HIDE DEF g
      <3> QED BY <2>1, <2>3 DEF DataImage
    <2>7. pc'[w] \in {"idle", "fopen_data"}
      BY <1>5, <1>T DEF Fclose, Ends, TypeOK
    <2> HIDE DEF f, g
    <2> QED BY <2>5, <2>6, <2>7 DEF EarlySaved, EarlyOutcome
  <1> QED BY <1>1, <1>2, <1>3, <1>4, <1>5 DEF SaveData

LEMMA EarlyNext ==
  ASSUME NEW w \in Procs,
         \A p \in Procs \ {w} : \A c \in Commands[p] : c.op = "show",
         Inv, SoleWriter(w), EarlySaved(w), [CrashNext]_vars
  PROVE  EarlySaved(w)' /\ EarlyOutcome(w)
PROOF
  <1>1. CASE UNCHANGED vars
    <2>1. UNCHANGED <<pc, cmd, mem>> /\ DataImage' = DataImage
      BY <1>1 DEF vars, procVars, fsVars, DataImage
    <2> QED BY <2>1 DEF EarlySaved, EarlyOutcome
  <1>2. CASE \E c \in Commands[w] : Start(w, c)
    <2>1. pc'[w] = "access" /\ UNCHANGED <<data, file>>
      BY <1>2 DEF Start, Goto, fsVars, Inv, TypeOK
    <2>2. DataImage' = DataImage
      BY <2>1 DEF DataImage
    <2> QED BY <2>1, <2>2 DEF EarlySaved, EarlyOutcome
  <1>3. CASE Crash(w)
    BY <1>3, EarlyEnds DEF Crash
  <1>4. CASE Step(w)
    BY <1>2, <1>4, EarlyLoads, EarlyApplies, EarlyWrites DEF Step
  <1>5. ASSUME NEW p \in Procs \ {w}, Step(p) \/ Crash(p)
        PROVE  EarlySaved(w)' /\ EarlyOutcome(w)
    <2>1. UNCHANGED <<pc[w], cmd[w], mem[w]>>
      BY <1>5, ReaderFrame
    <2>2. UNCHANGED data
      BY <1>5, ReaderFrame
    <2>3. UNCHANGED file \/ Reclaimed(file)
      BY <1>5, ReaderFrame
    <2>4. DataImage' = DataImage
      BY <2>2, <2>3, DataImageKept
    <2> QED BY <2>1, <2>4 DEF EarlySaved, EarlyOutcome
  <1> QED BY <1>1, <1>3, <1>4, <1>5 DEF CrashNext

\* w runs one of its commands.
CommandGiven(w) == pc[w] # "idle" => cmd[w] \in Commands[w]

LEMMA CommandGivenNext ==
  ASSUME NEW w \in Procs, Inv, CommandGiven(w), [CrashNext]_vars
  PROVE  CommandGiven(w)'
PROOF
  <1>T. TypeOK
    BY DEF Inv
  <1>1. CASE UNCHANGED vars
    BY <1>1 DEF vars, procVars, CommandGiven
  <1>2. CASE \E c \in Commands[w] : Start(w, c)
    BY <1>2, <1>T DEF Start, TypeOK, CommandGiven
  <1>3. CASE Load(w) \/ Apply(w) \/ SaveData(w)
    BY <1>3, <1>T, CommandKept DEF CommandGiven
  <1>4. CASE Crash(w)
    BY <1>4, <1>T DEF Crash, Ends, TypeOK, CommandGiven
  <1>5. ASSUME NEW p \in Procs \ {w}, Step(p) \/ Crash(p)
        PROVE  CommandGiven(w)'
    BY <1>5, OthersAlone DEF CommandGiven
  <1> QED BY <1>1, <1>2, <1>3, <1>4, <1>5 DEF CrashNext, Step

\* What the steps mean for the abstract store.
LEMMA EarlyIsStoreStep ==
  ASSUME NEW w \in Procs, \A c \in Commands[w] : c.op = "store" => c.pass \in Passwords,
         TypeOK, pc[w] # "idle" => cmd[w] \in Commands[w], EarlyOutcome(w)
  PROVE  [EarlyStore!Next]_([l \in Levels |-> EntryOf(EarlyPart(DataImage)[l])])
PROOF
  <1> SUFFICES EarlyStore!Next \/
               StoreOf(EarlyPart(DataImage')) = StoreOf(EarlyPart(DataImage))
    BY DEF StoreOf
  <1>1. CASE EarlyPart(DataImage') = EarlyPart(DataImage)
    BY <1>1
  <1>2. CASE pc[w] # "idle" /\ ChangedBy(EarlyPart(DataImage), EarlyPart(DataImage'), cmd[w])
    <2>1. ASSUME NEW new, ChangedBy(EarlyPart(DataImage), new, cmd[w])
          PROVE  StoreStep(StoreOf(EarlyPart(DataImage)), StoreOf(new))
      <3>1. cmd[w].op = "store" => cmd[w].pass \in Passwords
        BY <1>2
      <3> QED BY <2>1, <3>1, EarlyIsImage, ChangeIsStoreStep
    <2>2. StoreStep(StoreOf(EarlyPart(DataImage)), StoreOf(EarlyPart(DataImage')))
      BY <1>2, <2>1, Zenon
    <2> QED BY <2>2, Zenon
        DEF EarlyStore!Next, EarlyStore!Complete, EarlyStore!Remember, EarlyStore!Raise,
            EarlyStore!Forget, EarlyStore!Levels, Levels, StoreStep, StoreOf
  <1> QED BY <1>1, <1>2 DEF EarlyOutcome

\* From a given first state, under kills.
LEMMA KilledStore ==
  ASSUME NEW w \in Procs,
         \A p \in Procs \ {w} : \A c \in Commands[p] : c.op = "show",
         \A c \in Commands[w] : c.op = "store" => c.pass \in Passwords
  PROVE  Inv /\ SoleWriter(w) /\ EarlySaved(w) /\ CommandGiven(w) /\ EarlyStore!Init
           /\ [][CrashNext]_vars => ImplementsEarlyStore
PROOF
  <1>1. Inv /\ SoleWriter(w) /\ EarlySaved(w) /\ CommandGiven(w) /\ [CrashNext]_vars
          => Inv' /\ SoleWriter(w)' /\ EarlySaved(w)' /\ CommandGiven(w)'
    BY NextInv, SoleWriterNext, EarlyNext, CommandGivenNext
  <1>2. Inv /\ SoleWriter(w) /\ EarlySaved(w) /\ CommandGiven(w) /\ [CrashNext]_vars
          => [EarlyStore!Next]_([l \in Levels |-> EntryOf(EarlyPart(DataImage)[l])])
    BY EarlyNext, EarlyIsStoreStep DEF Inv, CommandGiven
  <1> QED BY <1>1, <1>2, PTL DEF ImplementsEarlyStore, EarlyStore!Spec

LEMMA EarlyInit ==
  ASSUME NEW w \in Procs, \A p \in Procs : pc[p] = "idle", DataImage = DefaultImage
  PROVE  EarlySaved(w) /\ CommandGiven(w) /\ EarlyStore!Init
PROOF
  <1>1. EarlySaved(w) /\ CommandGiven(w)
    BY DEF EarlySaved, CommandGiven
  <1>2. EarlyStore!Init
    BY DEF EarlyStore!Init, EarlyStore!EmptyStore, EarlyStore!Levels, Levels,
           EarlyPart, EntryOf, DefaultImage
  <1> QED BY <1>1, <1>2

(***************************************************************************)
(* One process alone, from an empty directory, killed anywhere and any     *)
(* number of times: for any layout, a save changes the levels outside the  *)
(* last block as its command says, in one step, or not at all.  Being      *)
(* killed costs them no password and no flag.                              *)
(***************************************************************************)
THEOREM KilledSavesAreWhole ==
  ASSUME NEW w \in Procs, Procs = {w},
         \A c \in Commands[w] : c.op = "store" => c.pass \in Passwords
  PROVE  CrashSpec => ImplementsEarlyStore
PROOF
  <1>1. Init => /\ Inv /\ SoleWriter(w)
                /\ EarlySaved(w) /\ CommandGiven(w) /\ EarlyStore!Init
    <2>1. Init => (\A p \in Procs : pc[p] = "idle") /\ DataImage = DefaultImage
      BY DEF Init, DataImage
    <2> QED BY <2>1, InitInv, SoleWriterInit, EarlyInit
  <1>2. \A p \in Procs \ {w} : \A c \in Commands[p] : c.op = "show"
    OBVIOUS
  <1> QED BY <1>1, <1>2, KilledStore, PTL DEF CrashSpec

(***************************************************************************)
(* The same beside any number of processes that only print, also killed,   *)
(* once there is a data file.                                              *)
(***************************************************************************)
THEOREM SavesAreWholeBesideReaders ==
  ASSUME NEW w \in Procs,
         \A p \in Procs \ {w} : \A c \in Commands[p] : c.op = "show",
         \A c \in Commands[w] : c.op = "store" => c.pass \in Passwords
  PROVE  InstalledSpec => ImplementsEarlyStore
PROOF
  <1>1. InstalledInit => /\ Inv /\ SoleWriter(w)
                         /\ EarlySaved(w) /\ CommandGiven(w) /\ EarlyStore!Init
    <2>1. InstalledInit => (\A p \in Procs : pc[p] = "idle") /\ DataImage = DefaultImage
      <3> SUFFICES ASSUME InstalledInit
                   PROVE  (\A p \in Procs : pc[p] = "idle") /\ DataImage = DefaultImage
        OBVIOUS
      <3>1. data \in Inodes /\ data # NoFile
        BY InodesAssumption DEF InstalledInit
      <3>2. file[data].img = DefaultImage
        BY <3>1 DEF InstalledInit
      <3> QED BY <3>1, <3>2 DEF InstalledInit, DataImage
    <2> QED BY <2>1, InstalledInitInv, SoleWriterInit, EarlyInit
  <1> QED BY <1>1, KilledStore, PTL DEF InstalledSpec
=============================================================================
