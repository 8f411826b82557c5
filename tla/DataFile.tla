------------------------------ MODULE DataFile ------------------------------
(***************************************************************************)
(* The level data file data/otw_data.dat: how invocations of otw load it,  *)
(* change their copy of it and save it, over a file system of inodes and   *)
(* two names, when several invocations overlap and when one is killed.     *)
(*                                                                         *)
(* save_data writes the whole array to a temporary file and renames it to  *)
(* the data file BEFORE it closes the stream: the blocks stdio filled are  *)
(* in the file at the rename, the last one is still in the buffer and      *)
(* reaches the file at fclose.  Nothing locks either file, and every       *)
(* invocation uses the same temporary name.                                *)
(*                                                                         *)
(* Each process p runs one invocation after another, any number of times.  *)
(***************************************************************************)
EXTENDS LevelRecords

CONSTANTS
  Procs,      \* processes that may run at the same time
  Commands,   \* Commands[p]: the command lines process p may be given
  Inodes,     \* inodes of the file system
  NoFile,     \* no inode
  NoCommand   \* a process that is not running

Command ==
  [op : {"show", "complete", "store", "connect"},
   name : Levels \cup {JunkName},
   pass : Passwords \cup {NoPass}]

ASSUME ProcsAssumption ==
  /\ Commands \in [Procs -> SUBSET Command]
  /\ NoCommand \notin Command

ASSUME InodesAssumption ==
  Inodes # {} /\ NoFile \notin Inodes

VARIABLES
  pc,        \* pc[p]: where process p is
  cmd,       \* cmd[p]: the command it runs
  mem,       \* mem[p]: its all_levels
  pos,       \* pos[p]: the next block of the stream it reads or writes
  fd,        \* fd[p]: the inode of that stream
  creating,  \* creating[p]: it saves the defaults of create_new_datafile
  data,      \* the inode named DATAFILE
  temp,      \* the inode named TEMP_DATAFILE
  file,      \* file[i]: the contents of inode i
  datadir,   \* does the directory DATADIR exist
  done       \* history: levels whose otw -c ran to its end

procVars == <<pc, cmd, mem, pos, fd, creating>>
fsVars   == <<data, temp, file, datadir>>
vars     == <<procVars, fsVars, done>>

\* A file of len blocks.  A block below len that nobody wrote is a hole.
File      == [len : 0..NumBlocks, img : Image]
EmptyFile == [len |-> 0, img |-> ZeroImage]

\* The file after block b of img was written at its own offset.
PutBlock(f, img, b) ==
  [len |-> IF f.len < b THEN b ELSE f.len, img |-> Splice(f.img, img, b)]

InUse(i) == i \in {data, temp} \/ \E p \in Procs : fd[p] = i

\* The contents f, without those of inodes that lost their last name and user.
Reclaimed(f) ==
  file' = [i \in Inodes |-> IF InUse(i)' THEN f[i] ELSE EmptyFile]

Goto(p, l) == pc' = [pc EXCEPT ![p] = l]

\* Process p ends: the kernel closes its stream, buffered bytes are gone.
Ends(p) ==
  /\ pc' = [pc EXCEPT ![p] = "idle"]
  /\ cmd' = [cmd EXCEPT ![p] = NoCommand]
  /\ mem' = [mem EXCEPT ![p] = ZeroImage]
  /\ pos' = [pos EXCEPT ![p] = 1]
  /\ fd' = [fd EXCEPT ![p] = NoFile]
  /\ creating' = [creating EXCEPT ![p] = FALSE]

Init ==
  /\ pc = [p \in Procs |-> "idle"]
  /\ cmd = [p \in Procs |-> NoCommand]
  /\ mem = [p \in Procs |-> ZeroImage]
  /\ pos = [p \in Procs |-> 1]
  /\ fd = [p \in Procs |-> NoFile]
  /\ creating = [p \in Procs |-> FALSE]
  /\ data = NoFile
  /\ temp = NoFile
  /\ file = [i \in Inodes |-> EmptyFile]
  /\ datadir \in BOOLEAN
  /\ done = {}

\* The first run is over: there is a data file of defaults.
InstalledInit ==
  /\ pc = [p \in Procs |-> "idle"]
  /\ cmd = [p \in Procs |-> NoCommand]
  /\ mem = [p \in Procs |-> ZeroImage]
  /\ pos = [p \in Procs |-> 1]
  /\ fd = [p \in Procs |-> NoFile]
  /\ creating = [p \in Procs |-> FALSE]
  /\ data = CHOOSE i \in Inodes : TRUE
  /\ temp = NoFile
  /\ file = [i \in Inodes |->
               IF i = data THEN [len |-> NumBlocks, img |-> DefaultImage] ELSE EmptyFile]
  /\ datadir = TRUE
  /\ done = {}

-----------------------------------------------------------------------------
(* Loading *)

\* main is entered with a well-formed command line.
Start(p, c) ==
  /\ pc[p] = "idle"
  /\ c \in Commands[p]
  /\ Goto(p, "access")
  /\ cmd' = [cmd EXCEPT ![p] = c]
  /\ UNCHANGED <<mem, pos, fd, creating, fsVars, done>>

\* load_data finds a data file and allocates a zeroed array.
FoundDataFile(p) ==
  /\ pc[p] = "access"
  /\ data # NoFile
  /\ Goto(p, "fopen_data")
  /\ UNCHANGED <<cmd, mem, pos, fd, creating, fsVars, done>>

\* create_new_datafile makes the data directory and an array of defaults.  stat's
\* result is not looked at: without a directory sb is uninitialised, and what
\* it happens to hold decides whether mkdir is called.
CreateNewDataFile(p) ==
  /\ pc[p] = "access"
  /\ data = NoFile
  /\ datadir' \in {TRUE, datadir}
  /\ mem' = [mem EXCEPT ![p] = DefaultImage]
  /\ creating' = [creating EXCEPT ![p] = TRUE]
  /\ Goto(p, "fopen_temp")
  /\ UNCHANGED <<cmd, pos, fd, data, temp, file, done>>

\* mkdir fails and the program exits.
MkdirFails(p) ==
  /\ pc[p] = "access"
  /\ data = NoFile
  /\ ~datadir
  /\ Ends(p)
  /\ UNCHANGED <<fsVars, done>>

\* Once there is a data file there always is one, so this fopen finds it.
FopenData(p) ==
  /\ pc[p] = "fopen_data"
  /\ data # NoFile
  /\ fd' = [fd EXCEPT ![p] = data]
  /\ pos' = [pos EXCEPT ![p] = 1]
  /\ Goto(p, "fread")
  /\ UNCHANGED <<cmd, mem, creating, fsVars, done>>

\* Mutant of FreadBlock: the read loop does not stop at the end of the file.
FreadPastEnd(p) ==
  /\ pc[p] = "fread"
  /\ mem' = [mem EXCEPT ![p] = Splice(@, file[fd[p]].img, pos[p])]
  /\ pos' = [pos EXCEPT ![p] = @ + 1]
  /\ UNCHANGED <<pc, cmd, fd, creating, fsVars, done>>

\* fread's stream fetches one more block of the file.
FreadBlock(p) ==
  /\ pc[p] = "fread"
  /\ pos[p] <= file[fd[p]].len
  /\ mem' = [mem EXCEPT ![p] = Splice(@, file[fd[p]].img, pos[p])]
  /\ pos' = [pos EXCEPT ![p] = @ + 1]
  /\ UNCHANGED <<pc, cmd, fd, creating, fsVars, done>>

\* All records are read, or end of file: fread's result is not looked at, and
\* what was not read keeps the value it had in memory.
FreadDone(p) ==
  /\ pc[p] = "fread"
  /\ pos[p] > file[fd[p]].len
  /\ fd' = [fd EXCEPT ![p] = NoFile]
  /\ Goto(p, "loaded")
  /\ UNCHANGED <<cmd, mem, pos, creating, data, temp, datadir, done>>
  /\ Reclaimed(file)

-----------------------------------------------------------------------------
(* The commands *)

\* -p, -a, -l, -h: print from memory and exit.
Show(p) ==
  /\ pc[p] = "loaded"
  /\ cmd[p].op = "show"
  /\ Ends(p)
  /\ UNCHANGED <<fsVars, done>>

\* The names a command may look up.  store_pass for -s tests the first byte of a
\* level->levelname that nobody assigned: when it is null the name of the command
\* line is laid over the bytes there, without its null byte, else they are the
\* name.  The chunk held a part of the data file, so they may name any level.
LookedUp(c) == IF c.op = "store" THEN Levels \cup {JunkName} ELSE {c.name}

\* is_valid_level found no record of that name.
InvalidLevel(p) ==
  /\ pc[p] = "loaded"
  /\ cmd[p].op # "show"
  /\ \E n \in LookedUp(cmd[p]) : ~HasMatch(mem[p], n)
  /\ Ends(p)
  /\ UNCHANGED <<fsVars, done>>

\* Mutants of the next two: otw -c toggles the flag; the flag is forgotten.
Toggled(r)         == [head |-> r.head, tail |-> [r.tail EXCEPT !.complete = ~@]]
WithoutFlag(r, b)  == r

\* What the commands make of a record.
Completed(r)    == [head |-> r.head, tail |-> [r.tail EXCEPT !.complete = TRUE]]
WithFlag(r, b)  == [head |-> r.head, tail |-> [r.tail EXCEPT !.saved = b]]
WithPass(r, s)  == [head |-> [r.head EXCEPT !.pass = s], tail |-> r.tail]

\* Record i of p becomes r and save_data is called.
Save(p, i, r) ==
  /\ mem' = [mem EXCEPT ![p][i] = r]
  /\ Goto(p, "fopen_temp")
  /\ UNCHANGED <<cmd, pos, fd, creating, fsVars, done>>

MarkLevelComplete(p) ==
  /\ pc[p] = "loaded"
  /\ cmd[p].op = "complete"
  /\ \E i \in Levels :
       /\ IsFirstMatch(mem[p], cmd[p].name, i)
       /\ Save(p, i, Completed(mem[p][i]))

\* store_pass for -s.
StorePass(p) ==
  /\ pc[p] = "loaded"
  /\ cmd[p].op = "store"
  /\ \E n \in LookedUp(cmd[p]), i \in Levels :
       /\ IsFirstMatch(mem[p], n, i)
       /\ Save(p, i, WithFlag(WithPass(mem[p][i], cmd[p].pass), TRUE))

\* The server accepted a password the user typed: store_pass(level->pass, ..).
\* Its is_valid_level copies the stored record over *level, and with it over
\* the typed password the argument points to, so that the record's own password
\* is stored again; only the flag changes.
ConnectRemembers(p) ==
  /\ pc[p] = "loaded"
  /\ cmd[p].op = "connect"
  /\ \E i \in Levels :
       /\ IsFirstMatch(mem[p], cmd[p].name, i)
       /\ ~mem[p][i].tail.saved
       /\ Save(p, i, WithFlag(mem[p][i], TRUE))

\* The server refused the stored password: store_pass(NULL, ..).
ConnectForgets(p) ==
  /\ pc[p] = "loaded"
  /\ cmd[p].op = "connect"
  /\ \E i \in Levels :
       /\ IsFirstMatch(mem[p], cmd[p].name, i)
       /\ mem[p][i].tail.saved
       /\ Save(p, i, WithFlag(WithPass(mem[p][i], Unknown), FALSE))

\* The session ends without a call of store_pass.
ConnectEnds(p) ==
  /\ pc[p] = "loaded"
  /\ cmd[p].op = "connect"
  /\ HasMatch(mem[p], cmd[p].name)
  /\ Ends(p)
  /\ UNCHANGED <<fsVars, done>>

-----------------------------------------------------------------------------
(* Saving *)

\* Mutant of FopenTemp: an existing data file is saved in place.
FopenInPlace(p) ==
  /\ pc[p] = "fopen_temp"
  /\ datadir
  /\ data # NoFile
  /\ file' = [file EXCEPT ![data] = EmptyFile]
  /\ fd' = [fd EXCEPT ![p] = data]
  /\ pos' = [pos EXCEPT ![p] = 1]
  /\ Goto(p, "fwrite")
  /\ UNCHANGED <<cmd, mem, creating, data, temp, datadir, done>>

\* fopen(TEMP_DATAFILE, "wb") truncates the file of that name or makes one.
FopenTemp(p) ==
  /\ pc[p] = "fopen_temp"
  /\ datadir
  /\ \/ temp # NoFile /\ temp' = temp
     \/ /\ temp = NoFile
        /\ \E i \in Inodes : ~InUse(i)
        /\ temp' = CHOOSE i \in Inodes : ~InUse(i)
  /\ file' = [file EXCEPT ![temp'] = EmptyFile]
  /\ fd' = [fd EXCEPT ![p] = temp']
  /\ pos' = [pos EXCEPT ![p] = 1]
  /\ Goto(p, "fwrite")
  /\ UNCHANGED <<cmd, mem, creating, data, datadir, done>>

FopenTempFails(p) ==
  /\ pc[p] = "fopen_temp"
  /\ ~datadir
  /\ Ends(p)
  /\ UNCHANGED <<fsVars, done>>

\* fwrite filled a block and stdio writes it out.
FwriteBlock(p) ==
  /\ pc[p] = "fwrite"
  /\ pos[p] < NumBlocks
  /\ file' = [file EXCEPT ![fd[p]] = PutBlock(@, mem[p], pos[p])]
  /\ pos' = [pos EXCEPT ![p] = @ + 1]
  /\ UNCHANGED <<pc, cmd, mem, fd, creating, data, temp, datadir, done>>

\* Mutant of Rename: it does not wait for the write loop.
RenameEarly(p) ==
  /\ pc[p] = "fwrite"
  /\ data' = IF temp = NoFile THEN data ELSE temp
  /\ temp' = NoFile
  /\ Goto(p, "fclose")
  /\ UNCHANGED <<cmd, mem, pos, fd, creating, datadir, done>>
  /\ Reclaimed(file)

\* Every record was handed to stdio; the last block is in its buffer.  A rename
\* that finds no temporary file is reported and otherwise ignored.
Rename(p) ==
  /\ pc[p] = "fwrite"
  /\ pos[p] = NumBlocks
  /\ data' = IF temp = NoFile THEN data ELSE temp
  /\ temp' = NoFile
  /\ Goto(p, "fclose")
  /\ UNCHANGED <<cmd, mem, pos, fd, creating, datadir, done>>
  /\ Reclaimed(file)

\* fclose writes the last block.  create_new_datafile then returns to load_data,
\* every other command is over.
Fclose(p) ==
  /\ pc[p] = "fclose"
  /\ \/ /\ creating[p]
        /\ Goto(p, "fopen_data")
        /\ fd' = [fd EXCEPT ![p] = NoFile]
        /\ creating' = [creating EXCEPT ![p] = FALSE]
        /\ UNCHANGED <<cmd, mem, pos, done>>
     \/ /\ ~creating[p]
        /\ Ends(p)
        /\ done' = IF cmd[p].op = "complete" THEN done \cup {cmd[p].name} ELSE done
  /\ UNCHANGED <<data, temp, datadir>>
  /\ Reclaimed([file EXCEPT ![fd[p]] = PutBlock(@, mem[p], pos[p])])

-----------------------------------------------------------------------------
\* A signal kills the process: what stdio buffered is lost.
Crash(p) ==
  /\ pc[p] # "idle"
  /\ Ends(p)
  /\ UNCHANGED <<data, temp, datadir, done>>
  /\ Reclaimed(file)

Load(p) ==
  \/ FoundDataFile(p) \/ CreateNewDataFile(p) \/ MkdirFails(p)
  \/ FopenData(p) \/ FreadBlock(p) \/ FreadDone(p)

Apply(p) ==
  \/ Show(p) \/ InvalidLevel(p)
  \/ MarkLevelComplete(p) \/ StorePass(p)
  \/ ConnectRemembers(p) \/ ConnectForgets(p) \/ ConnectEnds(p)

SaveData(p) ==
  \/ FopenTemp(p) \/ FopenTempFails(p) \/ FwriteBlock(p) \/ Rename(p) \/ Fclose(p)

Step(p) ==
  \/ \E c \in Commands[p] : Start(p, c)
  \/ Load(p) \/ Apply(p) \/ SaveData(p)

Next      == \E p \in Procs : Step(p)
CrashNext == \E p \in Procs : Step(p) \/ Crash(p)

Spec      == Init /\ [][Next]_vars
CrashSpec == Init /\ [][CrashNext]_vars

InstalledSpec == InstalledInit /\ [][CrashNext]_vars
-----------------------------------------------------------------------------
(* Properties *)

TypeOK ==
  /\ pc \in [Procs -> {"idle", "access", "fopen_data", "fread", "loaded",
                       "fopen_temp", "fwrite", "fclose"}]
  /\ cmd \in [Procs -> Command \cup {NoCommand}]
  /\ mem \in [Procs -> Image]
  /\ pos \in [Procs -> 1..(NumBlocks + 1)]
  /\ fd \in [Procs -> Inodes \cup {NoFile}]
  /\ creating \in [Procs -> BOOLEAN]
  /\ data \in Inodes \cup {NoFile}
  /\ temp \in Inodes \cup {NoFile}
  /\ file \in [Inodes -> File]
  /\ datadir \in BOOLEAN
  /\ done \subseteq Levels

InPlace(img) == \A l \in Levels : img[l].head.name \in {l, NoName}

(***************************************************************************)
(* However many invocations overlap on the one temporary file and wherever *)
(* they are killed, a record never ends up at another level's index.       *)
(* (save_data's fwrite loop, load_data's fread loop, is_valid_level)       *)
(***************************************************************************)
RecordsInPlace ==
  /\ \A p \in Procs : InPlace(mem[p])
  /\ \A i \in Inodes : InPlace(file[i].img)

(***************************************************************************)
(* When only one process ever saves, being killed can cost it no more than *)
(* the last block of the file: the records of every other block are whole  *)
(* whenever there is a data file.  (the order fwrite, rename, fclose in    *)
(* save_data, and the truncating fopen of a leftover temporary file)       *)
(***************************************************************************)
OnlyLastBlockLost ==
  data # NoFile =>
    /\ file[data].len >= NumBlocks - 1
    /\ \A l \in Levels : Early(l) => /\ file[data].img[l].head.name = l
                                     /\ file[data].img[l].tail.port

(***************************************************************************)
(* When only one process ever saves, a level outside the last block whose  *)
(* otw -c ran to its end stays complete in the data file for good, across  *)
(* kills, reloads and every later save.                                    *)
(* (mark_level_complete, save_data, load_data)                             *)
(***************************************************************************)
EarlyProgressKept ==
  data # NoFile =>
    \A l \in done : Early(l) => file[data].img[l].tail.complete

(***************************************************************************)
(* When only one process ever saves, the file a load has open changes in   *)
(* no block but the last while it is being read, so that a load never      *)
(* mixes the blocks of two saves.  (save_data writes a file of its own and *)
(* renames it; load_data reads the one it opened)                          *)
(***************************************************************************)
EarlyHalves(img) ==
  [l \in Levels |-> <<IF HeadBlock[l] < NumBlocks THEN img[l].head ELSE ZeroHead,
                      IF TailBlock[l] < NumBlocks THEN img[l].tail ELSE ZeroTail>>]

ReadersFileStable ==
  [][\A p \in Procs :
       pc[p] = "fread" /\ pc'[p] = "fread" =>
         EarlyHalves(file'[fd[p]].img) = EarlyHalves(file[fd[p]].img)]_vars

(***************************************************************************)
(* One invocation at a time, none killed: the file implements the abstract *)
(* store.  A save takes effect at its rename; until its fclose the last    *)
(* block is still in the process.                                          *)
(***************************************************************************)
StoredImage ==
  IF \E p \in Procs : pc[p] = "fclose"
    THEN mem[CHOOSE p \in Procs : pc[p] = "fclose"]
    ELSE IF data = NoFile THEN DefaultImage ELSE file[data].img

\* What the abstract store has of a record.
EntryOf(r) == [pass |-> r.head.pass, saved |-> r.tail.saved, complete |-> r.tail.complete]

Store == INSTANCE LevelStore WITH store <- [l \in Levels |-> EntryOf(StoredImage[l])]

ImplementsStore == Store!Spec

(***************************************************************************)
(* When only one process ever saves, the levels outside the last block     *)
(* implement the abstract store even though any process may be killed at   *)
(* any point: a save that is cut short has changed them all as its command *)
(* says, or not at all, whatever an earlier one left behind.               *)
(* (save_data writes a file of its own and renames it)                     *)
(***************************************************************************)
DataImage == IF data = NoFile THEN DefaultImage ELSE file[data].img

EarlyPart(img) == [l \in Levels |-> IF Early(l) THEN img[l] ELSE DefaultImage[l]]

EarlyStore == INSTANCE LevelStore WITH
  store <- [l \in Levels |-> EntryOf(EarlyPart(DataImage)[l])]

ImplementsEarlyStore == EarlyStore!Spec

(***************************************************************************)
(* "keeps track of level passwords ... tracks the user's overall progress" *)
(* (README.md:4-5): a level whose otw -c ran to its end is complete in the *)
(* data file whenever nothing runs.                                        *)
(***************************************************************************)
ProgressKept ==
  (\A p \in Procs : pc[p] = "idle") =>
    \A l \in done : data # NoFile /\ file[data].img[l].tail.complete
=============================================================================
