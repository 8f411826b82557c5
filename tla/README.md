# A TLA+ verification of the OTW program

`otw` is a command line tool for OverTheWire wargames. It exists twice in the
repository, built on libssh (`src/libssh`) and on libssh2 (`src/libssh2`); the
two share `main.c`, `opts.c`, `data.c`, `progress.c` and `misc.c` word for word,
apart from header names and the one call that connects. `CommandLine`, `Progress`
and `Program` are mapped to the libssh copies of `opts.c`, `progress.c` and
`main.c`, everything else about the shared files to the libssh2 copies.

This directory holds the specifications, the TLC configurations, and the proofs
checked by TLAPS. Run `tlc -config X.cfg M` for a run of `PROJECT.json`, and
`tlapm M.tla` for a module of proofs.

## The system: inventory

| component | state | operations | interacts through |
|---|---|---|---|
| level data file: `data.c`, `mark_level_complete`, `is_valid_level` | `data/otw_data.dat`, its temporary twin, `all_levels` in each process | load, create with defaults, save, store or clear a password, mark complete | the file system: every invocation loads all 183 records and saves all of them; nothing is locked |
| password field of a record | 48 bytes, `is_pass_saved` | `otw -s`, typing at the prompt, accept, refuse | the same buffer is the stored record, the copy of a login and an argument of `store_pass` |
| login with libssh2: `libssh2_client.c` | socket, session, channel, terminal settings, flags of stdin | a dozen calls in order, polling loop, cleanup at `shutdown:` | reads and changes the stored password (`store_pass`) |
| login with libssh: `libssh_client.c` | session, channel, terminal settings, `signal_delayed` | connect, verify the key, up to three attempts, shell, event loop | SIGTERM and SIGWINCH handlers share `terminal` and `signal_delayed` with the program |
| known hosts file, libssh2: `check_for_known_host` | `data/otw_knownhosts`: lines `game:digest` | look up, ask, append | file shared by invocations; called by `libssh2_connect` |
| polling loop, libssh2 | two 1024-byte buffers; the buffer of stdin and the queue of libssh2 behind them | read and print, `fgets` and write | terminal, socket, channel; part of `libssh2_connect` |
| command line: `main.c`, `opts.c` | one `level_t` from `malloc` | decode the first option, call a command | uninitialised `level` reaches `store_pass` |
| progress report: `show_progress` | none | count completed levels per game | reads `all_levels` by position |
| messages, listings: `misc.c` | none | print | - |
| `src/libssh/src/validate.c` but for `is_valid_level` | - | - | nothing calls it |

What is hard here:

* *crash*: `save_data` renames the temporary file to the data file and closes
  the stream after that, so the last 1184 of 17568 bytes (17568 = 4 x 4096 +
  1184; stdio writes full blocks) are still in memory at the rename;
* *interleaving*: two invocations share one temporary name and no lock; one may
  truncate or go on writing into the inode the other has renamed;
* *stale state*: an invocation saves the whole array it loaded, for a login
  possibly minutes ago; `is_valid_level` overwrites the record its caller's
  `pass` argument points into;
* *partial failure*: unchecked `fread`, ignored `rename`, one cleanup label for
  every failing call, `termchanged` for two things saved at different times;
* *signals*: a SIGWINCH between `ioctl` and the reset of `signal_delayed`, a
  SIGTERM before the terminal settings were saved;
* *boundaries*: a field copied without its null byte over a longer string;
  eight digits printed into a place for two; a chunk that fills its buffer;
* *hidden buffers*: `poll` knows neither what `fgets` has left in the buffer of
  stdin nor what libssh2 took off the socket while it was writing;
* *prompts*: a first login finds the end of the known hosts file, waits for the
  user, and writes there, whatever another login has written in between.

What makes each component correct:

* data file: it implements a store with one entry per level, which each command
  changes at one entry in one step; records stay at their index; what was
  recorded is not lost;
* password field: always terminated; what was given is what is sent;
* logins: release in the opposite order whatever failed; terminal and flags of
  stdin as found; with libssh, after a refused saved password the user is asked; a
  resize reaches the server; when the server hangs up the program ends;
* known hosts: a key passes silently only when the user accepted it, and, as
  long as no line falls on another, the first accepted key of a game is found
  again and an alarm is raised for no other reason than a different key;
* polling loop: keys and output arrive once, in order, and in the end all of them;
* command line: at most one level changes, and only in the way the line asks (which
  level it is, `-s` does not ensure);
* progress: the counts are those of the games' levels.

`PROJECT.json` lists every hazard at its line with the properties that watch it.

## Modules

| module | models | extends / instantiates |
|---|---|---|
| `LevelRecords` | `level_t`, the array, the block layout of the saved file, `is_valid_level` | |
| `LevelStore` | abstract: what the data file promises | `LevelRecords` |
| `DataFile` | invocations of `otw` over inodes and two file names | `LevelRecords`; instance of `LevelStore` |
| `MCDataFile` | instances for TLC | `DataFile` |
| `DataFileProofs`, `OneWriterProofs` | theorems about `DataFile` | `DataFile` |
| `CommandLine` | `main` and `parse_opts`: from a line of words to a command | `LevelRecords` |
| `Progress` | what `show_progress` counts | `LevelRecords` |
| `Program` | whole invocations: line, command, data file, report | `DataFile`, `CommandLine`, `Progress` |
| `MCProgram` | instance for TLC | `Program` |
| `StoreProofs` | theorems about one invocation at a time, and about the store under kills | `OneWriterProofs`, `Program` |
| `PassBuffer` | the bytes of the password field | |
| `PassBufferProofs` | theorems about `PassBuffer` | `PassBuffer` |
| `ResourceStack` | abstract: acquire in order, release in reverse | |
| `Connect2` | `libssh2_connect` | instance of `ResourceStack` |
| `Connect1` | `libssh_connect` and its signal handlers | |
| `Connect1Proofs`, `Connect2Proofs` | theorems about the logins | `Connect1`, `Connect2` |
| `Relay2`, `Relay2Proofs` | the data of the polling loop of `libssh2_connect` | |
| `Fingerprint` | the text of a digest | |
| `KnownHosts2` | `check_for_known_host` | `Fingerprint` |
| `MCKnownHosts2`, `KnownHosts2Proofs` | instance for TLC, theorems | `KnownHosts2` |

### LevelRecords, DataFile

A record is two halves, because a record may straddle a block of stdio and be
written, read or lost in two pieces: the head (name, password) and the tail
(port, flags). With 4096-byte blocks the records 42, 85 and 170 of the program
straddle a boundary and everything from the tail of record 170 (drifter10) on
lies in the last block. The halves meet behind the password. In record 85 the
boundary lies in front of the password field, in 42 and 170 it comes 32 bytes into
it, so that a password of up to 32 characters is in the head there; no property
depends on it, since the blocks before the last are renamed together and nothing is
promised of record 170. Passwords are atoms here; their bytes are the subject of
`PassBuffer`. A level is named by its index; `NoName` is a zeroed record,
`JunkName` a name no level has. `gamename` goes with the name.

A process loops through: `access` (is there a data file?), `fopen_data`,
`fread` block by block, `loaded` (apply the command), `fopen_temp`, `fwrite`
block by block, `fclose`. One action is one system call or one block of stdio;
`Rename` is enabled when all full blocks are written, `Fclose` writes the last
one. `Crash` is a kill anywhere. `data` and `temp` are the inodes the two names
lead to: a process keeps its inode when the name moves, and an inode with
neither name nor user is reclaimed. `FreadDone` keeps what was in memory when
the file is short, as `fread`'s ignored result does. `LookedUp` is what
`store_pass` takes for the name of the level. It tests the uninitialised
`level->levelname` first: if its first byte is null the name of the command line is
laid over what is there, without a null byte, and otherwise what is there is the
name. The block of memory held a part of the data file before, so that the name may
be any level's or no level's (`InvalidLevel`). `CreateNewDataFile` makes the directory or not, as the
uninitialised `sb` decides. `ConnectRemembers` raises the flag only: the typed
password was overwritten before (see `PassBuffer`).

Left out: `malloc` failures (the program ends, as in a kill), a full disk and
an unreadable data file. `stat` and `mkdir` are one step, and so are `access`
and the branch on it. A command whose level or arguments are not well formed
ends before it saves.

### CommandLine, Progress, Program

A word of a command line is a record of what `getopt_long` makes of it: the
first option in it, what is attached to that option, and the word as a text.
`parse_opts` ends the program at the first option it decodes, so one option is
enough. `Stops`, `OptArg` and `OptInd` are getopt's own rules (other words are
passed over, `--` ends the options, an argument may be in the same word), and
external; the rest follows the cases of the `switch`: `-s` takes its password from
`optarg` and its level from the last word of all, and `HasLevel` is the test
`optind != argcount` that keeps the two apart. Names are cut to 15 characters;
no level has so long a name, so `NameOf` maps such a text to `JunkName`.

`Progress` follows the walk of `show_progress`: an index that runs through the
array by the sizes in its own table (`LevelsIndex`, a recursive function). `Slot` is
the other walk, the two nested loops of `create_new_datafile`, whose counters say
which game a level was given to (`GameOf`). The two tables are two constants,
`Maxlevel` and `InitMaxlevel`. `MaxlevelAssumption` says that they agree and that
`TOTAL_LEVELS` is the sum of their sizes. The tables of the program are written out as
`ProgressTable` and `InitTable`, and `TablesAssumption` has TLC evaluate that they are
equal and hold 12 games and 183 levels; a run uses a smaller table. `Program` puts
both together with `DataFile`: `Main` starts a process with `Parsed(line)` when `argc`
is 2 to 4, and the steps after it are those of `DataFile`. `GivenLines` are the lines
that parse to the command of a process, any of which it may have been given; the
property about lines is about every one of them.

### PassBuffer

The field is a function from 0..Width-1 to characters or the null byte.
`Overlay` is the `memcpy` without null byte in `store_pass`, `Padded` the
`fgets` and `strncpy` of `get_level_pass`, `Cleared` the two bytes `"?"` of a
cleared password. `TypedAccepted` follows the aliased call: `is_valid_level`
copies the record over `*level`, so what is then copied is the record's own
string.

### Connect2

`pc` names the next call. Each call succeeds or jumps to `shutdown`, from which
the four blocks of the cleanup follow in the order of the code. `oldtc =
"unset"` is the struct nobody has assigned; restoring from it leaves arbitrary
settings or fails. `Refused` also stands for an authentication call that failed
because the connection broke: the code does not distinguish them. In `StoreExits`
`save_data` cannot open the temporary file and ends the program in the middle of
the login: nothing under `shutdown:` is run, the kernel takes back what the process
held (`Vanish` of `ResourceStack`), and the next login follows. What a refusal does
to the stored password is `ConnectForgets` of `DataFile`; when the save fails, a
refused password stays stored. A call that returns EAGAIN is repeated without effect
and is a stuttering step.

### Connect1

As `Connect2`, with the signal handlers as actions enabled between any two
calls. The size of the window is the number of resizes so far. `lost` is a
history variable: the last resize fell where the reset of `signal_delayed`
undoes it, or the server refused the new size. `session = "freed"` in
`Disconnect` is the second `ssh_free` after `client` has freed the session: its
outcome is undefined, and the model lets the program go on or be killed.

### Relay2

The data inside the label `"loop"` of `Connect2`. Keys go `tty` (the terminal) ->
`stdio` (the buffer of stdin) -> `commandbuf` -> `sent` (the channel); output goes
`sock` -> `queue` (what libssh2 has decrypted) -> `screen`. One action is one call:
`Poll` sees `tty` and `sock` alone; `Read` is `libssh2_channel_read` with its
`printf` and `memset`, repeated until nothing comes; `Fgets` refills `stdio` only
when it holds no line; `Write` is `libssh2_channel_write`, which also takes what
`sock` has, and takes keys only while the window has room. What it writes is the
string in `commandbuf`, by `strlen` (`Str`): a null byte, which a user types with
Ctrl-Space, ends it, and the rest of what `fgets` took is cleared unsent. `taken` and
`due` keep what `fgets` took and what of it was a string, line by line. A short write
leaves `commandbuf` where it is and only counts `written`, as the code does. `Printed`
is `printf("%s")`: up to a null byte, and possibly beyond a full buffer. `TurnEnds`
is the `while`. Three more history variables mark where the code makes no promise:
`whole` falls with the first short write, `plain` with the first chunk that is no
string, and `unseen` says that a write has taken output off the socket since
the last read. The terminal is raw, so a newline is a key of its own. A call that
fails ends the loop, which is `LoopEnds` of `Connect2`. Left out: end of file on
stdin (a raw terminal has none), and a window that the server shrinks.

### Fingerprint, KnownHosts2

`Fingerprint` runs the loop of `sprintf` over a buffer of digits: a byte is two
nibbles, one above 0x7f is negative as a `char` and prints as eight digits, of
which the next call overwrites all but `FF`. `Prints(d)` says that what remains is
`Text(d)`, in which every such byte is `FF`.

In `KnownHosts2` the file is a sequence of pieces: the characters of a name, a
colon, the text of a digest (one piece, as all have the same length) and a
newline. A piece remembers the line it was written in, so that `Names` and `Key`
can say what `fgets`, `sscanf` and `strncmp` make of a file whose lines have fallen on
one another. Each login has its own stream: `Fopen` ("r+"), `FopenCreate` ("w",
which truncates), the scan, `Seek` to the end, the prompt, and `AnswerYes`, which
writes where the stream stands: the line is buffered until `fclose`, and goes out
at once. `ScanKilled` is an outcome of `sscanf` without a width on a line
that is too long for its buffers. `trusted`, `first` and `overlaid` are history
variables; the last one is raised when a line, or the truncation, falls on
lines already there.

## Runs

| run | what it shows | instance |
|---|---|---|
| `alone` | one invocation at a time, none killed: `DataFile` refines `LevelStore`; at most one level changes, and only as the line asks; what was marked complete stays so; the report is what the file holds | 1 process, 3 levels in 2 games, one of them of natas, 2 blocks, all lines of 1 to 3 words out of 5, of 1 and 2 words out of 6, and four others |
| `previous` (violation) | a password is stored and the level before it is not marked complete | the same |
| `readers` | a process that saves loses at most the last block, and no early progress, wherever it is killed; outside that block it refines `LevelStore` all the same; loads beside it never mix two saves; no record moves to another index | 2 processes, 2 levels over 3 blocks, both across a boundary, one into the last block; one process marks complete and stores a password, the other loads; kills |
| `lost_update` (violation) | two overlapping commands, none killed: one is undone | 2 processes |
| `buffer` | the field is terminated and begins with what was stored | width 4, strings of 0..5 over 2 characters |
| `reads_back` (violation) | a shorter password over a longer one is not read back | the same |
| `accepted` (violation) | an accepted typed password is not the stored one | the same |
| `connect2` | cleanup order, stdin, terminal | logins in sequence, every failure |
| `terminal` (violation) | the terminal is restored from an uninitialised struct | the same |
| `connect1` | terminal, session, attempts, resizes, end of the loop | one login, 2 resizes, any SIGTERMs |
| `known_hosts` | what passes, what is asked, what is warned of, with lines on top of each other | 2 logins at a time, 2 games, 3 digests, 14 pieces |
| `relay` | order and arrival of keys and output, the end of file | up to 3 keys, out of a letter, a newline and a null byte; up to 3 bytes, out of two letters and a null byte, the last maybe an end of file; 4 keys and bytes together; buffers of 2 |

Bounds, and why they are enough. The three levels of `alone` and `lost_update` stand
for the three ways a record can lie: wholly before the last block, across the
boundary into it, and in it; the layout with two blocks merges the blocks before the
last. `readers` has a boundary before the last block, with a record across it, and a
record across the boundary into the last block. Two processes are the least that
overlap; a third adds no new kind of overlap, since there are only two names, and the
proofs do not bound processes, levels or blocks. Two processes that both save are
checked in `lost_update` only, where no kill is needed to lose something; that
records stay in place among them is proved (`RecordsInPlace` under `CrashSpec`).
`Inodes` are as many as two names and the open streams can use. Width 4 leaves
room for strings that are shorter, exactly as long, and longer than the field.
`MaxResizes = 2`: one resize that is noticed and another that falls into its
handling. The words of `alone` are a level, `-c`, `-s` apart from its password and
with it, and `--`: with three of them every case of `parse_opts` that changes
something meets every number of words behind it. The sixth is a second level, of
natas. The four other lines are empty, of four words, or have a `-p`. Texts serve as
passwords, so that a level taken for a password, or the reverse, would show.
In `known_hosts` one name is two pieces longer than the other, so that a shorter
line falls on a longer one and leaves its tail; two digests differ only in a byte
above 0x7f, two in a whole one; 14 pieces hold two lines of each length, and
the least number of logins that can overlap is two. In `relay` buffers of two
and three keys give a line that is cut, one that ends early, one that a null byte
shortens and one that is left in the buffer of stdin; of output there is a chunk that
fills the buffer with one that follows, and a chunk before an end of file. `MaxKeys`,
`MaxOut` and `MaxWindow` bound what is typed, sent and allowed; `MaxBoth = 4` bounds
keys and output together, so that a long line meets a short output and the reverse.

Deadlock is checked in the runs of `DataFile` and `PassBuffer`, whose processes
always can start a new invocation, of `Connect2`, where a next login follows however
the last one ended, and of `KnownHosts2`. `Connect1` is one login, which stops at its
end, and the polling loop waits for ever when nobody types or prints; their runs do
not check it.

Fairness. `Connect2` assumes weak fairness of the cleanup only: no library call
returns EAGAIN for ever. It gives the liveness half of `ReleasesInOrder`; on a
dead connection the code itself gives no such bound (see the hazards).
`Connect1` assumes weak fairness of the event loop and what follows it:
`ssh_event_dopoll` returns within its timeout of a minute, and nothing after it
waits for a user. Prompts before it may wait for ever. `Relay2` assumes weak
fairness of the loop: `poll` returns when something is readable, and the other
calls wait for nothing (the channel is non-blocking, and `fgets` is called when
there is something on a raw terminal). Users, the remote shell and its window
have no fairness. What is typed and printed is bounded, so that both sides pause
in the end; while the remote side never pauses, the keyboard is never looked at.
`DataFile`, `Program`, `PassBuffer` and `KnownHosts2` state safety only, and no
fairness.

### What the violations say

* `lost_update`: the README of the program says it keeps track of passwords and
  progress. Two overlapping commands lose some of it, while each has reported
  success.
* `reads_back`: "do this once ... from now on this will connect automatically"
  does not hold when the password stored before was longer.
* `accepted`: "store correct password": the password that was accepted is
  overwritten before it is copied, and "?" is stored as saved.
* `previous`: "storing a password for a level automatically marks the level before it
  complete" (the help text, and the README of the program in other words): the line
  in `store_pass` that would do it is commented out.
* `terminal`: "restore local terminal to its original state" with a struct that
  is assigned 27 lines after the flag that says so.

Met while modelling and not given a run of their own:

* a kill between `rename` and `fclose` leaves a data file without its last block:
  `ProgressKept` is violated by one process under `CrashSpec`, too, and
  `OnlyLastBlockLost` is the part of it that holds;
* two first logins at once write over each other's line; what is left may later
  say "its hostkey has changed" of a key that has not. This is why
  `FirstTrustedFound` and `AlarmOnlyIfChanged` are conditional;
* keys whose digests differ only in bytes above 0x7f are taken for the same;
  `LooksLike` in `SilentOnlyIfTrusted` says so;
* `otw -s` may change another level than the one it names, or find no level, since
  `store_pass` looks into a `levelname` nobody assigned. Whether it does depends on
  what `malloc` returns, which is why `OnlyWhatWasAsked` does not say which level `-s`
  changes;
* when the save after a refusal fails, the refused password stays stored, and the next
  login sends it again (`StoreExits`);
* a null byte typed on the keyboard is not sent, nor is what is behind it in the same
  line: `libssh2_channel_write` is given `strlen(commandbuf)` (`due`);
* a short write sends the beginning of the line again and an EAGAIN drops the
  rest (`whole`); a key behind a newline waits for the next key, and output a write
  took off the socket waits for more output (`KeySent`, `OutputShown`);
* `otw LEVEL -s PASSWORD` is refused, since the level is looked for behind the
  password, and surplus words between the two are ignored.

Also: any failure of the authentication call clears a saved password; a SIGTERM
before `shell` applies a zeroed `struct termios`; `verify_knownhost` says it will
create the known hosts file and nothing writes it; when `ssh_new` fails
`ssh_finalize` is not called; a session is freed twice when `ssh_connect` fails;
after the first SIGTERM handler is set, a SIGTERM never ends the program.

## Proofs

All constants are arbitrary within the named assumptions (`LayoutAssumption`:
at least two blocks, a head not after its tail; `WidthAssumption`: a field of at
least two bytes; ...).

`DataFileProofs` proves `TypeOK` and `RecordsInPlace` for any number of
processes that save and are killed. The inductive invariant adds `Control`: a
process between opening and closing a stream has an inode, and its position is
within the file; a command that completes a level names one (`CompletesLevel`).
`RecordsInPlace` is then inductive because every block moves between memory and files
at its own index.

`OneWriterProofs` considers one process `w` that saves. Neither
`OnlyLastBlockLost` nor `EarlyProgressKept` is inductive: after `Rename` what the
data file holds depends on what was written before it. `SoleWriter(w)` adds
`OnlyReaders` (nobody else is in a writing state), `FilesApart` (the inode being
written is not the data file until the rename), `DataKept` (the data file is whole
below its last block and holds all of `done` there) and `WriterKept` (what `w`
has in memory agrees with the blocks it wrote and holds all of `done`). From it
follow four theorems: a lone process loses no early record and no early progress
(from an empty directory, `CrashSpec`), the same beside any number of readers once
a data file exists (`InstalledSpec`; a reader that found no data file would create
one, and be a second writer), and `ReadersFileStable`.

`StoreProofs` considers one process `w` that is never killed, with any command
lines, and proves `ImplementsStore`, `OnlyWhatWasAsked`, `ProgressKept` and
`ReportIsTrue`. The invariant
`Alone(w)` says what each label knows. `FilesKnown`: which of the two names exists,
that they name different inodes while `w` writes, and that the data file has all its
blocks but between `Rename` and `Fclose`. `MemoryKnown`: what is loaded agrees with
the data file block by block, is equal to it when the loading ends, and what is saved
is the data file with one record changed as the command says (`ChangedBy`). So a
save takes effect at `Rename`, where the stored image becomes the memory of `w`,
and every other step is a stutter of the store. `Given(w)` says that there is a line
its command was parsed from, and `ParsedIsAsked` is about `parse_opts`: whatever a
line of any number of words is parsed to, it asks for in a form of the usage
message. From these follows what `OnlyWhatWasAsked` says: at most one record changes,
a completion, a raised or a cleared flag only in the level the line names, and `-s`
stores the very password of the line. The level `-s` changes is any (`LookedUp`).
`DoneHeld(w)` (every level of `done` is complete in the stored image) gives
`ProgressKept`: a save in which it would be undone does not exist, since a change
leaves every other record alone (`ChangeLeaves`) and none resets `complete`. For
`ReportIsTrue`, `NamesHeld(w)` keeps the names of all records in the stored image.
The rest is about the two tables: that the walk of `show_progress` through game `i`
meets the levels which `create_new_datafile` gave to that game, and every level
in one game only. `LevelsIndexSteps` and `SlotSteps` unfold the two recursive
functions, `SlotPlace` says that level `LevelsIndex[i] + j` is the slot `<<i, j>>`,
`WalksApart` that two games have no level in common, `WalkedIs` and `AllCounted` turn
that into the counts; all this for a table of any number of games of any size.

The last section of `StoreProofs` is about kills. `ImplementsStore` is false under
them, because of the last block; `ImplementsEarlyStore` is what is left, for every
layout: the levels outside the last block are still a `LevelStore`, so that being
killed costs them neither a password nor a flag, and every save changes them as
its command says in one step, at its `Rename`, or not at all. `EarlySaved(w)` goes on
top of `SoleWriter(w)`: what `w` has loaded agrees with the data file there
(`EarlySame`: an image that agrees in all blocks but the last is the same there), and
what it saves is that with at most the one record changed (`EarlyChange`). Two theorems:
a lone process from an empty directory, and one beside any number of readers. Their
hypothesis on `-s` commands, that they come with a password, is what `parse_opts`
makes sure of (`ParsedIsAsked`).

`PassBufferProofs` proves `Terminated` and `GivenKept` for every width and every
string, and the types: no copy goes beyond the field. `GivenKept` needs `Residue`: nothing lies in the field beyond the longest
string it ever held. `CutString` says what a cut string is.

`Connect2Proofs` proves every invariant of `Connect2`. They need to know where
the old settings are at each label: `FlagsAtHand` (in stdin, or in `old_flags`
once `termchanged` is set) and `SettingsAtHand` (in the terminal, then in
`oldtc`, from the shell on). `ImplementsStack` is the safety half of the
refinement `ReleasesInOrder`: `Nested` says which prefix of library, socket,
session and channel each label is reached with, and under it every step is a
step of `ResourceStack` or a stutter.

`Connect1Proofs` proves the five invariants of `Connect1` for any number of
resizes and SIGTERMs. Each is strengthened by what holds at the labels before it: `SettingsAtHand` (terminal settings), `Freed` (calls of
`ssh_free`), `SizeOnItsWay` (from `ioctl` to the server) and `Asked` (attempts
against prompts).

`KnownHosts2Proofs` proves, for any number of logins, games and digests, that no
login passes silently unless the user accepted that key for that game, up to
bytes above 0x7f, although lines may fall on each other in any way. This needs to
know what such a file can look like. `LinesFollow`: a piece that is not the first of
its line comes after the piece before it in the same line, or after a newline
(the tail of a line whose beginning was overwritten). `LinesTrusted`: every piece
is of a line somebody accepted. `DigestOfItsName` concludes that a digest which
follows the name and colon of a game is of a line of that game. `TextsLookAlike`
is the step from texts to digests.
`FirstTrustedFound` and `AlarmOnlyIfChanged` need more: `WholeLines` (as long as
`overlaid` is false the file is whole lines, each the name of a game, a colon, a
digest and a newline) and `FirstKept` (the first line of a game is that of
`first`, the first key its user accepted, and there is none for other games).
`FileIsMine` says that a login which runs alone asks with its stream at the end of the
file, and creates the file only when there is none; so it overlays no line, and both
hold without their condition (`OneLoginOverlaysNothing`). `TextIsOfDigest` is an induction
over the calls of `sprintf`: after the call for byte `i` the digits before it are those of
the text (`DigitsStay`), whatever the calls write beyond.

`Relay2Proofs` proves the four invariants of `Relay2` for buffers of every size and
any number of keys and bytes. `WriteInv`: `commandbuf` is empty but while it is
being written, and as long as writes are whole none of it counts as written
before. A line that holds no null byte is the string in it, which gives the last part
of `KeysInOrder`. `EofInv`: nothing waits behind an end of file, and none waits that was not
sent.
Lemmas state what a cut, a line and a chunk are of the stream they are taken from.

Induction. The library's induction theorems have an operator as a parameter, which
the provers cannot instantiate. Its facts about sets can be used:
`NatLessThanWellFounded` with `WFMin` gives that a set of numbers with a member has
a least one (`LeastNumber`), hence that a set with 0 in it that is closed under
successor holds them all (`NumbersByInduction`). Every induction here is over such a
set. That a recursive function exists, and so satisfies its equation, is shown in
the same way, by the existence of a function on each initial segment
(`RecursionExists`, `BuffersExist`).

Every invariant and every action property of a passing run is stated by a theorem.
Only model-checked: the liveness properties `ResizeArrives`, `RemoteCloseEnds`,
`KeySent`, `OutputShown` and the liveness half of `ReleasesInOrder`, since liveness
under fairness is out of reach of the prover, and of course the violations.

## Not modelled

* `misc.c` and the error messages: fixed text, no state. The debug listings `-a` and
  `-l` are commands that change nothing (`Nothing`).
* `src/libssh/src/validate.c` but for `is_valid_level`: nothing calls it.
* The copies of shared files a second time: they are the same text.
* `malloc` failures (the end of the process, as a kill), a full disk, the
  percentages and layout of the progress report, the build files.
* What libssh, libssh2 and the kernel do beyond what the code relies on: keys are
  exchanged, a window closes and opens, a signal interrupts nothing else.
* `Connect2` and `KnownHosts2` with `DataFile` as one specification. They meet at two
  points: `check_for_known_host` succeeds or not (`Negotiate` of `Connect2` has both
  outcomes), and `store_pass` is called with the copy of the array the login loaded
  (`ConnectRemembers` and `ConnectForgets` of `DataFile`, which may come any time
  after the load). Their product has no behaviour the parts do not show.
