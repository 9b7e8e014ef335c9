# Verification of tools_and_snippets

The repository is a collection of small programs: backup and system scripts, a
byte generator with a window, a web application, terminal widgets, directory
comparison, VHDL designs and language snippets. This directory holds TLA+
models of those whose logic is worth a model, TLC configurations for small
instances, and proofs checked by TLAPS for all instances. Paths below are
relative to the repository (`src/...` in `PROJECT.json`).

## 1. Inventory

| part | state | operations | what makes it hard |
|---|---|---|---|
| `btrfs_backup.py` | the backup directory, the plan of a run | list, plan, ask, execute `btrfs send \| receive` per snapshot | a plan older than what it is executed on, ignored exit codes, interrupted receives, several runs |
| `snippets/rust/trainingsplan` server (`main.rs`, `sqldb.rs`) | SQLite file | create and fill the file, serve templates, log exercises | check-then-create without a transaction, kills, several processes |
| `snippets/rust/trainingsplan` page (`logic.js`, `index.html`) | list of entries, requests under way | Add, Delete, edit, Sync | one request per entry and press, lost answers, edits while a request is under way |
| `bytegenerator.py` | form, button, file | Create, generate, close | a thread that works beside the window, two threads with one file |
| `snippets/rust/networklist/src/imtui` TableLayout | rows of widgets, properties | add, expand, border, draw | rows that must stay equally long, unsigned arithmetic, rounding |
| `snippets/rust/networklist/src/imtui` List | rows, selection | clear, add_row, move the selection, draw | the window around the selection, unsigned arithmetic |
| `snippets/rust/mult_dir_diff` | nodes, queue, iterator | walk, group equal entries, report | directories that change meanwhile, pairwise merging, panics |
| Vivado run scripts (`cpu_8bit.runs/*/rundef.js`, `ISEWrap.js`, `ISEWrap.sh`, `sram.tcl`) | status files, log, stop file, exit code of vivado | launch, stop, wait, report; steps of the script | three hosts with different orders, files that cannot be opened, a pipe, several launches in one directory, kills and crashes |
| `networklist` main, `UriParsed` | event loop, parser state | keys, parse a URI | separators at the end; not reached in this commit |
| `tas_btrfs_backup.sh`, `btrfs_snap.*` | snapshot and backup directories | take, send | exit code of a pipe, names with minutes |
| `tools/rust/network_check`, `internet_check.ps1` | position in a list of addresses | check | bounded number of tries, resolution that stops early |
| `tools/python/rpi_gpio_web` | one output pin | on, off, watchdog | two processes without a common clock |
| `tools/rust/binary_generator` | counter, xorshift, buffer | read | widths, increments per byte |
| `snippets/rust/dirdiff` | two trees | walk, compare | files that become directories |
| `permset_json.py`, wireguard and openvpn generators | ACLs, key files | set, generate | order, repeated runs |
| netbrowser, serverinfo, `http_trigger.py`, mounting dialogs | little or none | show command output | threads (serverinfo) |
| VHDL designs, qemu start-up code | registers | clock edges | read during write |
| installation scripts, language snippets, vendored and generated files | none of their own | | |

How they interact: `btrfs_snap.sh` makes the snapshots `btrfs_backup.py` sends
(shared state: the snapshot directory). The page of trainingsplan talks to its
server by HTTP requests, server processes share the database file and the port.
The wrapper of a Vivado run starts vivado, reads its output and shares the
status files of the run directory with the script vivado works off, with the
Vivado that watches the run, and with other launches of the same run.
networklist draws its lists through TableLayout, which calls `min_space` and
`draw` of each widget. bytegenerator's thread shares the form, the button and
the file with the window and with other threads. The remaining parts are
independent of one another.

`PROJECT.json` lists every component with its status and every hazard at its
line, with the properties that would catch it, or why none does yet.

## 2. Modules

| module | models | extends / used by |
|---|---|---|
| `BackupStore` | abstract: snapshots are taken, finished copies stay and have a finished base | refined by `BtrfsBackup` |
| `BtrfsBackup` | `btrfs_backup.py`, `btrfs_snap.sh` as its environment | `BtrfsBackupProofs` |
| `TrainingDb` | preparing the database of trainingsplan | `TrainingDbProofs` |
| `TrainingSync` | page, requests, log | extends `TrainingDb`; `TrainingSyncProofs` |
| `ByteGenerator` | window, thread, generators, file object | `ByteGeneratorProofs` |
| `LayoutTable` | the table of TableLayout: growing, minimal sizes, free space, places (operators) | used by `TableLayout` |
| `TableLayout` | calls on a TableLayout and its drawing | `TableLayoutProofs` |
| `ListWidget` | List | `ListWidgetProofs` |
| `MultDirDiff` | mult_dir_diff | `MultDirDiffProofs` |
| `RunStatus` | abstract: a launch runs, its steps end, it is reported once | refined by `ISEWrap` |
| `ISEWrap` | `rundef.js`, `ISEWrap.js`, `ISEWrap.sh` and the scripts vivado runs | `ISEWrapProofs` |
| `MC...` | constants and symmetry for TLC | |

Definitions that begin with a comment "Mutant:" are slips one could make in the
code. Nothing uses them in a specification: each is put in place of the
definition that follows it to see that a property notices.

### BtrfsBackup

`source` is the snapshot directory, `dest` the backup: a copy is "partial" from
the moment `btrfs receive` creates its subvolume until the stream has ended.
`pc`, `listing`, `plan`, `choice` and `idx` are the locals of each run.
`Invoke`, `AnswerMkdir`, `List`, `PlanEntry`, `Confirm` follow the script from
top to bottom; `List` takes any order of the names, as `os.listdir` does.
`PlanEntry` looks at the backup once per entry, so other runs may change it
between two entries. The loop of the end is `SkipEntry`, `CommandFails`,
`ReceiveBegins`/`ReceiveEnds` and `Finish`; `os.system`'s result is not looked
at, so a failure goes on with the next entry. The environment takes snapshots,
deletes them (`Prune`), interrupts a pipeline (`ReceiveInterrupted`), kills a
run (`Kill`) and cleans up (`CleanUp`). External, from the use in the script and
the behaviour of btrfs: a receive refuses a name that exists and a parent it
has no finished copy of, and an interrupted one leaves a partial subvolume.

`undisturbed[r]` is a history variable: the run listed a backup without partial
copies, and since then no other run wrote, nothing was deleted at the source
and nothing was interrupted. Properties promise a complete backup only then;
without it the environment may always undo what a run did.

### TrainingDb and TrainingSync

`TrainingDb` takes `open()` statement by statement: is_file, connect (the file
now exists), two CREATE TABLE, one INSERT per template, then the query of
`create_db`, then `bind`. `unwrap()` on an error ends the process. Processes
are killed at any point and started again. A statement that fails for another
reason (a full disk, a locked file) ends the process like a kill.

Before all that `canonicalize` panics if there is no directory `./runtime`,
which the repository does not contain and which the `create_dir_all` after it
never gets to make. `runtime` is there from the beginning, or made by the
operator some time (`MakeRuntime`), or never.

`TrainingSync` adds the page. An entry has one abstract value that is blank,
accepted, or refused by the server's `u32` fields. `Sync` posts every entry
shown, each in a request of its own, whatever is under way already. A request
is sent, logged and answered, or fails anywhere in between. The answer removes
the entry that was posted although it may hold another value by then.
`LoadPage` throws the entries away, as a reload of the page does.

### ByteGenerator

A click starts a thread; the thread disables the button, reads the name, the
generator, its settings and the size one after the other from a form the user
may edit meanwhile, opens the file and generates bytes into a block (`buff`),
which goes to the file object (`pend`), which writes at its own offset (`pos`)
whenever it likes and at the latest in `close`. A second thread that has the
same file open truncates it and has an offset of its own (`shared`).

An exception of the generator (`Raise`) and one of `write` (`WriteFails`: the
file object could write out only a part of what it holds) run `finally`, which
closes the file and enables the button. `close` writes out too and may raise
itself (`CloseRaises`, a full disk): then the button is not enabled. The two
early returns do not enable it either. `Quit` ends the process with all its
threads.

### LayoutTable, TableLayout, ListWidget

`LayoutTable` are the pure functions of `tablelayout.rs`: cells are
`rows[y][x]`, sizes are records over the two axes. `TableLayout` calls `add`,
`expand` and `border` in any order and draws into any of some terminals.
`is_cell_free` looks at the first row only, as in the code. A panic, and a
subtraction below zero, which panics in a debug build, is a status. The
release build would wrap around instead; that is not modelled.

`ListWidget` keeps of a row the number of its columns. `draw` computes the
first and last row shown by the arithmetic of `list.rs` and panics where it
divides by zero or underflows.

### MultDirDiff

`flat_data` are the nodes, `remain_dirs` the queue. A node is listed directory
by directory (`ReadDir`) and entry by entry in any order (`TakeEntry`), and the
children become nodes at the end (`EndNode`). `Change` replaces the contents of
a directory between any two steps. A directory that `read_dir` cannot open is
skipped like an empty one (`ReadDirFails`); which ones were, is kept in
`unread`, a history the program does not have. An entry that cannot be read, or
whose metadata cannot, because it has vanished or for any other reason, panics
(`EntryFails`): at any entry and at any moment. The report takes the nodes from
the iterator's stack (`Report`) and writes their rows (`Write`), for each of
which `find_duplicates` is called again. It panics when a group has no color,
when the first directory is given without a name (`RootNamed`), and where a name
is not UTF-8 (`NotUtf8`): in the header for the directories themselves, in its
row for a node. In `find_duplicates` itself, the look at the file system is one
step, and its two loops are the recursive functions `ComparedAll` and
`Compared`; metadata it cannot read count as gone, and that they may be unreadable
for a moment only is not modelled. Symbolic links and special files are left out
(`list_dir` ignores them), the directories given exist.

`DiffIsUnion` is about directories that do not change: what is reported is what
is `Readable`, i.e. exists below directories none of which is in `unread`. It
says nothing of a walk that ended in a panic.

### ISEWrap

`shell` is the host: `ISEWrap.js` under WSH 5.6 (`Exec`, with a pipe) or 5.1
(`Run`, with the log as output), or `ISEWrap.sh`. `flow` is the directory:
`synth_1` or `impl_1`. `rundef.js` as it is in the repository was generated on
another system and begins with lines that are no JScript; `ported` says that
somebody has done what they ask for, otherwise the host refuses the script.

`pc` is the wrapper: it opens the log (`OpenLog`), touches the begin file of
the first step in `impl_1` only ("pretouch"), looks for the stop file
(`CheckStop`), launches vivado and touches `.vivado.begin.rst`, in this order
or, under WSH 5.1, the other way round, waits (`Drain`, `VivadoOver`) and
touches the end or error file by the exit code. Each file is opened by
`ISEOpenFile`: the attempt may succeed, fail with error 52 and be repeated
(`OpenBusy`), or fail otherwise (`OpenThrows`). A log that another wrapper
holds cannot be opened. `proc`, `step` and `doing` are the script in vivado:
`start_step` (`StartStep`, `BeginStep`), the step itself, which writes a line
to the pipe, `end_step` or `step_failed`. The synthesis script has one step
and marks of its own, and does not look for the stop file. `Kill` ends a
wrapper and not its vivado; `Crash` ends vivado. `Clean` is Vivado's reset of
a run that nobody works on. `late` is a history variable: launches and begins
of a launch since the stop request.

External, from the use in the scripts: how a file is locked, that `Run` waits,
that a process blocks on a full pipe with a reader and does not block on one
whose reader is gone.

## 3. Runs

Each module has one type invariant; the other properties are those a test would
hardly reach. A component has one run for all of its properties where one
instance serves them all, and one more for each finding.

| run | instance | shows |
|---|---|---|
| `btrfs_system` | 2 snapshots, 2 runs, 3 invocations, 1 fault | `ExclusiveReceive`: no two runs write one subvolume. `LineageOK`: no copy hangs on an unfinished one. `UndisturbedRunCopies`: a confirmed, undisturbed run has copied all it passed. `DebrisNeedsOperator`: a partial copy is only removed by hand. `StoreSpec`: implements `BackupStore`. `UndisturbedRunSyncs`: an undisturbed run ends with everything copied |
| `btrfs_readme_full` | 2 snapshots, 1 run | violated: the README's "if the backup dir doesn't exist we do a full backup", see findings |
| `trainingdb_prepared` | 1 process, 2 kills | violated: a server serves a database that was not filled |
| `trainingsync_safety` | 2 entries, 2 requests each, 1 loss, 1 kill | `LogIsTrue`: what an answer removed is logged, what is logged was posted. `AcknowledgedNotReposted` |
| `training_system` | 2 processes, 2 templates, 1 kill, 1 entry, 3 requests, 1 loss | `FilledOnce`: the table decides the race, no exercise is inserted twice. `HalfFilledForever`: nobody completes a half-filled file. `FinallyServes`: with its directory there, a completely filled database gets served, again after every kill, unless a kill left it half filled. `EntriesGetSynced` |
| `bytegen_system` | 2 threads, 2 files, 6 forms, 1 edit, blocks of 2, bytes to 2, writes that fail | `BytesAddUp`, `FileIsExpected` (compared with a closed formula), `ButtonLossExplained`, `ButtonReturns` |
| `bytegen_one` | 2 threads | violated: two clicks start two generations |
| `layout_draw` | 3 widgets, 4 positions, 3 terminals | `TableConsistent`: rows equally long, properties with widgets. `DrawnInPlace`: inside, apart, as large as asked. `SpaceUsed`, `PanicOnlyWhenSmall` |
| `list_draw` | 5 rows of 0 to 2 columns, 35 windows | `SelectionSound`: the selection is a row and is shown. `DrawnIfRoom` |
| `diff_walk` | 2 directories, 3 paths, 1 change, 1 directory that cannot be opened, 1 name that is not UTF-8, entries that fail | `TreeOK` and `ReportedOnce` while directories change. `DiffIsUnion`: if none does, the union of what could be read. `Ends`: done or in a panic |
| `diff_groups` | 4 directories, 1 path | `GroupsAreClasses`: merging pair by pair ends in the classes of equal entries |
| `isewrap_run` | 2 launches in one directory, 2 steps, 2 attempts, a pipe of 1 line | `StopBounded`: a stopped run passes one more check at most. `FilesInOrder`: no step begins before the end of the one before. `OrphansOfNewHost`: only WSH 5.6 leaves vivado alone when a file cannot be opened. `DanglingExplained`: why a step may seem to run for ever. `TrackerSpec`: implements `RunStatus`. `RunsReported`: every launch is reported unless its wrapper is gone |

### Bounds and why they are enough

- Two concurrent runs, processes, threads or directories are the least that can
  race. The proofs do not depend on the numbers. Four directories are grouped,
  since with fewer the order in which pairs are merged hardly matters.
- Two snapshots are a base and what is sent against it; chains of any length are
  left to the proofs. One fault separates a sound run from a disturbed one;
  `MaxInvocations` lets a later run meet what an earlier one left.
- Two requests per entry are a repeated press; three, for liveness, one more
  than the losses and kills together can take away.
- Block size 2 and `MaxByte` 2 stand for 512 and 255: the forms go over a
  block, end at one, wrap, start above the maximum and count with step 0.
- The table has room for two rows and three columns, so that a row and a column
  grow before and after each other; the terminals are too small, just large
  enough for some tables, and larger.
- Lists of five rows in windows of 0 to 6 lines cover a selection before, in
  and after the middle of the window and a window larger than the list.
- Paths `a`, `b`, `a/c` are two levels with siblings. Files have a length
  that is shared, or that of a directory. One directory that cannot be opened
  (`MaxUnread`) is enough to tell what is missing there from what the other
  one has; in the proofs there is any number.
- Two launches share a directory; two steps are a first one, whose begin file
  the wrapper touches too, and one after it. Two attempts are a failure that is
  repeated and one that is the last; a pipe of one line is full at the second
  step.

`CHECK_DEADLOCK FALSE` stands in every configuration: runs are over when the
bounds are used up, when the program has ended, or when it has panicked.

### Fairness

- `BtrfsBackup`: weak fairness of what a run does by itself (`Execute`): a
  command ends and the loop goes on. Nothing is assumed of the operator.
- `TrainingDb`: weak fairness of `Prepare`, i.e. processes are scheduled and a
  process that ended is started again; the second half is an assumption on
  whoever starts the server. Nobody has to make the directory.
- `TrainingSync`: in addition strong fairness of the server's work on one
  entry, since each kill interrupts it, and weak fairness of `Sync`: the user
  presses the button as long as an entry is shown. `EntriesGetSynced` says so.
- `ByteGenerator`: weak fairness of each thread; nobody has to click or close.
- `MultDirDiff`: weak fairness of the program, none of `Change`.
- `ISEWrap`: weak fairness of each wrapper and of each script, which the system
  schedules; a step of vivado ends or fails. Nothing is assumed of launches,
  stop requests, kills and crashes.

`trainingsync_safety`, `diff_groups` and the runs of lists and layouts use no
fairness.

### Findings

1. `btrfs_backup.py:72`: full or incremental depends on the position in the
   listing, not on the backup, against the README.
2. `sqldb.rs:176`: the existence of the file is taken for a filled database.
3. `bytegenerator.py:200`: the button is disabled by the thread, after the click.

Read and not checked: `diff_tool.rs:117` takes files of one length for the same,
so that `exclude_same` hides files that differ. `ISEWrap.js:253` describes an
exception only if `exception.log` is not there yet. Output of vivado that is
still in the pipe when its process has ended is not copied to the log
(`ISEWrap.js:165`). `exit` in `EAStep` of `runme.sh` ends it with code 0 after
a step that failed.

## 4. Proofs

All proofs are for arbitrary constants, under the named assumptions of the
modules (finite sets of snapshots, natural bounds, constants that are no
members of the sets they mark the absence of).

- **BtrfsBackupProofs**. `SafetyInv` adds to the two properties that every plan
  is an entry-wise image of its listing (`PlansOK`), that a run in "receive"
  owns a partial copy of its entry (`ReceivesOwn`), and that what is listed or
  copied was taken (`TakenFirst`). `ExclusiveReceive` is not inductive
  alone: that a second run cannot begin needs that the first one's copy is
  there. `UndisturbedInv` says of an undisturbed run what it has copied so far
  and what is still to come; the proof splits into steps of that run, of other
  runs and of the environment. Results: `TypeCorrect`,
  `ReceiveAlwaysExclusive`, `LineageAlwaysOK`, `UndisturbedRunsCopy`,
  `DebrisStays` and the refinement `ImplementsStore`, in which `ReceiveEnds` is
  `Store` and everything but `TakeSnapshot` stutters.
- **TrainingDbProofs**. `FillInv`: whoever fills the file holds its first
  table, nothing is inserted before, and the filler knows all that was
  inserted. Results: `DbTypeCorrect`, `OneFillerOnly`, `HalfFilledStays`.
- **TrainingSyncProofs** reuses them, since every step of `TrainingSync` is a
  step of `TrainingDb` or leaves its variables alone. `SyncInv`: each request
  that is logged or answered has its row (`Recorded`), and each entry with an
  answered request is no longer shown (`AnsweredIsGone`). Results:
  `SyncTypeCorrect`, `NothingLostNothingInvented`, `NoRepostAfterAnswer`.
- **ByteGeneratorProofs**. `GenInv`: besides `BytesAddUp`, threads that have no
  file hold no bytes (`Fresh`), the counter of each stays in range
  (`Counting`), and threads that have one file both know it (`Sharing`) —
  without it, a write of another thread could change the length of a file
  believed to be private. `ButtonInv` for the button: who has disabled it is
  still on the way, was refused or could not close. `FileInv` adds what is in
  block, file object and file: each is the part of the byte sequence asked for
  that begins where it is to be written (`InOrder`), the generator is at the
  byte its loop has counted (`InStep`, whose step is a lemma on division, wrap
  and a start above the maximum), and a file is closed without an exception only
  after the loop (`LoopOver`). Results: `GeneratorTypeCorrect`, `BytesAlwaysAddUp`,
  `ButtonLossAlwaysExplained`, `FilesAreExpected`.
- **TableLayoutProofs**. `TableInv`: rows and properties are grids of one
  height and width; that `make_table_fit` keeps them so is the lemma `Fit`.
  `DrawnFrom`: what is drawn was placed once, from the table as it is. The rest
  is arithmetic for tables of any size: the running sum `Used` exists and grows
  (`UsedIs`, `UsedGrows`), the shares of the free space, rounded down, add up to
  no more than the space and leave less than one for each track that expands
  (`SharesFit`), a subtraction
  fails only where the minimal sizes exceed the screen (`UnderflowsIfSmall`),
  and tracks do not overlap (`TracksApart`). Results: `LayoutTypeCorrect`,
  `AlwaysConsistent`, `AlwaysDrawnInPlace`, `PanicsOnlyWhenSmall`,
  `SpaceAlwaysUsed`.
- **ListWidgetProofs**. `ListInv` is the state between two calls, the lemmas
  `FirstRow`, `RowsDrawn` and `DrawPanics` are the arithmetic of `draw`.
  Results: `ListTypeCorrect`, `SelectionAlwaysSound`, `AlwaysDrawnIfRoom`.
- **ISEWrapProofs**. `Progress` relates wrapper, vivado and script of one launch
  (before the launch nothing has run, a report needs an exit code, exit code 0
  needs all steps); `OthersStay` says that a launch changes nothing of another
  one, so that each step need only be looked at for the launch that takes it.
  On top of it: `Waits` for `OrphansOfNewHost`; `Stopped`, which knows that what
  is late runs under a stop file; `Ordered`, which adds the files that whoever
  is at work has left, since a reset must not take them; `Explained`, in which
  every dangling begin file has the launch that left it. Results:
  `RunTypeCorrect`, `OrphansOfNewHostOnly`, `StopAlwaysBounded`,
  `FilesAlwaysInOrder`, `DanglingAlwaysExplained` and the refinement
  `RunsAreTracked`, in which `LaunchVivado` is `Begin`, `EndStep` is `Advance`,
  and the last `TouchFile` is `End` or `Fail`.
- **MultDirDiffProofs**. `WalkInv`: a node waits in the queue once and has no
  children yet (`Waiting`); what has been read of the node being listed is one
  name longer, exists where the node exists, and was found once (`Listed`).
  That an entry found is not a node yet (`FoundIsNew`) needs all of it: such a
  node would be a child of the one being listed, which has none. The steps of
  the directories and of the report leave `WalkInv` alone. `ReportInv`: the
  stack of `DiffItemIterator` holds each of its nodes once, these are not
  reported but their parents are (`OpenNext`), and what is neither reported nor
  on the stack has a parent not reported (`NothingLost`); so with an empty stack
  the least node left out would have a lesser one left out before. What
  `find_duplicates` returns plays no part in these two.
  `RestTypes` types the report, which needs that groups are numbers or none
  (`FindDuplicatesType`). `UnionInv` holds as long as no directory changes:
  nodes, and entries found so far, are in exactly those directories that have
  them and in which their parent could be read (`NodesHad`, `FoundHad`), nothing
  looked at was left out (`AllFound`), and each entry below a node that is no
  longer waiting and could be read has a node (`AllNodes`). A directory that
  cannot be opened does not disturb what is known of other nodes, since only
  those listed before are in `unread` (`UnreadListed`) and no two have one path.
  When the walk is over, a node is where its path is `Readable`: the least one
  for which this fails would have a parent for which it fails
  (`NodeWhereReadable`); and each readable path has a node, since the shortest
  without one would have a parent without one. For `find_duplicates` the two loops
  have an invariant each: a group always comes from the same or an earlier
  directory of the same class (`Merged`), and whenever the outer loop passes the
  first directory of a class, all of the class have its group (`Settled`);
  `ClassesInv` carries the result into the report. Results: `DiffTypeCorrect`,
  `TreeAlwaysOK`, `EachReportedOnce`, `WalkFindsUnion` and `GroupsAlwaysClasses`,
  for any number of directories, set of paths and changes.

The loops and sums the proofs are about are recursive functions. Their values
are not taken from an induction theorem over an operator: that such a function
exists and satisfies its equation (`UsedExists`, `IterateExists`), and what it
returns for each length, is derived from the least number that would fail
(`Least`, and `Induct`, which states it for sets of numbers).

Only model-checked is all liveness (`UndisturbedRunSyncs`, `FinallyServes`,
`EntriesGetSynced`, `ButtonReturns`, `Ends`, `RunsReported`), which needs
fairness and ENABLED. Every type invariant, safety invariant, action property
and refinement of the passing runs has a theorem.

## 5. Not modelled

- Wording, HTML, widgets' looks, progress texts, options and their parsing.
- The units of file sizes in bytegenerator: size and unit are one number.
- Widths of integers where the code never comes near them; the `usize`
  arithmetic of imtui is modelled up to the panic of a debug build.
- Layouts within layouts: where a `TableLayout` itself is placed (`aLeftTop`).
- The parts marked `not_modelled` in `PROJECT.json`, each with its reason: no
  state of its own (dialogs, snippets, generators of text), outside of the
  repository (installation scripts), third-party or generated, or still to come
  as the plan says.

## 6. Plan

In this order; the first entries are the most worth having.

1. `NetlistScreen`: the event loop of networklist over `ListWidget`, with the
   terminal's size read per round and `handle_item` (composition; safety: the
   selection always belongs to an item of the configuration).
2. `UriParser`: `UriParsed::from_str` as a recursive function over
   bounded strings, compared with a reference splitting of a URI. Runs only.
3. `BtrfsBackupSh`: the shell predecessor, shown to implement or to break
   `BackupStore`; `BtrfsSnap` with names of a minute's resolution.
4. `PingChecker`: rotation over addresses, at most six tries per check;
   liveness: a reachable address is finally found. `internet_check.ps1` next to
   it, as the same abstract rotation with one try.
5. `PumpWatchdog`: server and watchdog of rpi_gpio_web; how long the pump runs.
6. `BinaryGenerator`: Counter and Xorshift64 with reduced widths against
   reference sequences.
7. `ServerInfo` threads, wireguard key files, `permset` order, clocked memories
   of the VHDL designs, `dirdiff`.
