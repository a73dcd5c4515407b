# RemoteExecutor in TLA+

RemoteExecutor lets a client (a person or a model) work on other machines. A
*caller* reads requests from stdin (plain JSON lines or MCP) and forwards each
over a websocket to an *executor*; the executor runs the tools: `exbash`
(commands in PTYs), `FileAction`, `read`, `glob`, `stat`, `rg`, the settings
tools, and, on the same port, an HTTP file transfer and a websocket for
terminal clients. This directory holds TLA+ specifications of the parts where
order, failure and concurrency decide whether it works, the TLC runs that check
them on small instances, and proofs for every size of instance.

Paths below are relative to `src/src/`.

## Inventory

| Component | State | Operations | Talks to | What is hard | What makes it correct |
|---|---|---|---|---|---|
| exbash runs (`tools/exbash`) | `NEXT_ID`, two process-wide label maps, PTY sessions of the core, one timer task per run | run, shell, attach, list, stop, remove, total timeout | PTY core, PTY clients | each core or map access has its own lock; waits, timer, process and other handlers interleave | no exit shown before the exit, no process orphaned, no label left, every request answered |
| Caller gate (`caller/mod.rs`) | `write_lock` (try_lock) | handle, call with timeout | executor by websocket | a timeout opens the gate while the write is still on its way | what the client is told is true |
| Caller registry and front ends (`caller/mod.rs`, `caller/mcp.rs`) | endpoints, default executor, one task per line, one output | read a line, connect, set default, list, route, answer, end of the input | executors, the client | a refresh over the network before the insertion; answers in any order; silent executors; a broken output | requests are routed by what was answered before them, no line is lost at the end |
| Executor write lock (`executor/mod.rs`) | `write_lock` (FIFO) | handle, dispatch, host timeout | tools, uploads | the wait is outside the timeout | writes exclude each other, nobody waits for ever |
| FileAction (`tools/file_action`) | files | patch, create, delete, rename | file system | check then write, truncate then fill | no lost update, hashes protect what was seen |
| Patch algorithms (`tools/file_action`) | none | line and binary patches | FileAction | edges, overlaps, overflow, line endings | the result is what the instructions say of the file before the patch |
| read, glob, stat (`tools/fs`) | none | hash, then lines; pages of text, bytes and entries; walk with a limit and a deadline | file system | two reads without a lock; two ways to number; hints at the edges | pages put together are the file; flags and hints are true |
| rg and the soft timeout (`tools/rg.rs`, `tools/soft_timeout.rs`) | none | walk, search each file | file system, caller | partial results, errors dropped, two deadlines for one search | what is missing from an answer is said, the caller waits long enough |
| File transfer (`file_transfer.rs`) | temporary file, target, lock | upload, download | client by HTTP | crash, early close, replace under an open download | target never partial, nothing lost, statuses true |
| Settings (`settings`) | store per executor and directory, two files | load, reload, set default, list | executor cache, exbash | reload without lock, memory before file, cache race, crash within a write | a served shell has a profile, memory and file agree |
| PTY clients (`shell_manager.rs`, `websocket.rs`) | client map, lock set, exit watchers | register, control, lock, remove, broadcast | PTY core, exbash | tokens on reconnect, lock test then take, removal in three steps, broadcasts that overtake each other | the map names who is served, the lock keeps control, roles and exit are told |
| pty-t core | sessions | create, kill, detail, control | the OS | vendored submodule, not in the tree | external: modelled from the calls made to it |
| protocol, context, binaries | none after the start | types, path resolution, start-up | all | a start on the settings a crash left | modelled as `Restart` in `Settings`, the rest keeps no state |

`PROJECT.json` lists, under `hazards`, what of this a test would hardly reach,
line by line, and the properties that watch it.

## Modules

| Module | What it is |
|---|---|
| `RunLifecycle` | the abstract life of a run: unborn, running, doomed, exited, forgotten |
| `ExbashRun`, `ExbashRun_proofs` | the exbash tool, step by step; refines `RunLifecycle` |
| `WritePath`, `WritePath_proofs` | caller gate, call, write lock, FileAction, read with hash |
| `FileTransfer`, `FileTransfer_proofs` | uploads and downloads beside FileAction on one path |
| `Settings`, `Settings_proofs` | settings stores, their files, the executor's cache |
| `PtyClients`, `PtyClients_proofs` | the terminal clients of one PTY |
| `Caller`, `Caller_proofs` | the caller's input loop, its tasks and its registry of executors |
| `Patch` | text and binary patches, and what they should give |
| `ReadTools` | pages of `read`; the walks of `glob` and `rg` and the caller's deadline |
| `Workspace`, `Workspace_proofs` | `Patch` and `ReadTools` composed on one file: a client that reads, searches and patches |
| `DataLemmas` | what the proofs about sequences share: recursion, ranks, flattening |
| `MC*` | the same for TLC: symmetry and sets that a cfg cannot write |

Definitions whose name has an underscore (`Detach_labelled`) are slips: the same
step with a plausible mistake. They are in no specification; each replaces its
namesake once to show that a property would notice the mistake. `PROJECT.json`
lists which, and maps every other definition to the lines it stands for.

### ExbashRun

A request handler is a process `t \in Tasks` with a program counter `pc[t]`
named after what comes next (`stopLabel`, `stopKill`, ...) and the locals that
matter: its run, its mode, what it has seen of the exit (`seen`), whether its
kill failed. One action is one access to the core or to a label map, because
each takes its own lock and another task can run between two of them, whether
or not there is an `.await`. The process of a run, its timer, and PTY clients
that take control are separate actors. A kill either fails, or dooms the
process, which exits some time later. Waits with a deadline are one action that
may leave at any moment a deadline could pass; iterations that change nothing
are left out. Output, texts, commands and sizes are abstracted.
`overlap` and `grip` are history variables: no action's guard reads them.

### WritePath

A content is named after the request or the edit that wrote it; equal names
mean equal bytes and equal hashes. `Empty` is a truncated file and `Missing`
is none. A request goes `new, sent, queued, checking, ready, filling,
replied`; `op` holds what it asks. A strict patch, delete or rename carries a
hash together with the content the client was shown with that hash (`notes`),
which is what lets `SeenIsReplaced` speak of the client's knowledge.
`GiveUp` is the caller's timeout or a closed connection: the answer is `lost`
while the request stays where it is. Uploads reach the executor beside the
gate and keep the lock while their body arrives. Two requests that write the
same bytes twice (A, B, A again) are distinct contents here; a content that a
rename brings back under a path is the one way such a return is modelled, and
`SeenIsReplaced` names it.

### FileTransfer

A file is an inode with a content `[by, len]`: who wrote it and how much has
arrived. `target` is the inode at the path, `temp` the temporary names. The
lock is held from `Start` to `Reply`. `Crash` stops everything in flight and
leaves the disk; the executor is then up again. A download holds the inode it
opened in `fd` and, with `X-RE-Hash`, hashes whatever the path is bound to by
then. `steady` and `bound` record what others did meanwhile.

### Settings

A settings object is its default shell and the set of shells that have a
profile. `Merge` is the layering of base and overlay; `Torn` is a file that
does not parse, the state between the truncation and the write of `fs::write`
included. Store 0 is the executor's root store; the others are stores of one
workspace directory, of which the cache keeps one. A request first finds its
store (`lookup`), loading one if the cache is empty, then runs. `set` holds the
write lock throughout and the store's mutex from the assignment to the end of
the write; `reload` reads both files without any lock and takes the mutex to
store. `why` records every event that may set a store and its files apart,
`swapped` the sets whose store was reloaded after they had resolved their
shell. `Crash` ends the process between any two steps, and `Restart` is its next
start, which loads the global file or does not happen; `scars` records what may
keep a file from being loaded then: an edit, a write cut short, the race of
`swapped`.

### PtyClients

A connection is a process and its own token; `holder` is what the session of
the core keeps for each id, `clients` what `ShellManager` keeps. Registering
and leaving are one step per lock taken, `broadcast_meta` is a summary and then
a send, of which each connection and the exit watcher have at most one.
`lock_pty` and `remove_pty` are the steps of `locker` and `remover`. What the
core does when a client that is in control leaves is its own matter: the model
lets it pass control to any other client or to nobody, and marks that
(`escaped`, `muted`). A resize, control, the lock, a removal, exbash's forced
control and the exit are happenings a scenario allows or not, so that TLC can
take them a few at a time; the proofs hold for every set of scenarios. PTYs
share only the locks of maps, and names of PTYs are never used twice, so one
PTY stands for all.

### Caller

A line of the input is a number with a job; its task has a program counter and
what it found at the places of the registry it looked at (`seen`). The registry
is named by its writers: `setter[p]` is the line that last set place `p`, so
that "recent" can be said without a clock. A connection refreshes its endpoint
over the network before it enters the registry, and others may do so meanwhile.
A call over the network ends by an answer, an error or its deadline
(`HasDeadline`). A write that fails breaks the output; the loop notices at the
next line or at the end of the input and drops the tasks that still run. What
executors do with a call, and the write lock there, is in `WritePath`.

### Patch, ReadTools and Workspace

A text or a byte is the place it comes from, so a result shows what became of
each. `InstructLines` and `InstructBytes` write a patch one instruction at a
time, one step beyond every limit (line 0, one line too many, a reversed range,
the largest offset, a body of the wrong length); `ApplyTextPatch` and
`ApplyBinaryPatch` are the code's algorithms, which collect removals,
replacements and insertions, or sort the hunks, and then copy. The reference is
written the other way round: `Follow` lets the instructions of a text patch act
one after the other on a text with anchors, and `HunksReadSnapshot` says for
each byte and gap what stands there. `CheckedAdd` has the width of a `usize`
(`UsizeMax`). A binary file stands for every file `TextShape::from_bytes`
refuses.

`ReadTools` shows the same file page by page (`ReadPage` follows the hint of the
page before), and may find it rewritten between two pages. `split` is the line,
if there is one, that is too long and has a character where it would be cut. A
search walks a tree, a sequence of entries: files with their number of matching
lines, *damaged* files whose reading ends early, directories, and *bad* entries
that `ignore` reports as errors. It has a clock: `deadline` is the one the
executor works out (`Given`), `CallLimit` the one the caller works out from the
same request, and `spare` counts the time the search itself does not use. Time
is in units; one unit of `Buffer` stands for the caller's 5 s.

`Workspace` composes the two on one file, since an executor serves the requests
of one connection one after the other and a patch names lines by the numbers
`read` shows; `NumbersAgree` relates the two. Text is read and patched only in
text files and bytes only in binary ones.

## Runs

| Run | Instance | Shows |
|---|---|---|
| `exbash_stop` | 1 run, 3 handlers; run, stop, remove | `NoPrematureExit`, `NoOrphan`, `LabelsCleared`, `CompletedIsGone` |
| `exbash_attach` | 1 run, 2 handlers; run, attach, remove; fair | `LossNoticed`, `EveryRequestAnswered` |
| `exbash_life` | 1 run, 2 handlers; run, stop, list, remove; fair | `TimeoutEnforced`, `EveryRequestAnswered`, `ImplementsLifecycle` |
| `exbash_stop_shown` | 1 run, 2 handlers; run, stop | **violated**: a stop may answer ok without "stopped" |
| `write_safe` | 1 caller, 2 requests of all five kinds, 1 reader, 1 edit, 2 files | `NoLostUpdate`, `SeenIsReplaced`, `AnswersAreTrue` |
| `write_live` | 1 caller, 3 requests, create and upload, 1 file; fair | `EveryWriteAnswered`, `OnlyUploadsBlock` |
| `write_timeout` | 1 caller, 2 requests, create and upload; fair | **violated**: no host timeout while waiting for the lock |
| `transfer` | 2 uploads, 2 tool writes, 1 download, contents of 2 chunks, 1 crash | `TargetIsWhole`, `NothingLost`, `TempAccounted`, `StatusIsTrue`, `DownloadIsExact` |
| `settings` | 2 requests of all kinds on 2 tasks, 2 stores of a directory, 1 edit or crash, 2 shells; fair | `StaleIsExplained`, `ServedIsConfigured`, `ProfilesKept`, `EveryRequestAnswered` |
| `workspace` | all patches of up to 3 instructions on texts of up to 3 lines and 3 bytes; all pages of the same; 4 trees, 12 mixes of timeouts | `PatchReadsSnapshot`, `EndingsKept`, `HunksReadSnapshot`, `PagesCover`, `HintsHold`, `NumbersAgree`, `AnsweredInTime`, `FlagsAreTrue`, and the types of both modules |
| `pty_clients` | 2 connections under 2 ids, one of them user 0; 3 scenarios; fair | `Accounted`, `NoGhost`, `LockHolds`, `RolesTold`, `ExitTold` |
| `caller` | 3 lines: every sequence of four registry jobs, and four mixes of the other kinds; fair | `RoutesAreRecent`, `DrainedAtEnd`, `EveryLineAnswered` |

Why these bounds are enough. Runs do not share state except in `list` and in
the id counter, so one run with three handlers has every overlap of a start, a
stop and a remove; the proofs cover any number of runs and handlers. Three
handlers let one act between two steps of each of two others. A lost update
takes two writes on one file, and a stale hash a read, an edit and a write. The
upload protocol is per path: two uploads and two in-place writers give every
pair of neighbours, and two chunks make "some but not all". A cache race takes
two first requests. Conflicts of patch instructions are between two; a third
stands between, before or behind them, and three lines have a first, an inner
and a last. Pages of one and of two items on three give a first, an inner, a
last and a short page. A reconnect under one id, and a change of control between
two ids, take two connections. In `caller` the third line sees what the race of
the first two left. Searches need a tree with more matches than the count, a
damaged file between two others and a bad entry behind a match; four units of
time pass both deadlines.

`CHECK_DEADLOCK FALSE` stands where the instance ends by itself: requests,
transfers, lines, connections and patches are bounded, and the end of the last
one is no deadlock. `ExbashRun` never ends and is checked for deadlock.

The type invariants of the modules that have a proof module are proved there
and not checked again; `WorkTypeOK` is checked.

### Fairness

Fairness is weak fairness of the steps of a task: tokio polls every ready task,
and all the waits concerned are timers, locks or polls of the core. A killed
process exits (`WF(killed[r] /\ ProcessExit(r))`); a process that was not killed
need not. In `WritePath` the client of an upload owes nothing: `Upload` is not
fair. Executor crashes are never fair. `write_lock` is a FIFO queue in
`WritePath`, as tokio's mutex is; in `Settings` the number of requests is
bounded, so that weak fairness is enough and no mutex needs to be a fair one.
In `Caller` tasks, timers and the output are fair; executors (`Network`) and
further input are not. In `PtyClients` registering, leaving, broadcasts and the
watcher are fair; clients, locks, removals and exits owe nothing.

## What the violations show

* `exbash_stop_shown`: `tools/exbash/README.md` promises "the stopped
  snapshot", and a test expects `exitCode` "stopped". `stop_run` answers ok
  after 500 ms even if the process is still there, and the label it shows is
  the one in the map at the end, possibly the timer's.
* `write_timeout`: `tools/README.md` says FileAction is under the host timeout.
  The timeout starts after the write lock has been obtained, and an upload may
  hold that lock without a bound.

Further behaviour the models make visible, which no document of the repository
contradicts:

* A write reported as failed by timeout may still happen (`AnswersAreTrue` says
  nothing of `lost`).
* A second attach can hide a loss of control from the first
  (`grip = "retaken"`); a label set during a removal stays in its map for good
  (`overlap`).
* An overwriting upload that fails between its remove and its rename leaves the
  path empty and the bytes under the temporary name.
* `set_default_shell` racing `request_reload` can store a default that has no
  profile, or have its result undone in memory (`swapped`, `overtaken`). On the
  root store that default reaches the global file, and the executor does not
  start on it again; nor does it on a file whose write was cut short by a crash
  or an error (`scars`, `ServedIsConfigured`).
* A text patch that deletes every line leaves one empty line; a text whose lines
  end in lone carriage returns, or in different endings, is rewritten with one
  ending, lines no instruction names included; a patch adds a final newline
  where the file had none.
* `read` numbers the lines `str::lines` finds and a text patch those it finds
  after it has made every carriage return a line feed: from the first lone
  carriage return on the numbers differ (`NumbersAgree`).
* `truncate_line` panics where byte 2000 of a line is inside a character, and
  the connection ends without an answer (`HintsHold`, `split`).
* One bad entry in a walk fails the whole search, whatever it has found; the
  error of a damaged file is dropped, and with it the matches behind the damage,
  without a flag (`FlagsAreTrue`).
* The caller does not look at `toolTimeoutMs` when it works out how long to wait
  for a search, and the executor does: with a tool timeout longer than the
  default the caller gives up first (`AnsweredInTime`).
* The last role a client hears may be stale, when two broadcasts end in the
  other order; a forced controller and the take-over of `lock_pty` are not
  broadcast at all (`muted`). A take-over that tested for a lock just before it
  was set comes through (`escaped`). A client that registers after
  `close_pty_clients` stays in the map of a PTY that is gone; one whose id is
  taken by another connection is served on without an entry (`replaced`).
  `lock_pty` and `unlock_pty` have no callers in the repository.
* MCP drops a `targetExecutor` that is not a string, and the call goes to the
  default executor (such a line is a job with the name `Default`). An output
  that broke is noticed at the next line or at the end of the input only.

## Proofs

Each proof module states one inductive invariant, proves that `Init` implies
it and every step keeps it, and takes the theorems from it. The proofs hold for
every value of the constants that satisfies the assumption named in the module
(`RunAssumption`, `WriteAssumption`, `TransferAssumption`, `SettingsAssumption`
and `FileAssumption`, `ClientAssumption`, `CallerAssumption`, `PatchAssumption`,
`NoneAssumption`, `WorkAssumption`), which say no more than that bounds are
numbers, that special values are not among the others and that there is
something to work on. Two say more. `PatchAssumption`: only the last line of a
text lacks an ending, which is what a line is, and a file in memory is shorter
than the largest `usize`, since a `Vec` holds at most `isize::MAX` bytes.
`ReadParameters`, in `WorkAssumption`: the limit of a binary page and the
caller's buffer, which are constants of the code, are not zero.

| Module | Inductive invariant | Theorems |
|---|---|---|
| `ExbashRun_proofs` | `RunInv` | `TypeCorrect`, `RunInvHolds`, `ExitsAreReal`, `NoRunOrphaned`, `LabelsAreCleared`, `CompletedRunsAreGone`, `ControlLossIsNoticed`, `Refinement` |
| `WritePath_proofs` | `WriteInv` | `WriteTypes`, `NoUpdateIsLost`, `SeenStaysReplaced`, `AnswersStayTrue` |
| `FileTransfer_proofs` | `TransferInv` | `TransferTypes`, `TargetStaysWhole`, `NothingIsLost`, `TempsAccounted`, `StatusesAreTrue`, `DownloadsAreExact` |
| `Settings_proofs` | `SettingsInv` | `SettingsTypes`, `ServedIsAlwaysConfigured`, `DriftIsExplained`, `ProfilesAlwaysKept` |
| `PtyClients_proofs` | `ClientInv` | `NoGhostClients`, `ClientsAccounted`, `LocksHold`, `RolesAreTold` |
| `Caller_proofs` | `CallerInv` | `CallerTypes`, `RoutesStayRecent`, `EndIsDrained` |
| `Workspace_proofs` | `Patchable`, `SearchTyped`, `ClockHolds`, `FoundHolds`, `ReadTyped`, `ShownHolds` | `WorkIsTyped`, `AlwaysAnsweredInTime`, `FlagsAlwaysTrue`, `PagesAlwaysCover`, `HintsAlwaysHold`, `NumbersAlwaysAgree`, `EndingsAlwaysKept`, `HunksAlwaysReadSnapshot`, `PatchAlwaysReadsSnapshot` |

**ExbashRun.** None of the properties is inductive: that a handler shows an exit
only for a process that exited depends on what it learned several steps before.
`RunInv` says what each control point knows. `Fresh`: runs not started are
untouched and every run a handler names was started. `ExitKnown`: the steps
that show a label are reached only past an exit. `DropKnown`: the steps that
drop a session are reached only past an exit or a kill that arrived.
`GoneKnown`: after the drop the session is gone. `OverlapKnown`: a label still
on its way to a dropped run is recorded. `GripKnown`: a stolen control is a
client's until somebody forces it back. Since exits, kills and drops are never
undone, what a handler knows stays true while others move; that is the heart of
each step. `Refinement` is the safety part of `ImplementsLifecycle`.

**WritePath.** `StageKnown`: a request at work holds the lock, and its stage
tells what it did and what was said of it. `FilesKept`: while a request is
ready to write, its files hold what it read, unless somebody edited them by
hand; this is what the lock is for, and `NoLostUpdate` follows. `SeenIsReplaced`
is about a client that took its hash from two reads without a lock, so it needs
a fact about contents that are *not* where they were: `FilesApart` says that a
content is in one place at a time and not before it was written, and `Fits` that
a hash is that of the content shown with it, or is in no file, in which case,
since nothing writes a content a second time, it never will be (but for
truncations and renames). `HashesFit` claims that for reads under way, clients
and requests; a request that passes its check finds its hash in a file, and so
the second case is out (`BaseFits`).

**FileTransfer.** `OwnTemp`: until it is placed, the file of an upload is its
own and as complete as its stage says. `MarksKnown` ties what an upload did to
its stage, `OpenKnown` and `StreamExact` what a download has to the file it
opened, for as long as nobody writes into it.

**Settings.** `StoreKnown`: a request that loads a store has it for itself.
`ReadKnown`: the layers about to be adopted were found valid. `FreshKnown`: they
are what the files hold, as long as nobody touched those. `AssignKnown` and
`WriteKnown`: what a set knows between its steps; `HeldKnown`: who holds a
store's mutex is between them, so that a crash there leaves its reason behind. `Agrees` is the statement of
`StaleIsExplained` for one store, proved step by step for the store at work and
for its neighbours. `ProfilesKept` compares a state with the next one and needs
to know that every copy of the profiles agrees: `ProfilesAre` says that, without
edits, there is a set `R` that the root store has and that the global file makes
up whenever it is whole, and a set `Q` for the stores of the directory and the
two files; and what a request has read and not yet adopted makes them up too.

**PtyClients.** The four properties are nearly inductive together; `IdKnown`,
`MetaKnown` and `TakeKnown` say that a registered connection has an id, that
only one that arrives or leaves broadcasts, and that a request that passed a
lock is user 0's.

**Caller.** `SetsLast` is the point: once a connection or a default is in the
registry, it is replaced only by lines that were not answered before its own was
read. With `AnsweredBefore` (what was answered before a line is answered still)
a look at the registry is recent. `WrittenDone` and `EndedIdle` give
`DrainedAtEnd`.

**Workspace.** Reads, searches and patches do not disturb each other, so each
has an invariant of its own.

*Searches.* `ClockHolds` accounts for every second: while a search walks before
its deadline, the time spare is what passed before it began, and no more than
the timeout is ever not spare. The caller waits for the timeout and the buffer,
so if it gives up the rest was spare (`AnswerStep`). `FoundHolds` relates what
rg has counted to two sums over the entries passed, with and without the damaged
files, and what glob has counted to the number of paths among them; `Hits` and
`Paths` are those sums at the end.

*Reads.* `ShownHolds`: as long as nobody writes the file, a client has been
shown a run of its items, and the offset it goes on with lies behind it, inside
the file. `PagesCover` and `HintsHold` are read off it. `NumbersAgree` needs in
addition that the row `k` begins at a line with `k - 1` row starts before it,
which is its own number just if every line before it starts a row.

*Text patches.* `EndingsKept` follows from what `detect_line_ending` answers
and from the type of the patched text (`PatchedTyped`, `Encodes`).
`PatchReadsSnapshot` relates an algorithm that first collects what is removed,
replaced and inserted to a reference that does one instruction after the other
on a document of lines and anchors. `DocAt(texts, k)` is that document after `k`
instructions in closed form: at each boundary the blocks put there so far, in
order, and the anchor, and before it the line, unless it has left its place;
every line, moved or not, with the text it has by then. It is the document at
first (`DocStarts`); the next instruction makes it the next one (`FollowStep`),
because the document is a concatenation and an instruction acts on each item by
itself (`TurnFacts`, `DocTurns`), and because no earlier instruction has taken or
moved the lines that a later one moves (`CarriedIs`); and at the end its lines
are what `apply_line_patch` writes (`DocEnds`). `AcceptedIsUnambiguous` is the
other half: the code's checks on ranges are those on what instructions claim.

*Binary patches.* `HunksReadSnapshot` relates an algorithm that sorts and copies
to a reference that looks at each byte. The sort is a strict total order
(`PrecedesOrders`), so its ranks number the operations (`OperationsSorted`).
That the cursor never finds an operation behind it says that each ends before
the next begins (`CursorsGiveSequence`), and this is just when ranges are apart
and nothing is inserted inside one (`AcceptedIsApart`); the operations are then
`Laid`. `Done(bytes, c, k)` is what the reference has written up to offset `c`
and, of the insertions there, those of the first `k` hunks. After each
operation the algorithm has written `Done` at its cursor (`HunkIsDone`), by
copying a run no hunk names (`CopyUpTo`) and then a range or an insertion; after
the last it copies the rest. The lengths follow because totals over the hunks
can be taken in the order of the operations (`TotalInOrder`).

**DataLemmas.** The library's induction theorems take an operator, which the
provers at hand cannot instantiate. `WFMin`, that a set in a well-founded order
has a least element, takes a set, and that is enough: `NatSet` and `UpTo` are
induction for sets of numbers, and `Recursion` gives the function that a
recursive definition chooses. Flattening is written with a fold in the library;
`FlattenJoins` shows it to be the last of the sequences joined so far. A
property of a sequence is then one of its prefixes, proved by `UpTo`. `Spread`
replaces every element of a sequence by a sequence, and distributes over
concatenation and flattening.

Only model-checked: liveness (`TimeoutEnforced`, `EveryRequestAnswered`,
`EveryWriteAnswered`, `OnlyUploadsBlock`, `ExitTold`, `EveryLineAnswered` and
the fairness half of `ImplementsLifecycle`), since fairness and `ENABLED` are
outside what the prover does. Every invariant and every action property of the
passing runs is proved.

## Not modelled

* Texts, formats, sizes, MIME and JSON shapes; option validation beyond "refused
  before anything happened".
* Output bytes of a run, and whether the last chunk arrives in the 20 ms after
  an exit.
* How a shell profile becomes a command line, and the parsing of an HTTP head.
* Windows: `fs::rename` onto an existing file, shells, line endings.
* Two executors on one disk, and symbolic links.
* The host timeout of the synchronous tools: `dispatch_tool` does not yield
  while they run, so it never fires for them.
* `stat`, the order of results, and the read-only admin requests of the terminal
  websocket: they keep no state and change none.

## Plan

All components that keep state are modelled, and what the passing runs check is
proved but for liveness. What would come next: an abstract register for each file,
with the truncation as a visible intermediate value, that `WritePath` implements.
