# Flashgate MCP: formal models

TLA+ specifications of the Flashgate MCP file server (`src/`): an MCP server
that reads JSON-RPC requests line by line from stdin, runs eight file system
tools below one root directory and answers on stdout; and of the benchmark
command that measures it. Paths below are relative to `src/`. The models follow
the unix build.

    tlc -workers 2 -config MCMcpServer.cfg MCMcpServer     # any run of the table below
    tlapm McpServerProofs.tla                              # any module *Proofs

## The system

| Component | State | Operations | Talks to | What makes it correct |
|---|---|---|---|---|
| transport (`internal/mcp/transport`) | position in stdin, line buffer | `ReadMessage`, `discardLine`, `writeMessage` | client by stdin and stdout; called by the server loop | one line is one message or one rejection, the reader never loses its place, memory is bounded |
| server loop (`internal/mcp/server`, `router`, `initialize`) | none between two lines | `Run`, validation, `handleRequest`, `writeResponse` | transport, handlers | every line is answered once, in order, under its own id, or is a notification; nothing but a valid request runs a tool |
| tools (`internal/mcp/tools`) | registry, fixed at start | `tools/list`, `tools/call`, eight `Execute` | file system | what the schemas promise is what the tools accept; a read-only server has no tool that writes |
| file system (`internal/fs`) | the disk, shared with other processes | List, Read, Stat, Write, Mkdir, Delete, Copy, Move | path guard, the operating system | the contract of `docs/tools.md`; no silent overwrite; a failed call leaves no trace |
| path guard (`internal/security`) | root and policy, fixed at start | ResolveExisting, ResolveForCreate, AllowListEntry | the operating system | a path is accepted exactly when it leads to a place below the root that the policy allows |
| start-up (`cmd/server`, `internal/config`) | environment, command line | one pass from arguments to server or exit code | all of the above | a server runs only on a validated configuration; failures are categorised and silent on stdout |
| benchmark runner (`cmd/benchmark`, `internal/benchmark/runner.go`) | a server process, two timers, a corpus | `Run`, `executeScenario`, `controlledExit` | a server process by pipes | no process left behind, only whole conversations count, the command ends |
| result file (`internal/benchmark/output.go`) | two bound directories, a candidate file | `writeResultFile` | the disk, shared with others | readers see no part of a result, the baselines stay as they are |
| evaluation (`statistics.go`, `budgets.go`, `artifact_validation.go`) | none; reads budgets and a written result | `summarize`, `EvaluateBudgets`, `loadValidatedBaselineArtifact` | called at the end of `Run`, and on the written file | exit code, warnings and verdict follow from the single samples |
| metrics, redaction, version, release tools | none | computations, parsing, formatting | | not modelled, see below |

What is hard here: the server is one goroutine, so the concurrency is outside
it. A client may pipeline, stop reading or close at any byte; other processes
work on the same root between two system calls of an operation; a benchmarked
server may hang, exit or answer nonsense while two timers run; a result file is
written while directories are exchanged, processes killed and machines lose
power. The hazards, each at its line and with the properties aimed at it, are in
`PROJECT.json`.

## Modules

| Module | Models | State ↔ code |
|---|---|---|
| `LineReader` | what `ReadMessage` promises, one call per step | `next` is the first unconsumed line |
| `Transport` | `ReadMessage`/`discardLine`, one `ReadByte` per step | `line` is `len(line)`, `reader` the loop the code is in, `cur`/`off` the place in stdin |
| `TransportProofs` | theorems about `Transport` | |
| `RequestValidation` | `request_validation.go`: a line is rejected, a notification or a request | a line is the record of facts the code asks about |
| `ToolArguments` | the arguments each `Execute` accepts, and its `InputSchema` | an argument object is a function from names to kinds of values |
| `ServerContract` | what `Server.Run` promises a client: one step per line | `served` counts the lines that have got what they are owed |
| `McpServer` | `Server.Run`, composed of `Transport`, `RequestValidation` and `ToolArguments` | `pc` is the statement of `Run`; `executed` records calls that reached the file system |
| `McpServerProofs` | theorems about `McpServer` | |
| `FileTree` | external: the system calls | `tree` maps paths to inodes, `inode` holds the contents |
| `FileSystemContract` | `docs/tools.md`: when a call succeeds, and the tree after it | no state |
| `LocalFileSystem` | `internal/fs`, one system call per step | `pc`, `loc` are the local variables of the call of each process |
| `FileTreeProofs`, `LocalFileSystemProofs` | lemmas about the system calls, theorems about `LocalFileSystem` | |
| `PathGuard` | `internal/security`, one question per step | `world` is the directory tree with links |
| `GuardedOperations` | `internal/fs` over `PathGuard`, one system call per step, while another process exchanges entries | `src`/`dst` are the `SafePath`s, `touched` the places read or changed |
| `Boot` | `cmd/server`, `internal/config` | `pc` is the statement of `runWithIO`; `stdout` and `stderr` what was written |
| `BootProofs` | theorems about `Boot` | |
| `BenchRunner` | `executeScenario`, `controlledExit` and the scenarios of `Run` | the runner, the goroutine of `controlledExit`, the child, two timers |
| `Statistics`, `Budgets` | `statistics.go`, `counters.go`, `budgets.go` as operators | a budget file stands for `budgets.json` and `workflows.json` |
| `StatisticsProofs` | the theorem about nearest rank | |
| `Benchmark` | `Run`, `cmd/benchmark` and `artifact_validation.go`, composed of the three above | `measured` is what the samples hold, `file` the written result |
| `BenchmarkProofs` | theorems about the runner inside `Benchmark` | |
| `ResultWriter` | `output.go`, one system call per step | `boundOut`/`boundProt` are the two bound roots, `temp`/`target` the entries |
| `ResultWriterProofs` | theorems about `ResultWriter` | |
| `MC*` | constants for TLC | |

Data is reduced to what decides: a line is not text but its length, its JSON
shape, its id and so on; a file has at most a few bytes; an error is its name.
A definition commented "Mutant" is a plausible mistake in the definition below
it. It is not part of any specification; replacing the definition by it shows
that a property notices (`PROJECT.json`, "mutants").

Some abstractions deserve a word. In `LocalFileSystem` there are no links, so
that resolving a path is an existence check; contents, limits and several
processes are its subject. `GuardedOperations` is the other half: one operation
with the guard in front of it, on a tree with links, without contents; a size or
count above a limit may end it wherever the code compares one. There, another
process may replace an entry by nothing, a file, a directory or a link between
any two steps. `PathGuard` answers a question in one step: changes *during* a
question are not modelled, changes after it are. The stats at the beginning of a
move are one step, too; what changes between them is what the revalidation
compares. `WalkDir`, `ReadDir`, `ReadFile`, `io.Copy` and `MkdirAll` are single
steps, while `RemoveAll` in `LocalFileSystem` and the loop over a listing are not.

In `Benchmark` the values a process has measured are chosen when the samples are
summarised, because nothing before that step looks at them. Hard failures are a
set with one element for each failure the code counts, whose messages are left
out; warnings are kept with their values, since a validation compares them.

## Runs

| Run | Bounds | Shows |
|---|---|---|
| `transport_single` | limit 2 bytes, 3 lines of 0 to 4 bytes, tails of 0, 1 and 4 bytes | **violated**: `ReadsSingleMessage`, see findings |
| `server` | read-only, 3 lines out of 7 kinds, limits 2 and 1, the same tails | `TypeOK`; `Aligned`: the buffer is bounded and the reader knows its line; `OnlyValidRequestsExecute`, `ExecutionReported`; two refinements: `ReadsWholeLines` (the reader implements `LineReader`) and `ImplementsContract` (the loop implements `ServerContract`); live: `LineEventuallyAnswered`, `EOFStopsServer` |
| `server_shapes` | read-write, 1 line of every shape, every argument object of up to two fields for every tool | `AnswerIdentity`, `AnswerCodes`, `ArgumentsAsPublished` |
| `filesystem` | 2 processes, 1 of 30 operations each, 5 trees, limits 1 and 2, a disk that may fail | `SequentialContract` for undisturbed calls; `NoSilentOverwrite`, `OneCreator`, `FailureLeavesNoTrace`, `MoveActsOnValidated` under races; live: `CallReturns` |
| `copy_onto_itself`, `move_source_race` | as far as needed | **violated**, see findings |
| `path_guard` | 8 values of `MCP_ROOT` (absolute, relative, empty, UNC), 38 worlds, 8 policies, paths of up to 3 components | `ExistingExact`, `CreateExact`, `ListingConsistent` |
| `guarded_operations` | 2 roots (one through a link), 26 trees, links followed or denied, 8 operations on 4 paths, up to 2 exchanges out of 3 entries and 5 nodes | `StaysUnlessCrossed`: an operation leaves the root only when an entry on the way of its own resolved path was exchanged after the guard's answer, or when the path goes through a link to nothing; `ActsOnEntries`: delete and move act on links, not on what they lead to, and change nothing when they fail |
| `create_through_dangling_link` | the same without exchanges | **violated**: `EffectivePathInside`, see findings |
| `boot` | every command line, environment and root error told apart | `ServesOnlyValidated`, `ProfileHonoured`, `SafeDiagnostics`, `ExitCodes` |
| `benchmark` | 9 scenarios (2 repetitions, 2 workflows of 1 and 3 requests), 2 unread lines, at most 2 deviating values, 7 budget files, 8 edits of the written file | `NoOrphans`, `SamplesTrusted`; `CorpusLifetime`: the corpus outlives its readers and its removal is tried on every way out; `GateExact`: exit code 3 exactly when one sample breaks a hard budget; `WarnsExactly`: a warning exactly when more than 5 % of the samples are over a time limit or one over a resource limit (of two samples per series, so the 95th percentile is the larger one); `BaselineSound`: what is accepted as a baseline is complete, within the budgets and admits its warnings, and a run that passed is accepted; live: `CommandExits` |
| `result_writer` | 2 writers, 3 directories, 2 outside events | `TargetComplete`, `AllOrNothing`, `ProtectedUntouched`; `FailsClosed`, `NoLeftovers`: a refusal withdraws the result and a return leaves no candidate, unless the system refuses that removal |

Why these bounds are enough. A limit of 2 leaves room below, at and above it;
three lines are a rejected one, the one it may swallow and one that must be
unharmed. One line is enough for the shapes, because validation keeps no state.
Two processes with one operation each are the smallest case of every race in
the code, whose windows are between two calls of one operation; limits of 1 and
2 entries or bytes are met exactly and exceeded by the trees. Two components in
a path and a third behind them let a link be first, in the middle and last. Two
exchanges are one on each path of a copy or move, or two on one path. Two
repetitions of two workflows give every loop of `Run` a first and a last pass and
a sample that differs from its series; three requests separate the first
(`initialize`), a middle one and the last. With two samples the 95th percentile
is the larger one and the median the smaller, so rounding matters; what the rank
is for more samples is the theorem `NearestRank`. The budget files are one that
is met exactly, one with room, and one for each way `EvaluateBudgets` refuses or
the catalogue differs. Three directories are the
output's, the protected one and the one they are exchanged with.

Every run with `CHECK_DEADLOCK FALSE` is of a system that ends: the server
stops, the operations are used up, the command exits.

### Fairness

`McpServer`: weak fairness of `Server` alone. `Run` is one goroutine that only a
blocked `ReadByte` holds up, and then `Reading` is not enabled; the client owes
nothing. `LocalFileSystem`: weak fairness of each process's steps; system calls
return. `RemoveAll` could be starved by someone who keeps filling the directory,
which the bound on operations excludes. `BenchRunner`: the runner's goroutines
run, armed timers fire, and a killed process dies; the server it runs is trusted
with nothing. `Benchmark` adds that the command goes on to summarise, evaluate
and write; nobody has to edit or validate the file. `Wait` also waits for the copying of stderr; a grandchild that
keeps stderr open is not modelled. The other specifications have no liveness.

## Findings

1. **A line of exactly the limit swallows the next one** (`transport_single`).
   `ReadMessage` tests the limit before it looks for the newline, and the
   newline counts. A line whose content is exactly `maxReadBytes` long
   overflows on its newline, and `discardLine` then reads up to the following
   newline: the next request is never answered, or, when there is none, the
   rejection waits for it. `LineReader.RejectPair` has this as an exception, and
   so do `ServerContract` and `LineEventuallyAnswered`.
2. **Copying a file onto itself empties it** (`copy_onto_itself`): with
   `overwrite` the target is truncated while it is also the source, and success
   is reported. `Move` compares the two; `Copy` does not.
3. **The source of a move can be exchanged, too** (`move_source_race`):
   `docs/tools.md` limits the race to the target.
4. **A link to nothing leads out of the root** (`create_through_dangling_link`).
   `EvalSymlinks` says of such a link that it does not exist, so
   `ResolveForCreate` asks the nearest existing parent and never looks at the
   link itself, whatever `MCP_FOLLOW_SYMLINKS` says. `os.Stat` does not find it
   either, and the open with `overwrite` follows it: the file is created where the
   link leads. Without `overwrite`, `O_EXCL` refuses the link. `docs/security.md`
   (lines 109 and 151) says that the final effective path must remain inside the
   root and that existing links are denied. `CreateExact` and
   `StaysUnlessCrossed` leave such paths out.
5. **Exit code 1 for malformed limits and switches** (`boot`): `README.md:115` and
   `docs/security.md:21` say 3; the last conjunct of `ExitCodes` states what the
   code does, and when.

Smaller observations, for which the properties make an explicit exception:

- a file where a path needs a directory is an `io_error` (`-32603`), although
  `docs/tools.md` counts path-type failures as expected (`SequentialContract`);
- the caps of read, copy and recursive delete hold for a call nobody disturbs;
  each is compared before the data is touched by path again;
- an entry exchanged for a link after the guard's answer is followed: paths are
  resolved again by every system call (`crossed` in `GuardedOperations`);
- `delete_path` with the path `.` removes the root itself, while its description
  speaks of files and directories below the root (`StaysUnlessCrossed`);
- the root is checked once, by `NewPathGuard`: processes that delete it and write
  to it can leave a file there, and no operation looks again (found by the
  proof of `SequentialContract`, which leaves such a root out);
- an edit of a written result that keeps it complete and within the budgets, a
  smaller size for instance, cannot be told from a measurement (`BaselineSound`
  names the edits it covers);
- field names of arguments match without regard to case, a path of spaces and
  an integer such as `1.0` fit the schema and are refused (`ArgumentsAsPublished`);
- an error of `Stat`, `Lstat` or `Close` after the rename is returned with the
  result published (`"unsettled"` in `ResultWriter`);
- errors of removals are dropped: of the candidate (`output.go:94`), of a result
  that is withdrawn (`output.go:140`) and of the corpus (`runner.go:70`,
  `corpus.go:24`). What the system refuses to remove stays, and nobody is told.
  `kept` in `ResultWriter` and `corpus = "left"` in `BenchRunner` record it;
  `FailsClosed`, `NoLeftovers` and `CorpusLifetime` except exactly these cases;
- `RemoveAll` gives up on a directory that others fill while it works, with a
  part of the tree gone (`FailureLeavesNoTrace` leaves recursive deletes out);
- a response above the limit becomes an InternalError, be it a result or the
  InvalidParams of a refused call (`ArgumentsAsPublished`, `AnswerCodes`).

## Proofs

A run shows a property for the few constants of its configuration, a theorem for
all. 33 theorems are listed in `PROJECT.json`; 30 of them state a property that
a run checks, too. Nearly every property relates two things that happened some
steps apart, and is not inductive for that reason: each proof rests on an
invariant that says what is known in between.

What is assumed of the constants is what the code guarantees of them: limits are
naturals (`TransportAssumption`, `LimitsAssumption`), a message, request or
workflow has the fields its decoder gives it (`ServerAssumption`,
`RequestsAssumption`, `RunnerAssumption`), a request to the file system comes
from one of the eight tools and a read asks for at least one byte, which
`tool_read_file.go` has checked (`RequestsAssumption`), names do not collide
(`WriterAssumption`), paths are finite sequences of names with everything above
them (`PathsAssumption`), and the disk starts with a tree whose directories hold
no bytes (`TreesAssumption`).
One assumption is a limit of the model: `ArgumentsAssumption` says that an
argument object does not spell a field twice, since which of the spellings
`encoding/json` keeps is not modelled.

**The reader** (`TransportProofs`), for every limit (zero, meaning none,
included), every set of messages and any number of lines:
`TransportTypeCorrect`; `AlwaysAligned`, inductive together with the types,
since it says of each state of the reader where in which line it is;
`TransportImplementsLineReader`, the refinement of `LineReader` under the mapping
that takes a call for done at its return. The case that needs `Aligned` is the
return from `discardLine`, where it tells whether one line or two were consumed.

**The server loop** (`McpServerProofs`), for every set of messages, both
profiles, every client. `ServerDrivesTransport` shows that the loop takes only
the steps `TransportSpec` allows, so `ServerAligned` and `ServerReadsWholeLines`
are the reader's theorems again. `ServerInv` then carries the line that was read
through the iteration that handles it: `ControlInv` (where loop and reader can
be together), `HandledInv` (what the last read returned and where it left the
reader), `AnswerInv`, `CallInv` and `ReportInv` (what the answers and calls so
far owe to their lines). From it follow `ServerTypeCorrect`, `OnlyValidExecute`,
`ExecutionAlwaysReported`, `AnswersIdentified`, `AnswerCodesFollow` and the
refinement `ServerKeepsContract`: a step of the loop is a step of
`ServerContract` when it writes, finds a notification or stops, and a stutter
otherwise. `SchemasPredictCalls` needs `PublishInv` (a call was made exactly for
the lines that execute) and a lemma about the two tables of `ToolArguments`:
for every argument object, what `decodeStrictArguments` and the checks of a tool
accept is what its schema describes, up to the differences
`ArgumentsAsPublished` names. A refused call is answered InvalidParams or, when
not even that fits the response limit, InternalError.

**The file system** (`FileTreeProofs`, `LocalFileSystemProofs`), for any number of
processes, operations, paths and trees to start with. `FSInv` says for a process
in the middle of an operation which inodes it has made (`OneMaker`), that
without overwrite it writes into one of these (`Owned`), what is left of its last
look at source and target if nobody came between (`Validated`), whether it has
changed anything (`Traced`) and that a name it has created exclusively is still
its own (`Exclusive`). `OtherStep` shows that a step of another process leaves
all that alone. This gives `NeverOverwritesSilently`, `MovesWhatWasValidated`
(two action properties), `FailuresLeaveNoTrace` and `AtMostOneCreator`.
`RootStaysATree` (`TypeOK`) needs `TreeInv`: everything above an entry is a
directory (`Rooted`) and no inode has two names (`Unique`). That a parent is a
directory would not be inductive, since a rename moves entries of all depths at
once; `RenameTree` shows that every entry in the new place comes from exactly
one in the old place, with the same entries above it up to the target, and that
the target's parents are not moved themselves.

`UndisturbedCallsKeepTheContract` (`SequentialContract`) compares the tree a call
leaves with the tree it began with, and nothing in the state says how far the
call has come. `StageInv` does: for each label of each of the eight operations,
what the call has found out about the tree it began with, and how the present
view differs from that one. At the labels of `Looking` nothing differs yet, so
an early return leaves the tree alone; at the others the view is the first one
with an empty file, new parents or a part of a subtree less, as far as the
operation has got. Its proof has three parts. View lemmas (`CreateView`,
`OpenView`, `WriteView`, `UnlinkView`, `MkdirAllView`, `RenameView`) turn each system
call into a change of the view. One lemma per step shows that the call goes from
its stage to the next, and that the last stage is the outcome
`FileSystemContract` promises (`StageMeans`). And a step of another process that
changes the view marks the calls that run beside it as disturbed, of which
nothing is claimed. Two facts are needed on the way: directories have no bytes
(`Bare`) and an open handle is a file (`Handle`).

**Start-up** (`BootProofs`), for every command line, environment and answer of
the file system: `OnlyValidatedServes`, `ProfileAlwaysHonoured`,
`DiagnosticsSafe`, `ExitCodesTellCauses`. `BootInv` remembers what the early
returns of each stage have ruled out, and that a debug line on stderr means a
server that was asked for them.

**The benchmark runner** (`BenchmarkProofs`), for every number of repetitions and
workflows and whatever the servers do: `NeverOrphans`, `SamplesAlwaysTrusted`,
`CorpusOutlivesReaders`. `RunnerInv` follows the child, the goroutine that waits
for it, the conversation and the corpus through a scenario; the properties look
at them only between two scenarios. `CorpusOutlivesReaders` says that the removal
is tried before the command ends, not that the system grants it.

**The result file** (`ResultWriterProofs`), for any number of writers,
directories and outside events: `ResultWriterTypeCorrect`, `ResultNeverPartial`,
`ErrorWithdraws`, `ReturnCleansUp` and `BaselineUntouched` from `WriterInv`,
which says where a writer's file can be and what is settled by then: the bound
directories differ (`DirectoriesApart`), between sync and rename the data is full
and on disk (`DataSynced`), a candidate is in the bound directory under its
writer's name (`CandidatePlace`), a writer's file is under the target's name only
after its rename (`TargetPlace`), and what `kept` says of a removal that was refused
(`KeptStep`, `KeptOthers`). `PublishesOrRefuses` (`AllOrNothing`) needs
`AloneInv` as well, the same for a writer that nobody has disturbed so far: the
target still is what it was, or is the writer's own.

**Nearest rank** (`StatisticsProofs`): for every number of samples the rank of the
50th and 95th percentile is a valid position and the smallest with that part of
the samples at or below it. There is no state, only integer division.

Only model-checked:

- liveness (`LineEventuallyAnswered`, `EOFStopsServer`, `CallReturns`,
  `CommandExits`), which is out of the prover's reach;
- `GateExact`, `WarnsExactly` and `BaselineSound`: they rest on sorting and
  counting the samples, which need induction over data;
- `PathGuard` and `GuardedOperations`: they follow links with `RECURSIVE`
  operators, which no module with a theorem can use.

## Not modelled

- Windows: `policy_windows.go` and `move_windows.go` pass on what the Windows
  API says about reparse points, volumes and names.
- `strict_json.go`: a document decodes or it does not; `Budgets` and `Benchmark`
  have the outcome. The serialization budgets are compared by tests only.
- `process_metrics*.go`: counters of the operating system; that a metric may be
  missing is in `Benchmark`.
- The redaction in `diagnostics.go`: regular expressions over text. Which lines
  reach stderr, and that debug lines need `MCP_DEBUG`, is in `Boot`.
- `version.go`, `versioninfo`, `versionmanifest`, `releaseaudit`, `iconverify`:
  one-shot programs that format build metadata or compare files of the
  repository byte by byte. They keep no state and meet no second actor; a model
  would be their text again.
- `mcptest`: helpers of the tests.
- Output schemas and the wrapping of results; the comparison of volumes in a
  move, since a root is one volume.

## Plan

Done: the reader and the server loop with their refinements, arguments, the file
system under races, the guard alone and with the operations behind it, start-up,
the benchmark from its first process to the verdict on its result; proofs of all
safety properties of the reader, the server loop, the file system, start-up, the
runner and the result file.

Next, in this order:

1. Lemmas about `Budgets`: a result within the budgets has no hard failure.
2. The walk of `PathGuard` as a recursive function of the number of links left,
   so that lemmas about a single step of it can be proved.
