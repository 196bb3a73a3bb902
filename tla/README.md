# A TLA+ verification of machokeeper

machokeeper finds Mach-O files in a nix store whose code signature no longer
matches their bytes, recomputes the stale hash slots, and keeps the nix
database in step with what it wrote. These modules model what it does to a
store, step by step, beside nix itself, other invocations and failures; TLC
checks them on small instances and TLAPS proves the central properties for
all instances.

## The system

| Component | State | Operations | Interacts with |
|---|---|---|---|
| engine (`engine/`) | the bytes of one file in memory | Detect, Check, Repair | called by doctor on every file |
| scan (`walkParallel`) | two bounded channels, a walker, workers, a visitor | walk, scanFile, visit | feeds findings to doctor and check |
| doctor (`internal/doctor`) | findings, groups by store path, journal in memory, counts | report, `--fix`, `--fix-live`, check | file system, nix database through nixstore, GC lock |
| undo (`internal/doctor`) | the entries of a journal, a status | Undo, undoFile | journals of doctor, files that may have changed since |
| GC lock (`gclock*.go`) | a shared flock | withGCLock | nix's collector, other invocations |
| nixstore | none | roots, referrers, content-addressed, dump, register | `nix-store`, `nix path-info` |
| hook | none | post-build, scan-generation, sweep | doctor and check on a set of paths |
| wrap | none | dry run, realise, run, retry | nix, a cache, doctor |
| nix modules | a marker file | the activation script | hook |

What is hard: a repair is a sequence of system calls (query, read, temporary
file, rename, dump, register) and anything may come between two of them: a
collection, a new root, another invocation, a kill. Each call may fail, and
the code goes on with the next group, so failures compose. Files are
hardlinked to each other. Arguments overlap. In a signature, hash slots may
lie inside pages that are hashed themselves. An activation is repeated after
a refusal. The nix daemon's view of a path (its row) is updated separately
from the path.

What makes each part correct:

- engine: no number in a file leads a read out of its bounds; what could not
  be verified is never called healthy, and nothing is called unverifiable
  without a cause; a refusal touches nothing; what is written is valid; what
  a check calls repairable one pass repairs.
- scan: every file is looked at, every finding is delivered once, nobody
  sends on a closed channel or waits for ever, also when the walk fails.
- doctor: the store goes through whole repairs only; the recorded hash is
  one of something the path held, or the mismatch is reported; each changed
  file has an undo record; refusals hold; exit status 0 means nothing broken
  is left.
- undo: exact, verified, never refused without need, and complete when it
  ends with 0.
- hook: what is built is repaired before it is used; in refuse mode nothing
  broken goes live, in repair mode what can be repaired is.
- wrap: the command runs over nothing stale that wrap had in hand and could
  repair, and is run again when a second sweep ran clean.

## Modules

| Module | What it models |
|---|---|
| `NixStore` | The world: names, inodes, temporary files, database rows, paths in use, the GC lock, and what nix does to them |
| `Doctor` | Any number of invocations of `check` and `doctor` over a `NixStore`, one action per system call |
| `RepairContract` | The abstract promise: a file changes all at once from stale to valid, a row is set to what the path holds, a path is deleted whole |
| `ScanPool`, `ScanContract` | The goroutines and channels of `walkParallel`; what a scan promises its caller |
| `Undo` | `machokeeper undo` of a journal, before, after and beside the invocations of `Doctor` |
| `FileScan` | scanFile and planFileRepair on one file: every pass of the engine over a container, with the arithmetic of its bounds |
| `SlotRepair` | The bytes of one file: engine.Repair, re-verification, write, and undoFile |
| `StorePaths` | Paths that refer to each other, and what a run of doctor or check on some of them leaves |
| `Activation` | Builds with the post-build hook, the activation script, `sweep` and `scan-generation` over a series of switches |
| `Wrap` | `wrap`'s two passes around a nix command |
| `MC*` | Instances for TLC |
| `DoctorProofs`, `DoctorSafety`, `UndoProofs`, `FileScanProofs`, `ScanPoolProofs`, `SlotRepairProofs`, `ActivationProofs`, `WrapProofs` | Theorems and proofs |

`Doctor` extends `NixStore` and instantiates `RepairContract`, and `Undo`
extends `Doctor`: its steps are those of the invocations and those of an undo
over the same store and the journals they wrote. `ScanPool`
instantiates `ScanContract`; `Activation` and `Wrap` extend `StorePaths`,
where a run of doctor is one operator: `Doctor` is the model that looks
inside it.

### Doctor and NixStore

A file's bytes are a class: what engine.Detect, engine.Check and the trial
repair tell apart (`stale`, `valid`, `cms`, `unverifiable`). A name leads to an inode
(`dir`), an inode to its class (`bytes`), so a write through an old inode
would show in every hardlink of it. A database row is the NAR whose hash it
records: the contents of the path's files and whether a temporary file lay
among them.

Each invocation has its program counter `pc`. `Walk`/`ScanFile`/`EndScan`
are `walkParallel` for one argument after the other (by the contract that
`ScanPool` is checked against, in any order of files); `Report` is the end
of a command that does not repair; `Lock` is `withGCLock`; `NextGroup`,
`CheckCA`, `CheckBlockers` (two steps, the query for roots and then the one
for referrers), `Plan`, `MakeTemp`, `Rename`, `Cleanup`, `Dump`
and `Register` are the body of the loop over store paths, with every
`continue` a `GiveUpGroup`; `WriteJournal` ends the run with `ExitOf`.
`Crash` ends it anywhere and leaves its temporary file but not its lock.
nix's own steps are `NixUse` (a root or a referrer comes or goes),
`NixCollect`, `NixEndGC`; the clock gives the journal its name.

A temporary file lies in the directory of its file (`TempPath`). That is
inside the store path, where a NAR dump and a collection find it, unless the
path is a single file (`FlatPaths`): then it is in the store's own directory
and survives the collection of the path.

A write of the journal that fails may have truncated the file. The history
variable `unsaved` holds the invocations whose own write failed; only they
are excepted from having their records on disk, and those whose second
another invocation used (`Overwritten`).

`row` starts as the hash of what each path holds. `Inputs` gives the command
and arguments of each invocation, the class of each inode and the paths in
use: properties hold for all of them.

Left out: output, the parsing of flags (a command is chosen), the temporary
file's own scan as a file of the store by a later run (it holds a copy of a
file that was valid or is never finished), the second lookup of the journal
directory, and `nix-store --optimise`, which DESIGN.md accepts as a benign
race.

### Undo

`Open` takes any journal on disk. For each of its entries `ReadEntry` stands
for undoFile up to its last comparison: a file that holds what a repair
leaves goes on to `UndoTemp`, `UndoRename` and `UndoCleanup` (replaceFile, as in
a repair), any other is refused. `EndEntry` keeps the worst outcome as the
status. An undo takes no lock and never touches the database. Kills and
nix's own acts are not composed with it; `Doctor`'s runs have them. A file
has been repaired at most once when it is undone, so that "holds what the
repair wrote" is the class `valid`; the bytes are `SlotRepair`'s business.

### ScanPool

The walker sends to `files` (capacity `FilesCap`), each worker receives,
scans and sends to `results`, the closer waits for the workers, the visitor
ranges over `results`; `walkErr` is written before `files` is closed.

### FileScan

A container is given by the numbers that are read from it: its size, the
architecture array, and for each slice the header, the load commands, the
place and the index of the SuperBlob, and for each blob what fixupSlice
reads of it. `Init` takes any container of `Containers`; a run of the module is one
scanFile (`Load`, then the passes detect, check, prescan, repair, recheck) or one
planFileRepair (`Plan`, then the last three). All passes share `walkContainer`
and `findSignature`, as in the code, so they are one set of actions with a
variable `pass`; what a pass does with a signature differs (`Unparsed`,
`Parsed` and what follows). Each read moves `reach` to the end of what
was read. Sizes of headers are parameters, and a uint64 wraps at `Word`: the
model's arithmetic is the code's, over small numbers. Other sums are of
uint32 values in a 64-bit int, which cannot wrap. Which slots are wrong
(`wrong`) is an input. Hashes are not computed: a slot that is rewritten is
right from then on, and every slot whose page, or whose own bytes, it lies
over (`Disturbs`, from the offsets) may be wrong or right afterwards, in
whichever slice and CodeDirectory it is. A rewritten slot that lies over
headers, index entries or CodeDirectory fields changes what the rest of the
walk reads: such a file is followed up to that write (`Overlaid`), with the
bounds of its reads, and no verdict is claimed of it. A file that cannot be
opened is `Doctor`'s "open" fault.

### SlotRepair

A file is an array of cells; a hash slot is a set of cells and covers a
page, another set of cells. The sets are arbitrary: nothing in a container
forbids a slot inside a page, or two CodeDirectories that share slots. What
parsing yields (slots in order, slices with a CMS blob, something that does not
parse) is the `layout`; how it is got is `FileScan`.
The hash is a constant operator `Sum` of which only locality is assumed:
it depends on the page alone. The layout itself, that is the signature's
metadata, is not tampered with. `Tamper` is any other writer.

### StorePaths, Activation, Wrap

A path has the class of the worst file in it. `AfterFix` is a plain `--fix`:
it repairs what is stale in its arguments except paths in use,
content-addressed ones, and those on which one of its steps fails
(`Failures`): doctor reports that and goes on with the next path. In `Activation`, `Switch` (what the caches have),
`Build` (the rest, a derivation at a time), `Activate`, `Collect` and `GoLive`
are nix's; the incoming generation is already the system profile while the
script runs, so its closure is rooted. nix registers the outputs of a build
before it runs the hook, and starts a build only when those it depends on
are through theirs: that is assumed of nix, as is that other builds
and their hooks overlap. In `Wrap` a dry run lists what is not
local in the closure of the needs its evaluation arrives at, and any of the
rest of that closure; needs behind import-from-derivation are those it does
not arrive at. Both passes are one operator, `Pass`. `handled` is a history
of the last pass: what it realised, without what it failed on, had to leave
broken, or was collected since.

## Runs

| Run | Question | Bounds |
|---|---|---|
| `doctor_sequence` | Journal, counts, refusals, recorded hashes, undo's status, the contract, whatever fails | any command with overlapping arguments, or two repairs, and an undo, in any order, one at a time; 4 files in 2 paths and none, hardlinks, a content-addressed path, every call failing; 2 seconds |
| `doctor_concurrent` | Lock, exit status, consent, and how files change | two invocations at once, crashes, failing writes, collections, changing roots; a directory and a path that is one file |
| `doctor_live` | Does every run end; does `--fix-live` repair all it can | two at once with collections, one path in use, 2 seconds, fairness |
| `file_scan` | Bounds, what is called healthy, what is called unverifiable, CMS | thin and fat files from one well-formed container each, one or two numbers off by one, zero or near 2^64 (here 64), or slots that lie in their own page, in another's, over another slot or over headers; up to 3 slices and blobs |
| `scan_pool` | Channels, closing, delivery, termination | more files and findings than the channels hold |
| `slot_repair` | Repair and undo byte by byte | 4 cells, 2 values, layouts with overlaps, two slices, CMS, unverifiable parts; 2 foreign writes |
| `activation_faults` | What goes live over several switches, and what a build leaves | 2 generations that share a tool with 2 outputs, a library and a content-addressed path, 3 switches, builds in any order, collections, failing queries and checks, repairs that fail on any set of paths |
| `wrap_faults` | What a wrapped command may still run over, and when wrap gives up | 3 paths, failing dry runs, fetches, repairs and commands, collections |

Four runs end in a violation, of what a document says and the code does not:

- `journal_clobbered`: two repairs that start within one second share the
  journal's file name and the second truncates the first's records.
- `lost_race`: the lock cannot be had, and a collection takes a path between
  its dump and its registration, which makes it valid again without files. A
  re-run finds nothing, ends with 0 and heals nothing, where `withGCLock`'s
  comment promises that a lost race heals on a re-run.
- `activation_repair`: the activation scan runs a plain `--fix`, which skips
  every path with a root or a referrer; in an incoming generation that is
  practically every path.
- `wrap_pulled`: a path the failed command pulled is local by the time of
  the second dry run, which therefore does not name it: it is neither
  repaired nor is the command retried.

Every run but `journal_clobbered`, `activation_repair`, `wrap_pulled`,
`doctor_live` and `scan_pool` has faults that strike at any step they can
(in `lost_race` it is the lock alone). `doctor_sequence`
has no collections: after one a path may come back, and the row that a
repair without the lock then writes is a collected path's (a hazard without
a property, since the code takes that risk knowingly).

Why the bounds are enough: two invocations suffice for every pairwise race;
a path with two files gives a group that fails between its files, a second
path a group that follows a failed one, a hardlink across paths the sharing
of inodes; in a file, two slots already give each relation of slot to page
and slot to slot, and a third slice nothing new. Two switches are enough for
a refusal and its repetition, a third for what a collection in between
brings back. In a container every bound compares at most three of its
numbers, and a pair of them is varied together. The constants `MaxTampers`,
`MaxSwitches` and `LastSecond` are bounds of the model only, as is the number
of inodes.

`FairSpec` of `Doctor`: every invocation keeps taking steps, a collection
ends, and who waits for the lock gets it in the end; that is
the kernel's scheduling of processes and of flock waiters. No fairness is
assumed of `Crash` or nix's other steps. In `ScanPool` each goroutine is scheduled
fairly, as the Go runtime does.

## Proofs

`DoctorProofs`: `TypeCorrect`, with one lemma per operation whose type is
not obvious. `DoctorSafety` rests on it:

- `JournalCoversReplaced`: every replaced file is journaled, in memory and
  then on disk, but for the run whose own write failed and for two runs of
  one second. The invariant is strengthened by `EarlyIsEmpty`, since a journal that was not empty
  before the repairs would be a record of nothing, and by the lemma that
  only `Rename` links a name to another inode and journals it at once.
- `RefusalsAlwaysHold`: an action property; needs `WorkIsFound` (what a
  repair works on was found in its own scope) and `GroupIsOnePath` (past the
  first refusal the path in hand is not content-addressed).
- `FixedIsAlwaysRepaired` and `ExitZeroIsSound`, the counting behind the exit
  status: `CountInd` says of each invocation that it has journaled at least as many
  files as it counted, in the group in hand and in those done; that the file
  it is about to replace is not among them (it is stale, and what is
  journaled is sound and stays so); and that each of them was found. As many
  files counted as found then means, by an injection between finite sets,
  that all findings are of journaled files, even when overlapping arguments
  found a file twice. `ScanInd` says that every file of the arguments scanned
  is sound, still listed or found. `ExitZeroIsSound` needs that no file
  is unreadable and no walk fails: with either the code ends with 0 over a
  broken file.
- `ValidPathsExist`: under the hypothesis that the lock does not fail and
  that every file is there at first; needs `LockDiscipline`: who works on
  a store path holds the lock, and a collection excludes it.
- `ConsentIsHonoured`, of any number of invocations: `Consented` carries what
  the two queries of `CheckBlockers` found up to the rename. Past the first the
  path in hand of a plain `--fix` had no root at some moment, past the second
  no referrer at another, and a temporary file lies in the path in hand. What
  appears after its query is not excluded, as nothing in the code would see it.
- `FilesAlwaysChangeAtomically`, of any number of invocations, with crashes and
  without the lock: the part of the contract that speaks of files holds
  without any hypothesis. What was planned may be stale knowledge by the time of the
  rename, but no step makes a file one that must not be repaired
  (`AheadNotRefused`), and a temporary file is there only while its file is
  (`TempHasFile`), so what a rename replaces is still stale, or was made valid
  by another invocation. The one exception is in the property: of a path that
  is a single file the temporary file survives a collection, so a repair
  without the lock can bring the file back.
- `DoctorImplementsContract`, the refinement of `RepairContract` with its rows:
  a rename that lands maps to `Repair`, a registration to `Reconcile`, a
  collection to `Delete`, every other step to a stutter. The invariant: at most
  one invocation runs (`OneAtATime`), what it is about to replace is still
  stale (`StaleAhead`), and the dump it is about to register is what the path
  holds (`NarIsCurrent`). Hence two hypotheses: invocations do not overlap,
  and the lock can be had. Each is a risk the code takes: two repairs of one path
  may register the hash of an older dump, and without the lock a
  collection may come between a dump and its registration.
- `NoTempIsRecorded`: nothing lies beside the files when a path is
  dumped (`Tidy`). The hypotheses are that invocations do not overlap and are
  not killed: a killed one leaves its temporary file for good.

`UndoProofs` carries `RefusalsHold` over to the composition
(`RefusalsHoldWithUndo`: no undo record is of a content-addressed file) and
proves `ZeroMeansUndone`: unless it has failed, an undo has turned back every
entry it is past (`PassedIsRestored`). That needs that no repair runs beside it,
for a repair would make the file valid again. Under the same hypothesis:

- `UndoImplementsContract`, where `UndoRename` maps to `Restore`, needs of an undo
  that a file it is about to turn back is still valid and was repaired by
  somebody (`UndoIsTidy`). No lock is assumed, as no collection is composed
  with undo. `NoTempIsRecordedWithUndo` follows from the same invariant.
- `MismatchIsAlwaysKnown`. `WrongIsAccounted`: whoever made a row wrong has the
  path in hand and will register it, has counted less than it found, has
  exited with 2, or is an undo. That a repair which gave up once can no longer
  exit with 0 or 1 is a matter of counting: what it counted as fixed and what is
  left to repair never add up to more than the findings (`Tallied`).

`FileScanProofs`, for every container and all sizes of headers: `FileTypes` and
`ReadsStayInBounds`. The invariant `CheckedSoFar` says which check has been
passed at which label; each read follows from it by arithmetic (the k-th
element of an array ends no later than the array), and for fat slices from
the form of `ValidSliceBounds` that cannot wrap.

Of the verdicts: `CMSFilesAreLeftAlone`, `VerdictsAreVerified` and
`UnverifiableForACause`, from the invariant `Found`. It says, at each level of
the walk, what the pass has established of what lies behind it: the load
commands passed by held no signature (`AtCommand`); the blobs passed by held no
CMS (`AtSignature`); unless the signature in hand is already known to be unsound,
their numbers fit and their slots are right, or the pass has a hit (`AtBlob`,
`AtSlot`). So a slice behind is settled (`BehindIsSettled`): unsigned after the detect
pass found nothing, sound and right in a check without a hit, without CMS
after the prescan. `SignersKnown` and `FlawsKnown` carry from pass to pass what
the end of one has shown: no pass writes unless the prescan went through
every slice, and a hit has a flawed signature behind it. For the repair, slots
behind stay right unless the file is `Tangled`: some slot lies in its own
page, or in the page or over the bytes of one repaired before it. Those files,
and those with a signature that cannot be verified, are the only ones called
unverifiable; that slots may lie in pages hashed later is no exception.

`SlotRepairProofs`, for every layout, number of cells and hash operator:
`Ind` joins the types with `TrailOfChanges` (the journal describes exactly the
way from the original to the repaired bytes), `NothingUnderCMS` and
`HalfUndone` (after undoing changes down to `k`, the journaled cells hold what
they held before change `k + 1`, and all others what undo read). From it
follow `CMSIsLeftAlone`, `UndoIsExact`, `UndoIsVerified` and
`UndoIsAccepted`; `OnePassIsEnough` adds `TakenAreRight` for layouts without
overlaps, from the locality of `Sum`. `RepairWritesValid` (the bytes about to be
written passed the check) and `TypesAreKept` (no journaled offset beyond the end of
a truncated file makes undo leave a hole, `NowhereHoles`) hold for any layout
and any foreign write.

`ActivationProofs`: `NothingBrokenIsActivated`, strengthened by
`LetThroughIsKnown`: between the scan and the flip of the link the incoming
generation holds nothing broken but what is known, since the closure delta
leaves out only what the live generation has. `TypeCorrect` needs that the
incoming generation is whole as well. `HookRepairsBuilds`: nothing refers to an
output whose hook has not ended but its siblings, so the plain `--fix` of the
hook skips no other; one it fails on is in `skipped`.

`WrapProofs`: `HandledStaysSound`, from what one pass does (`PassRepairs`: what
it left broken of what it realised it refused or failed on) and from the fact
that neither the command nor a collection breaks a path that was handled;
`GivingUpHasACause`, an action property, from the same lemma and the status of
doctor; `TypeCorrect` from lemmas on closures, which are
defined as least closed sets so that no induction is needed.

The constants' assumptions are those named `...Assumption` in the modules,
and `SumIsLocal`. Every invariant, action property and refinement that a passing
run checks is stated by a theorem. Model-checked only is what needs fairness, which
is out of the prover's reach: `Terminates`, `FixLiveRepairs` and `Answers`.

## Not modelled

- The NAR hash's base 32 and the text formats of nix's commands: pure
  functions with fuzz and oracle tests in the repository.
- Byte order and place of each number in a Mach-O header, and the hash
  functions: `FileScan` has the numbers, `SlotRepair` a constant operator.
- Home-manager's detection, a `check` of a symlink (`ScanPool`'s `root`
  "other" is what it meets), and hooks that the dispatcher chains.
- Priorities, page cache, mmap, the command line, packaging and CI: no state
  that a property here speaks of.
- Undo's own race: it reads, verifies and renames without a lock, so a write
  in between is lost; the models have the steps and no property excludes it.
- Journals written before the repaired bytes were recorded in them.
- Two concurrent repairs of one path may record the hash of an older dump;
  the contract is checked for repairs in succession.
- A rewritten slot that lies over the numbers of a header: `FileScan` stops
  there (`Overlaid`), `SlotRepair` keeps the metadata as it is.
- A root or referrer that appears between its query and the rename: the models
  have the step, and no property excludes what follows.

## Plan

1. `parseSubstitutePaths` as a fold over log events.
2. Crashes and collections composed with `Undo`; then `FilesChangeAtomically`,
   with undo's own step beside the two, and `UndoImplementsContract` under
   the lock.
3. Proofs: an abstract specification of what the passes of `FileScan` compute
   of a container, refined by the walk.
